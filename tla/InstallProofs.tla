--------------------------- MODULE InstallProofs ---------------------------
(***************************************************************************)
(* Proofs about Install: what a run installs from and with, and what its   *)
(* success means, for any specs, any number of faults and any history of   *)
(* interrupted runs.                                                       *)
(*                                                                         *)
(* The inductive invariant has one part for each thing that outlives a     *)
(* run: the plan and how far it got, the bundle, the binaries, containerd  *)
(* and the units, and what kubeadm left.                                   *)
(***************************************************************************)
EXTENDS Install, SequenceTheorems, TLAPS

-----------------------------------------------------------------------------
(***************************************************************************)
(* Plans.  Steps have a rank, and a plan is in the order of the ranks, so  *)
(* what is not ahead any more is known from the step at hand.              *)
(***************************************************************************)
Rank(x) ==
  CASE x = "preflight" -> 1 [] x = "osprep" -> 2 [] x \in {"artifacts", "aptcontainerd"} -> 3
    [] x \in {"containerd", "aptkube"} -> 4 [] x = "images" -> 5 [] x = "kubebin" -> 6
    [] x = "kubevip" -> 7 [] x = "kubeadm" -> 8 [] x = "cni" -> 9 [] x = "addons" -> 10
    [] x = "capture" -> 11

Elems(z) == {z[i] : i \in 1..Len(z)}
Ordered(z) == \A i, j \in 1..Len(z) : i < j => Rank(z[i]) < Rank(z[j])

\* Steps without which a run for s would not be one.
Planned(s) ==
  {"osprep", "kubeadm"}
  \cup (IF s.mode = "online" THEN {"aptcontainerd", "aptkube"} ELSE {"artifacts", "containerd", "kubebin"})
  \cup (IF Master(s) /\ s.vip THEN {"kubevip"} ELSE {})
  \cup (IF s.role = "first-master" THEN {"capture"} ELSE {})

\* Two pieces of a plan, every step of the first before every step of the second.
LEMMA Joined ==
  ASSUME NEW a \in Seq(Steps), NEW b \in Seq(Steps), Ordered(a), Ordered(b),
         \A x \in Elems(a), y \in Elems(b) : Rank(x) < Rank(y)
  PROVE  a \o b \in Seq(Steps) /\ Ordered(a \o b) /\ Elems(a \o b) = Elems(a) \cup Elems(b)
<1> DEFINE z == a \o b
<1>1. /\ z \in Seq(Steps) /\ Len(a) \in Nat /\ Len(b) \in Nat /\ Len(z) = Len(a) + Len(b)
      /\ \A i \in 1..Len(z) : z[i] = IF i <= Len(a) THEN a[i] ELSE b[i - Len(a)]
  BY ConcatProperties, LenProperties
<1>2. Ordered(z)
  <2> SUFFICES ASSUME NEW i \in 1..Len(z), NEW j \in 1..Len(z), i < j PROVE Rank(z[i]) < Rank(z[j])
    BY DEF Ordered
  <2>1. CASE j <= Len(a)
    BY <1>1, <2>1 DEF Ordered
  <2>2. CASE i > Len(a)
    <3>1. i - Len(a) \in 1..Len(b) /\ j - Len(a) \in 1..Len(b) /\ i - Len(a) < j - Len(a)
      BY <1>1, <2>2
    <3>2. z[i] = b[i - Len(a)] /\ z[j] = b[j - Len(a)]
      BY <1>1, <2>2
    <3>3. QED
      BY <3>1, <3>2 DEF Ordered
  <2>3. CASE i <= Len(a) /\ j > Len(a)
    <3>1. i \in 1..Len(a) /\ j - Len(a) \in 1..Len(b)
      BY <1>1, <2>3
    <3>2. z[i] = a[i] /\ z[j] = b[j - Len(a)]
      BY <1>1, <2>3
    <3>3. QED
      BY <3>1, <3>2 DEF Elems
  <2>4. QED
    BY <1>1, <2>1, <2>2, <2>3
<1>3. Elems(z) = Elems(a) \cup Elems(b)
  <2>1. ASSUME NEW x \in Elems(z) PROVE x \in Elems(a) \cup Elems(b)
    <3>1. PICK i \in 1..Len(z) : x = z[i]
      BY DEF Elems
    <3>2. i <= Len(a) \/ i - Len(a) \in 1..Len(b)
      BY <1>1
    <3>3. QED
      BY <1>1, <3>1, <3>2 DEF Elems
  <2>2. ASSUME NEW x \in Elems(a) PROVE x \in Elems(z)
    <3>1. PICK i \in 1..Len(a) : x = a[i]
      BY DEF Elems
    <3>2. i \in 1..Len(z) /\ z[i] = a[i]
      BY <1>1
    <3>3. QED
      BY <3>1, <3>2 DEF Elems
  <2>3. ASSUME NEW x \in Elems(b) PROVE x \in Elems(z)
    <3>1. PICK i \in 1..Len(b) : x = b[i]
      BY DEF Elems
    <3>2. i + Len(a) \in 1..Len(z) /\ z[i + Len(a)] = b[i]
      BY <1>1
    <3>3. QED
      BY <3>1, <3>2 DEF Elems
  <2>4. QED
    BY <2>1, <2>2, <2>3
<1>4. QED
  BY <1>1, <1>2, <1>3

\* An optional step.
LEMMA WhenShape ==
  ASSUME NEW cond \in BOOLEAN, NEW x \in Steps
  PROVE  /\ When(cond, x) \in Seq(Steps) /\ Ordered(When(cond, x))
         /\ Elems(When(cond, x)) = IF cond THEN {x} ELSE {}
<1>1. <<x>> \in Seq(Steps) /\ Ordered(<<x>>) /\ Elems(<<x>>) = {x}
  BY DEF Ordered, Elems
<1>2. <<>> \in Seq(Steps) /\ Ordered(<<>>) /\ Elems(<<>>) = {}
  BY DEF Ordered, Elems
<1>3. QED
  BY <1>1, <1>2 DEF When

LEMMA PlanShape ==
  ASSUME NEW s \in Spec_
  PROVE  planSteps(s) \in Seq(Steps) /\ Ordered(planSteps(s)) /\ Planned(s) \subseteq Elems(planSteps(s))
<1> DEFINE Online == s.mode = "online"
           First == s.role = "first-master"
           Vip == Master(s) /\ s.vip
           Packages == <<"aptcontainerd", "aptkube">>
           Bundled == <<"artifacts", "containerd", "images", "kubebin">>
           a0 == <<"preflight", "osprep">>
           b1 == IF Online THEN Packages ELSE Bundled
           b2 == When(Vip, "kubevip")
           b3 == <<"kubeadm">>
           b4 == When(First, "cni")
           b5 == When(First /\ s.addons, "addons")
           b6 == When(First, "capture")
           a1 == a0 \o b1
           a2 == a1 \o b2
           a3 == a2 \o b3
           a4 == a3 \o b4
           a5 == a4 \o b5
           a6 == a5 \o b6
<1>0. planSteps(s) = a6
  BY DEF planSteps
<1>1. Online \in BOOLEAN /\ First \in BOOLEAN /\ Vip \in BOOLEAN /\ (First /\ s.addons) \in BOOLEAN
  BY DEF Spec_
<1>2. a0 \in Seq(Steps) /\ Ordered(a0) /\ Elems(a0) = {"preflight", "osprep"}
  BY DEF Steps, Ordered, Elems, Rank
<1>3. Packages \in Seq(Steps) /\ Ordered(Packages) /\ Elems(Packages) = {"aptcontainerd", "aptkube"}
  BY DEF Steps, Ordered, Elems, Rank
<1>4. /\ Bundled \in Seq(Steps) /\ Ordered(Bundled)
      /\ Elems(Bundled) = {"artifacts", "containerd", "images", "kubebin"}
  BY DEF Steps, Ordered, Elems, Rank
<1>5. /\ b1 \in Seq(Steps) /\ Ordered(b1)
      /\ Elems(b1) = IF Online THEN {"aptcontainerd", "aptkube"} ELSE {"artifacts", "containerd", "images", "kubebin"}
  BY <1>3, <1>4
<1>6. b2 \in Seq(Steps) /\ Ordered(b2) /\ Elems(b2) = IF Vip THEN {"kubevip"} ELSE {}
  BY <1>1, WhenShape DEF Steps
<1>7. b3 \in Seq(Steps) /\ Ordered(b3) /\ Elems(b3) = {"kubeadm"}
  BY DEF Steps, Ordered, Elems, Rank
<1>8. b4 \in Seq(Steps) /\ Ordered(b4) /\ Elems(b4) = IF First THEN {"cni"} ELSE {}
  BY <1>1, WhenShape DEF Steps
<1>9. b5 \in Seq(Steps) /\ Ordered(b5) /\ Elems(b5) = IF First /\ s.addons THEN {"addons"} ELSE {}
  BY <1>1, WhenShape DEF Steps
<1>10. b6 \in Seq(Steps) /\ Ordered(b6) /\ Elems(b6) = IF First THEN {"capture"} ELSE {}
  BY <1>1, WhenShape DEF Steps
<1> HIDE DEF a0, b1, b2, b3, b4, b5, b6
<1>11. a1 \in Seq(Steps) /\ Ordered(a1) /\ Elems(a1) = Elems(a0) \cup Elems(b1)
  <2>1. \A x \in Elems(a0), y \in Elems(b1) : Rank(x) < Rank(y)
    BY <1>2, <1>5 DEF Rank
  <2>2. QED
    BY <1>2, <1>5, <2>1, Joined
<1> HIDE DEF a1
<1>12. a2 \in Seq(Steps) /\ Ordered(a2) /\ Elems(a2) = Elems(a1) \cup Elems(b2)
  <2>1. \A x \in Elems(a1), y \in Elems(b2) : Rank(x) < Rank(y)
    BY <1>2, <1>5, <1>6, <1>11 DEF Rank
  <2>2. QED
    BY <1>6, <1>11, <2>1, Joined
<1> HIDE DEF a2
<1>13. a3 \in Seq(Steps) /\ Ordered(a3) /\ Elems(a3) = Elems(a2) \cup Elems(b3)
  <2>1. \A x \in Elems(a2), y \in Elems(b3) : Rank(x) < Rank(y)
    BY <1>2, <1>5, <1>6, <1>7, <1>11, <1>12 DEF Rank
  <2>2. QED
    BY <1>7, <1>12, <2>1, Joined
<1> HIDE DEF a3
<1>14. a4 \in Seq(Steps) /\ Ordered(a4) /\ Elems(a4) = Elems(a3) \cup Elems(b4)
  <2>1. \A x \in Elems(a3), y \in Elems(b4) : Rank(x) < Rank(y)
    BY <1>2, <1>5, <1>6, <1>7, <1>8, <1>11, <1>12, <1>13 DEF Rank
  <2>2. QED
    BY <1>8, <1>13, <2>1, Joined
<1> HIDE DEF a4
<1>15. a5 \in Seq(Steps) /\ Ordered(a5) /\ Elems(a5) = Elems(a4) \cup Elems(b5)
  <2>1. \A x \in Elems(a4), y \in Elems(b5) : Rank(x) < Rank(y)
    BY <1>2, <1>5, <1>6, <1>7, <1>8, <1>9, <1>11, <1>12, <1>13, <1>14 DEF Rank
  <2>2. QED
    BY <1>9, <1>14, <2>1, Joined
<1> HIDE DEF a5
<1>16. a6 \in Seq(Steps) /\ Ordered(a6) /\ Elems(a6) = Elems(a5) \cup Elems(b6)
  <2>1. \A x \in Elems(a5), y \in Elems(b6) : Rank(x) < Rank(y)
    BY <1>2, <1>5, <1>6, <1>7, <1>8, <1>9, <1>10, <1>11, <1>12, <1>13, <1>14, <1>15 DEF Rank
  <2>2. QED
    BY <1>10, <1>15, <2>1, Joined
<1>17. Planned(s) \subseteq Elems(a6)
  BY <1>2, <1>5, <1>6, <1>7, <1>10, <1>11, <1>12, <1>13, <1>14, <1>15, <1>16 DEF Planned
<1>18. QED
  BY <1>0, <1>16, <1>17

\* One step is over.
LEMMA TailShape ==
  ASSUME NEW z \in Seq(Steps), z # <<>>, Ordered(z)
  PROVE  /\ Head(z) \in Steps /\ Tail(z) \in Seq(Steps) /\ Ordered(Tail(z))
         /\ Head(z) \in Elems(z) /\ Elems(z) \subseteq Elems(Tail(z)) \cup {Head(z)}
         /\ \A x \in Elems(z) : x = Head(z) \/ Rank(Head(z)) < Rank(x)
<1>1. Len(z) \in Nat \ {0} /\ Head(z) = z[1] /\ Head(z) \in Steps
  BY EmptySeq, HeadTailProperties, LenProperties, ElementOfSeq
<1>2. /\ Tail(z) \in Seq(Steps) /\ Len(Tail(z)) = Len(z) - 1
      /\ \A i \in 1..Len(Tail(z)) : Tail(z)[i] = z[i + 1]
  BY <1>1, HeadTailProperties
<1>3. Ordered(Tail(z))
  <2> SUFFICES ASSUME NEW i \in 1..Len(Tail(z)), NEW j \in 1..Len(Tail(z)), i < j
               PROVE  Rank(Tail(z)[i]) < Rank(Tail(z)[j])
    BY DEF Ordered
  <2>1. i + 1 \in 1..Len(z) /\ j + 1 \in 1..Len(z) /\ i + 1 < j + 1
    BY <1>1, <1>2
  <2>2. QED
    BY <1>2, <2>1 DEF Ordered
<1>4. ASSUME NEW x \in Elems(z), x # Head(z) PROVE x \in Elems(Tail(z)) /\ Rank(Head(z)) < Rank(x)
  <2>1. PICK i \in 1..Len(z) : x = z[i]
    BY DEF Elems
  <2>2. i # 1 /\ 1 \in 1..Len(z) /\ i \in Nat
    BY <1>1, <1>4, <2>1
  <2>3. i - 1 \in 1..Len(Tail(z)) /\ (i - 1) + 1 = i
    BY <1>1, <1>2, <2>2
  <2>4. x = Tail(z)[i - 1]
    BY <1>2, <2>1, <2>3
  <2>5. Rank(z[1]) < Rank(z[i])
    BY <2>2 DEF Ordered
  <2>6. QED
    BY <1>1, <2>1, <2>3, <2>4, <2>5 DEF Elems
<1>5. Head(z) \in Elems(z)
  BY <1>1 DEF Elems
<1>6. QED
  BY <1>1, <1>2, <1>3, <1>4, <1>5


-----------------------------------------------------------------------------
(***************************************************************************)
(* The invariant.                                                          *)
(***************************************************************************)
\* The step that a place is in.
StepAt(p) ==
  CASE p = "preflight" -> {"preflight"}          [] p \in {"swapoff", "sysctl"} -> {"osprep"}
    [] p \in {"fetch", "extract", "unpack", "reload"} -> {"artifacts"}
    [] p \in {"create", "fill", "chmod"} -> {"artifacts", "kubebin"}
    [] p \in {"config", "enable", "restart"} -> {"containerd"}
    [] p = "import" -> {"images"}                [] p = "kubelet" -> {"kubebin"}
    [] p \in {"apt-containerd", "sed", "apt-restart"} -> {"aptcontainerd"}
    [] p = "apt-kube" -> {"aptkube"}             [] p \in {"manifest", "write"} -> {"kubevip"}
    [] p = "kubeadm" -> {"kubeadm"}              [] p = "cni" -> {"cni"}
    [] p = "addons" -> {"addons"}                [] p = "token" -> {"capture"}

Cut(steps) == broken \cap steps # {}
Setup == {"containerd", "aptcontainerd"}
Install_ == {"kubebin", "aptkube"}

BundleWhole ==
  /\ bundle # None /\ bundle.of = spec.k
  /\ bundle.is = "right" \/ (bundle.is = "wrong" /\ ~spec.summed)

\* What the rest of a run may count on when a planned step is not ahead any more.
Done(x) ==
  /\ x = "osprep" => found \/ kept
  /\ x = "artifacts" => BundleWhole
  /\ x \in Setup =>
       /\ crun = "patched" \/ Cut(Setup)
       /\ "containerd" \in enabled \/ "containerd" \in broken
  /\ x \in Install_ => KubeBinsThere /\ ("kubelet" \in enabled \/ Cut(Install_))
  /\ x = "kubevip" => vip # None
  /\ x = "kubeadm" => node.got # "none"
  /\ x = "capture" => ApiUp

\* The run, and how far it got.
Control ==
  /\ at = "idle" => todo = <<>>
  /\ at # "idle" => spec # None /\ report = "none"
  /\ report # "none" => spec # None
  /\ at \notin {"idle", "between"} => todo # <<>> /\ Head(todo) \in StepAt(at)
  /\ Ordered(todo)
  /\ at \in {"create", "fill", "chmod"} =>
       \/ Head(todo) = "artifacts" /\ bins = <<"containerd">>
       \/ Head(todo) = "kubebin" /\ bins \in {Kube, <<"kubelet", "kubectl">>, <<"kubectl">>}
Passed == at # "idle" => \A x \in Planned(spec) : x \in Elems(todo) \/ Done(x)

\* What stays true of a machine whose run succeeded.
Lasting ==
  /\ found \/ kept
  /\ "containerd" \in enabled \/ "containerd" \in broken
  /\ "kubelet" \in enabled \/ Cut(Install_)
  /\ node.got # "none"
  /\ spec.role = "first-master" => ApiUp
  /\ Master(spec) /\ spec.vip => vip # None

BundleInv ==
  /\ at \in {"extract", "unpack"} => archive = "right" \/ (archive = "wrong" /\ ~spec.summed)
  /\ at = "unpack" => bundle # None /\ bundle.of = spec.k
  /\ at \in {"create", "fill", "chmod", "reload"} /\ Head(todo) = "artifacts" => BundleWhole

\* The binaries are copied one after the other, so a later one was never begun before the
\* earlier ones were whole; a half copy of one that was whole is left by a run that was cut short,
\* when another one is missing, or packages have brought that.
Whole(b) == exe[b] \in {"partx", "good"}
Copying == at \in {"create", "fill", "chmod"} /\ Head(todo) = "kubebin"
Patchy == apt \cap KubeBins # {} \/ ~Whole("kubectl")
BinInv ==
  /\ ~Whole("kubeadm") => exe["kubelet"] = "none"
  /\ ~Whole("kubelet") => exe["kubectl"] = "none"
  /\ Copying => Patchy /\ \A b \in KubeBins : b \in Elems(bins) \/ exe[b] = "good"
  /\ at = "fill" => exe[Head(bins)] \in {"part", "partx"}
  /\ at = "chmod" => exe[Head(bins)] \in {"plain", "good"}
  /\ at = "kubelet" => KubeBinsThere
  /\ \A b \in KubeBins : exe[b] = "partx" =>
       (at = "fill" /\ b = Head(bins)) \/ ("kubebin" \in broken /\ Patchy)

UnitInv ==
  /\ ready => kept \/ found
  /\ at = "sysctl" => kept
  /\ cconf = "patched" /\ crun = "default" => at \in {"enable", "restart", "apt-restart"} \/ Cut(Setup)
  /\ cconf = "patched" => "containerd" \in enabled \/ at = "enable" \/ "containerd" \in broken
  /\ at \in {"enable", "restart", "apt-restart"} => cconf = "patched"
  /\ at \in {"sed", "apt-restart"} => "containerd" \in enabled
  /\ KubeBinsThere => "kubelet" \in enabled \/ Cut(Install_) \/ Copying \/ at \in {"kubelet", "apt-kube"}

NodeInv ==
  /\ spec = None => node = NoNode /\ vip = None /\ ~unreset
  /\ node.got # "none" /\ ~unreset => node.k = spec.k /\ node.role = spec.role
  /\ node.got \in {"conf", "up"} => at = "kubeadm" \/ "kubeadm" \in broken
  /\ vip \notin {None, "torn"} /\ ~unreset => vip = spec.k
  /\ vip = "torn" => at = "write" \/ "kubevip" \in broken

IInv ==
  /\ TypeOK /\ Control /\ Passed
  /\ report = "ok" => Lasting
  /\ BundleInv /\ BinInv /\ UnitInv /\ NodeInv

USE InstallAssumption DEF InstallAssumption


\* The lists of binaries to copy, as they get shorter.
LEMMA Tails ==
  /\ Tail(<<"containerd">>) = <<>> /\ Tail(<<"kubectl">>) = <<>>
  /\ Tail(<<"kubelet", "kubectl">>) = <<"kubectl">>
  /\ Tail(<<"kubeadm", "kubelet", "kubectl">>) = <<"kubelet", "kubectl">>
OBVIOUS

\* The actions that touch nothing of the machine, and what they are in the run.
Quiet ==
  \/ Skips \/ Stops \/ Succeeds \/ Preflight \/ PreflightFails \/ CommandFails \/ CommandKilled
  \/ BinBusy \/ ConfigFails \/ NoApi \/ FetchFails \/ Import \/ Kubeadm \/ CniApplied \/ AddonsApplied
  \/ Capture \/ AgentDies

Fails == \E r \in {"none", "failed", "cancelled"} : Ends(r)

LEMMA QuietDoes ==
  ASSUME IInv, Quiet
  PROVE  /\ UNCHANGED <<files, running>> /\ faults' \in 0..MaxFaults /\ at # "idle"
         /\ \/ Fails
            \/ at = "between" /\ todo = <<>> /\ Ends("ok")
            \/ StepDone /\ \/ at = "between" /\ todo # <<>> /\ Skip(Head(todo))
                           \/ at \in {"preflight", "import", "cni", "addons"}
                           \/ at = "kubeadm" /\ node.got = "full"
                           \/ at = "token" /\ ApiUp
<1>1. faults \in 0..MaxFaults
  BY DEF IInv, TypeOK
<1>2. CASE Skips \/ Stops \/ Succeeds
  BY <1>1, <1>2 DEF Skips, Stops, Succeeds, Fails
<1>3. CASE Preflight \/ PreflightFails \/ BinBusy \/ ConfigFails \/ NoApi
  BY <1>1, <1>3 DEF Preflight, PreflightFails, BinBusy, ConfigFails, NoApi, Refuses, Fails
<1>4. CASE CommandFails \/ CommandKilled
  BY <1>1, <1>4 DEF CommandFails, CommandKilled, Fault, Fails, Commands
<1>5. CASE FetchFails \/ AgentDies
  BY <1>1, <1>5 DEF FetchFails, AgentDies, Fault, Fails
<1>6. CASE Import \/ Kubeadm \/ CniApplied \/ AddonsApplied \/ Capture
  BY <1>1, <1>6 DEF Import, Kubeadm, CniApplied, AddonsApplied, Capture, Ran, Fails
<1>7. QED
  BY <1>2, <1>3, <1>4, <1>5, <1>6 DEF Quiet

\* Types of the run's variables, and of the machine's.
RunTypes ==
  /\ spec \in Specs \cup {None} /\ todo \in Seq(Steps) /\ at \in Places /\ bins \in Seq(Bins)
  /\ cancelled \in BOOLEAN /\ report \in {"none", "ok", "failed", "cancelled"}
  /\ found \in BOOLEAN /\ broken \subseteq Steps /\ unreset \in BOOLEAN
FileTypes ==
  /\ kept \in BOOLEAN /\ archive \in {"none", "right", "wrong"}
  /\ bundle \in [of : Clusters, is : {"part", "right", "wrong"}] \cup {None}
  /\ exe \in [Bins -> {"none", "part", "plain", "partx", "good"}]
  /\ apt \subseteq Bins /\ unit \in {"none", "local", "apt"} /\ cconf \in {"none", "default", "patched"}
  /\ vip \in Clusters \cup {None, "torn"}
  /\ node \in [k : Clusters \cup {None}, role : {"none", "first-master", "join-master", "worker"},
               got : {"none", "conf", "up", "full"}]
  /\ enabled \subseteq {"containerd", "kubelet"}
  /\ ready \in BOOLEAN /\ crun \in {"down", "default", "patched"} /\ local \in BOOLEAN
  /\ faults \in 0 .. MaxFaults

LEMMA TypeParts == (TypeOK <=> RunTypes /\ FileTypes) /\ (TypeOK' <=> RunTypes' /\ FileTypes')
BY DEF TypeOK, RunTypes, FileTypes

LEMMA EndsTypes ==
  ASSUME TypeOK, NEW r \in {"none", "ok", "failed", "cancelled"}, Ends(r)
  PROVE  RunTypes'
<1>1. todo # <<>> => Head(todo) \in Steps
  BY HeadTailProperties DEF TypeOK
<1>2. broken' \subseteq Steps
  BY <1>1 DEF TypeOK, Ends
<1>3. <<>> \in Seq(Steps) /\ <<>> \in Seq(Bins) /\ "idle" \in Places
  BY DEF Places
<1>4. QED
  BY <1>2, <1>3 DEF Ends, TypeOK, RunTypes

LEMMA GoesTypes ==
  ASSUME TypeOK, NEW p \in Places, GoesTo(p)
  PROVE  RunTypes'
BY DEF GoesTo, past, TypeOK, RunTypes

LEMMA DoneTypes ==
  ASSUME TypeOK, todo # <<>>, StepDone
  PROVE  RunTypes'
<1>1. Tail(todo) \in Seq(Steps)
  BY HeadTailProperties DEF TypeOK
<1>2. <<>> \in Seq(Bins) /\ "between" \in Places
  BY DEF Places
<1>3. QED
  BY <1>1, <1>2 DEF StepDone, past, TypeOK, RunTypes

\* The commands that may also end because the run is cancelled.
LEMMA RanTypes ==
  ASSUME TypeOK, todo # <<>>, NEW p \in Places \cup {"done"}, Ran(p)
  PROVE  RunTypes'
<1>1. CASE cancelled
  BY <1>1, EndsTypes DEF Ran
<1>2. CASE ~cancelled /\ p = "done"
  BY <1>2, DoneTypes DEF Ran
<1>3. CASE ~cancelled /\ p # "done"
  BY <1>3, GoesTypes DEF Ran
<1>4. QED
  BY <1>1, <1>2, <1>3


\* The other actions of a run: where they are, and where they go.
LEMMA Places_ ==
  ASSUME IInv, at \notin {"idle", "between"}
  PROVE  spec # None /\ spec \in Spec_ /\ spec.k \in Clusters /\ todo # <<>> /\ todo \in Seq(Steps)
         /\ report = "none" /\ Head(todo) \in StepAt(at)
BY DEF IInv, TypeOK, Control, Spec_

LEMMA SetupTypes ==
  ASSUME IInv,
         SwapOff \/ Sysctl \/ Reload \/ Config \/ Enable \/ Restart \/ Kubelet
         \/ AptContainerd \/ AptSed \/ AptRestart \/ (\E b \in Bins : AptUnpack(b)) \/ AptKube
  PROVE  TypeOK'
<1>1. TypeOK /\ FileTypes
  BY TypeParts DEF IInv
<1>2. at \notin {"idle", "between"} /\ todo # <<>>
  <2>1. at \notin {"idle", "between"}
    BY DEF SwapOff, Sysctl, Reload, Config, Enable, Restart, Kubelet, AptContainerd, AptSed, AptRestart, AptUnpack, AptKube
  <2>2. QED
    BY <2>1, Places_
<1>3. CASE SwapOff \/ Sysctl \/ Reload
  <2>1. RunTypes'
    BY <1>1, <1>2, <1>3, RanTypes DEF SwapOff, Sysctl, Reload, Places, Commands
  <2>2. kept' \in BOOLEAN /\ ready' \in BOOLEAN
    BY <1>1, <1>3 DEF SwapOff, Sysctl, Reload, FileTypes, files, running
  <2>3. FileTypes'
    BY <1>1, <1>3, <2>2 DEF SwapOff, Sysctl, Reload, FileTypes, files, running, programs
  <2>4. QED
    BY <2>1, <2>3, TypeParts
<1>4. CASE Config \/ Enable \/ Kubelet
  <2>1. RunTypes'
    BY <1>1, <1>2, <1>4, RanTypes, GoesTypes DEF Config, Enable, Kubelet, Places, Commands
  <2>2. FileTypes'
    BY <1>1, <1>4 DEF Config, Enable, Kubelet, FileTypes, files, running, programs
  <2>3. QED
    BY <2>1, <2>2, TypeParts
<1>5. CASE Restart \/ AptRestart
  <2>1. RunTypes'
    BY <1>1, <1>2, <1>5, RanTypes DEF Restart, AptRestart, Places, Commands
  <2>2. cconf = "patched"
    BY <1>5 DEF Restart, AptRestart, IInv, UnitInv
  <2>3. FileTypes'
    BY <1>1, <1>5, <2>2 DEF Restart, AptRestart, FileTypes, files, running, programs
  <2>4. QED
    BY <2>1, <2>3, TypeParts
<1>6. CASE AptContainerd \/ AptSed
  <2>1. RunTypes'
    BY <1>1, <1>6, GoesTypes DEF AptContainerd, AptSed, Places, Commands
  <2>2. FileTypes'
    BY <1>1, <1>6 DEF AptContainerd, AptSed, Reads, FileTypes, Bins, files, running, programs
  <2>3. QED
    BY <2>1, <2>2, TypeParts
<1>7. CASE (\E b \in Bins : AptUnpack(b)) \/ AptKube
  <2>1. RunTypes'
    <3>1. CASE AptKube
      BY <1>1, <1>2, <3>1, RanTypes DEF AptKube
    <3>2. CASE \E b \in Bins : AptUnpack(b)
      BY <1>1, <3>2, TypeParts DEF AptUnpack, RunTypes, run, past
    <3>3. QED
      BY <1>7, <3>1, <3>2
  <2>2. FileTypes'
    BY <1>1, <1>7 DEF AptUnpack, AptKube, FileTypes, files, running, programs
  <2>3. QED
    BY <2>1, <2>2, TypeParts
<1>8. QED
  BY <1>3, <1>4, <1>5, <1>6, <1>7

LEMMA CopyTypes ==
  ASSUME IInv, BinCreate \/ BinFill \/ BinChmod
  PROVE  TypeOK'
<1>1. TypeOK /\ FileTypes /\ RunTypes
  BY TypeParts DEF IInv
<1>2. PICK b \in Bins : b = Head(bins) /\ Tail(bins) \in Seq(Bins)
  <2>1. bins # <<>>
    BY DEF IInv, Control, BinCreate, BinFill, BinChmod, Kube
  <2>2. QED
    BY <1>1, <2>1, HeadTailProperties DEF RunTypes
<1>3. exe' \in [Bins -> {"none", "part", "plain", "partx", "good"}]
  BY <1>1, <1>2 DEF BinCreate, BinFill, BinChmod, Truncated, FileTypes
<1>4. FileTypes'
  BY <1>1, <1>3 DEF BinCreate, BinFill, BinChmod, FileTypes, files, running, programs
<1>5. RunTypes'
  BY <1>1, <1>2 DEF BinCreate, BinFill, BinChmod, GoesTo, RunTypes, Places, Commands, past
<1>6. QED
  BY <1>4, <1>5, TypeParts

LEMMA BundleTypes ==
  ASSUME IInv, ExtractBegins \/ ExtractEnds \/ \E got \in {"right", "wrong"} : Fetch(got)
  PROVE  TypeOK'
<1>1. TypeOK /\ FileTypes /\ RunTypes
  BY TypeParts DEF IInv
<1>2. spec # None /\ spec.k \in Clusters
  BY Places_ DEF ExtractBegins, ExtractEnds, Fetch
<1>3. CASE \E got \in {"right", "wrong"} : Fetch(got)
  <2>1. PICK got \in {"right", "wrong"} : Fetch(got)
    BY <1>3
  <2>2. RunTypes'
    BY <1>1, <2>1, EndsTypes, GoesTypes DEF Fetch, Places
  <2>3. FileTypes'
    BY <1>1, <2>1 DEF Fetch, Fault, FileTypes, files, running, programs
  <2>4. QED
    BY <2>2, <2>3, TypeParts
<1>4. CASE ExtractBegins
  <2>1. RunTypes'
    BY <1>1, <1>4, GoesTypes DEF ExtractBegins, Places
  <2>2. FileTypes'
    BY <1>1, <1>2, <1>4 DEF ExtractBegins, FileTypes, files, running, programs
  <2>3. QED
    BY <2>1, <2>2, TypeParts
<1>5. CASE ExtractEnds
  <2>1. archive \in {"right", "wrong"} /\ bundle # None
    BY <1>5 DEF ExtractEnds, IInv, BundleInv
  <2>2. bundle' \in [of : Clusters, is : {"part", "right", "wrong"}]
    BY <1>1, <1>5, <2>1 DEF ExtractEnds, FileTypes
  <2>3. FileTypes'
    BY <1>1, <1>5, <2>2 DEF ExtractEnds, FileTypes, files, running, programs
  <2>4. RunTypes'
    BY <1>1, <1>5 DEF ExtractEnds, RunTypes, Places, Bins, past
  <2>5. QED
    BY <2>3, <2>4, TypeParts
<1>6. QED
  BY <1>3, <1>4, <1>5

LEMMA BeginsTypes == ASSUME IInv, Begins PROVE TypeOK'
<1>1. TypeOK /\ FileTypes /\ RunTypes
  BY TypeParts DEF IInv
<1>2. PICK x \in Steps : x = Head(todo)
  BY <1>1, HeadTailProperties DEF Begins, RunTypes
<1>3. Entry(x) \in Places
  BY DEF Entry, Steps, Places, Commands
<1>4. bins' \in Seq(Bins)
  <2>1. Kube \in Seq(Bins) /\ <<>> \in Seq(Bins)
    BY DEF Kube, Bins, KubeBins
  <2>2. QED
    BY <2>1 DEF Begins
<1>5. RunTypes'
  BY <1>1, <1>2, <1>3, <1>4 DEF Begins, RunTypes, past
<1>6. FileTypes'
  BY <1>1 DEF Begins, FileTypes, files, running, programs
<1>7. QED
  BY <1>5, <1>6, TypeParts

LEMMA MemberTypes ==
  ASSUME IInv, VipBegins \/ VipWritten \/ KubeadmGoesOn
  PROVE  TypeOK'
<1>1. TypeOK /\ FileTypes /\ RunTypes
  BY TypeParts DEF IInv
<1>2. spec.k \in Clusters /\ spec.role \in {"first-master", "join-master", "worker"} /\ todo # <<>>
  BY Places_ DEF VipBegins, VipWritten, KubeadmGoesOn, Spec_
<1>3. RunTypes'
  <2>1. CASE VipBegins \/ VipWritten
    BY <1>1, <1>2, <2>1, GoesTypes, DoneTypes DEF VipBegins, VipWritten, Places
  <2>2. CASE KubeadmGoesOn
    BY <1>1, <2>2 DEF KubeadmGoesOn, run, past, RunTypes
  <2>3. QED
    BY <2>1, <2>2
<1>4. CASE VipBegins \/ VipWritten
  <2>1. FileTypes'
    BY <1>1, <1>2, <1>4 DEF VipBegins, VipWritten, FileTypes, files, running, programs
  <2>2. QED
    BY <1>3, <2>1, TypeParts
<1>5. CASE KubeadmGoesOn
  <2>1. node.got \in {"none", "conf", "up"}
    BY <1>1, <1>5 DEF KubeadmGoesOn, FileTypes
  <2>2. node' \in [k : Clusters \cup {None}, role : {"none", "first-master", "join-master", "worker"},
                   got : {"none", "conf", "up", "full"}]
    BY <1>2, <1>5, <2>1 DEF KubeadmGoesOn
  <2>3. FileTypes'
    BY <1>1, <1>5, <2>2 DEF KubeadmGoesOn, FileTypes, files, running, programs
  <2>4. QED
    BY <1>3, <2>3, TypeParts
<1>6. QED
  BY <1>4, <1>5

LEMMA PanelTypes ==
  ASSUME IInv, (\E s \in Specs : Start(s)) \/ Cancel \/ Reset \/ Reboot
  PROVE  TypeOK'
<1>1. TypeOK /\ FileTypes /\ RunTypes
  BY TypeParts DEF IInv
<1>2. CASE \E s \in Specs : Start(s)
  <2>1. PICK s \in Specs : Start(s)
    BY <1>2
  <2>2. planSteps(s) \in Seq(Steps)
    BY PlanShape
  <2>3. RunTypes'
    <3>1. /\ spec' = s /\ todo' = planSteps(s) /\ at' = "between" /\ bins' = <<>> /\ cancelled' = FALSE
          /\ report' = "none" /\ found' = found /\ broken' = broken /\ unreset' \in BOOLEAN
      BY <1>1, <2>1 DEF Start, RunTypes
    <3>2. <<>> \in Seq(Bins)
      OBVIOUS
    <3>3. QED
      BY <1>1, <2>2, <3>1, <3>2 DEF RunTypes, Places
  <2>4. FileTypes'
    BY <1>1, <2>1 DEF Start, Fault, FileTypes, files, running, programs
  <2>5. QED
    BY <2>3, <2>4, TypeParts
<1>3. CASE Cancel
  <2>1. RunTypes'
    BY <1>1, <1>3 DEF Cancel, RunTypes, past
  <2>2. FileTypes'
    BY <1>1, <1>3 DEF Cancel, Fault, FileTypes, files, running, programs
  <2>3. QED
    BY <2>1, <2>2, TypeParts
<1>4. CASE Reset
  <2>1. RunTypes'
    BY <1>1, <1>4 DEF Reset, RunTypes
  <2>2. FileTypes'
    BY <1>1, <1>4 DEF Reset, Wiped, NoNode, Reads, Fault, FileTypes, programs
  <2>3. QED
    BY <2>1, <2>2, TypeParts
<1>5. CASE Reboot
  <2>1. RunTypes'
    BY <1>1, <1>5, EndsTypes DEF Reboot, RunTypes, run, past
  <2>2. FileTypes'
    BY <1>1, <1>5 DEF Reboot, Reads, Fault, FileTypes, files, programs
  <2>3. QED
    BY <2>1, <2>2, TypeParts
<1>6. QED
  BY <1>2, <1>3, <1>4, <1>5

LEMMA QuietTypes == ASSUME IInv, Quiet PROVE TypeOK'
<1>1. TypeOK /\ FileTypes
  BY TypeParts DEF IInv
<1>2. RunTypes'
  <2>1. CASE Fails
    BY <1>1, <2>1, EndsTypes DEF Fails
  <2>2. CASE Ends("ok")
    BY <1>1, <2>2, EndsTypes
  <2>3. CASE StepDone /\ todo # <<>>
    BY <1>1, <2>3, DoneTypes
  <2>4. QED
    BY <2>1, <2>2, <2>3, QuietDoes, Places_
<1>3. FileTypes'
  BY <1>1, QuietDoes DEF files, running, programs, FileTypes
<1>4. QED
  BY <1>2, <1>3, TypeParts


-----------------------------------------------------------------------------
(***************************************************************************)
(* The run: control, and what is behind it.                                *)
(***************************************************************************)
\* The actions of a run that change the machine.
Changes ==
  \/ SwapOff \/ Sysctl \/ Reload \/ Config \/ Enable \/ Restart \/ Kubelet
  \/ AptContainerd \/ AptSed \/ AptRestart \/ (\E b \in Bins : AptUnpack(b)) \/ AptKube
  \/ BinCreate \/ BinFill \/ BinChmod \/ ExtractBegins \/ ExtractEnds \/ (\E got \in {"right", "wrong"} : Fetch(got))
  \/ VipBegins \/ VipWritten \/ KubeadmGoesOn

\* The ways a step can go.
LEMMA NextCases ==
  ASSUME [Next]_vars
  PROVE  Quiet \/ Changes \/ Begins \/ Cancel \/ (\E s \in Specs : Start(s)) \/ Reset \/ Reboot \/ UNCHANGED vars
BY DEF Next, Engine, Work, Command, Trouble, Quiet, Changes

LEMMA ChangesAt ==
  ASSUME IInv, Changes
  PROVE  /\ at \notin {"idle", "between"} /\ spec # None /\ spec \in Spec_ /\ spec.k \in Clusters
         /\ todo # <<>> /\ todo \in Seq(Steps) /\ report = "none" /\ Head(todo) \in StepAt(at)
<1>1. at \notin {"idle", "between"}
  BY DEF Changes, SwapOff, Sysctl, Reload, Config, Enable, Restart, Kubelet, AptContainerd, AptSed, AptRestart, AptUnpack,
     AptKube, BinCreate, BinFill, BinChmod, ExtractBegins, ExtractEnds, Fetch, VipBegins, VipWritten, KubeadmGoesOn
<1>2. QED
  BY <1>1, Places_

\* How a change moves the run on.
Moves ==
  \/ Fails
  \/ StepDone /\ at \in {"sysctl", "reload", "restart", "apt-restart", "kubelet", "apt-kube", "write"}
  \/ \E p \in Places \ {"idle", "between", "create", "fill", "chmod"} :
       GoesTo(p) /\ \E x \in Steps : StepAt(at) = {x} /\ StepAt(p) = {x}
  \/ at = "unpack" /\ at' = "create" /\ bins' = <<"containerd">>
     /\ UNCHANGED <<spec, todo, cancelled, report, past>>
  \/ at = "create" /\ GoesTo("fill")
  \/ at = "fill" /\ GoesTo("chmod")
  \/ at = "chmod" /\ BinChmod
  \/ at \in {"apt-kube", "kubeadm"} /\ UNCHANGED <<run, past>>

LEMMA ChangesMove == ASSUME IInv, Changes PROVE Moves
<1>1. ASSUME SwapOff \/ Sysctl \/ Reload \/ Enable \/ Restart \/ Kubelet PROVE Moves
  <2>1. CASE Fails
    BY <2>1 DEF Moves
  <2>2. CASE ~Fails
    <3>1. CASE SwapOff
      <4>1. at = "swapoff" /\ GoesTo("sysctl")
        BY <2>2, <3>1 DEF SwapOff, Ran, Fails
      <4>2. StepAt("swapoff") = {"osprep"} /\ StepAt("sysctl") = {"osprep"} /\ "osprep" \in Steps
        BY DEF StepAt, Steps
      <4>3. "sysctl" \in Places \ {"idle", "between", "create", "fill", "chmod"}
        BY DEF Places, Commands
      <4>4. QED
        BY <4>1, <4>2, <4>3 DEF Moves
    <3>2. CASE Enable
      <4>1. at = "enable" /\ GoesTo("restart")
        BY <2>2, <3>2 DEF Enable, Ran, Fails
      <4>2. StepAt("enable") = {"containerd"} /\ StepAt("restart") = {"containerd"} /\ "containerd" \in Steps
        BY DEF StepAt, Steps
      <4>3. "restart" \in Places \ {"idle", "between", "create", "fill", "chmod"}
        BY DEF Places, Commands
      <4>4. QED
        BY <4>1, <4>2, <4>3 DEF Moves
    <3>3. CASE Sysctl \/ Reload \/ Restart \/ Kubelet
      BY <2>2, <3>3 DEF Sysctl, Reload, Restart, Kubelet, Ran, Fails, Moves
    <3>4. QED
      BY <1>1, <3>1, <3>2, <3>3
  <2>3. QED
    BY <2>1, <2>2
<1>2. ASSUME Config \/ AptContainerd \/ AptSed \/ AptRestart \/ (\E b \in Bins : AptUnpack(b)) \/ AptKube PROVE Moves
  <2>1. CASE Config
    <3>1. at = "config" /\ GoesTo("enable")
      BY <2>1 DEF Config
    <3>2. StepAt("config") = {"containerd"} /\ StepAt("enable") = {"containerd"} /\ "containerd" \in Steps
      BY DEF StepAt, Steps
    <3>3. "enable" \in Places \ {"idle", "between", "create", "fill", "chmod"}
      BY DEF Places, Commands
    <3>4. QED
      BY <3>1, <3>2, <3>3 DEF Moves
  <2>2. CASE AptContainerd \/ AptSed
    <3>1. \E p \in {"sed", "apt-restart"} : at \in {"apt-containerd", "sed"} /\ GoesTo(p)
      BY <2>2 DEF AptContainerd, AptSed
    <3>2. \A p \in {"apt-containerd", "sed", "apt-restart"} : StepAt(p) = {"aptcontainerd"} /\ "aptcontainerd" \in Steps
      BY DEF StepAt, Steps
    <3>3. {"sed", "apt-restart"} \subseteq Places \ {"idle", "between", "create", "fill", "chmod"}
      BY DEF Places, Commands
    <3>4. QED
      BY <3>1, <3>2, <3>3 DEF Moves
  <2>3. CASE AptRestart \/ AptKube
    BY <2>3 DEF AptRestart, AptKube, Ran, Fails, Moves
  <2>4. CASE \E b \in Bins : AptUnpack(b)
    BY <2>4 DEF AptUnpack, Moves
  <2>5. QED
    BY <1>2, <2>1, <2>2, <2>3, <2>4
<1>3. ASSUME BinCreate \/ BinFill \/ BinChmod \/ ExtractEnds PROVE Moves
  BY <1>3 DEF BinCreate, BinFill, BinChmod, ExtractEnds, Moves, past
<1>4. ASSUME ExtractBegins \/ \E got \in {"right", "wrong"} : Fetch(got) PROVE Moves
  <2>1. CASE Fails
    BY <2>1 DEF Moves
  <2>2. CASE ~Fails
    <3>1. \E p \in {"extract", "unpack"} : at \in {"fetch", "extract"} /\ GoesTo(p)
      BY <1>4, <2>2 DEF ExtractBegins, Fetch, Fails
    <3>2. \A p \in {"fetch", "extract", "unpack"} : StepAt(p) = {"artifacts"} /\ "artifacts" \in Steps
      BY DEF StepAt, Steps
    <3>3. {"extract", "unpack"} \subseteq Places \ {"idle", "between", "create", "fill", "chmod"}
      BY DEF Places, Commands
    <3>4. QED
      BY <3>1, <3>2, <3>3 DEF Moves
  <2>3. QED
    BY <2>1, <2>2
<1>5. ASSUME VipBegins \/ VipWritten \/ KubeadmGoesOn PROVE Moves
  <2>1. CASE VipBegins
    <3>1. at = "manifest" /\ GoesTo("write")
      BY <2>1 DEF VipBegins
    <3>2. StepAt("manifest") = {"kubevip"} /\ StepAt("write") = {"kubevip"} /\ "kubevip" \in Steps
      BY DEF StepAt, Steps
    <3>3. "write" \in Places \ {"idle", "between", "create", "fill", "chmod"}
      BY DEF Places, Commands
    <3>4. QED
      BY <3>1, <3>2, <3>3 DEF Moves
  <2>2. CASE VipWritten \/ KubeadmGoesOn
    BY <2>2 DEF VipWritten, KubeadmGoesOn, Moves
  <2>3. QED
    BY <1>5, <2>1, <2>2
<1>6. QED
  BY <1>1, <1>2, <1>3, <1>4, <1>5 DEF Changes

LEMMA EndsControl ==
  ASSUME IInv, at # "idle", NEW r \in {"none", "ok", "failed", "cancelled"}, Ends(r)
  PROVE  Control'
<1>1. at' = "idle" /\ todo' = <<>> /\ spec' = spec /\ spec # None
  BY DEF Ends, IInv, Control
<1>2. Ordered(<<>>)
  BY DEF Ordered
<1>3. Ordered(todo)'
  BY <1>1, <1>2 DEF Ordered
<1>4. QED
  BY <1>1, <1>3 DEF Control

LEMMA DoneControl ==
  ASSUME IInv, at # "idle", todo # <<>>, StepDone
  PROVE  Control'
<1>1. at' = "between" /\ todo' = Tail(todo) /\ spec' = spec /\ spec # None /\ report' = "none"
  BY DEF StepDone, IInv, Control
<1>2. Ordered(Tail(todo))
  BY TailShape DEF IInv, TypeOK, Control
<1>3. Ordered(todo)'
  BY <1>1, <1>2 DEF Ordered
<1>4. QED
  BY <1>1, <1>3 DEF Control

LEMMA ChangesControl == ASSUME IInv, Changes PROVE Control'
<1>1. CASE Fails
  BY <1>1, EndsControl, ChangesAt DEF Fails
<1>2. CASE StepDone
  BY <1>2, DoneControl, ChangesAt
<1>3. Control /\ spec # None /\ report = "none" /\ todo # <<>> /\ Head(todo) \in StepAt(at) /\ at \notin {"idle", "between"}
  BY ChangesAt DEF IInv
<1>4. todo' = todo => Ordered(todo)'
  BY <1>3 DEF Ordered, Control
<1>5. ASSUME NEW p \in Places \ {"idle", "between", "create", "fill", "chmod"}, GoesTo(p),
             NEW x \in Steps, StepAt(at) = {x}, StepAt(p) = {x}
      PROVE  Control'
  <2>1. at' = p /\ todo' = todo /\ spec' = spec /\ report' = report
    BY <1>5 DEF GoesTo
  <2>2. Head(todo') \in StepAt(at')
    BY <1>3, <1>5, <2>1
  <2>3. QED
    BY <1>3, <1>4, <1>5, <2>1, <2>2 DEF Control
<1>6. CASE at = "unpack" /\ at' = "create" /\ bins' = <<"containerd">> /\ UNCHANGED <<spec, todo, cancelled, report, past>>
  BY <1>3, <1>4, <1>6 DEF Control, StepAt
<1>7. CASE at = "create" /\ GoesTo("fill")
  BY <1>3, <1>4, <1>7 DEF Control, StepAt, GoesTo
<1>8. CASE at = "fill" /\ GoesTo("chmod")
  BY <1>3, <1>4, <1>8 DEF Control, StepAt, GoesTo
<1>9. CASE at = "chmod" /\ BinChmod
  <2>1. UNCHANGED <<spec, todo, report>>
    BY <1>9 DEF BinChmod
  <2>2. CASE Head(todo) = "artifacts"
    <3>1. bins = <<"containerd">> /\ Tail(bins) = <<>>
      BY <1>3, <1>9, <2>2, Tails DEF Control
    <3>2. at' = "reload"
      BY <1>9, <2>2, <3>1 DEF BinChmod
    <3>3. QED
      BY <1>3, <1>4, <2>1, <2>2, <3>2 DEF Control, StepAt
  <2>3. CASE Head(todo) = "kubebin"
    <3>1. bins \in {Kube, <<"kubelet", "kubectl">>, <<"kubectl">>}
      BY <1>3, <1>9, <2>3 DEF Control
    <3>2. Tail(bins) \in {<<"kubelet", "kubectl">>, <<"kubectl">>, <<>>}
      BY <3>1, Tails DEF Kube
    <3>3. bins' = Tail(bins) /\ at' = IF Tail(bins) # <<>> THEN "create" ELSE "kubelet"
      BY <1>9, <2>3 DEF BinChmod
    <3>4. QED
      BY <1>3, <1>4, <2>1, <2>3, <3>2, <3>3 DEF Control, StepAt
  <2>4. QED
    BY <1>3, <1>9, <2>2, <2>3 DEF Control
<1>10. CASE at \in {"apt-kube", "kubeadm"} /\ UNCHANGED <<run, past>>
  BY <1>3, <1>4, <1>10 DEF Control, run
<1>11. QED
  BY <1>1, <1>2, <1>5, <1>6, <1>7, <1>8, <1>9, <1>10, ChangesMove DEF Moves

LEMMA QuietControl == ASSUME IInv, Quiet PROVE Control'
<1>1. CASE Fails \/ Ends("ok")
  BY <1>1, QuietDoes, EndsControl DEF Fails
<1>2. CASE StepDone /\ todo # <<>>
  BY <1>2, QuietDoes, DoneControl
<1>3. QED
  BY <1>1, <1>2, QuietDoes, Places_

LEMMA BeginsControl == ASSUME IInv, Begins PROVE Control'
<1>1. /\ at = "between" /\ spec # None /\ report = "none" /\ todo # <<>> /\ Ordered(todo)
  BY DEF IInv, Control, Begins
<1>2. UNCHANGED <<spec, todo, report>>
  BY DEF Begins
<1>3. PICK x \in Steps : x = Head(todo)
  BY <1>1, TailShape DEF IInv, TypeOK
<1>4. at' = Entry(x) /\ bins' = IF x = "kubebin" THEN Kube ELSE <<>>
  BY <1>3 DEF Begins
<1>5. x \in StepAt(Entry(x)) /\ Entry(x) \notin {"idle", "between", "fill", "chmod"} /\ (Entry(x) = "create" => x = "kubebin")
  BY DEF Entry, StepAt, Steps
<1>6. Ordered(todo)'
  BY <1>1, <1>2 DEF Ordered
<1>7. QED
  BY <1>1, <1>2, <1>3, <1>4, <1>5, <1>6 DEF Control

LEMMA PanelControl ==
  ASSUME IInv, (\E s \in Specs : Start(s)) \/ Cancel \/ Reset \/ Reboot
  PROVE  Control'
<1>1. Control /\ TypeOK
  BY DEF IInv
<1>2. CASE \E s \in Specs : Start(s)
  <2>1. PICK s \in Specs : Start(s)
    BY <1>2
  <2>2. /\ todo' = planSteps(s) /\ Ordered(planSteps(s)) /\ spec' = s /\ s # None /\ at' = "between" /\ report' = "none"
    BY <2>1, PlanShape DEF Start
  <2>3. Ordered(todo)'
    BY <2>2 DEF Ordered
  <2>4. QED
    BY <2>2, <2>3 DEF Control
<1>3. CASE Cancel
  <2>1. UNCHANGED <<spec, todo, at, bins, report>>
    BY <1>3 DEF Cancel
  <2>2. QED
    BY <1>1, <2>1 DEF Control, Ordered
<1>4. CASE Reset
  <2>1. at = "idle" /\ UNCHANGED <<todo, at, bins>> /\ report' = "none"
    BY <1>4 DEF Reset
  <2>2. QED
    BY <1>1, <2>1 DEF Control, Ordered
<1>5. CASE Reboot
  <2>1. CASE at = "idle"
    BY <1>1, <1>5, <2>1 DEF Reboot, run, Control, Ordered
  <2>2. CASE at # "idle"
    BY <1>5, <2>2, EndsControl DEF Reboot
  <2>3. QED
    BY <2>1, <2>2
<1>6. QED
  BY <1>2, <1>3, <1>4, <1>5


\* What a run does not undo: what it has done, and what others could have relied on.
Grows ==
  /\ spec' = spec /\ found' = found /\ unreset' = unreset /\ broken \subseteq broken'
  /\ kept => kept'
  /\ enabled \subseteq enabled'
  /\ crun \in {"down", crun'} \/ crun' = "patched"
  /\ KubeBinsThere => KubeBinsThere'
  /\ vip # None => vip' # None
  /\ node.got # "none" => node'.got # "none"
  /\ spec.role = "first-master" /\ ApiUp => ApiUp'

LEMMA MovesGrow ==
  ASSUME Moves \/ Ends("ok") \/ StepDone \/ UNCHANGED <<spec, past>>
  PROVE  spec' = spec /\ found' = found /\ unreset' = unreset /\ broken \subseteq broken'
BY DEF Moves, Fails, Ends, StepDone, GoesTo, past, BinChmod, run

\* Copying a binary makes nothing less executable.
LEMMA CopyGrows ==
  ASSUME IInv, BinCreate \/ BinFill \/ BinChmod, NEW b \in Bins, Executable(b)
  PROVE  Executable(b)'
<1>1. exe \in [Bins -> {"none", "part", "plain", "partx", "good"}] /\ apt' = apt
  BY DEF IInv, TypeOK, BinCreate, BinFill, BinChmod
<1>2. PICK c : c = Head(bins)
  OBVIOUS
<1>3. \/ exe' = [exe EXCEPT ![c] = IF @ \in {"partx", "good"} THEN "partx" ELSE "part"]
      \/ at = "fill" /\ exe' = [exe EXCEPT ![c] = IF @ = "partx" THEN "good" ELSE "plain"]
      \/ exe' = [exe EXCEPT ![c] = "good"]
  BY <1>2 DEF BinCreate, BinFill, BinChmod, Truncated
<1>4. at = "fill" => exe[c] \in {"part", "partx"}
  BY <1>2 DEF IInv, BinInv
<1>5. QED
  BY <1>1, <1>3, <1>4 DEF Executable

LEMMA ChangesGrow == ASSUME IInv, Changes PROVE Grows
<1>1. spec' = spec /\ found' = found /\ unreset' = unreset /\ broken \subseteq broken'
  BY ChangesMove, MovesGrow
<1>2. CASE SwapOff \/ Sysctl \/ Reload \/ Config \/ Enable \/ Restart \/ Kubelet
  <2>0. kept => kept'
    <3>1. CASE SwapOff
      BY <3>1 DEF SwapOff
    <3>2. CASE ~SwapOff
      BY <1>2, <3>2 DEF Sysctl, Reload, Config, Enable, Restart, Kubelet, files
    <3>3. QED
      BY <3>1, <3>2
  <2>1. UNCHANGED <<exe, apt, vip, node>> /\ enabled \subseteq enabled'
    BY <1>2 DEF SwapOff, Sysctl, Reload, Config, Enable, Restart, Kubelet, files, programs
  <2>2. crun' = crun \/ crun' = "patched"
    BY <1>2 DEF SwapOff, Sysctl, Reload, Config, Enable, Restart, Kubelet, running, IInv, UnitInv
  <2>3. KubeBinsThere => KubeBinsThere'
    BY <2>1 DEF KubeBinsThere, Executable
  <2>4. QED
    BY <1>1, <2>0, <2>1, <2>2, <2>3 DEF Grows, ApiUp
<1>3. CASE AptContainerd \/ AptSed \/ AptRestart \/ (\E b \in Bins : AptUnpack(b)) \/ AptKube
  <2>1. UNCHANGED <<exe, vip, node, kept>> /\ enabled \subseteq enabled' /\ apt \subseteq apt'
    BY <1>3 DEF AptContainerd, AptSed, AptRestart, AptUnpack, AptKube, files, programs
  <2>2. crun \in {"down", crun'} \/ crun' = "patched"
    BY <1>3 DEF AptContainerd, AptSed, AptRestart, AptUnpack, AptKube, running, IInv, UnitInv
  <2>3. KubeBinsThere => KubeBinsThere'
    BY <2>1 DEF KubeBinsThere, Executable
  <2>4. QED
    BY <1>1, <2>1, <2>2, <2>3 DEF Grows, ApiUp
<1>4. CASE BinCreate \/ BinFill \/ BinChmod
  <2>1. UNCHANGED <<kept, enabled, crun, vip, node>>
    BY <1>4 DEF BinCreate, BinFill, BinChmod, running
  <2>2. KubeBinsThere => KubeBinsThere'
    BY <1>4, CopyGrows DEF KubeBinsThere, Bins
  <2>3. QED
    BY <1>1, <2>1, <2>2 DEF Grows, ApiUp
<1>5. CASE ExtractBegins \/ ExtractEnds \/ \E got \in {"right", "wrong"} : Fetch(got)
  <2>1. UNCHANGED <<kept, enabled, crun, vip, node, exe, apt>>
    BY <1>5 DEF ExtractBegins, ExtractEnds, Fetch, running, programs
  <2>2. QED
    BY <1>1, <2>1 DEF Grows, ApiUp, KubeBinsThere, Executable
<1>6. CASE VipBegins \/ VipWritten
  <2>1. UNCHANGED <<kept, enabled, crun, node, exe, apt>> /\ vip' # None
    BY <1>6, ChangesAt DEF VipBegins, VipWritten, running, programs
  <2>2. QED
    BY <1>1, <2>1 DEF Grows, ApiUp, KubeBinsThere, Executable
<1>7. CASE KubeadmGoesOn
  <2>1. UNCHANGED <<kept, enabled, crun, vip, exe, apt>>
    BY <1>7 DEF KubeadmGoesOn, running, programs
  <2>2. node.got \in {"none", "conf", "up"}
    BY <1>7 DEF KubeadmGoesOn, IInv, TypeOK
  <2>3. node'.got \in {"conf", "up", "full"} /\ node'.role = spec.role /\ (node.got = "up" => node'.got = "full")
    BY <1>7, <2>2 DEF KubeadmGoesOn
  <2>4. QED
    BY <1>1, <2>1, <2>2, <2>3 DEF Grows, ApiUp, KubeBinsThere, Executable
<1>8. QED
  BY <1>2, <1>3, <1>4, <1>5, <1>6, <1>7 DEF Changes

\* So what was done stays done.
LEMMA DoneKept ==
  ASSUME IInv, Grows, NEW x, Done(x), x = "artifacts" => bundle' = bundle,
         x = "capture" => spec.role = "first-master"
  PROVE  Done(x)'
<1>1. Cut(Setup) => Cut(Setup)'
  BY DEF Grows, Cut
<1>2. Cut(Install_) => Cut(Install_)'
  BY DEF Grows, Cut
<1>3. x \in Setup => (crun = "patched" \/ Cut(Setup)) /\ ("containerd" \in enabled \/ "containerd" \in broken)
  BY DEF Done
<1>4. x \in Setup => (crun' = "patched" \/ Cut(Setup)') /\ ("containerd" \in enabled' \/ "containerd" \in broken')
  BY <1>1, <1>3 DEF Grows
<1>5. x \in Install_ => KubeBinsThere' /\ ("kubelet" \in enabled' \/ Cut(Install_)')
  BY <1>2 DEF Grows, Done
<1>6. x = "artifacts" => BundleWhole'
  BY DEF Grows, Done, BundleWhole
<1>7. /\ x = "osprep" => found' \/ kept'
      /\ x = "kubevip" => vip' # None
      /\ x = "kubeadm" => node'.got # "none"
      /\ x = "capture" => ApiUp'
  BY DEF Grows, Done
<1>8. QED
  BY <1>4, <1>5, <1>6, <1>7 DEF Done

LEMMA QuietGrows == ASSUME IInv, Quiet PROVE Grows /\ bundle' = bundle
<1>1. UNCHANGED <<kept, enabled, crun, vip, node, exe, apt, bundle>>
  BY QuietDoes DEF files, running, programs
<1>2. spec' = spec /\ found' = found /\ unreset' = unreset /\ broken \subseteq broken'
  BY QuietDoes, MovesGrow DEF Moves
<1>3. QED
  BY <1>1, <1>2 DEF Grows, ApiUp, KubeBinsThere, Executable

LEMMA BeginsGrow == ASSUME IInv, Begins \/ Cancel PROVE Grows
BY DEF Begins, Cancel, Grows, ApiUp, KubeBinsThere, Executable, programs, running, files, past

\* A step is over that has done what the rest counts on.
LEMMA DonePassed ==
  ASSUME IInv, at # "idle", todo # <<>>, StepDone, Grows, bundle' = bundle,
         NEW h \in Steps, h = Head(todo), h \in Planned(spec) => Done(h)'
  PROVE  Passed'
<1>1. todo' = Tail(todo) /\ spec' = spec /\ Elems(todo) \subseteq Elems(Tail(todo)) \cup {h}
  BY TailShape DEF StepDone, IInv, TypeOK, Control
<1>2. ASSUME NEW x \in Planned(spec), x \notin Elems(Tail(todo)) PROVE Done(x)'
  <2>1. CASE x = h
    BY <1>2, <2>1
  <2>2. CASE x # h
    <3>1. Done(x)
      BY <1>1, <1>2, <2>2 DEF IInv, Passed
    <3>2. x = "capture" => spec.role = "first-master"
      BY DEF Planned
    <3>3. QED
      BY <3>1, <3>2, DoneKept
  <2>3. QED
    BY <2>1, <2>2
<1>3. Elems(todo') = Elems(Tail(todo)) /\ Planned(spec') = Planned(spec)
  BY <1>1
<1>4. QED
  BY <1>2, <1>3 DEF Passed

\* Nothing is over.
LEMMA SamePassed ==
  ASSUME IInv, at # "idle", todo' = todo, Grows, bundle' = bundle \/ "artifacts" \in Elems(todo)
  PROVE  Passed'
<1>1. spec' = spec
  BY DEF Grows
<1>2. ASSUME NEW x \in Planned(spec), x \notin Elems(todo) PROVE Done(x)'
  <2>1. Done(x)
    BY <1>2 DEF IInv, Passed
  <2>2. x = "capture" => spec.role = "first-master"
    BY DEF Planned
  <2>3. QED
    BY <1>2, <2>1, <2>2, DoneKept
<1>3. Elems(todo') = Elems(todo) /\ Planned(spec') = Planned(spec)
  BY <1>1
<1>4. QED
  BY <1>2, <1>3 DEF Passed

\* What the steps that change the machine have done when they are over.
LEMMA ChangesDone ==
  ASSUME IInv, Changes, StepDone, NEW h \in Steps, h = Head(todo)
  PROVE  bundle' = bundle /\ (h \in Planned(spec) => Done(h)')
<1>1. h \in StepAt(at) /\ at' = "between"
  BY ChangesAt DEF StepDone
<1>2. \/ Sysctl /\ at = "sysctl"
      \/ Reload /\ at = "reload"
      \/ Restart /\ at = "restart"
      \/ AptRestart /\ at = "apt-restart"
      \/ Kubelet /\ at = "kubelet"
      \/ AptKube /\ at = "apt-kube"
      \/ VipWritten /\ at = "write"
  <2>1. ~(SwapOff \/ Enable)
    BY <1>1 DEF SwapOff, Enable, Ran, Ends, GoesTo, StepDone
  <2>2. ~(Config \/ AptContainerd \/ AptSed \/ BinCreate \/ BinFill \/ ExtractBegins \/ VipBegins)
    BY <1>1 DEF Config, AptContainerd, AptSed, BinCreate, BinFill, ExtractBegins, VipBegins, GoesTo
  <2>3. ~(BinChmod \/ ExtractEnds \/ (\E b \in Bins : AptUnpack(b)) \/ KubeadmGoesOn)
    BY <1>1 DEF BinChmod, ExtractEnds, AptUnpack, KubeadmGoesOn, run
  <2>4. ~\E got \in {"right", "wrong"} : Fetch(got)
    BY <1>1 DEF Fetch, Ends, GoesTo
  <2>5. Sysctl \/ Reload \/ Restart \/ AptRestart \/ Kubelet \/ AptKube \/ VipWritten
    BY <2>1, <2>2, <2>3, <2>4 DEF Changes
  <2>6. /\ Sysctl => at = "sysctl"
        /\ Reload => at = "reload"
        /\ Restart => at = "restart"
        /\ AptRestart => at = "apt-restart"
    BY DEF Sysctl, Reload, Restart, AptRestart
  <2>7. (Kubelet => at = "kubelet") /\ (AptKube => at = "apt-kube") /\ (VipWritten => at = "write")
    BY DEF Kubelet, AptKube, VipWritten
  <2>8. QED
    BY <2>5, <2>6, <2>7
<1>3. CASE Sysctl /\ at = "sysctl"
  <2>1. h = "osprep" /\ kept
    BY <1>1, <1>3 DEF StepAt, IInv, UnitInv
  <2>2. kept' = kept /\ bundle' = bundle
    BY <1>3 DEF Sysctl, files
  <2>3. QED
    BY <2>1, <2>2 DEF Done, Setup, Install_
<1>4. CASE Reload /\ at = "reload"
  <2>1. h = "artifacts" /\ BundleWhole
    BY <1>1, <1>4 DEF StepAt, IInv, BundleInv
  <2>2. bundle' = bundle /\ spec' = spec
    BY <1>4 DEF Reload, StepDone
  <2>3. QED
    BY <2>1, <2>2 DEF Done, BundleWhole, Setup, Install_
<1>5. CASE (Restart /\ at = "restart") \/ (AptRestart /\ at = "apt-restart")
  <2>1. h \in Setup
    BY <1>1, <1>5 DEF StepAt, Setup
  <2>2. crun' = "patched" /\ UNCHANGED <<bundle, enabled, broken>>
    BY <1>5 DEF Restart, AptRestart, StepDone, past, files, IInv, UnitInv
  <2>3. "containerd" \in enabled \/ "containerd" \in broken
    BY <1>5 DEF IInv, UnitInv
  <2>4. QED
    BY <2>1, <2>2, <2>3 DEF Done, Setup, Install_
<1>6. CASE (Kubelet /\ at = "kubelet") \/ (AptKube /\ at = "apt-kube")
  <2>1. h \in Install_
    BY <1>1, <1>6 DEF StepAt, Install_
  <2>2. KubeBinsThere /\ UNCHANGED <<exe, apt, bundle>> /\ enabled' = enabled \cup {"kubelet"}
    BY <1>6 DEF Kubelet, AptKube, IInv, BinInv, KubeBinsThere, Executable, programs
  <2>3. KubeBinsThere'
    BY <2>2 DEF KubeBinsThere, Executable
  <2>4. QED
    BY <2>1, <2>2, <2>3 DEF Done, Setup, Install_
<1>7. CASE VipWritten /\ at = "write"
  <2>1. h = "kubevip"
    BY <1>1, <1>7 DEF StepAt
  <2>2. vip' # None /\ bundle' = bundle
    BY <1>7, ChangesAt DEF VipWritten
  <2>3. QED
    BY <2>1, <2>2 DEF Done, Setup, Install_
<1>8. QED
  BY <1>2, <1>3, <1>4, <1>5, <1>6, <1>7

\* And those that do not: a step is skipped because its probe finds what it would have done.
LEMMA QuietDone ==
  ASSUME IInv, Quiet, StepDone, todo # <<>>, NEW h \in Steps, h = Head(todo)
  PROVE  h \in Planned(spec) => Done(h)
<1>1. /\ at \notin {"idle", "between"} => h \in StepAt(at)
      /\ TypeOK /\ UnitInv /\ BinInv
  BY DEF IInv, Control
<1>2. ~Fails /\ ~Ends("ok")
  BY DEF StepDone, Fails, Ends
<1>3. CASE at = "between" /\ Skip(h)
  <2>1. h = "osprep" => found \/ kept
    BY <1>1, <1>3 DEF Skip, UnitInv
  <2>2. h \in Setup => /\ crun = "patched" \/ Cut(Setup)
                       /\ "containerd" \in enabled \/ "containerd" \in broken
    BY <1>1, <1>3 DEF Skip, Setup, ContainerdThere, UnitInv, TypeOK
  <2>3. h \in Install_ => KubeBinsThere /\ ("kubelet" \in enabled \/ Cut(Install_))
    BY <1>1, <1>3 DEF Skip, Install_, UnitInv, Copying
  <2>4. /\ h = "kubevip" => vip # None
        /\ h = "kubeadm" => node.got # "none"
        /\ h \notin {"artifacts", "capture"}
    BY <1>3 DEF Skip, KubeletConfThere
  <2>5. QED
    BY <2>1, <2>2, <2>3, <2>4 DEF Done
<1>4. CASE at \in {"preflight", "import", "cni", "addons"}
  <2>1. h \in {"preflight", "images", "cni", "addons"}
    BY <1>1, <1>4 DEF StepAt
  <2>2. QED
    BY <2>1 DEF Done, Setup, Install_
<1>5. CASE at = "kubeadm" /\ node.got = "full"
  <2>1. h = "kubeadm"
    BY <1>1, <1>5 DEF StepAt
  <2>2. QED
    BY <1>5, <2>1 DEF Done, Setup, Install_
<1>6. CASE at = "token" /\ ApiUp
  <2>1. h = "capture"
    BY <1>1, <1>6 DEF StepAt
  <2>2. QED
    BY <1>6, <2>1 DEF Done, Setup, Install_
<1>7. QED
  BY <1>2, <1>3, <1>4, <1>5, <1>6, QuietDoes


LEMMA StepPassed == ASSUME IInv, [Next]_vars PROVE Passed'
<1>1. CASE Quiet
  <2>1. CASE Fails \/ Ends("ok")
    BY <2>1 DEF Fails, Ends, Passed
  <2>2. CASE StepDone /\ todo # <<>>
    <3>1. PICK h \in Steps : h = Head(todo)
      BY <2>2, TailShape DEF IInv, TypeOK, Control
    <3>2. h \in Planned(spec) => Done(h)
      BY <1>1, <2>2, <3>1, QuietDone
    <3>3. h = "capture" /\ h \in Planned(spec) => spec.role = "first-master"
      BY DEF Planned
    <3>4. h \in Planned(spec) => Done(h)'
      BY <1>1, <3>2, <3>3, QuietGrows, DoneKept
    <3>5. at # "idle"
      BY <1>1, QuietDoes
    <3>6. QED
      BY <1>1, <2>2, <3>1, <3>4, <3>5, QuietGrows, DonePassed
  <2>3. QED
    BY <1>1, <2>1, <2>2, QuietDoes, Places_
<1>2. CASE Changes
  <2>1. CASE Fails
    BY <2>1 DEF Fails, Ends, Passed
  <2>2. CASE StepDone
    <3>1. PICK h \in Steps : h = Head(todo)
      BY <1>2, ChangesAt, TailShape DEF IInv, Control
    <3>2. bundle' = bundle /\ (h \in Planned(spec) => Done(h)')
      BY <1>2, <2>2, <3>1, ChangesDone
    <3>3. QED
      BY <1>2, <2>2, <3>1, <3>2, ChangesAt, ChangesGrow, DonePassed
  <2>3. CASE ~Fails /\ ~StepDone
    <3>1. todo' = todo
      BY <1>2, <2>3, ChangesMove DEF Moves, GoesTo, BinChmod, run
    <3>2. bundle' = bundle \/ at \in {"fetch", "extract", "unpack"}
      <4>1. CASE SwapOff \/ Sysctl \/ Reload \/ Config \/ Enable \/ Restart \/ Kubelet
        BY <4>1 DEF SwapOff, Sysctl, Reload, Config, Enable, Restart, Kubelet, files
      <4>2. CASE AptContainerd \/ AptSed \/ AptRestart \/ (\E b \in Bins : AptUnpack(b)) \/ AptKube
        BY <4>2 DEF AptContainerd, AptSed, AptRestart, AptUnpack, AptKube, files
      <4>3. CASE BinCreate \/ BinFill \/ BinChmod \/ VipBegins \/ VipWritten \/ KubeadmGoesOn
        BY <4>3 DEF BinCreate, BinFill, BinChmod, VipBegins, VipWritten, KubeadmGoesOn
      <4>4. CASE ExtractBegins \/ ExtractEnds \/ \E got \in {"right", "wrong"} : Fetch(got)
        BY <4>4 DEF ExtractBegins, ExtractEnds, Fetch
      <4>5. QED
        BY <1>2, <4>1, <4>2, <4>3, <4>4 DEF Changes
    <3>3. at \in {"fetch", "extract", "unpack"} => "artifacts" \in Elems(todo)
      <4>1. Head(todo) \in Elems(todo)
        BY <1>2, ChangesAt, TailShape DEF IInv, Control
      <4>2. QED
        BY <1>2, <4>1, ChangesAt DEF StepAt
    <3>4. QED
      BY <1>2, <3>1, <3>2, <3>3, ChangesAt, ChangesGrow, SamePassed
  <2>4. QED
    BY <2>1, <2>2, <2>3
<1>3. CASE Begins
  <2>1. at # "idle" /\ todo' = todo /\ todo # <<>>
    BY <1>3 DEF Begins
  <2>2. Head(todo) \in Elems(todo)
    BY <2>1, TailShape DEF IInv, TypeOK, Control
  <2>3. bundle' = bundle \/ "artifacts" \in Elems(todo)
    BY <1>3, <2>2 DEF Begins
  <2>4. QED
    BY <1>3, <2>1, <2>3, BeginsGrow, SamePassed
<1>4. CASE Cancel
  BY <1>4, BeginsGrow, SamePassed DEF Cancel, files
<1>5. CASE \E s \in Specs : Start(s)
  <2>1. PICK s \in Specs : Start(s)
    BY <1>5
  <2>2. spec' = s /\ todo' = planSteps(s)
    BY <2>1 DEF Start
  <2>3. Planned(s) \subseteq Elems(planSteps(s))
    BY PlanShape
  <2>4. QED
    BY <2>2, <2>3 DEF Passed
<1>6. CASE Reset \/ Reboot
  <2>1. at' = "idle"
    BY <1>6 DEF Reset, Reboot, Ends, run
  <2>2. QED
    BY <2>1 DEF Passed
<1>7. CASE UNCHANGED vars
  <2>1. Grows /\ bundle' = bundle /\ todo' = todo /\ at' = at
    BY <1>7 DEF vars, run, files, running, past, programs, Grows, ApiUp, KubeBinsThere, Executable
  <2>2. CASE at = "idle"
    BY <2>1, <2>2 DEF Passed
  <2>3. CASE at # "idle"
    BY <2>1, <2>3, SamePassed
  <2>4. QED
    BY <2>2, <2>3
<1>8. QED
  BY <1>1, <1>2, <1>3, <1>4, <1>5, <1>6, <1>7, NextCases


-----------------------------------------------------------------------------
(***************************************************************************)
(* Each part of the invariant, after any step.                             *)
(***************************************************************************)
\* Every variable keeps its type.
LEMMA StepTypes == ASSUME IInv, [Next]_vars PROVE TypeOK'
<1>1. CASE Changes
  BY <1>1, SetupTypes, CopyTypes, BundleTypes, MemberTypes DEF Changes
<1>2. CASE UNCHANGED vars
  BY <1>2 DEF IInv, TypeOK, vars, run, files, running, past, programs
<1>3. QED
  BY <1>1, <1>2, QuietTypes, BeginsTypes, PanelTypes, NextCases

\* The run stays on its plan.
LEMMA StepControl == ASSUME IInv, [Next]_vars PROVE Control'
<1>1. CASE UNCHANGED vars
  BY <1>1 DEF IInv, Control, Ordered, vars, run
<1>2. QED
  BY <1>1, QuietControl, ChangesControl, BeginsControl, PanelControl, NextCases

\* Every step of the plan being behind a run that succeeds, its machine has what they leave.
LEMMA StepLasting == ASSUME IInv, [Next]_vars PROVE (report = "ok" => Lasting)'
<1>1. CASE Quiet
  <2>1. CASE at = "between" /\ todo = <<>> /\ Ends("ok")
    <3>1. Elems(todo) = {}
      BY <2>1 DEF Elems
    <3>2. spec # None /\ spec \in Spec_ /\ \A x \in Planned(spec) : Done(x)
      BY <2>1, <3>1 DEF IInv, Control, Passed, TypeOK
    <3>3. Done("osprep") /\ Done("kubeadm")
      BY <3>2 DEF Planned
    <3>4. \E x \in Setup : Done(x)
      BY <3>2 DEF Planned, Setup, Spec_
    <3>5. \E x \in Install_ : Done(x)
      BY <3>2 DEF Planned, Install_, Spec_
    <3>6. spec.role = "first-master" => Done("capture")
      BY <3>2 DEF Planned
    <3>7. Master(spec) /\ spec.vip => Done("kubevip")
      BY <3>2 DEF Planned
    <3>8. Lasting
      <4>1. found \/ kept
        BY <3>3 DEF Done
      <4>2. node.got # "none"
        BY <3>3 DEF Done
      <4>3. "containerd" \in enabled \/ "containerd" \in broken
        BY <3>4 DEF Done
      <4>4. "kubelet" \in enabled \/ Cut(Install_)
        BY <3>5 DEF Done
      <4>5. spec.role = "first-master" => ApiUp
        BY <3>6 DEF Done
      <4>6. Master(spec) /\ spec.vip => vip # None
        BY <3>7 DEF Done
      <4>7. QED
        BY <4>1, <4>2, <4>3, <4>4, <4>5, <4>6 DEF Lasting
    <3>9. UNCHANGED <<spec, kept, enabled, vip, node, found, broken>>
      BY <1>1, <2>1, QuietDoes DEF files, Ends
    <3>10. QED
      BY <3>8, <3>9 DEF Lasting, Cut, ApiUp, Master
  <2>2. CASE Fails \/ StepDone
    <3>1. report' # "ok"
      BY <1>1, <2>2, QuietDoes DEF Fails, Ends, StepDone, IInv, Control
    <3>2. QED
      BY <3>1
  <2>3. QED
    BY <1>1, <2>1, <2>2, QuietDoes
<1>2. CASE Changes \/ Begins \/ Cancel \/ Reset \/ \E s \in Specs : Start(s)
  <2>1. report' # "ok"
    <3>1. CASE Changes
      BY <3>1, ChangesAt, ChangesMove DEF Moves, Fails, Ends, StepDone, GoesTo, BinChmod, run
    <3>2. CASE Begins \/ Cancel
      BY <3>2 DEF Begins, Cancel, IInv, Control
    <3>3. CASE Reset \/ \E s \in Specs : Start(s)
      BY <3>3 DEF Reset, Start
    <3>4. QED
      BY <1>2, <3>1, <3>2, <3>3
  <2>2. QED
    BY <2>1
<1>3. CASE Reboot
  <2>1. CASE at = "idle"
    <3>1. UNCHANGED <<spec, report, kept, enabled, vip, node, found, broken>>
      BY <1>3, <2>1 DEF Reboot, run, past, files
    <3>2. QED
      BY <3>1 DEF IInv, Lasting, Cut, ApiUp, Master
  <2>2. CASE at # "idle"
    <3>1. report' # "ok"
      BY <1>3, <2>2 DEF Reboot, Ends
    <3>2. QED
      BY <3>1
  <2>3. QED
    BY <2>1, <2>2
<1>4. CASE UNCHANGED vars
  <2>1. UNCHANGED <<spec, report, kept, enabled, vip, node, found, broken>>
    BY <1>4 DEF vars, run, past, files
  <2>2. QED
    BY <2>1 DEF IInv, Lasting, Cut, ApiUp, Master
<1>5. QED
  BY <1>1, <1>2, <1>3, <1>4, NextCases


\* What is unpacked is what was asked for, and it stays so while it is installed from.
LEMMA StepBundle == ASSUME IInv, [Next]_vars PROVE BundleInv'
<1> DEFINE There == {"extract", "unpack", "create", "fill", "chmod", "reload"}
<1>1. ASSUME at' \notin There PROVE BundleInv'
  BY <1>1 DEF BundleInv
<1>2. ASSUME UNCHANGED <<spec, archive, bundle>>, UNCHANGED <<at, todo>> PROVE BundleInv'
  BY <1>2 DEF IInv, BundleInv, BundleWhole
<1>3. CASE Quiet
  <2>1. at' \in {"idle", "between"}
    BY <1>3, QuietDoes DEF Fails, Ends, StepDone
  <2>2. QED
    BY <1>1, <2>1
<1>4. CASE Changes
  <2>1. CASE BinCreate \/ BinFill \/ BinChmod
    <3>1. UNCHANGED <<spec, archive, bundle, todo>> /\ at \in {"create", "fill", "chmod"}
      BY <2>1 DEF BinCreate, BinFill, BinChmod, GoesTo
    <3>2. at' \in {"create", "fill", "chmod", "reload", "kubelet"}
      BY <2>1 DEF BinCreate, BinFill, BinChmod, GoesTo
    <3>3. QED
      BY <3>1, <3>2 DEF IInv, BundleInv, BundleWhole
  <2>2. CASE ExtractBegins
    <3>1. at = "extract" /\ at' = "unpack" /\ UNCHANGED <<spec, archive>> /\ bundle' = [of |-> spec.k, is |-> "part"]
      BY <2>2 DEF ExtractBegins, GoesTo
    <3>2. bundle' # None
      BY <1>4, <3>1, ChangesAt
    <3>3. QED
      BY <3>1, <3>2 DEF IInv, BundleInv
  <2>3. CASE ExtractEnds
    <3>1. /\ at = "unpack" /\ at' = "create" /\ UNCHANGED <<spec, archive>>
          /\ bundle' = [bundle EXCEPT !.is = archive]
      BY <2>3 DEF ExtractEnds
    <3>2. /\ archive = "right" \/ (archive = "wrong" /\ ~spec.summed)
          /\ bundle # None /\ bundle.of = spec.k /\ bundle \in [of : Clusters, is : {"part", "right", "wrong"}]
      BY <3>1 DEF IInv, BundleInv, TypeOK
    <3>3. bundle'.of = spec.k /\ bundle'.is = archive /\ bundle' \in [of : Clusters, is : {"part", "right", "wrong"}]
      BY <3>1, <3>2
    <3>4. BundleWhole'
      BY <3>1, <3>2, <3>3 DEF BundleWhole
    <3>5. QED
      BY <3>1, <3>4 DEF BundleInv
  <2>4. CASE \E got \in {"right", "wrong"} : Fetch(got)
    <3>1. PICK got \in {"right", "wrong"} : Fetch(got)
      BY <2>4
    <3>2. archive' = got /\ at' \in {"idle", "extract"}
      BY <3>1 DEF Fetch, Ends, GoesTo
    <3>3. at' = "extract" => spec' = spec /\ (got = "wrong" => ~spec.summed)
      BY <3>1 DEF Fetch, Ends, GoesTo
    <3>4. QED
      BY <3>2, <3>3 DEF BundleInv
  <2>5. CASE SwapOff \/ Sysctl \/ Reload \/ Config \/ Enable \/ Restart \/ Kubelet
    <3>1. at' \in {"idle", "between", "sysctl", "enable", "restart"}
      BY <2>5 DEF SwapOff, Sysctl, Reload, Config, Enable, Restart, Kubelet, Ran, Ends, StepDone, GoesTo
    <3>2. QED
      BY <1>1, <3>1
  <2>6. CASE AptContainerd \/ AptSed \/ AptRestart \/ (\E b \in Bins : AptUnpack(b)) \/ AptKube
    <3>1. at' \in {"idle", "between", "sed", "apt-restart", "apt-kube"}
      BY <2>6 DEF AptContainerd, AptSed, AptRestart, AptUnpack, AptKube, Ran, Ends, StepDone, GoesTo, run
    <3>2. QED
      BY <1>1, <3>1
  <2>7. CASE VipBegins \/ VipWritten \/ KubeadmGoesOn
    <3>1. at' \in {"between", "write", "kubeadm"}
      BY <2>7 DEF VipBegins, VipWritten, KubeadmGoesOn, StepDone, GoesTo, run
    <3>2. QED
      BY <1>1, <3>1
  <2>8. QED
    BY <1>4, <2>1, <2>2, <2>3, <2>4, <2>5, <2>6, <2>7 DEF Changes
<1>5. CASE Begins
  <2>1. PICK x \in Steps : x = Head(todo)
    BY <1>5, TailShape DEF Begins, IInv, TypeOK, Control
  <2>2. at' = Entry(x) /\ todo' = todo
    BY <1>5, <2>1 DEF Begins
  <2>3. Entry(x) \in There => Entry(x) = "create" /\ x = "kubebin"
    BY DEF Entry, Steps
  <2>4. QED
    BY <2>1, <2>2, <2>3 DEF BundleInv
<1>6. CASE Cancel \/ UNCHANGED vars
  BY <1>2, <1>6 DEF Cancel, vars, run, files
<1>7. CASE Reset \/ Reboot \/ \E s \in Specs : Start(s)
  <2>1. at' \in {"idle", "between"}
    BY <1>7 DEF Reset, Reboot, Ends, run, Start
  <2>2. QED
    BY <1>1, <2>1
<1>8. QED
  BY <1>3, <1>4, <1>5, <1>6, <1>7, NextCases


\* Nothing is copied, and a copy that was on its way is noted as cut short.
LEMMA BinLeft ==
  ASSUME IInv, exe' = exe, apt \subseteq apt', "kubebin" \in broken => "kubebin" \in broken',
         at' \notin {"create", "fill", "chmod", "kubelet"},
         at = "fill" => Head(todo) \in broken'
  PROVE  BinInv'
<1>1. Patchy => Patchy'
  BY DEF Patchy, Whole
<1>2. ASSUME NEW b \in KubeBins, exe[b] = "partx" PROVE "kubebin" \in broken' /\ Patchy'
  <2>1. CASE at = "fill" /\ b = Head(bins)
    <3>1. Head(todo) = "kubebin"
      BY <2>1 DEF IInv, Control, KubeBins
    <3>2. Patchy
      BY <2>1, <3>1 DEF IInv, BinInv, Copying
    <3>3. QED
      BY <1>1, <2>1, <3>1, <3>2
  <2>2. CASE "kubebin" \in broken /\ Patchy
    BY <1>1, <2>2
  <2>3. QED
    BY <1>2, <2>1, <2>2 DEF IInv, BinInv
<1>3. QED
  BY <1>2 DEF IInv, BinInv, Whole, Copying

\* A whole copy of the list is ahead, since one of the binaries is missing.
LEMMA BeginsBins == ASSUME IInv, Begins PROVE BinInv'
<1>1. /\ at = "between" /\ UNCHANGED <<todo, exe, apt, broken>> /\ ~Skip(Head(todo))
      /\ bins' = IF Head(todo) = "kubebin" THEN Kube ELSE <<>>
  BY DEF Begins, programs, past
<1>2. PICK x \in Steps : x = Head(todo)
  BY TailShape DEF Begins, IInv, TypeOK, Control
<1>3. at' = Entry(x)
  BY <1>2 DEF Begins
<1>4. Entry(x) \notin {"fill", "chmod", "kubelet"} /\ (Entry(x) = "create" => x = "kubebin")
  BY DEF Entry, Steps
<1>5. CASE x = "kubebin"
  <2>1. PICK b \in KubeBins : ~Executable(b)
    BY <1>1, <1>2, <1>5 DEF Skip, KubeBinsThere
  <2>2. ~Whole(b)
    BY <2>1 DEF Executable, Whole
  <2>3. ~Whole("kubectl")
    BY <2>2 DEF IInv, BinInv, Whole, KubeBins
  <2>4. Patchy'
    BY <1>1, <2>3 DEF Patchy, Whole
  <2>5. Elems(bins') = KubeBins
    <3>1. Elems(Kube) = KubeBins
      BY DEF Elems, Kube, KubeBins
    <3>2. QED
      BY <1>1, <1>2, <1>5, <3>1
  <2>6. Elems(bins)' = KubeBins
    BY <2>5 DEF Elems
  <2>7. \A b_1 \in KubeBins : exe[b_1] = "partx" => "kubebin" \in broken'
    BY <1>1 DEF IInv, BinInv
  <2>8. at' = "create"
    BY <1>3, <1>5 DEF Entry
  <2>9. QED
    BY <1>1, <2>4, <2>6, <2>7, <2>8 DEF IInv, BinInv, Whole
<1>6. CASE x # "kubebin"
  <2>1. at' \notin {"create", "fill", "chmod", "kubelet"}
    BY <1>3, <1>4, <1>6
  <2>2. QED
    BY <1>1, <2>1, BinLeft
<1>7. QED
  BY <1>5, <1>6


\* The lists of binaries still to copy, by their first one.
LEMMA BinLists ==
  ASSUME NEW z \in {Kube, <<"kubelet", "kubectl">>, <<"kubectl">>}
  PROVE  /\ Head(z) \in KubeBins /\ Head(z) \in Elems(z)
         /\ Head(z) = "kubeadm" => Tail(z) # <<>> /\ Elems(Tail(z)) = {"kubelet", "kubectl"}
         /\ Head(z) = "kubelet" => Tail(z) # <<>> /\ Elems(Tail(z)) = {"kubectl"} /\ "kubeadm" \notin Elems(z)
         /\ Head(z) = "kubectl" => Tail(z) = <<>> /\ Elems(z) = {"kubectl"}
<1>1. CASE z = Kube
  <2>1. Head(z) = "kubeadm" /\ "kubeadm" \in Elems(z)
    BY <1>1 DEF Kube, Elems
  <2>2. Tail(z) # <<>> /\ Elems(Tail(z)) = {"kubelet", "kubectl"}
    BY <1>1, Tails DEF Kube, Elems
  <2>3. QED
    BY <2>1, <2>2 DEF KubeBins
<1>2. CASE z = <<"kubelet", "kubectl">>
  <2>1. Head(z) = "kubelet" /\ Elems(z) = {"kubelet", "kubectl"}
    BY <1>2 DEF Elems
  <2>2. Tail(z) # <<>> /\ Elems(Tail(z)) = {"kubectl"}
    BY <1>2, Tails DEF Elems
  <2>3. QED
    BY <2>1, <2>2 DEF KubeBins
<1>3. CASE z = <<"kubectl">>
  <2>1. Head(z) = "kubectl" /\ Tail(z) = <<>> /\ Elems(z) = {"kubectl"}
    BY <1>3, Tails DEF Elems
  <2>2. QED
    BY <2>1 DEF KubeBins
<1>4. QED
  BY <1>1, <1>2, <1>3

\* Containerd's binary is none of them.
LEMMA CopyContainerd ==
  ASSUME IInv, BinCreate \/ BinFill \/ BinChmod, Head(todo) = "artifacts"
  PROVE  BinInv'
<1>0. at \in {"create", "fill", "chmod"}
  BY DEF BinCreate, BinFill, BinChmod
<1>1. Head(bins) = "containerd"
  BY <1>0 DEF IInv, Control
<1>15. Tail(bins) = <<>>
  BY <1>0, Tails DEF IInv, Control
<1>2. exe \in [Bins -> {"none", "part", "plain", "partx", "good"}] /\ "containerd" \in Bins
  BY DEF IInv, TypeOK, Bins
<1>3. UNCHANGED <<todo, apt, broken>>
  BY DEF BinCreate, BinFill, BinChmod, GoesTo, past
<1>4. at \in {"create", "fill", "chmod"} /\ (at = "fill" => exe["containerd"] \in {"part", "partx"})
  BY <1>1 DEF BinCreate, BinFill, BinChmod, IInv, BinInv
<1>5. \/ at' = "fill" /\ bins' = bins /\ exe'["containerd"] \in {"part", "partx"}
      \/ at' = "chmod" /\ bins' = bins /\ exe'["containerd"] \in {"plain", "good"}
      \/ at' = "reload"
  BY <1>1, <1>15, <1>2, <1>4 DEF BinCreate, BinFill, BinChmod, GoesTo, Truncated
<1>6. \A b \in KubeBins : exe'[b] = exe[b]
  BY <1>1, <1>2 DEF BinCreate, BinFill, BinChmod, Truncated, KubeBins, Bins
<1>7. Patchy' <=> Patchy
  BY <1>3, <1>6 DEF Patchy, Whole, KubeBins
<1>8. \A b \in KubeBins : exe[b] = "partx" => "kubebin" \in broken /\ Patchy
  BY <1>1 DEF IInv, BinInv, KubeBins
<1>9. \A b \in KubeBins : exe'[b] = "partx" => "kubebin" \in broken' /\ Patchy'
  BY <1>3, <1>6, <1>7, <1>8
<1>10. ~Whole("kubeadm") => exe["kubelet"] = "none"
  BY DEF IInv, BinInv
<1>11. ~Whole("kubelet") => exe["kubectl"] = "none"
  BY DEF IInv, BinInv
<1>12. /\ ~Whole("kubeadm")' => exe'["kubelet"] = "none"
       /\ ~Whole("kubelet")' => exe'["kubectl"] = "none"
  BY <1>6, <1>10, <1>11 DEF Whole, KubeBins
<1>13. ~Copying'
  BY <1>3 DEF Copying
<1>14. QED
  BY <1>1, <1>5, <1>9, <1>12, <1>13 DEF BinInv

\* A binary of the list is copied: created, filled, made executable.
LEMMA CopyKube ==
  ASSUME IInv, BinCreate \/ BinFill \/ BinChmod, Head(todo) = "kubebin"
  PROVE  BinInv'
<1>1. bins \in {Kube, <<"kubelet", "kubectl">>, <<"kubectl">>}
  BY DEF IInv, Control, BinCreate, BinFill, BinChmod
<1>2. PICK b \in KubeBins : b = Head(bins) /\ b \in Elems(bins)
  BY <1>1, BinLists
<1>3. exe \in [Bins -> {"none", "part", "plain", "partx", "good"}] /\ KubeBins \subseteq Bins
  BY DEF IInv, TypeOK, Bins
<1>4. UNCHANGED <<todo, apt, broken>> /\ Copying
  BY DEF BinCreate, BinFill, BinChmod, GoesTo, past, Copying
<1>5. /\ Patchy
      /\ \A c \in KubeBins : c \in Elems(bins) \/ exe[c] = "good"
      /\ \A c \in KubeBins \ {b} : exe[c] = "partx" => "kubebin" \in broken
      /\ at = "fill" => exe[b] \in {"part", "partx"}
      /\ at = "chmod" => exe[b] \in {"plain", "good"}
  BY <1>2, <1>4 DEF IInv, BinInv
<1>6. (~Whole("kubeadm") => exe["kubelet"] = "none") /\ (~Whole("kubelet") => exe["kubectl"] = "none")
  BY DEF IInv, BinInv
<1>7. /\ exe' \in [Bins -> {"none", "part", "plain", "partx", "good"}]
      /\ \A c \in KubeBins \ {b} : exe'[c] = exe[c]
      /\ exe[b] \in {"partx", "good"} => exe'[b] \in {"partx", "good"}
  BY <1>2, <1>3, <1>5 DEF BinCreate, BinFill, BinChmod, Truncated
<1>8. CASE BinCreate \/ BinFill
  <2>1. bins' = bins /\ at' \in {"fill", "chmod"}
    BY <1>8 DEF BinCreate, BinFill, GoesTo
  <2>2. /\ at' = "fill" => exe'[b] \in {"part", "partx"}
        /\ at' = "chmod" => exe'[b] \in {"plain", "good"}
    BY <1>2, <1>3, <1>5, <1>8 DEF BinCreate, BinFill, GoesTo, Truncated
  <2>3. exe'[b] \in {"partx", "good"} <=> exe[b] \in {"partx", "good"}
    BY <1>2, <1>3, <1>5, <1>8 DEF BinCreate, BinFill, Truncated
  <2>4. Patchy'
    BY <1>4, <1>5, <1>7, <2>3 DEF Patchy, Whole, KubeBins
  <2>5. (b = "kubelet" => exe["kubeadm"] = "good") /\ (b = "kubectl" => exe["kubelet"] = "good")
    BY <1>1, <1>2, <1>5, BinLists DEF KubeBins
  <2>6. ~Whole("kubeadm")' => exe'["kubelet"] = "none"
    BY <1>2, <1>6, <1>7, <2>3, <2>5 DEF Whole, KubeBins
  <2>7. ~Whole("kubelet")' => exe'["kubectl"] = "none"
    BY <1>2, <1>6, <1>7, <2>3, <2>5 DEF Whole, KubeBins
  <2>8. Elems(bins)' = Elems(bins)
    BY <2>1 DEF Elems
  <2>9. \A c \in KubeBins : c \in Elems(bins)' \/ exe'[c] = "good"
    BY <1>2, <1>5, <1>7, <2>8
  <2>10. \A c \in KubeBins : exe'[c] = "partx" => (at' = "fill" /\ c = Head(bins')) \/ "kubebin" \in broken'
    BY <1>2, <1>4, <1>5, <1>7, <2>1, <2>2
  <2>11. QED
    BY <1>2, <2>1, <2>2, <2>4, <2>6, <2>7, <2>9, <2>10 DEF BinInv
<1>9. CASE BinChmod
  <2>1. bins' = Tail(bins) /\ at' = IF Tail(bins) # <<>> THEN "create" ELSE "kubelet"
    BY <1>9 DEF BinChmod
  <2>2. exe'[b] = "good"
    BY <1>2, <1>3, <1>9 DEF BinChmod
  <2>3. (b = "kubelet" => exe["kubeadm"] = "good") /\ (b = "kubectl" => exe["kubeadm"] = "good" /\ exe["kubelet"] = "good")
    BY <1>1, <1>2, <1>5, BinLists DEF KubeBins
  <2>4. ~Whole("kubeadm")' => exe'["kubelet"] = "none"
    BY <1>2, <1>6, <1>7, <2>2, <2>3 DEF Whole, KubeBins
  <2>5. ~Whole("kubelet")' => exe'["kubectl"] = "none"
    BY <1>2, <1>6, <1>7, <2>2, <2>3 DEF Whole, KubeBins
  <2>6. Elems(bins)' = Elems(Tail(bins))
    BY <2>1 DEF Elems
  <2>7. CASE b = "kubectl"
    <3>1. at' = "kubelet" /\ ~Copying'
      BY <1>1, <1>2, <2>1, <2>7, BinLists DEF Copying
    <3>2. \A c \in KubeBins : exe'[c] = "good"
      BY <1>7, <2>2, <2>3, <2>7 DEF KubeBins
    <3>3. KubeBinsThere'
      BY <3>2 DEF KubeBinsThere, Executable
    <3>4. QED
      BY <2>4, <2>5, <3>1, <3>2, <3>3 DEF BinInv
  <2>8. CASE b # "kubectl"
    <3>1. at' = "create"
      BY <1>1, <1>2, <2>1, <2>8, BinLists DEF KubeBins
    <3>2. Patchy'
      BY <1>4, <1>5, <1>7, <2>8 DEF Patchy, Whole, KubeBins
    <3>3. \A c \in KubeBins : c \in Elems(bins)' \/ exe'[c] = "good"
      <4>1. CASE b = "kubeadm"
        BY <1>1, <1>2, <2>2, <2>6, <4>1, BinLists DEF KubeBins
      <4>2. CASE b = "kubelet"
        <5>1. exe'["kubeadm"] = "good"
          BY <1>7, <2>3, <4>2 DEF KubeBins
        <5>2. QED
          BY <1>1, <1>2, <2>2, <2>6, <4>2, <5>1, BinLists DEF KubeBins
      <4>3. QED
        BY <2>8, <4>1, <4>2 DEF KubeBins
    <3>4. \A c \in KubeBins : exe'[c] = "partx" => "kubebin" \in broken'
      BY <1>4, <1>5, <1>7, <2>2
    <3>5. QED
      BY <2>4, <2>5, <3>1, <3>2, <3>3, <3>4 DEF BinInv
  <2>9. QED
    BY <2>7, <2>8
<1>10. QED
  BY <1>8, <1>9


\* The order of the copies, and what a half copy is a sign of.
LEMMA StepBins == ASSUME IInv, [Next]_vars PROVE BinInv'
<1>1. CASE Quiet
  <2>1. exe' = exe /\ apt' = apt
    BY <1>1, QuietDoes DEF files, programs
  <2>2. at' \in {"idle", "between"} /\ broken \subseteq broken'
    BY <1>1, QuietDoes, QuietGrows DEF Fails, Ends, StepDone, Grows
  <2>3. at = "fill" => todo # <<>> /\ Fails
    BY <1>1, QuietDoes, Places_
  <2>4. at = "fill" => Head(todo) \in broken'
    BY <2>3 DEF Fails, Ends
  <2>5. QED
    BY <2>1, <2>2, <2>4, BinLeft
<1>2. CASE Changes
  <2>0. broken \subseteq broken'
    BY <1>2, ChangesGrow DEF Grows
  <2>1. CASE BinCreate \/ BinFill \/ BinChmod
    <3>1. Head(todo) \in {"artifacts", "kubebin"}
      BY <2>1 DEF IInv, Control, BinCreate, BinFill, BinChmod
    <3>2. QED
      BY <2>1, <3>1, CopyContainerd, CopyKube
  <2>2. CASE ExtractEnds
    <3>1. /\ at = "unpack" /\ at' = "create" /\ bins' = <<"containerd">>
          /\ UNCHANGED <<exe, apt, todo, broken>>
      BY <2>2 DEF ExtractEnds, programs, past
    <3>2. Head(todo) = "artifacts"
      BY <1>2, <3>1, ChangesAt DEF StepAt
    <3>3. Patchy' <=> Patchy
      BY <3>1 DEF Patchy, Whole
    <3>4. QED
      BY <3>1, <3>2, <3>3 DEF IInv, BinInv, Copying, Whole
  <2>3. CASE ExtractBegins \/ \E got \in {"right", "wrong"} : Fetch(got)
    <3>1. exe' = exe /\ apt' = apt /\ at # "fill" /\ at' \in {"idle", "extract", "unpack"}
      BY <2>3 DEF ExtractBegins, Fetch, Ends, GoesTo, programs
    <3>2. QED
      BY <2>0, <3>1, BinLeft
  <2>4. CASE SwapOff \/ Sysctl \/ Reload \/ Config \/ Enable \/ Restart \/ Kubelet
    <3>1. at' \in {"idle", "between", "sysctl", "enable", "restart"}
      BY <2>4 DEF SwapOff, Sysctl, Reload, Config, Enable, Restart, Kubelet, Ran, Ends, StepDone, GoesTo
    <3>2. exe' = exe /\ apt' = apt /\ at # "fill"
      BY <2>4 DEF SwapOff, Sysctl, Reload, Config, Enable, Restart, Kubelet, programs, files
    <3>3. QED
      BY <2>0, <3>1, <3>2, BinLeft
  <2>5. CASE AptContainerd \/ AptSed \/ AptRestart \/ (\E b \in Bins : AptUnpack(b)) \/ AptKube
    <3>1. at' \in {"idle", "between", "sed", "apt-restart", "apt-kube"}
      BY <2>5 DEF AptContainerd, AptSed, AptRestart, AptUnpack, AptKube, Ran, Ends, StepDone, GoesTo, run
    <3>2. exe' = exe /\ apt \subseteq apt' /\ at # "fill"
      BY <2>5 DEF AptContainerd, AptSed, AptRestart, AptUnpack, AptKube, programs, files
    <3>3. QED
      BY <2>0, <3>1, <3>2, BinLeft
  <2>6. CASE VipBegins \/ VipWritten \/ KubeadmGoesOn
    <3>1. at' \in {"between", "write", "kubeadm"} /\ exe' = exe /\ apt' = apt /\ at # "fill"
      BY <2>6 DEF VipBegins, VipWritten, KubeadmGoesOn, StepDone, GoesTo, run, programs
    <3>2. QED
      BY <2>0, <3>1, BinLeft
  <2>7. QED
    BY <1>2, <2>1, <2>2, <2>3, <2>4, <2>5, <2>6 DEF Changes
<1>3. CASE Cancel \/ UNCHANGED vars
  <2>1. UNCHANGED <<exe, apt, todo, bins, at, broken>>
    BY <1>3 DEF Cancel, vars, run, files, programs, past
  <2>2. BinInv
    BY DEF IInv
  <2>3. QED
    BY <2>1, <2>2 DEF BinInv, Copying, Patchy, Whole, Elems, KubeBinsThere, Executable
<1>4. CASE Reboot
  <2>1. exe' = exe /\ apt' = apt /\ at' = "idle"
    BY <1>4 DEF Reboot, files, programs, Ends, run
  <2>2. CASE at = "idle"
    BY <1>4, <2>1, <2>2, BinLeft DEF Reboot, past
  <2>3. CASE at # "idle"
    <3>1. at = "fill" => todo # <<>>
      BY DEF IInv, Control
    <3>2. broken \subseteq broken' /\ (at = "fill" => Head(todo) \in broken')
      BY <1>4, <2>3, <3>1 DEF Reboot, Ends
    <3>3. QED
      BY <2>1, <3>2, BinLeft
  <2>4. QED
    BY <2>2, <2>3
<1>5. CASE Reset \/ \E s \in Specs : Start(s)
  <2>1. /\ exe' = exe /\ apt' = apt /\ at' \in {"idle", "between"} /\ at # "fill"
        /\ "kubebin" \in broken => "kubebin" \in broken'
    BY <1>5 DEF Reset, Start, files, programs
  <2>2. QED
    BY <2>1, BinLeft
<1>6. QED
  BY <1>1, <1>2, <1>3, <1>4, <1>5, BeginsBins, NextCases


\* Nothing that the units hang on is touched, and a step in which they are set up does not end
\* well without having done it.
LEMMA UnitLeft ==
  ASSUME IInv, UNCHANGED <<kept, cconf, enabled, exe, apt, found>>, ready' => ready \/ kept \/ found,
         cconf = "patched" /\ crun' = "default" => crun = "default",
         \A x \in Setup \cup Install_ : x \in broken => x \in broken',
         at' \notin {"sysctl", "enable", "restart", "apt-restart", "sed"},
         at \in {"create", "fill", "chmod", "kubelet", "apt-kube", "enable", "restart", "apt-restart"}
           => Head(todo) \in broken'
  PROVE  UnitInv'
<1>1. (Cut(Setup) => Cut(Setup)') /\ (Cut(Install_) => Cut(Install_)')
  BY DEF Cut
<1>2. KubeBinsThere' <=> KubeBinsThere
  BY DEF KubeBinsThere, Executable
<1>3. at \in {"enable", "restart", "apt-restart"} => Cut(Setup)' /\ (at = "enable" => "containerd" \in broken')
  BY DEF IInv, Control, StepAt, Cut, Setup
<1>4. Copying \/ at \in {"kubelet", "apt-kube"} => Cut(Install_)'
  BY DEF IInv, Control, StepAt, Cut, Install_, Copying
<1>5. UnitInv
  BY DEF IInv
<1>6. /\ ready' => kept' \/ found'
      /\ cconf' = "patched" /\ crun' = "default" => Cut(Setup)'
      /\ cconf' = "patched" => "containerd" \in enabled' \/ "containerd" \in broken'
  BY <1>1, <1>3, <1>5 DEF UnitInv, Setup
<1>7. KubeBinsThere' => "kubelet" \in enabled' \/ Cut(Install_)'
  BY <1>1, <1>2, <1>4, <1>5 DEF UnitInv
<1>8. QED
  BY <1>6, <1>7 DEF UnitInv

\* The steps that set the units up.
LEMMA SetupUnits ==
  ASSUME IInv, SwapOff \/ Sysctl \/ Config \/ Enable \/ Restart \/ Kubelet
  PROVE  UnitInv'
<1>1. UnitInv /\ (at = "enable" => Head(todo) = "containerd" /\ todo # <<>>) /\ broken \subseteq broken'
  BY ChangesGrow DEF IInv, Control, StepAt, Changes, Grows
<1>2. UNCHANGED <<exe, apt, found>> /\ enabled \subseteq enabled'
  BY DEF SwapOff, Sysctl, Config, Enable, Restart, Kubelet, files, programs, Ran, Ends, StepDone, GoesTo, past
<1>3. (KubeBinsThere' <=> KubeBinsThere) /\ (Cut(Setup) => Cut(Setup)') /\ (Cut(Install_) => Cut(Install_)')
  BY <1>1, <1>2 DEF KubeBinsThere, Executable, Cut
<1>4. ~Copying /\ (Kubelet \/ at # "kubelet") /\ at # "apt-kube"
  BY DEF SwapOff, Sysctl, Config, Enable, Restart, Kubelet, Copying
<1>5. Kubelet => "kubelet" \in enabled'
  BY DEF Kubelet
<1>6. KubeBinsThere' => "kubelet" \in enabled' \/ Cut(Install_)'
  BY <1>1, <1>2, <1>3, <1>4, <1>5 DEF UnitInv
<1>7. CASE SwapOff
  <2>1. at = "swapoff" /\ UNCHANGED <<ready, cconf, crun, enabled>> /\ at' \in {"idle", "sysctl"}
    BY <1>7 DEF SwapOff, Ran, Ends, GoesTo, running
  <2>2. (at' = "sysctl" => kept') /\ (kept => kept')
    BY <1>7 DEF SwapOff, Ran, Ends, GoesTo
  <2>3. QED
    BY <1>1, <1>2, <1>3, <1>6, <2>1, <2>2 DEF UnitInv
<1>8. CASE Sysctl
  <2>1. at = "sysctl" /\ UNCHANGED <<kept, cconf, crun, enabled>> /\ at' \in {"idle", "between"}
    BY <1>8 DEF Sysctl, Ran, Ends, StepDone, files
  <2>2. QED
    BY <1>1, <1>2, <1>3, <1>6, <2>1 DEF UnitInv
<1>9. CASE Config
  <2>1. at' = "enable" /\ cconf' = "patched" /\ UNCHANGED <<ready, kept>>
    BY <1>9 DEF Config, GoesTo, running
  <2>2. QED
    BY <1>1, <1>2, <1>6, <2>1 DEF UnitInv
<1>10. CASE Enable
  <2>1. /\ at = "enable" /\ at' \in {"idle", "restart"} /\ UNCHANGED <<ready, kept, cconf, crun>>
        /\ "containerd" \in enabled'
    BY <1>10 DEF Enable, Ran, Ends, GoesTo, running
  <2>2. at' = "idle" => "containerd" \in broken'
    BY <1>1, <1>10 DEF Enable, Ran, Ends, GoesTo
  <2>3. at' = "idle" => Cut(Setup)'
    BY <2>2 DEF Cut, Setup
  <2>4. QED
    BY <1>1, <1>2, <1>6, <2>1, <2>3 DEF UnitInv
<1>11. CASE Restart
  <2>1. /\ at = "restart" /\ at' \in {"idle", "between"} /\ UNCHANGED <<ready, kept, cconf, enabled>>
        /\ crun' = cconf /\ cconf = "patched"
    BY <1>1, <1>11 DEF Restart, Ran, Ends, StepDone, files, UnitInv
  <2>2. QED
    BY <1>1, <1>2, <1>6, <2>1 DEF UnitInv
<1>12. CASE Kubelet
  <2>1. at = "kubelet" /\ at' \in {"idle", "between"} /\ UNCHANGED <<ready, kept, cconf, crun>>
    BY <1>12 DEF Kubelet, Ran, Ends, StepDone, running
  <2>2. QED
    BY <1>1, <1>2, <1>3, <1>6, <2>1 DEF UnitInv
<1>13. QED
  BY <1>7, <1>8, <1>9, <1>10, <1>11, <1>12

\* Those of the packages.
LEMMA AptUnits ==
  ASSUME IInv, AptContainerd \/ AptSed \/ AptRestart \/ (\E b \in Bins : AptUnpack(b)) \/ AptKube
  PROVE  UnitInv'
<1>1. UnitInv /\ broken \subseteq broken'
  BY ChangesGrow DEF IInv, Changes, Grows
<1>2. UNCHANGED <<exe, found, ready, kept>> /\ enabled \subseteq enabled'
  BY DEF AptContainerd, AptSed, AptRestart, AptUnpack, AptKube, files, programs, running, Ran, Ends, StepDone, GoesTo, past
<1>3. (Cut(Setup) => Cut(Setup)') /\ (Cut(Install_) => Cut(Install_)')
  BY <1>1 DEF Cut
<1>4. CASE AptContainerd \/ AptSed \/ AptRestart
  <2>1. \A b \in KubeBins : b \in apt' <=> b \in apt
    BY <1>4 DEF AptContainerd, AptSed, AptRestart, files, programs, KubeBins
  <2>2. KubeBinsThere' <=> KubeBinsThere
    BY <1>2, <2>1 DEF KubeBinsThere, Executable
  <2>3. ~Copying /\ at \notin {"kubelet", "apt-kube"}
    BY <1>4 DEF AptContainerd, AptSed, AptRestart, Copying
  <2>4. KubeBinsThere' => "kubelet" \in enabled' \/ Cut(Install_)'
    BY <1>1, <1>2, <1>3, <2>2, <2>3 DEF UnitInv
  <2>5. CASE AptContainerd
    <3>1. at' = "sed" /\ cconf' = "default" /\ "containerd" \in enabled'
      BY <2>5 DEF AptContainerd, GoesTo
    <3>2. QED
      BY <1>1, <1>2, <2>4, <3>1 DEF UnitInv
  <2>6. CASE AptSed
    <3>1. at = "sed" /\ at' = "apt-restart" /\ cconf' = "patched"
      BY <2>6 DEF AptSed, GoesTo
    <3>2. QED
      BY <1>1, <1>2, <2>4, <3>1 DEF UnitInv
  <2>7. CASE AptRestart
    <3>1. at = "apt-restart" /\ at' \in {"idle", "between"} /\ crun' = cconf /\ cconf' = cconf /\ cconf = "patched"
      BY <1>1, <2>7 DEF AptRestart, Ran, Ends, StepDone, files, UnitInv
    <3>2. QED
      BY <1>1, <1>2, <2>4, <3>1 DEF UnitInv
  <2>8. QED
    BY <1>4, <2>5, <2>6, <2>7
<1>5. CASE \E b \in Bins : AptUnpack(b)
  <2>1. at = "apt-kube" /\ at' = at /\ UNCHANGED <<cconf, crun, enabled, broken>>
    BY <1>5 DEF AptUnpack, run, past, running
  <2>2. QED
    BY <1>1, <1>2, <1>3, <2>1 DEF UnitInv
<1>6. CASE AptKube
  <2>1. at = "apt-kube" /\ at' \in {"idle", "between"} /\ UNCHANGED <<cconf, crun>> /\ "kubelet" \in enabled'
    BY <1>6 DEF AptKube, Ran, Ends, StepDone, running
  <2>2. QED
    BY <1>1, <1>2, <1>3, <2>1 DEF UnitInv
<1>7. QED
  BY <1>4, <1>5, <1>6

\* And the copies, after whose last one comes the kubelet's unit.
LEMMA CopyUnits == ASSUME IInv, BinCreate \/ BinFill \/ BinChmod PROVE UnitInv'
<1>1. UnitInv /\ UNCHANGED <<ready, kept, cconf, crun, enabled, apt, found, broken, todo>>
  BY DEF IInv, BinCreate, BinFill, BinChmod, GoesTo, running, past
<1>2. /\ at \in {"create", "fill", "chmod"} /\ Head(todo) \in {"artifacts", "kubebin"}
      /\ at' \in {"fill", "chmod", "create", "reload", "kubelet"}
      /\ at' = "reload" => Head(todo) = "artifacts"
  BY DEF IInv, Control, BinCreate, BinFill, BinChmod, GoesTo
<1>3. CASE Head(todo) = "kubebin"
  <2>1. Copying' \/ at' = "kubelet"
    BY <1>1, <1>2, <1>3 DEF Copying
  <2>2. QED
    BY <1>1, <1>2, <2>1 DEF UnitInv, Cut
<1>4. CASE Head(todo) = "artifacts"
  <2>1. Head(bins) = "containerd"
    BY <1>2, <1>4 DEF IInv, Control
  <2>2. exe \in [Bins -> {"none", "part", "plain", "partx", "good"}]
    BY DEF IInv, TypeOK
  <2>3. \A b \in KubeBins : exe'[b] = exe[b]
    BY <2>1, <2>2 DEF BinCreate, BinFill, BinChmod, Truncated, KubeBins, Bins
  <2>4. KubeBinsThere' <=> KubeBinsThere
    BY <1>1, <2>3 DEF KubeBinsThere, Executable
  <2>5. ~Copying
    BY <1>4 DEF Copying
  <2>6. QED
    BY <1>1, <1>2, <2>4, <2>5 DEF UnitInv, Cut
<1>5. QED
  BY <1>2, <1>3, <1>4


\* What is running, written and enabled fits together.
LEMMA StepUnits == ASSUME IInv, [Next]_vars PROVE UnitInv'
<1> DEFINE Busy_ == {"create", "fill", "chmod", "kubelet", "apt-kube", "enable", "restart", "apt-restart"}
<1>1. CASE Quiet
  <2>1. UNCHANGED <<kept, cconf, enabled, exe, apt, ready, crun>>
    BY <1>1, QuietDoes DEF files, programs, running
  <2>2. at' \in {"idle", "between"} /\ broken \subseteq broken' /\ found' = found
    BY <1>1, QuietDoes, QuietGrows DEF Fails, Ends, StepDone, Grows
  <2>3. at \in Busy_ => todo # <<>> /\ Fails
    BY <1>1, QuietDoes, Places_
  <2>4. at \in Busy_ => Head(todo) \in broken'
    BY <2>3 DEF Fails, Ends
  <2>5. QED
    BY <2>1, <2>2, <2>4, UnitLeft
<1>2. CASE Changes
  <2>1. broken \subseteq broken' /\ found' = found
    BY <1>2, ChangesGrow DEF Grows
  <2>2. CASE Reload \/ ExtractBegins \/ ExtractEnds \/ \E got \in {"right", "wrong"} : Fetch(got)
    <3>1. UNCHANGED <<kept, cconf, enabled, exe, apt, ready, crun>>
      BY <2>2 DEF Reload, ExtractBegins, ExtractEnds, Fetch, programs, running
    <3>2. at \notin Busy_ /\ at' \in {"idle", "between", "extract", "unpack", "create"}
      BY <2>2 DEF Reload, ExtractBegins, ExtractEnds, Fetch, Ran, Ends, StepDone, GoesTo
    <3>3. QED
      BY <2>1, <3>1, <3>2, UnitLeft
  <2>3. CASE VipBegins \/ VipWritten \/ KubeadmGoesOn
    <3>1. UNCHANGED <<kept, cconf, enabled, exe, apt, ready, crun>>
      BY <2>3 DEF VipBegins, VipWritten, KubeadmGoesOn, programs, running
    <3>2. at \notin Busy_ /\ at' \in {"between", "write", "kubeadm"}
      BY <2>3 DEF VipBegins, VipWritten, KubeadmGoesOn, StepDone, GoesTo, run
    <3>3. QED
      BY <2>1, <3>1, <3>2, UnitLeft
  <2>4. QED
    BY <1>2, <2>2, <2>3, SetupUnits, AptUnits, CopyUnits DEF Changes
<1>3. CASE Begins
  <2>1. /\ at = "between" /\ UNCHANGED <<kept, cconf, enabled, exe, apt, ready, crun, found, broken>>
    BY <1>3 DEF Begins, programs, running, past
  <2>2. PICK x \in Steps : x = Head(todo)
    BY <1>3, TailShape DEF Begins, IInv, TypeOK, Control
  <2>3. at' = Entry(x) /\ Entry(x) \notin {"sysctl", "enable", "restart", "apt-restart", "sed"}
    BY <1>3, <2>2 DEF Begins, Entry, Steps
  <2>4. QED
    BY <2>1, <2>3, UnitLeft
<1>4. CASE Cancel \/ UNCHANGED vars
  <2>1. UNCHANGED <<kept, cconf, enabled, exe, apt, ready, crun, found, broken, at, todo>>
    BY <1>4 DEF Cancel, vars, run, files, programs, running, past
  <2>2. UnitInv
    BY DEF IInv
  <2>3. QED
    BY <2>1, <2>2 DEF UnitInv, Cut, KubeBinsThere, Executable, Copying
<1>5. CASE Reset
  <2>1. /\ at = "idle" /\ at' = "idle" /\ UNCHANGED <<kept, cconf, enabled, exe, apt, ready, found>>
        /\ \A x \in Setup \cup Install_ : x \in broken => x \in broken'
    BY <1>5 DEF Reset, programs, Setup, Install_
  <2>2. cconf = "patched" => crun' \in {"patched", "down"}
    BY <1>5 DEF Reset, Reads
  <2>3. QED
    BY <2>1, <2>2, UnitLeft
<1>6. CASE Reboot
  <2>1. at' = "idle" /\ UNCHANGED <<kept, cconf, enabled, exe, apt, found>> /\ (ready' => ready \/ kept \/ found)
    BY <1>6 DEF Reboot, files, programs, Ends, run, past
  <2>2. cconf = "patched" => crun' \in {"patched", "down"}
    BY <1>6 DEF Reboot, Reads
  <2>3. CASE at = "idle"
    BY <1>6, <2>1, <2>2, <2>3, UnitLeft DEF Reboot, past
  <2>4. CASE at # "idle"
    <3>1. at \in Busy_ => todo # <<>>
      BY DEF IInv, Control
    <3>2. broken \subseteq broken' /\ (at \in Busy_ => Head(todo) \in broken')
      BY <1>6, <2>4, <3>1 DEF Reboot, Ends
    <3>3. QED
      BY <2>1, <2>2, <3>2, UnitLeft
  <2>5. QED
    BY <2>3, <2>4
<1>7. CASE \E s \in Specs : Start(s)
  <2>1. at = "idle" /\ at' = "between" /\ UNCHANGED <<kept, cconf, enabled, exe, apt, ready, crun, found, broken>>
    BY <1>7 DEF Start, files, programs, running
  <2>2. QED
    BY <2>1, UnitLeft
<1>8. QED
  BY <1>1, <1>2, <1>3, <1>4, <1>5, <1>6, <1>7, NextCases

\* kubeadm and kube-vip's manifest are left alone, and ended in only with a note of it.
LEMMA NodeLeft ==
  ASSUME IInv, UNCHANGED <<node, vip, spec, unreset>>, broken \subseteq broken',
         at = "kubeadm" => at' = at \/ node.got = "full" \/ Head(todo) \in broken',
         at = "write" => at' = at \/ Head(todo) \in broken'
  PROVE  NodeInv'
<1>1. (at = "kubeadm" => Head(todo) = "kubeadm") /\ (at = "write" => Head(todo) = "kubevip")
  BY DEF IInv, Control, StepAt
<1>2. NodeInv
  BY DEF IInv
<1>3. QED
  BY <1>1, <1>2 DEF NodeInv

\* The member and the VIP are of the run's spec, unless it was moved without a reset.
LEMMA StepNode == ASSUME IInv, [Next]_vars PROVE NodeInv'
<1>1. CASE Quiet
  <2>1. node' = node /\ vip' = vip
    BY <1>1, QuietDoes DEF files
  <2>2. UNCHANGED <<spec, unreset>> /\ broken \subseteq broken'
    BY <1>1, QuietGrows DEF Grows
  <2>3. ASSUME at \in {"kubeadm", "write"}, ~(at = "kubeadm" /\ node.got = "full") PROVE Head(todo) \in broken'
    <3>1. todo # <<>>
      BY <2>3, Places_
    <3>2. Fails
      BY <1>1, <2>3, QuietDoes
    <3>3. QED
      BY <3>1, <3>2 DEF Fails, Ends
  <2>4. at \in {"kubeadm", "write"} => Head(todo) \in broken' \/ (at = "kubeadm" /\ node.got = "full")
    BY <2>3
  <2>5. QED
    BY <2>1, <2>2, <2>4, NodeLeft
<1>2. CASE Changes
  <2>1. UNCHANGED <<spec, unreset>> /\ broken \subseteq broken'
    BY <1>2, ChangesGrow DEF Grows
  <2>2. spec # None /\ spec.k \in Clusters /\ NodeInv
    BY <1>2, ChangesAt DEF IInv
  <2>3. CASE VipBegins
    <3>1. at = "manifest" /\ at' = "write" /\ vip' = "torn" /\ node' = node
      BY <2>3 DEF VipBegins, GoesTo
    <3>2. QED
      BY <2>1, <2>2, <3>1 DEF NodeInv
  <2>4. CASE VipWritten
    <3>1. at = "write" /\ vip' = spec.k /\ node' = node
      BY <2>4 DEF VipWritten
    <3>2. QED
      BY <2>1, <2>2, <3>1 DEF NodeInv
  <2>5. CASE KubeadmGoesOn
    <3>1. at = "kubeadm" /\ at' = at /\ vip' = vip /\ node'.k = spec.k /\ node'.role = spec.role
      BY <2>5 DEF KubeadmGoesOn, run
    <3>2. QED
      BY <2>1, <2>2, <3>1 DEF NodeInv
  <2>6. CASE ~(VipBegins \/ VipWritten \/ KubeadmGoesOn)
    <3>1. node' = node /\ vip' = vip /\ at \notin {"kubeadm", "write"}
      <4>1. CASE SwapOff \/ Sysctl \/ Reload \/ Config \/ Enable \/ Restart \/ Kubelet
        BY <4>1 DEF SwapOff, Sysctl, Reload, Config, Enable, Restart, Kubelet, files
      <4>2. CASE AptContainerd \/ AptSed \/ AptRestart \/ (\E b \in Bins : AptUnpack(b)) \/ AptKube
        BY <4>2 DEF AptContainerd, AptSed, AptRestart, AptUnpack, AptKube, files
      <4>3. CASE BinCreate \/ BinFill \/ BinChmod \/ ExtractBegins \/ ExtractEnds \/ \E got \in {"right", "wrong"} : Fetch(got)
        BY <4>3 DEF BinCreate, BinFill, BinChmod, ExtractBegins, ExtractEnds, Fetch
      <4>4. QED
        BY <1>2, <2>6, <4>1, <4>2, <4>3 DEF Changes
    <3>2. QED
      BY <2>1, <3>1, NodeLeft
  <2>7. QED
    BY <2>3, <2>4, <2>5, <2>6
<1>3. CASE Begins
  <2>1. at = "between" /\ UNCHANGED <<node, vip, spec, unreset, broken>>
    BY <1>3 DEF Begins, past
  <2>2. QED
    BY <2>1, NodeLeft
<1>4. CASE Cancel \/ UNCHANGED vars
  <2>1. UNCHANGED <<node, vip, spec, unreset, broken, at>>
    BY <1>4 DEF Cancel, vars, run, files, past
  <2>2. QED
    BY <2>1, NodeLeft
<1>5. CASE Reset
  <2>1. node' = NoNode /\ vip' = None /\ spec' = None /\ unreset' = FALSE
    BY <1>5 DEF Reset, Wiped
  <2>2. QED
    BY <2>1 DEF NodeInv, NoNode
<1>6. CASE Reboot
  <2>1. node' = node /\ vip' = vip
    BY <1>6 DEF Reboot, files
  <2>2. CASE at = "idle"
    BY <1>6, <2>1, <2>2, NodeLeft DEF Reboot, run, past
  <2>3. CASE at # "idle"
    <3>1. at \in {"kubeadm", "write"} => todo # <<>>
      BY DEF IInv, Control
    <3>2. /\ UNCHANGED <<spec, unreset>> /\ broken \subseteq broken'
          /\ at \in {"kubeadm", "write"} => Head(todo) \in broken'
      BY <1>6, <2>3, <3>1 DEF Reboot, Ends
    <3>3. QED
      BY <2>1, <3>2, NodeLeft
  <2>4. QED
    BY <2>2, <2>3
<1>7. CASE \E s \in Specs : Start(s)
  <2>1. PICK s \in Specs : Start(s)
    BY <1>7
  <2>2. at = "idle" /\ spec' = s /\ s # None /\ UNCHANGED <<node, vip, broken>>
    BY <2>1 DEF Start, files
  <2>3. NodeInv
    BY DEF IInv
  <2>4. CASE spec # None /\ (s.k # spec.k \/ s.role # spec.role)
    <3>1. unreset'
      BY <2>1, <2>4 DEF Start
    <3>2. QED
      BY <2>2, <2>3, <3>1 DEF NodeInv
  <2>5. CASE spec = None
    <3>1. node = NoNode /\ vip = None
      BY <2>3, <2>5 DEF NodeInv
    <3>2. QED
      BY <2>2, <3>1 DEF NodeInv, NoNode
  <2>6. CASE spec # None /\ s.k = spec.k /\ s.role = spec.role
    <3>1. unreset' = unreset
      BY <2>1, <2>6 DEF Start, IInv, TypeOK
    <3>2. QED
      BY <2>2, <2>3, <2>6, <3>1 DEF NodeInv
  <2>7. QED
    BY <2>4, <2>5, <2>6
<1>8. QED
  BY <1>1, <1>2, <1>3, <1>4, <1>5, <1>6, <1>7, NextCases


-----------------------------------------------------------------------------
(***************************************************************************)
(* The theorems.                                                           *)
(***************************************************************************)
\* Machines as they come, with or without a containerd of their own.
LEMMA InitInv == Init => IInv
<1> SUFFICES ASSUME Init PROVE IInv
  OBVIOUS
<1>1. /\ spec = None /\ todo = <<>> /\ at = "idle" /\ bins = <<>> /\ report = "none" /\ cconf = "none"
      /\ vip = None /\ node = NoNode /\ exe = [b \in Bins |-> "none"] /\ broken = {} /\ unreset = FALSE
      /\ apt \subseteq {"containerd"} /\ (ready => found)
  BY DEF Init
<1>2. RunTypes
  <2>1. <<>> \in Seq(Steps) /\ <<>> \in Seq(Bins)
    OBVIOUS
  <2>2. QED
    BY <1>1, <2>1 DEF Init, RunTypes, Places
<1>3. FileTypes
  <2>1. apt \subseteq Bins /\ unit \in {"none", "apt"} /\ crun \in {"down", "default"} /\ enabled \subseteq {"containerd"}
    BY DEF Init, Bins
  <2>2. kept \in BOOLEAN /\ local \in BOOLEAN /\ ready \in BOOLEAN
    BY Zenon DEF Init
  <2>7. faults \in 0..MaxFaults
    <3>1. faults = 0
      BY DEF Init
    <3>2. QED
      BY <3>1
  <2>3. node \in [k : Clusters \cup {None}, role : {"none", "first-master", "join-master", "worker"},
                  got : {"none", "conf", "up", "full"}]
    BY <1>1 DEF NoNode
  <2>4. exe \in [Bins -> {"none", "part", "plain", "partx", "good"}]
    BY <1>1
  <2>5. archive = "none" /\ bundle = None
    BY DEF Init
  <2>6. QED
    BY <1>1, <2>1, <2>2, <2>3, <2>4, <2>5, <2>7 DEF FileTypes
<1>4. Control
  BY <1>1 DEF Control, Ordered
<1>5. Passed /\ (report = "ok" => Lasting) /\ BundleInv
  BY <1>1 DEF Passed, BundleInv
<1>6. \A b \in KubeBins : exe[b] = "none" /\ b \notin apt
  BY <1>1 DEF Bins, KubeBins
<1>7. BinInv /\ UnitInv
  <2>1. ~KubeBinsThere
    BY <1>6 DEF KubeBinsThere, Executable, KubeBins
  <2>2. QED
    BY <1>1, <1>6, <2>1 DEF BinInv, UnitInv, Copying, KubeBins
<1>8. NodeInv
  BY <1>1 DEF NodeInv, NoNode
<1>9. QED
  BY <1>2, <1>3, <1>4, <1>5, <1>7, <1>8, TypeParts DEF IInv

\* The inductive invariant, from which the rest follows.
THEOREM MachineInvariant == Spec => []IInv
<1>1. IInv /\ [Next]_vars => IInv'
  BY StepTypes, StepControl, StepPassed, StepLasting, StepBundle, StepBins, StepUnits, StepNode DEF IInv
<1>2. QED
  BY InitInv, <1>1, PTL DEF Spec

\* Every variable has its type.
THEOREM TypeCorrect == Spec => []TypeOK
<1>1. IInv => TypeOK
  BY DEF IInv
<1>2. QED
  BY MachineInvariant, <1>1, PTL

\* A planned step of a lower rank than the current one is behind, and has done its work.
LEMMA Behind ==
  ASSUME IInv, at \notin {"idle", "between"}, NEW x \in Planned(spec), Rank(x) < Rank(Head(todo))
  PROVE  Done(x)
<1>1. todo \in Seq(Steps) /\ todo # <<>> /\ Ordered(todo)
  BY DEF IInv, TypeOK, Control
<1>2. Rank(x) \in Nat /\ Rank(Head(todo)) \in Nat
  <2>1. \A y \in Steps : Rank(y) \in Nat
    BY DEF Rank, Steps
  <2>2. Head(todo) \in Steps /\ x \in Steps
    BY <1>1, TailShape DEF Planned, Steps
  <2>3. QED
    BY <2>1, <2>2
<1>3. x \notin Elems(todo)
  BY <1>1, <1>2, TailShape
<1>4. QED
  BY <1>3 DEF IInv, Passed

\* What a run imports, copies and applies is the whole bundle of its own spec, and the right one
\* if its list has a sum, whatever earlier runs were killed over.
THEOREM BundlesAreOwn == Spec => []BundleIsThisRuns
<1>1. ASSUME IInv, at \in {"import", "create", "cni", "addons"}, spec.mode = "bundle" PROVE BundleWhole
  <2>1. spec \in Spec_ /\ Head(todo) \in StepAt(at)
    BY <1>1, Places_
  <2>2. CASE Head(todo) = "artifacts"
    <3>1. at = "create"
      BY <1>1, <2>1, <2>2 DEF StepAt
    <3>2. QED
      BY <1>1, <2>2, <3>1 DEF IInv, BundleInv
  <2>3. CASE Head(todo) # "artifacts"
    <3>1. Head(todo) \in {"images", "kubebin", "cni", "addons"}
      BY <1>1, <2>1, <2>3 DEF StepAt
    <3>2. "artifacts" \in Planned(spec) /\ Rank("artifacts") < Rank(Head(todo))
      BY <1>1, <3>1 DEF Planned, Rank
    <3>3. QED
      BY <1>1, <3>2, Behind DEF Done
  <2>4. QED
    BY <2>2, <2>3
<1>2. IInv => BundleIsThisRuns
  BY <1>1 DEF BundleIsThisRuns, BundleWhole
<1>3. QED
  BY MachineInvariant, <1>2, PTL

\* kubeadm runs with whole binaries and a containerd that has read the patched configuration, up to
\* the leftovers of interrupted runs that the property names.
THEOREM KubeadmIsEquipped == Spec => []KubeadmHasItsTools
<1>1. ASSUME IInv, at = "kubeadm" PROVE KubeadmHasItsTools
  <2>1. spec \in Spec_ /\ Head(todo) = "kubeadm"
    BY <1>1, Places_ DEF StepAt
  <2>2. PICK x \in Install_ : x \in Planned(spec)
    BY <2>1 DEF Planned, Install_
  <2>3. PICK y \in Setup : y \in Planned(spec)
    BY <2>1 DEF Planned, Setup
  <2>4. Rank(x) < Rank(Head(todo)) /\ Rank(y) < Rank(Head(todo))
    BY <2>1 DEF Rank, Install_, Setup
  <2>5. Done(x) /\ Done(y)
    BY <1>1, <2>2, <2>3, <2>4, Behind
  <2>6. KubeBinsThere
    BY <2>5 DEF Done
  <2>7. crun = "patched" \/ Cut(Setup)
    BY <2>5 DEF Done
  <2>8. ASSUME NEW b \in KubeBins, exe[b] = "partx" PROVE "kubebin" \in broken /\ apt \cap KubeBins # {}
    <3>1. "kubebin" \in broken /\ Patchy
      BY <1>1, <2>8 DEF IInv, BinInv
    <3>2. ~Whole("kubectl") => "kubectl" \in apt
      BY <2>6 DEF KubeBinsThere, KubeBins, Executable, Whole
    <3>3. QED
      BY <3>1, <3>2 DEF Patchy, KubeBins
  <2>9. QED
    BY <2>6, <2>7, <2>8 DEF KubeadmHasItsTools, KubeBinsThere, Cut, Setup
<1>2. IInv => KubeadmHasItsTools
  BY <1>1 DEF KubeadmHasItsTools
<1>3. QED
  BY MachineInvariant, <1>2, PTL

\* A machine that was reset between two clusters or roles is, after a success, a member of the
\* cluster its spec names and in that role, and a first master's API server is up.
THEOREM SuccessIsOfThisCluster == Spec => []OkIsOfThisCluster
<1>1. ASSUME IInv, report = "ok", ~unreset PROVE OkIsOfThisCluster
  <2>1. at = "idle" /\ spec # None /\ Lasting /\ NodeInv /\ TypeOK
    BY <1>1 DEF IInv, Control
  <2>2. node.k = spec.k /\ node.role = spec.role
    BY <1>1, <2>1 DEF Lasting, NodeInv
  <2>3. spec.role = "first-master" => ApiUp
    BY <2>1 DEF Lasting
  <2>4. QED
    BY <2>2, <2>3 DEF OkIsOfThisCluster
<1>2. IInv => OkIsOfThisCluster
  BY <1>1 DEF OkIsOfThisCluster
<1>3. QED
  BY MachineInvariant, <1>2, PTL

\* After a success, what a member needs is set up to come back after a reboot.
THEOREM SuccessSurvives == Spec => []OkSurvivesReboot
<1>1. IInv => OkSurvivesReboot
  BY DEF IInv, Lasting, OkSurvivesReboot, Cut, Install_
<1>2. QED
  BY MachineInvariant, <1>1, PTL

=============================================================================

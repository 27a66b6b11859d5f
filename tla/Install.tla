------------------------------ MODULE Install ------------------------------
(***************************************************************************)
(* Installing Kubernetes on one machine (internal/installer): the engine   *)
(* that runs an InstallSpec step by step, what the steps read and leave on *)
(* the machine, and what the next run makes of it.  A run can be cancelled *)
(* at any point, its agent can die, the machine can reboot, commands fail; *)
(* the panel sends the install again, or resets the machine first          *)
(* (cluster/remove.go resetScript).                                        *)
(*                                                                         *)
(* A file is what a probe or a program can tell of it: absent, half        *)
(* written, whole.  kubeadm, apt and systemd are external; they are        *)
(* modelled by the order in which they leave what the steps look at.       *)
(***************************************************************************)
EXTENDS Naturals, Sequences

CONSTANTS
  Clusters,
  Specs,      \* the InstallSpecs the panel sends, see Spec_
  Found,      \* whether machines may come with a running containerd, or prepared by others
  MaxFaults,  \* bound: cancels, deaths, reboots, failed commands, wrong downloads, resets
  None

Spec_ == [k : Clusters, role : {"first-master", "join-master", "worker"},
          mode : {"bundle", "online"}, vip : BOOLEAN, addons : BOOLEAN,
          summed : BOOLEAN,  \* the bundle is a list of parts with a sha256
          sound : BOOLEAN]   \* has what preflight asks for: endpoint, join credentials, bundle URL

ASSUME InstallAssumption ==
  /\ Specs \subseteq Spec_
  /\ Found \subseteq {"containerd", "prepared"}
  /\ MaxFaults \in Nat
  /\ None \notin Clusters \cup Specs \cup [of : Clusters, is : {"part", "right", "wrong"}]
  /\ "torn" \notin Clusters \cup {None}

VARIABLES
  \* the run
  spec, todo,  \* its spec (the last one's when idle) and the steps ahead, the current one first
  at,          \* "idle", "between" steps, or the place in the current one
  bins,        \* binaries the current step has still to install
  cancelled, report,
  \* the machine's files
  kept,        \* os_prep's files: modules-load.d, sysctl.d, fstab
  archive, bundle,
  exe,         \* the binaries in /usr/local/bin
  apt,         \* those apt has put into /usr/bin
  unit,        \* whose containerd.service there is
  cconf,       \* /etc/containerd/config.toml
  vip,         \* kube-vip.yaml: whose VIP it announces
  node,        \* what kubeadm left: kubelet.conf is there unless got = "none"
  enabled,     \* systemd units started at boot
  \* its running state
  ready,       \* no swap, modules loaded, ip_forward
  crun,        \* the configuration the running containerd has read, or "down"
  local,       \* it runs /usr/local/bin/containerd
  \* what has happened
  found,       \* the machine came prepared
  broken,      \* steps a run ended in without success, since the machine was last reset
  unreset,     \* it was given another cluster or role without a reset
  faults

run == <<spec, todo, at, bins, cancelled, report>>
programs == <<exe, apt, unit>>
files == <<kept, archive, bundle, programs, cconf, vip, node, enabled>>
running == <<ready, crun, local>>
past == <<found, broken, unreset>>
vars == <<run, files, running, past, faults>>

Kube == <<"kubeadm", "kubelet", "kubectl">>
KubeBins == {"kubeadm", "kubelet", "kubectl"}
Bins == KubeBins \cup {"containerd"}
Steps == {"preflight", "osprep", "artifacts", "containerd", "images", "kubebin",
          "aptcontainerd", "aptkube", "kubevip", "kubeadm", "cni", "addons", "capture"}

\* Places where a command of the system runs (cmd.go stream, output).
Commands == {"swapoff", "sysctl", "reload", "enable", "restart", "import", "kubelet",
             "apt-containerd", "sed", "apt-restart", "apt-kube", "kubeadm", "cni", "addons", "token"}
Places == {"idle", "between", "preflight", "fetch", "extract", "unpack", "create", "fill",
           "chmod", "config", "manifest", "write"} \cup Commands

TypeOK ==
  /\ spec \in Specs \cup {None}
  /\ todo \in Seq(Steps)
  /\ at \in Places
  /\ bins \in Seq(Bins)
  /\ cancelled \in BOOLEAN
  /\ report \in {"none", "ok", "failed", "cancelled"}
  /\ kept \in BOOLEAN
  /\ archive \in {"none", "right", "wrong"}
  /\ bundle \in [of : Clusters, is : {"part", "right", "wrong"}] \cup {None}
  /\ exe \in [Bins -> {"none", "part", "plain", "partx", "good"}]
  /\ apt \subseteq Bins
  /\ unit \in {"none", "local", "apt"}
  /\ cconf \in {"none", "default", "patched"}
  /\ vip \in Clusters \cup {None, "torn"}
  /\ node \in [k : Clusters \cup {None}, role : {"none", "first-master", "join-master", "worker"},
               got : {"none", "conf", "up", "full"}]
  /\ enabled \subseteq {"containerd", "kubelet"}
  /\ ready \in BOOLEAN
  /\ crun \in {"down", "default", "patched"}
  /\ local \in BOOLEAN
  /\ found \in BOOLEAN
  /\ broken \subseteq Steps
  /\ unreset \in BOOLEAN
  /\ faults \in 0 .. MaxFaults

NoNode == [k |-> None, role |-> "none", got |-> "none"]

Init ==
  /\ spec = None /\ todo = <<>> /\ at = "idle" /\ bins = <<>>
  /\ cancelled = FALSE /\ report = "none"
  /\ kept = FALSE /\ archive = "none" /\ bundle = None
  /\ cconf = "none" /\ vip = None /\ node = NoNode
  /\ found \in BOOLEAN /\ (found => "prepared" \in Found)
  /\ ready = found
  /\ exe = [b \in Bins |-> "none"]
  /\ \/ apt = {} /\ unit = "none" /\ crun = "down" /\ enabled = {}
     \/ /\ "containerd" \in Found
        /\ apt = {"containerd"} /\ unit = "apt" /\ crun = "default" /\ enabled = {"containerd"}
  /\ local = FALSE
  /\ broken = {} /\ unreset = FALSE /\ faults = 0

Fault == faults < MaxFaults /\ faults' = faults + 1

-----------------------------------------------------------------------------
(***************************************************************************)
(* The engine: Run, planSteps, runSteps.                                   *)
(***************************************************************************)
Master(s) == s.role \in {"first-master", "join-master"}
When(cond, step) == IF cond THEN <<step>> ELSE <<>>

planSteps(s) ==
  <<"preflight", "osprep">>
  \o (IF s.mode = "online" THEN <<"aptcontainerd", "aptkube">>
      ELSE <<"artifacts", "containerd", "images", "kubebin">>)
  \o When(Master(s) /\ s.vip, "kubevip") \o <<"kubeadm">>
  \o When(s.role = "first-master", "cni") \o When(s.role = "first-master" /\ s.addons, "addons")
  \o When(s.role = "first-master", "capture")

\* The run is over; a cancel that was not noticed dies with its context.
Ends(r) ==
  /\ at' = "idle" /\ todo' = <<>> /\ bins' = <<>> /\ cancelled' = FALSE
  /\ report' = r
  /\ broken' = IF r = "ok" \/ todo = <<>> THEN broken ELSE broken \cup {Head(todo)}
  /\ UNCHANGED <<spec, found, unreset>>
GoesTo(p) ==
  /\ at' = p
  /\ UNCHANGED <<spec, todo, bins, cancelled, report, past>>
StepDone ==
  /\ at' = "between" /\ todo' = Tail(todo) /\ bins' = <<>>
  /\ UNCHANGED <<spec, cancelled, report, past>>

\* exec.LookPath finds it.
Executable(b) == exe[b] \in {"partx", "good"} \/ b \in apt
KubeBinsThere == \A b \in KubeBins : Executable(b)

ReadsFile == cconf  \* a slip: no file, no configuration
\* What a containerd that starts now reads.
Reads == IF cconf = "none" THEN "default" ELSE cconf

ContainerdThere == crun # "down" /\ cconf = "patched"

KubeletConfThere == node.got # "none"

\* The probe of a step; capture and preflight, cni and addons have none.
Skip(step) ==
  \/ step = "osprep" /\ ready
  \/ step \in {"containerd", "aptcontainerd"} /\ ContainerdThere
  \/ step \in {"kubebin", "aptkube"} /\ KubeBinsThere
  \/ step = "kubevip" /\ vip # None
  \/ step = "kubeadm" /\ KubeletConfThere

\* Where a step begins.
Entry(step) ==
  CASE step = "preflight" -> "preflight"  [] step = "osprep" -> "swapoff"
    [] step = "artifacts" -> "fetch"      [] step = "containerd" -> "config"
    [] step = "images" -> "import"        [] step = "kubebin" -> "create"
    [] step = "aptcontainerd" -> "apt-containerd" [] step = "aptkube" -> "apt-kube"
    [] step = "kubevip" -> "manifest"     [] step = "kubeadm" -> "kubeadm"
    [] step = "cni" -> "cni"              [] step = "addons" -> "addons"
    [] step = "capture" -> "token"

\* The next step runs: artifacts first removes the directory of an earlier bundle.
Begins ==
  /\ at = "between" /\ todo # <<>> /\ (cancelled => Head(todo) = "capture") /\ ~Skip(Head(todo))
  /\ at' = Entry(Head(todo))
  /\ bins' = IF Head(todo) = "kubebin" THEN Kube ELSE <<>>
  /\ bundle' = IF Head(todo) = "artifacts" THEN None ELSE bundle
  /\ UNCHANGED <<spec, todo, cancelled, report, kept, archive, programs, cconf, vip, node, enabled,
                 running, past, faults>>

\* It is skipped.
Skips ==
  /\ at = "between" /\ todo # <<>> /\ ~cancelled /\ Skip(Head(todo))
  /\ StepDone
  /\ UNCHANGED <<files, running, faults>>

\* The context is looked at between steps (capture is not one: it follows the last).
Stops ==
  /\ at = "between" /\ cancelled /\ todo # <<>> /\ Head(todo) # "capture"
  /\ Ends("cancelled")
  /\ UNCHANGED <<files, running, faults>>

\* All steps are done.
Succeeds ==
  /\ at = "between" /\ todo = <<>>
  /\ Ends("ok")
  /\ UNCHANGED <<files, running, faults>>

\* A step returns a Fail by itself.
Refuses(cond) ==
  /\ cond
  /\ Ends("failed")
  /\ UNCHANGED <<files, running, faults>>

\* mustRun after the command has ended well: a cancelled context wins.
Ran(next) ==
  IF cancelled THEN Ends("cancelled") ELSE (IF next = "done" THEN StepDone ELSE GoesTo(next))

\* A command exits with an error: no network, no room, the repository is down.
CommandFails ==
  /\ at \in Commands
  /\ Fault
  /\ Ends(IF cancelled THEN "cancelled" ELSE "failed")
  /\ UNCHANGED <<files, running>>

NotKilled == FALSE /\ UNCHANGED vars  \* a slip: exec.Command, without the context
\* exec.CommandContext kills the process group; capture reports it as any other error.
CommandKilled ==
  /\ at \in Commands /\ cancelled
  /\ Ends(IF at = "token" THEN "failed" ELSE "cancelled")
  /\ UNCHANGED <<files, running, faults>>

-----------------------------------------------------------------------------
(***************************************************************************)
(* The steps.                                                              *)
(***************************************************************************)
Preflight ==
  /\ at = "preflight" /\ spec.sound
  /\ StepDone
  /\ UNCHANGED <<files, running, faults>>
PreflightFails == at = "preflight" /\ Refuses(~spec.sound)

\* swapoff -a; then fstab, modules-load.d, modprobe, sysctl.d.
SwapOff ==
  /\ at = "swapoff"
  /\ Ran("sysctl")
  /\ kept' = (kept \/ ~cancelled)
  /\ UNCHANGED <<archive, bundle, programs, cconf, vip, node, enabled, running, faults>>
Sysctl ==
  /\ at = "sysctl"
  /\ ready' = TRUE
  /\ Ran("done")
  /\ UNCHANGED <<files, crun, local, faults>>

\* fetchBundle: one file, or parts joined in order and compared with the list's sha256.
AnyContent(got) ==  \* a slip: nobody compares the sum
  /\ at = "fetch" /\ ~cancelled
  /\ IF got = "wrong" THEN Fault ELSE UNCHANGED faults
  /\ archive' = got
  /\ GoesTo("extract")
  /\ UNCHANGED <<kept, bundle, programs, cconf, vip, node, enabled, running>>
Fetch(got) ==
  /\ at = "fetch" /\ ~cancelled
  /\ IF got = "wrong" THEN Fault ELSE UNCHANGED faults
  /\ archive' = got
  /\ IF got = "wrong" /\ spec.summed THEN Ends("failed") ELSE GoesTo("extract")
  /\ UNCHANGED <<kept, bundle, programs, cconf, vip, node, enabled, running>>
\* The request's context is cancelled: reported as a failed download.
FetchFails ==
  /\ at = "fetch"
  /\ IF cancelled THEN UNCHANGED faults ELSE Fault
  /\ Ends("failed")
  /\ UNCHANGED <<files, running>>

\* extractTarGz writes one file after the other.
ExtractBegins ==
  /\ at = "extract"
  /\ bundle' = [of |-> spec.k, is |-> "part"]
  /\ GoesTo("unpack")
  /\ UNCHANGED <<kept, archive, programs, cconf, vip, node, enabled, running, faults>>
ExtractEnds ==
  /\ at = "unpack"
  /\ bundle' = [bundle EXCEPT !.is = archive]
  /\ bins' = <<"containerd">>
  /\ at' = "create"
  /\ UNCHANGED <<spec, todo, cancelled, report, kept, archive, programs, cconf, vip, node, enabled,
                 running, past, faults>>

\* installBinary: os.Create (an existing file keeps its mode; a running one is refused:
\* text file busy), copy, chmod.
Busy(b) == b = "containerd" /\ crun # "down" /\ local
ExecutableAtOnce(b) == [exe EXCEPT ![b] = "partx"]  \* a slip: created with mode 0755
Truncated(b) == [exe EXCEPT ![b] = IF @ \in {"partx", "good"} THEN "partx" ELSE "part"]
BinCreate ==
  /\ at = "create" /\ ~Busy(Head(bins))
  /\ exe' = Truncated(Head(bins))
  /\ GoesTo("fill")
  /\ UNCHANGED <<kept, archive, bundle, apt, unit, cconf, vip, node, enabled, running, faults>>
BinBusy == at = "create" /\ Refuses(Busy(Head(bins)))
BinFill ==
  /\ at = "fill"
  /\ exe' = [exe EXCEPT ![Head(bins)] = IF @ = "partx" THEN "good" ELSE "plain"]
  /\ GoesTo("chmod")
  /\ UNCHANGED <<kept, archive, bundle, apt, unit, cconf, vip, node, enabled, running, faults>>
\* The last binary is followed by the units: of containerd, or of the kubelet.
BinChmod ==
  /\ at = "chmod"
  /\ exe' = [exe EXCEPT ![Head(bins)] = "good"]
  /\ bins' = Tail(bins)
  /\ at' = IF Tail(bins) # <<>> THEN "create" ELSE IF Head(todo) = "artifacts" THEN "reload" ELSE "kubelet"
  /\ UNCHANGED <<spec, todo, cancelled, report, kept, archive, bundle, apt, unit, cconf, vip, node, enabled,
                 running, past, faults>>
\* containerd.service, systemctl daemon-reload; then the CNI plugins, which nothing here looks at.
Reload ==
  /\ at = "reload"
  /\ unit' = "local"
  /\ Ran("done")
  /\ UNCHANGED <<kept, archive, bundle, exe, apt, cconf, vip, node, enabled, running, faults>>

\* The patched configuration is written, the unit enabled and restarted.
Config ==
  /\ at = "config" /\ Executable("containerd") /\ ~cancelled
  /\ cconf' = "patched"
  /\ GoesTo("enable")
  /\ UNCHANGED <<kept, archive, bundle, programs, vip, node, enabled, running, faults>>
\* No binary, or `containerd config default` killed: both are reported as failed.
ConfigFails == at = "config" /\ Refuses(~Executable("containerd") \/ cancelled)
StartOnly ==  \* a slip: started, not enabled
  /\ at = "enable"
  /\ Ran("restart")
  /\ UNCHANGED <<files, running, faults>>
Enable ==
  /\ at = "enable"
  /\ enabled' = enabled \cup {"containerd"}
  /\ Ran("restart")
  /\ UNCHANGED <<kept, archive, bundle, programs, cconf, vip, node, running, faults>>
Restart ==
  /\ at = "restart"
  /\ crun' = cconf
  /\ local' = (unit = "local")
  /\ Ran("done")
  /\ UNCHANGED <<files, ready, faults>>

\* ctr import of every image of the bundle, into a containerd that runs.
Import ==
  /\ at = "import" /\ crun # "down"
  /\ Ran("done")
  /\ UNCHANGED <<files, running, faults>>

\* The kubelet's unit and drop-in, daemon-reload, enable --now.
Kubelet ==
  /\ at = "kubelet"
  /\ enabled' = enabled \cup {"kubelet"}
  /\ Ran("done")
  /\ UNCHANGED <<kept, archive, bundle, programs, cconf, vip, node, running, faults>>

\* online-containerd.sh: apt installs and starts it, then its configuration is edited, then
\* it is restarted.
AptContainerd ==
  /\ at = "apt-containerd"
  /\ apt' = apt \cup {"containerd"}
  /\ unit' = IF "containerd" \in apt THEN unit ELSE "apt"
  /\ enabled' = enabled \cup {"containerd"}
  /\ crun' = IF crun = "down" THEN Reads ELSE crun
  /\ local' = IF crun = "down" THEN unit' = "local" ELSE local
  /\ cconf' = "default"
  /\ GoesTo("sed")
  /\ UNCHANGED <<kept, archive, bundle, exe, vip, node, ready, faults>>
AptSed ==
  /\ at = "sed"
  /\ cconf' = "patched"
  /\ GoesTo("apt-restart")
  /\ UNCHANGED <<kept, archive, bundle, programs, vip, node, enabled, running, faults>>
AptRestart ==
  /\ at = "apt-restart"
  /\ crun' = cconf
  /\ local' = (unit = "local")
  /\ Ran("done")
  /\ UNCHANGED <<files, ready, faults>>
\* online-kube-pkg.sh: dpkg puts whole binaries in place one by one, then the kubelet is enabled.
AptUnpack(b) ==
  /\ at = "apt-kube" /\ b \in KubeBins \ apt
  /\ apt' = apt \cup {b}
  /\ UNCHANGED <<run, kept, archive, bundle, exe, unit, cconf, vip, node, enabled, running, past, faults>>
AptKube ==
  /\ at = "apt-kube" /\ KubeBins \subseteq apt
  /\ enabled' = enabled \cup {"kubelet"}
  /\ Ran("done")
  /\ UNCHANGED <<kept, archive, bundle, programs, cconf, vip, node, running, faults>>

\* kube-vip.yaml: os.WriteFile truncates, then writes.
VipBegins ==
  /\ at = "manifest"
  /\ vip' = "torn"
  /\ GoesTo("write")
  /\ UNCHANGED <<kept, archive, bundle, programs, cconf, node, enabled, running, faults>>
VipWritten ==
  /\ at = "write"
  /\ vip' = spec.k
  /\ StepDone
  /\ UNCHANGED <<kept, archive, bundle, programs, cconf, node, enabled, running, faults>>

\* kubeadm init writes kubelet.conf before the control plane is up and the tokens are there;
\* the kubelet of a joining machine gets it from the cluster, which is all a worker needs, and a
\* control plane is built afterwards.
KubeadmGoesOn ==
  /\ at = "kubeadm" /\ node.got # "full"
  /\ node' = [k |-> spec.k, role |-> spec.role,
              got |-> CASE node.got = "none" -> (IF spec.role = "worker" THEN "full" ELSE "conf")
                        [] node.got = "conf" -> (IF spec.role = "first-master" THEN "up" ELSE "full")
                        [] node.got = "up" -> "full"]
  /\ UNCHANGED <<run, kept, archive, bundle, programs, cconf, vip, enabled, running, past, faults>>
Kubeadm ==
  /\ at = "kubeadm" /\ node.got = "full"
  /\ Ran("done")
  /\ UNCHANGED <<files, running, faults>>

\* kubectl and kubeadm token need the API server.
ApiUp == node.role = "first-master" /\ node.got \in {"up", "full"}
CniApplied ==
  /\ at = "cni" /\ ApiUp
  /\ Ran("done")
  /\ UNCHANGED <<files, running, faults>>
AddonsApplied ==
  /\ at = "addons" /\ ApiUp
  /\ Ran("done")
  /\ UNCHANGED <<files, running, faults>>
\* capture: its commands are killed with the context, but nothing looks at it afterwards.
Capture ==
  /\ at = "token" /\ ApiUp
  /\ StepDone
  /\ UNCHANGED <<files, running, faults>>
NoApi == at \in {"cni", "addons", "token"} /\ Refuses(~ApiUp)

-----------------------------------------------------------------------------
(***************************************************************************)
(* The panel and the machine.                                              *)
(***************************************************************************)

\* An install is sent: to a machine that has none yet, or again after a failure, or, counted as
\* a fault, for another role, or for another cluster after a removal that could not reset it.
Start(s) ==
  LET moved == spec # None /\ (s.k # spec.k \/ s.role # spec.role) IN
  /\ at = "idle" /\ report # "ok"
  /\ IF moved THEN Fault ELSE UNCHANGED faults
  /\ spec' = s /\ todo' = planSteps(s) /\ at' = "between" /\ bins' = <<>>
  /\ cancelled' = FALSE /\ report' = "none"
  /\ unreset' = (unreset \/ moved)
  /\ UNCHANGED <<files, running, found, broken>>
Cancel ==
  /\ at # "idle" /\ ~cancelled
  /\ Fault
  /\ cancelled' = TRUE
  /\ UNCHANGED <<spec, todo, at, bins, report, files, running, past>>

WipedPartly == node' = node /\ vip' = None  \* a slip: /etc/kubernetes is not removed
Wiped == node' = NoNode /\ vip' = None
\* resetScript: everything of Kubernetes goes, containerd is restarted.
Reset ==
  /\ at = "idle" /\ spec # None
  /\ Fault
  /\ Wiped
  /\ crun' = IF Executable("containerd") /\ unit # "none" THEN Reads ELSE "down"
  /\ local' = (unit = "local")
  /\ spec' = None /\ report' = "none"
  /\ broken' = broken \ {"kubeadm", "kubevip"} /\ unreset' = FALSE
  /\ UNCHANGED <<todo, at, bins, cancelled, kept, archive, bundle, programs, cconf, enabled, ready, found>>

\* The agent dies in the middle of a run, and its commands with it.
AgentDies ==
  /\ at # "idle"
  /\ Fault
  /\ Ends("none")
  /\ UNCHANGED <<files, running>>

Reboot ==
  /\ Fault
  /\ IF at = "idle" THEN UNCHANGED <<run, past>> ELSE Ends("none")
  /\ ready' = (kept \/ found)
  /\ crun' = IF "containerd" \in enabled /\ Executable("containerd") THEN Reads ELSE "down"
  /\ local' = (unit = "local")
  /\ UNCHANGED files

-----------------------------------------------------------------------------
Engine == Begins \/ Skips \/ Stops \/ Succeeds

Work ==
  \/ Preflight \/ PreflightFails \/ Fetch("right") \/ (cancelled /\ FetchFails)
  \/ ExtractBegins \/ ExtractEnds \/ BinCreate \/ BinBusy \/ BinFill \/ BinChmod
  \/ Config \/ ConfigFails \/ VipBegins \/ VipWritten \/ NoApi

Command ==
  \/ SwapOff \/ Sysctl \/ Reload \/ Enable \/ Restart \/ Import \/ Kubelet
  \/ AptContainerd \/ AptSed \/ AptRestart \/ (\E b \in Bins : AptUnpack(b)) \/ AptKube
  \/ KubeadmGoesOn \/ Kubeadm \/ CniApplied \/ AddonsApplied \/ Capture

Trouble ==
  \/ CommandFails \/ Fetch("wrong") \/ (~cancelled /\ FetchFails)
  \/ Cancel \/ Reset \/ AgentDies \/ Reboot

Next == Engine \/ Work \/ Command \/ CommandKilled \/ Trouble \/ \E s \in Specs : Start(s)

Spec == Init /\ [][Next]_vars

\* The agent's goroutine runs, and a killed command ends; a command need not end by itself.
FairSpec == Spec /\ WF_vars(Engine) /\ WF_vars(Work) /\ WF_vars(CommandKilled)

-----------------------------------------------------------------------------
(***************************************************************************)
(* Properties.                                                             *)
(***************************************************************************)

\* Images, kube binaries and manifests are taken from the whole bundle of this run's spec,
\* whatever an earlier run that was killed while downloading or unpacking left behind; and from
\* the right one, if its list has a sum.
BundleIsThisRuns ==
  at \in {"import", "create", "cni", "addons"} /\ spec.mode = "bundle" =>
    /\ bundle # None /\ bundle.of = spec.k
    /\ bundle.is = "right" \/ (bundle.is = "wrong" /\ ~spec.summed)

\* kubeadm never runs with a half-copied binary, or with a containerd that is not running the
\* configuration with SystemdCgroup.  Exceptions: a bundle's copy over an older one was cut short
\* and packages brought the binaries that were still missing, so the half copy is in the way of a
\* whole one or is taken for it; containerd ran before the step that configures it, and an earlier
\* run ended between the edit and the restart.
KubeadmHasItsTools ==
  at = "kubeadm" =>
    /\ \A b \in KubeBins :
         Executable(b) /\ (exe[b] = "partx" => "kubebin" \in broken /\ apt \cap KubeBins # {})
    /\ crun = "patched" \/ broken \cap {"containerd", "aptcontainerd"} # {}

\* A machine that was reset between two clusters or roles is what its spec says once a run
\* reports success: what it is a member of is this cluster, in this role, and the credentials that
\* a first master captured are of an API server that is up.  Nothing of an earlier life passes the
\* probe for a kubelet.conf.
OkIsOfThisCluster ==
  report = "ok" /\ ~unreset =>
    /\ node.k = spec.k /\ node.role = spec.role
    /\ spec.role = "first-master" => ApiUp

\* What docs/agent-features.md:57 says of the probes, with the skipping of kubeadm as its example:
\* an install can be run again safely.  So a run that reports success has made the machine a
\* complete member, with its VIP.  InstallRerun shows that it need not have: kubeadm is cut short
\* after kubelet.conf, and the next run skips it.
RerunIsSafe ==
  report = "ok" /\ ~unreset =>
    /\ node = [k |-> spec.k, role |-> spec.role, got |-> "full"]
    /\ Master(spec) /\ spec.vip => vip = spec.k

\* After a success the machine comes back from a reboot, unless os_prep found the machine prepared by others, or a run
\* was interrupted between installing the kubelet (or configuring containerd) and enabling it.
OkSurvivesReboot ==
  report = "ok" =>
    /\ found \/ kept
    /\ "containerd" \in enabled \/ "containerd" \in broken
    /\ "kubelet" \in enabled \/ broken \cap {"kubebin", "aptkube"} # {}

\* A cancelled run ends, even if its command would hang for ever.
CancelledRunEnds == cancelled ~> at = "idle"

=============================================================================

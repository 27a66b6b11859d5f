----------------------------- MODULE ApiProofs -----------------------------
(***************************************************************************)
(* Proofs about Api, for any number of goroutines, repositories, manifests *)
(* and requests, any menus and any size of a page of a task's log.         *)
(***************************************************************************)
EXTENDS Api, TLAPS

\* Which handlers pass a place.
KindsAt(place) ==
  CASE place = "audit" -> Writes
    [] place = "kubeconfig" -> ByKubeconfig
    [] place = "entry" -> ByKubeconfig \ {"install", "release"}
    [] place = "call" -> {"view", "change"}
    [] place = "discover" -> {"kinds"}
    [] place \in {"map", "unknown", "patch"} -> {"apply", "undo"}
    [] place \in {"invalidate", "remap"} -> {"apply"}
    [] place = "stream" -> {"follow", "exec"}
    [] place \in {"probe", "write"} -> {"update"}
    [] place \in {"check", "forget"} -> {"update", "drop"}
    [] place = "delete" -> {"drop"}
    [] place = "repo" -> {"search", "refresh", "remove", "install"}
    [] place \in {"cluster", "insert"} -> {"add"}
    [] place \in {"index", "download", "store"} -> {"search", "refresh", "add", "install"}
    [] place = "answer" -> {"refresh"}
    [] place = "show" -> {"search"}
    [] place = "chart" -> {"install"}
    [] place = "helm" -> {"install", "release"}
    [] place \in {"remove", "forgetindex"} -> {"remove"}
    [] place \in {"task", "lines"} -> {"logs"}
    [] OTHER -> Kinds \cup {None}

\* A request is where its handler can be, with what the handler has read before it; a change
\* that is not audited yet is one of a write whose handler has not been left.
Placed(q) ==
  /\ q.kind \in KindsAt(q.at)
  /\ q.at \notin {"idle", "audit"} /\ q.kind \in {"apply", "undo"} => q.docs # <<>>
  /\ q.at \in {"cluster", "index", "download", "store", "answer", "show", "chart", "insert",
               "remove", "forgetindex"} => q.url \in Urls
  /\ q.did => q.kind \in Writes /\ q.at # "idle"

\* Shutdown has waited for it.
Waited(q) == stage \in {"graceful", "exited"} /\ ~timedOut => ~Waits(q)

\* What it has read of the kubeconfig is newer than what had retired when it came; and what it
\* is about to retire has been replaced.
ConfigOK(q) ==
  /\ q.avoid <= retired
  /\ q.at = "entry" => q.kc > q.avoid
  /\ q.used # 0 => q.used > q.avoid
  /\ q.at = "forget" /\ kubeconfig # 0 => q.kc < kubeconfig

\* The discovery cache it has emptied stays empty until another request uses it.
DiscOK(q) ==
  /\ q.at \in {"discover", "map", "invalidate", "remap", "patch"} => q.disc \in 1..Len(disc)
  /\ q.had => served
  /\ q.at = "remap" /\ q.had /\ ~q.shared => disc[q.disc] = "empty"
  /\ q.at = "unknown" /\ q.kind = "apply" => ~q.had \/ q.shared \/ q.lost

\* The index it has got is no older than what it was promised, and what it is about to store no
\* older than what anyone was promised.
IndexOK(q) ==
  /\ \A u \in Urls : q.least[u] <= published /\ (q.kind # "refresh" => q.least[u] <= floor[u])
  /\ q.at = "store" => q.got >= floor[q.url]
  /\ q.at \in {"store", "answer", "show", "chart"} => q.got >= q.least[q.url]

LogOK(q) == q.at = "lines" /\ q.over => finished

ReqOK(q) == Placed(q) /\ Waited(q) /\ ConfigOK(q) /\ DiscOK(q) /\ IndexOK(q) /\ LogOK(q)

\* What is shared: the row holds the last content stored, which has not retired; no cached index
\* is older than promised; and a drawer that has stopped is complete but for a line gone astray.
ConfigShared == kubeconfig # 0 => kubeconfig = stored /\ retired < kubeconfig
IndexShared ==
  \A u \in Urls : floor[u] <= published /\ (index[u] # None => index[u].v >= floor[u])
LogShared ==
  /\ seen <= lines
  /\ held => job = "runs" \/ astray
  /\ finished => job = "ended"
  /\ polling = "ended" => finished /\ lines + (IF held THEN 1 ELSE 0) <= seen + Strays

ApiInv ==
  /\ TypeOK
  /\ ConfigShared /\ IndexShared /\ LogShared
  /\ \A r \in Reqs : ReqOK(req[r])

USE ApiAssumption

-----------------------------------------------------------------------------
(* What all steps have in common. *)

LEMMA IdleIsRequest == Idle \in Request
BY DEF Idle, Request, Places, Calls

LEMMA IdleOK == TypeOK => ReqOK(Idle)
<1> SUFFICES ASSUME TypeOK PROVE ReqOK(Idle)
  OBVIOUS
<1>1. Placed(Idle) /\ Waited(Idle) /\ LogOK(Idle)
  BY DEF Idle, Placed, KindsAt, Waited, Waits, LogOK
<1>2. ConfigOK(Idle) /\ DiscOK(Idle)
  BY DEF Idle, ConfigOK, DiscOK, TypeOK
<1>3. IndexOK(Idle)
  BY DEF Idle, IndexOK, TypeOK
<1>4. QED
  BY <1>1, <1>2, <1>3 DEF ReqOK

\* The panel has just started.
LEMMA InitInv == Init => ApiInv
<1> SUFFICES ASSUME Init PROVE ApiInv
  OBVIOUS
<1>1. TypeOK
  <2>1. req \in [Reqs -> Request]
    BY IdleIsRequest DEF Init
  <2>2. client \in [of : Nat, disc : 1..Len(disc)] \cup {None} /\ disc \in Seq({"empty", "without", "with"})
    BY DEF Init
  <2>3. index \in [Urls -> [v : Nat, old : BOOLEAN] \cup {None}] /\ floor \in [Urls -> 0..MaxPublished]
    BY DEF Init
  <2>4. repo \in Urls \cup {None} /\ menu \in Menus /\ published \in 0..MaxPublished
    BY DEF Init
  <2>5. lines \in 0..MaxLines /\ seen \in 0..MaxLines /\ came \in 0..MaxRequests
    BY DEF Init
  <2>7. job \in {"runs", "error", "ended"} /\ held \in BOOLEAN /\ astray \in BOOLEAN
    BY DEF Init
  <2>6. QED
    BY <2>1, <2>2, <2>3, <2>4, <2>5, <2>7 DEF Init, TypeOK
<1>2. ConfigShared /\ IndexShared /\ LogShared
  BY DEF Init, ConfigShared, IndexShared, LogShared, Strays
<1>3. \A r \in Reqs : ReqOK(req[r])
  BY <1>1, IdleOK DEF Init
<1>4. QED
  BY <1>1, <1>2, <1>3 DEF ApiInv

\* One request moves, and what the others rely on stays.
LEMMA Moved ==
  ASSUME NEW r \in Reqs, NEW q \in Request, req \in [Reqs -> Request], Set(r, q),
         ReqOK(q)', \A x \in {req[p] : p \in Reqs} : ReqOK(x)'
  PROVE  /\ req' \in [Reqs -> Request]
         /\ (\A p \in Reqs : ReqOK(req[p]))'
<1>1. req' = [req EXCEPT ![r] = q]
  BY DEF Set
<1>2. req' \in [Reqs -> Request]
  BY <1>1
<1>3. ASSUME NEW p \in Reqs PROVE ReqOK(req[p])'
  <2>1. CASE p = r
    <3>1. req'[p] = q
      BY <1>1, <2>1
    <3>2. QED
      BY <3>1
  <2>2. CASE p # r
    <3>1. req'[p] = req[p]
      BY <1>1, <2>2
    <3>2. QED
      BY <3>1
  <2>3. QED
    BY <2>1, <2>2
<1>4. QED
  BY <1>2, <1>3
\* Nothing shared changes.
LEMMA Quiet ==
  ASSUME ApiInv, NEW r \in Reqs, NEW q \in Request, Set(r, q), ReqOK(q),
         came' \in 0..MaxRequests, UNCHANGED <<menu, process, kube, helm, tasklog>>
  PROVE  ApiInv'
<1> USE DEF process, kube, helm, tasklog, work, drawer
<1>1. \A x \in Request : ReqOK(x) => ReqOK(x)'
  BY DEF ReqOK, Placed, Waited, ConfigOK, DiscOK, IndexOK, LogOK
<1>2. req \in [Reqs -> Request] /\ \A x \in {req[p] : p \in Reqs} : x \in Request /\ ReqOK(x)
  BY DEF ApiInv, TypeOK
<1>3. req' \in [Reqs -> Request] /\ (\A p \in Reqs : ReqOK(req[p]))'
  BY <1>1, <1>2, Moved
<1>4. TypeOK'
  BY <1>3 DEF ApiInv, TypeOK
<1>5. (ConfigShared /\ IndexShared /\ LogShared)'
  BY DEF ApiInv, ConfigShared, IndexShared, LogShared, Strays
<1>6. QED
  BY <1>3, <1>4, <1>5 DEF ApiInv

\* What is left of a request when its handler has returned.
LEMMA ReturnedOK ==
  ASSUME TypeOK, NEW q \in Request, q.at # "idle", Waited(q), q.did => q.kind \in Writes
  PROVE  Returned(q) \in Request /\ ReqOK(Returned(q))
<1>1. CASE q.kind \notin Writes
  BY <1>1, IdleIsRequest, IdleOK DEF Returned
<1>2. CASE q.kind \in Writes
  <2> DEFINE x == [Idle EXCEPT !.kind = q.kind, !.did = q.did, !.at = "audit"]
  <2>1. /\ x \in Request /\ x.kind = q.kind /\ x.did = q.did /\ x.at = "audit"
        /\ x.avoid = 0 /\ x.used = 0 /\ x.had = FALSE /\ \A u \in Urls : x.least[u] = 0
    <3>1. x \in Request
      BY IdleIsRequest DEF Request, Places
    <3>2. QED
      BY <3>1 DEF Idle
  <2> HIDE DEF x
  <2>2. q.kind # "exec"
    BY <1>2 DEF Writes
  <2>3. Placed(x) /\ Waited(x) /\ LogOK(x)
    BY <1>2, <2>1, <2>2 DEF Placed, KindsAt, Waited, Waits, LogOK
  <2>4. ConfigOK(x) /\ DiscOK(x)
    BY <2>1 DEF ConfigOK, DiscOK, TypeOK
  <2>5. IndexOK(x)
    BY <2>1 DEF IndexOK, TypeOK
  <2>6. Returned(q) = x
    BY <1>2 DEF Returned, x
  <2>7. QED
    BY <2>1, <2>3, <2>4, <2>5, <2>6 DEF ReqOK
<1>3. QED
  BY <1>1, <1>2

LEMMA Returns ==
  ASSUME ApiInv, NEW r \in Reqs, NEW q \in Request, q.at = req[r].at, q.kind = req[r].kind,
         req[r].at # "idle", q.did => q.kind \in Writes, Set(r, Returned(q)),
         UNCHANGED <<menu, came, process, kube, helm, tasklog>>
  PROVE  ApiInv'
<1>1. Waited(q) /\ TypeOK
  BY DEF ApiInv, ReqOK, Waited, Waits
<1>2. Returned(q) \in Request /\ ReqOK(Returned(q))
  BY <1>1, ReturnedOK
<1>3. came' \in 0..MaxRequests
  BY DEF ApiInv, TypeOK
<1>4. QED
  BY <1>2, <1>3, Quiet

\* The handler returns without having changed anything more.
LEMMA JustReturns ==
  ASSUME ApiInv, NEW r \in Reqs, req[r].at # "idle", Set(r, Returned(req[r])),
         UNCHANGED <<menu, came, process, kube, helm, tasklog>>
  PROVE  ApiInv'
<1>1. req[r] \in Request /\ Placed(req[r])
  BY DEF ApiInv, TypeOK, ReqOK
<1>2. QED
  BY <1>1, Returns DEF Placed

-----------------------------------------------------------------------------
(* Steps of a handler that change nothing shared. *)

\* It goes on with what it has.
LEMMA GoesOn ==
  ASSUME ApiInv, NEW r \in Reqs, NEW q \in Request, Set(r, q),
         UNCHANGED <<menu, came, process, kube, helm, tasklog>>,
         q.kind = req[r].kind, req[r].at # "idle", q.at \notin {"idle", "remap", "unknown", "forget", "invalidate"},
         q.avoid = req[r].avoid, q.least = req[r].least, q.had = req[r].had, q.disc = req[r].disc,
         Placed(q),
         q.at \in {"discover", "map", "patch"} => req[r].at \in {"map", "remap", "patch"},
         q.at = "entry" => q.kc > q.avoid,
         q.used # 0 => q.used > q.avoid,
         q.at = "store" => q.got >= floor[q.url],
         q.at \in {"store", "answer", "show", "chart"} => q.got >= q.least[q.url],
         LogOK(q)
  PROVE  ApiInv'
<1>1. req[r] \in Request /\ ReqOK(req[r])
  BY DEF ApiInv, TypeOK
<1>2. Waited(q)
  BY <1>1 DEF ReqOK, Waited, Waits
<1>3. ConfigOK(q)
  BY <1>1 DEF ReqOK, ConfigOK
<1>4. DiscOK(q)
  BY <1>1 DEF ReqOK, DiscOK
<1>5. IndexOK(q)
  BY <1>1 DEF ReqOK, IndexOK
<1>6. came' \in 0..MaxRequests
  BY DEF ApiInv, TypeOK
<1>7. QED
  BY <1>2, <1>3, <1>4, <1>5, <1>6, Quiet DEF ReqOK

LEMMA ReadKubeconfigInv ==
  ASSUME ApiInv, NEW r \in Reqs, ReadKubeconfig(r)
  PROVE  ApiInv'
<1> DEFINE q == [req[r] EXCEPT !.kc = kubeconfig]
<1>1. /\ req[r] \in Request /\ Placed(req[r]) /\ ConfigOK(req[r]) /\ req[r].at = "kubeconfig"
      /\ kubeconfig \in Nat /\ UNCHANGED <<menu, came, process, kube, helm, tasklog>>
  BY DEF ApiInv, TypeOK, ReqOK, ReadKubeconfig, At
<1>2. CASE kubeconfig = 0
  BY <1>1, <1>2, JustReturns DEF ReadKubeconfig
<1>3. CASE kubeconfig # 0
  <2>1. kubeconfig > req[r].avoid
    BY <1>1, <1>3 DEF ApiInv, ConfigShared, ConfigOK, TypeOK, Request
  <2>2. CASE Is(r, "install") \/ Is(r, "release")
    <3> DEFINE x == GoOn([q EXCEPT !.used = kubeconfig], IF Is(r, "install") THEN "repo" ELSE "helm")
    <3>1. Set(r, x)
      BY <1>3, <2>2 DEF ReadKubeconfig, Is
    <3>2. x \in Request
      BY <1>1 DEF GoOn, Request, Places, Calls
    <3>3. Placed(x)
      BY <1>1, <2>2 DEF GoOn, Is, Request, Placed, KindsAt
    <3>4. QED
      BY <1>1, <2>1, <3>1, <3>2, <3>3, GoesOn DEF GoOn, Request, LogOK
  <2>3. CASE ~Is(r, "install") /\ ~Is(r, "release")
    <3> DEFINE x == GoOn(q, "entry")
    <3>1. Set(r, x)
      BY <1>3, <2>3 DEF ReadKubeconfig, Is
    <3>2. x \in Request
      BY <1>1 DEF GoOn, Request, Places, Calls
    <3>3. Placed(x)
      BY <1>1, <2>3 DEF GoOn, Is, Request, Placed, KindsAt
    <3>4. x.used # 0 => x.used > x.avoid
      BY <1>1 DEF GoOn, Request, ConfigOK
    <3>5. QED
      BY <1>1, <2>1, <3>1, <3>2, <3>3, <3>4, GoesOn DEF GoOn, Request, LogOK
  <2>4. QED
    BY <2>2, <2>3
<1>4. QED
  BY <1>2, <1>3

\* Handlers that return with, or without, a change.
LEMMA OutsideInv ==
  ASSUME ApiInv, NEW r \in Reqs,
         Look(r) \/ Change(r) \/ EndStream(r) \/ UnknownKind(r) \/ Show(r) \/ Deploy(r) \/ Undeploy(r)
  PROVE  ApiInv'
<1>1. req[r] \in Request /\ Placed(req[r])
  BY DEF ApiInv, TypeOK, ReqOK
<1>2. CASE Look(r) \/ EndStream(r) \/ UnknownKind(r) \/ Show(r)
  BY <1>2, JustReturns DEF Look, EndStream, UnknownKind, Show, At
<1>3. CASE Change(r) \/ Deploy(r) \/ Undeploy(r)
  <2> DEFINE q == [req[r] EXCEPT !.did = TRUE]
  <2>1. q \in Request /\ q.at = req[r].at /\ q.kind = req[r].kind
    BY <1>1 DEF Request
  <2>2. q.kind \in Writes /\ req[r].at # "idle" /\ Set(r, Returned(q))
    BY <1>3, <2>1 DEF Change, Deploy, Undeploy, At, Is, Writes
  <2>3. UNCHANGED <<menu, came, process, kube, helm, tasklog>>
    BY <1>3 DEF Change, Deploy, Undeploy
  <2>4. QED
    BY <2>1, <2>2, <2>3, Returns
<1>4. QED
  BY <1>2, <1>3

LEMMA FailInv ==
  ASSUME ApiInv, NEW r \in Reqs, Fail(r)
  PROVE  ApiInv'
<1>1. req[r] \in Request /\ Placed(req[r]) /\ req[r].at # "idle"
  BY DEF ApiInv, TypeOK, ReqOK, Fail, Calls
<1> DEFINE Q(d) == [req[r] EXCEPT !.did = @ \/ d]
<1>2. PICK d \in BOOLEAN : (d => req[r].kind \in Writes) /\ Set(r, Returned(Q(d)))
  BY <1>1 DEF Fail
<1> DEFINE q == Q(d)
<1>3. q \in Request /\ q.at = req[r].at /\ q.kind = req[r].kind /\ (q.did => req[r].did \/ d)
  BY <1>1 DEF Request
<1>4. q.did => q.kind \in Writes
  BY <1>1, <1>2, <1>3 DEF Placed
<1>5. UNCHANGED <<menu, came, process, kube, helm, tasklog>>
  BY DEF Fail
<1> HIDE DEF Q
<1>6. QED
  BY <1>1, <1>2, <1>3, <1>4, <1>5, Returns

LEMMA AuditInv ==
  ASSUME ApiInv, NEW r \in Reqs, Audit(r)
  PROVE  ApiInv'
<1>1. came' \in 0..MaxRequests /\ TypeOK
  BY DEF ApiInv, TypeOK, Audit
<1>2. QED
  BY <1>1, IdleIsRequest, IdleOK, Quiet DEF Audit

LEMMA ArriveInv ==
  ASSUME ApiInv, NEW r \in Reqs, NEW kind \in Kinds, NEW url \in Urls \cup {None},
         NEW docs \in Manifests \cup {<<>>}, Arrive(r, kind, url, docs)
  PROVE  ApiInv'
<1> DEFINE least == IF kind = "refresh" THEN [u \in Urls |-> published] ELSE floor
           q == [Idle EXCEPT !.kind = kind, !.at = First(kind), !.avoid = retired, !.url = url, !.docs = docs,
                             !.least = least]
<1>1. TypeOK /\ IndexShared /\ came' \in 0..MaxRequests
  BY DEF ApiInv, TypeOK, Arrive
<1>2. docs \in Seq({"plain", "custom"})
  <2>1. <<>> \in Seq({"plain", "custom"})
    OBVIOUS
  <2>2. Manifests \subseteq Seq({"plain", "custom"})
    BY DEF ApiAssumption
  <2>3. QED
    BY <2>1, <2>2
<1>3. least \in [Urls -> Nat]
  <2>1. published \in Nat /\ floor \in [Urls -> Nat]
    BY <1>1 DEF TypeOK, ApiAssumption
  <2>2. QED
    BY <2>1
<1>4. First(kind) \in {"kubeconfig", "probe", "check", "repo", "cluster", "task"}
  BY DEF First, Kinds, ByKubeconfig
<1>5. q \in Request
  <2>1. retired \in Nat /\ First(kind) \in Places
    BY <1>1, <1>4 DEF TypeOK, Places, Calls
  <2> HIDE DEF least
  <2>2. QED
    BY <1>2, <1>3, <2>1, IdleIsRequest DEF Request
<1>6. /\ q.kind = kind /\ q.at = First(kind) /\ q.avoid = retired /\ q.url = url /\ q.docs = docs
      /\ q.least = least /\ q.did = FALSE /\ q.used = 0 /\ q.had = FALSE
  BY DEF Idle
<1>7. Set(r, q) /\ UNCHANGED <<menu, process, kube, helm, tasklog>> /\ stage = "up"
      /\ (url # None) = (kind = "add") /\ (docs # <<>>) = (kind \in {"apply", "undo"})
  BY DEF Arrive
<1> HIDE DEF q
<1>8. q.kind \in KindsAt(q.at)
  BY <1>6 DEF First, KindsAt, Kinds, ByKubeconfig
<1>9. Placed(q)
  <2>1. q.at = "cluster" => kind = "add"
    BY <1>6, <1>8 DEF KindsAt
  <2>2. q.at \notin {"idle", "audit"} /\ q.kind \in {"apply", "undo"} => q.docs # <<>>
    BY <1>6, <1>7
  <2>3. QED
    BY <1>4, <1>6, <1>7, <1>8, <2>1, <2>2 DEF Placed
<1>10. Waited(q) /\ LogOK(q) /\ ConfigOK(q) /\ DiscOK(q)
  BY <1>1, <1>4, <1>6, <1>7 DEF TypeOK, Waited, LogOK, ConfigOK, DiscOK
<1>11. IndexOK(q)
  BY <1>1, <1>3, <1>4, <1>6 DEF TypeOK, IndexOK, IndexShared
<1>12. QED
  BY <1>1, <1>5, <1>7, <1>9, <1>10, <1>11, Quiet DEF ReqOK

\* The record read with a step goes on.
LEMMA GoOnType ==
  ASSUME NEW q \in Request, NEW place \in Places
  PROVE  /\ GoOn(q, place) \in Request
         /\ GoOn(q, place) = [q EXCEPT !.at = place]
BY DEF GoOn, Request

LEMMA PatchInv ==
  ASSUME ApiInv, NEW r \in Reqs, Patch(r)
  PROVE  ApiInv'
<1> DEFINE q == [req[r] EXCEPT !.did = TRUE, !.docs = Tail(@)]
<1>1. /\ req[r] \in Request /\ Placed(req[r]) /\ ConfigOK(req[r]) /\ req[r].at = "patch"
      /\ UNCHANGED <<menu, came, process, kube, helm, tasklog>>
  BY DEF ApiInv, TypeOK, ReqOK, Patch, At
<1>2. req[r].docs # <<>> /\ req[r].kind \in Writes
  BY <1>1 DEF Placed, KindsAt, Writes
<1>3. Tail(req[r].docs) \in Seq({"plain", "custom"})
  BY <1>1, <1>2 DEF Request
<1>4. q \in Request /\ q.at = "patch" /\ q.kind = req[r].kind
  BY <1>1, <1>3 DEF Request
<1>5. CASE q.docs = <<>>
  <2>1. Set(r, Returned(q))
    BY <1>5 DEF Patch
  <2>2. QED
    BY <1>1, <1>2, <1>4, <2>1, Returns
<1>6. CASE q.docs # <<>>
  <2> DEFINE x == GoOn(q, "map")
  <2>1. Set(r, x)
    BY <1>6 DEF Patch
  <2>2. x \in Request
    BY <1>4, GoOnType DEF Places, Calls
  <2>3. Placed(x)
    BY <1>1, <1>2, <1>6 DEF GoOn, Request, Placed, KindsAt
  <2>4. x.used # 0 => x.used > x.avoid
    BY <1>1 DEF GoOn, Request, ConfigOK
  <2>5. QED
    BY <1>1, <2>1, <2>2, <2>3, <2>4, GoesOn DEF GoOn, Request, LogOK
<1>7. QED
  BY <1>5, <1>6

\* It has not read the kubeconfig or the discovery cache meanwhile.
Same(q, x) ==
  /\ q.kind = x.kind /\ q.avoid = x.avoid /\ q.least = x.least
  /\ q.had = x.had /\ q.disc = x.disc /\ q.used = x.used

\* It goes on where no index is at hand yet.
LEMMA GoesTo ==
  ASSUME ApiInv, NEW r \in Reqs, NEW q \in Request, Set(r, q),
         UNCHANGED <<menu, came, process, kube, helm, tasklog>>, req[r].at # "idle",
         q.at \in {"check", "write", "delete", "remove", "index", "download", "helm"},
         Same(q, req[r]), Placed(q)
  PROVE  ApiInv'
<1>1. req[r] \in Request /\ ConfigOK(req[r])
  BY DEF ApiInv, TypeOK, ReqOK
<1>2. q.used # 0 => q.used > q.avoid
  BY <1>1 DEF Same, ConfigOK
<1>3. QED
  BY <1>2, GoesOn DEF Same, LogOK

\* Steps that look something up, or try it.
LEMMA LooksUpInv ==
  ASSUME ApiInv, NEW r \in Reqs, Probe(r) \/ Check(r) \/ ReadCluster(r) \/ LoadChart(r) \/ ReadRepo(r)
  PROVE  ApiInv'
<1>1. /\ req[r] \in Request /\ Placed(req[r]) /\ UNCHANGED <<menu, came, process, kube, helm, tasklog>>
      /\ req[r].at \in {"probe", "check", "cluster", "chart", "repo"} /\ repo \in Urls \cup {None}
  BY DEF ApiInv, TypeOK, ReqOK, Probe, Check, ReadCluster, LoadChart, ReadRepo, At
<1>2. CASE Set(r, Returned(req[r]))
  BY <1>1, <1>2, JustReturns
<1>3. ASSUME NEW place \in {"check", "write", "delete", "index", "helm"}, Set(r, GoOn(req[r], place)),
             req[r].kind \in KindsAt(place), req[r].at # "repo"
      PROVE  ApiInv'
  <2> DEFINE q == GoOn(req[r], place)
  <2>1. q \in Request /\ q.at = place /\ Same(q, req[r])
    <3>1. place \in Places
      BY DEF Places, Calls
    <3>2. q \in Request
      BY <1>1, <3>1, GoOnType
    <3>3. QED
      BY <1>1, <3>2 DEF GoOn, Request, Same
  <2>2. Placed(q)
    BY <1>1, <1>3 DEF GoOn, Placed, Request, KindsAt
  <2>3. QED
    BY <1>1, <1>3, <2>1, <2>2, GoesTo
<1>4. CASE ReadRepo(r) /\ repo # None
  <2> DEFINE place == IF Is(r, "remove") THEN "remove" ELSE "index"
             x == [req[r] EXCEPT !.url = repo]
             q == GoOn(x, place)
  <2>1. x \in Request /\ place \in Places /\ place \in {"index", "remove"}
    BY <1>1 DEF Request, Places
  <2>2. q \in Request /\ q.at = place /\ q.url = repo /\ Same(q, req[r])
    <3>1. q \in Request
      BY <2>1, GoOnType
    <3>2. QED
      BY <1>1, <3>1 DEF GoOn, Request, Same
  <2>3. Placed(q)
    BY <1>1, <1>4, <2>1 DEF GoOn, Placed, Request, KindsAt, Is, ReadRepo, At
  <2>4. Set(r, q)
    BY <1>4 DEF ReadRepo
  <2>5. QED
    BY <1>1, <2>1, <2>2, <2>3, <2>4, GoesTo
<1>5. CASE ReadRepo(r) /\ repo = None
  BY <1>2, <1>5 DEF ReadRepo
<1>6. CASE Probe(r)
  BY <1>1, <1>3, <1>6 DEF Probe, At, Placed, KindsAt
<1>7. CASE Check(r)
  BY <1>1, <1>2, <1>3, <1>7 DEF Check, At, Placed, KindsAt, Is
<1>8. CASE ReadCluster(r)
  BY <1>1, <1>2, <1>3, <1>8 DEF ReadCluster, At, Placed, KindsAt
<1>9. CASE LoadChart(r)
  BY <1>1, <1>3, <1>9 DEF LoadChart, At, Placed, KindsAt
<1>10. QED
  BY <1>4, <1>5, <1>6, <1>7, <1>8, <1>9

LEMMA AfterPlaces ==
  ASSUME NEW kind \in {"search", "refresh", "add", "install"}
  PROVE  /\ After(kind) \in {"show", "answer", "insert", "chart"} /\ After(kind) \in Places
         /\ kind \in KindsAt(After(kind))
<1>1. After(kind) \in {"show", "answer", "insert", "chart"} /\ kind \in KindsAt(After(kind))
  BY DEF After, KindsAt
<1>2. QED
  BY <1>1 DEF Places, Calls

LEMMA LookUpInv ==
  ASSUME ApiInv, NEW r \in Reqs, LookUp(r)
  PROVE  ApiInv'
<1> DEFINE e == index[req[r].url]
<1>1. /\ req[r] \in Request /\ Placed(req[r]) /\ ConfigOK(req[r]) /\ IndexOK(req[r]) /\ req[r].at = "index"
      /\ UNCHANGED <<menu, came, process, kube, helm, tasklog>>
  BY DEF ApiInv, TypeOK, ReqOK, LookUp, At
<1>2. req[r].url \in Urls /\ req[r].kind \in {"search", "refresh", "add", "install"}
  BY <1>1 DEF Placed, KindsAt
<1>3. CASE e # None /\ ~e.old /\ ~Forced(req[r].kind)
  <2> DEFINE x == [req[r] EXCEPT !.got = e.v]
             q == GoOn(x, After(req[r].kind))
  <2>1. e.v \in Nat /\ e.v >= floor[req[r].url] /\ floor[req[r].url] \in Nat
    BY <1>2, <1>3 DEF ApiInv, TypeOK, IndexShared
  <2>2. x \in Request
    BY <1>1, <2>1 DEF Request
  <2>3. q \in Request
    BY <1>2, <2>2, AfterPlaces, GoOnType
  <2>4. /\ Same(q, req[r]) /\ q.at = After(req[r].kind) /\ q.url = req[r].url /\ q.got = e.v
        /\ q.docs = req[r].docs /\ q.did = req[r].did
    BY <1>1, <2>2, <2>3 DEF GoOn, Request, Same
  <2> HIDE DEF q, x
  <2>5. Placed(q)
    BY <1>1, <1>2, <2>4, AfterPlaces DEF Placed, Same
  <2>6. e.v >= req[r].least[req[r].url]
    BY <1>1, <1>2, <1>3, <2>1 DEF IndexOK, Forced, Request
  <2>7. q.used # 0 => q.used > q.avoid
    BY <1>1, <2>4 DEF Same, ConfigOK
  <2>8. Set(r, q)
    BY <1>3 DEF LookUp, q, x
  <2>9. q.at \in {"show", "answer", "insert", "chart"}
    BY <1>2, <2>4, AfterPlaces
  <2>10. QED
    BY <1>1, <2>3, <2>4, <2>5, <2>6, <2>7, <2>8, <2>9, GoesOn DEF Same, LogOK
<1>4. CASE ~(e # None /\ ~e.old /\ ~Forced(req[r].kind))
  <2> DEFINE q == GoOn(req[r], "download")
  <2>1. q \in Request
    BY <1>1, GoOnType DEF Places, Calls
  <2>2. q.at = "download" /\ Same(q, req[r])
    BY <1>1, <2>1 DEF GoOn, Request, Same
  <2>3. Placed(q)
    BY <1>1, <1>2 DEF GoOn, Placed, Request, KindsAt
  <2>4. Set(r, q)
    BY <1>4 DEF LookUp
  <2>5. QED
    BY <1>1, <2>1, <2>2, <2>3, <2>4, GoesTo
<1>5. QED
  BY <1>3, <1>4

LEMMA DownloadInv ==
  ASSUME ApiInv, NEW r \in Reqs, Download(r)
  PROVE  ApiInv'
<1> DEFINE x == [req[r] EXCEPT !.got = published]
           q == GoOn(x, "store")
<1>1. /\ req[r] \in Request /\ Placed(req[r]) /\ ConfigOK(req[r]) /\ IndexOK(req[r]) /\ req[r].at = "download"
      /\ UNCHANGED <<menu, came, process, kube, helm, tasklog>>
  BY DEF ApiInv, TypeOK, ReqOK, Download, At
<1>2. published \in Nat /\ floor[req[r].url] <= published /\ req[r].url \in Urls
  BY <1>1 DEF ApiInv, TypeOK, IndexShared, Placed
<1>3. x \in Request
  BY <1>1, <1>2 DEF Request
<1>4. q \in Request
  BY <1>3, GoOnType DEF Places
<1>5. /\ Same(q, req[r]) /\ q.at = "store" /\ q.url = req[r].url /\ q.got = published
  BY <1>1, <1>3, <1>4 DEF GoOn, Request, Same
<1>6. Placed(q)
  BY <1>1 DEF GoOn, Placed, Request, KindsAt
<1>7. q.got >= floor[q.url] /\ q.got >= q.least[q.url]
  <2>1. q.url \in Urls /\ q.got = published /\ q.least = req[r].least
    BY <1>2, <1>5 DEF Same
  <2>2. req[r].least[q.url] <= published /\ floor[q.url] <= published
    BY <1>1, <1>2, <1>5 DEF IndexOK
  <2>3. req[r].least[q.url] \in Nat /\ floor[q.url] \in Nat
    BY <1>1, <2>1 DEF Request, ApiInv, TypeOK
  <2> HIDE DEF q, x
  <2>4. QED
    BY <1>2, <2>1, <2>2, <2>3
<1>8. q.used # 0 => q.used > q.avoid
  BY <1>1, <1>5 DEF Same, ConfigOK
<1>9. Set(r, q)
  BY DEF Download
<1>10. QED
  BY <1>1, <1>4, <1>5, <1>6, <1>7, <1>8, <1>9, GoesOn DEF Same, LogOK

LEMMA ReadTaskInv ==
  ASSUME ApiInv, NEW r \in Reqs, ReadTask(r)
  PROVE  ApiInv'
<1> DEFINE x == [req[r] EXCEPT !.over = finished]
           q == GoOn(x, "lines")
<1>1. /\ req[r] \in Request /\ Placed(req[r]) /\ ConfigOK(req[r]) /\ req[r].at = "task"
      /\ UNCHANGED <<menu, came, process, kube, helm, tasklog>> /\ finished \in BOOLEAN
  BY DEF ApiInv, TypeOK, ReqOK, ReadTask, At
<1>2. x \in Request
  BY <1>1 DEF Request
<1>3. q \in Request
  BY <1>2, GoOnType DEF Places
<1>4. Same(q, req[r]) /\ q.at = "lines" /\ (q.over => finished)
  BY <1>1, <1>2, <1>3 DEF GoOn, Request, Same
<1>5. Placed(q)
  BY <1>1 DEF GoOn, Placed, Request, KindsAt
<1>6. q.used # 0 => q.used > q.avoid
  BY <1>1, <1>4 DEF Same, ConfigOK
<1>7. Set(r, q)
  BY DEF ReadTask
<1>8. QED
  BY <1>1, <1>3, <1>4, <1>5, <1>6, <1>7, GoesOn DEF Same, LogOK

-----------------------------------------------------------------------------
(* Steps of a handler that change the kubeconfig, the client or its cache. *)

KubeTypes ==
  /\ kubeconfig \in Nat /\ stored \in Nat /\ retired \in Nat
  /\ client \in [of : Nat, disc : 1..Len(disc)] \cup {None}
  /\ disc \in Seq({"empty", "without", "with"}) /\ served \in BOOLEAN
  /\ repo \in Urls \cup {None}

LEMMA KubeTyped == ApiInv => KubeTypes
BY DEF ApiInv, TypeOK, KubeTypes

LEMMA KubeMoved ==
  ASSUME ApiInv, NEW r \in Reqs, NEW q \in Request, Set(r, q),
         UNCHANGED <<menu, came, process, index, published, floor, tasklog>>,
         KubeTypes', ConfigShared',
         Placed(q), Waited(q), IndexOK(q), LogOK(q), ConfigOK(q)', DiscOK(q)',
         \A x \in Request : ReqOK(x) => ConfigOK(x)' /\ DiscOK(x)'
  PROVE  ApiInv'
<1> USE DEF process, tasklog, work, drawer
<1>1. \A x \in Request : ReqOK(x) => ReqOK(x)'
  BY DEF ReqOK, Placed, Waited, IndexOK, LogOK
<1>2. ReqOK(q)'
  BY DEF ReqOK, Placed, Waited, IndexOK, LogOK
<1>3. req \in [Reqs -> Request] /\ \A x \in {req[p] : p \in Reqs} : x \in Request /\ ReqOK(x)
  BY DEF ApiInv, TypeOK
<1>4. req' \in [Reqs -> Request] /\ (\A p \in Reqs : ReqOK(req[p]))'
  BY <1>1, <1>2, <1>3, Moved
<1>5. TypeOK'
  BY <1>4 DEF ApiInv, TypeOK, KubeTypes
<1>6. (IndexShared /\ LogShared)'
  BY DEF ApiInv, IndexShared, LogShared, Strays
<1>7. QED
  BY <1>4, <1>5, <1>6 DEF ApiInv

LEMMA EntryInv ==
  ASSUME ApiInv, NEW r \in Reqs, Entry(r)
  PROVE  ApiInv'
<1> DEFINE fits == Fits(client, req[r].kc)
           c == IF fits THEN client ELSE [of |-> req[r].kc, disc |-> Len(disc) + 1]
           x == [req[r] EXCEPT !.used = c.of, !.disc = c.disc]
           goes == GoOn(x, Use(req[r].kind))
<1>1. /\ req[r] \in Request /\ ReqOK(req[r]) /\ req[r].at = "entry" /\ KubeTypes
      /\ UNCHANGED <<menu, came, process, kubeconfig, stored, retired, served, helm, tasklog>>
  BY KubeTyped DEF ApiInv, TypeOK, Entry, At
<1>2. req[r].kc \in Nat /\ Len(disc) \in Nat
  BY <1>1 DEF Request, KubeTypes
<1>3. /\ client' = c /\ Set(r, goes) /\ disc' = IF fits THEN disc ELSE Append(disc, "empty")
  BY DEF Entry
<1>4. /\ disc' \in Seq({"empty", "without", "with"}) /\ Len(disc') \in Nat /\ Len(disc) <= Len(disc')
      /\ \A d \in 1..Len(disc) : disc'[d] = disc[d]
      /\ c.of = req[r].kc /\ c.disc \in 1..Len(disc') /\ c \in [of : Nat, disc : 1..Len(disc')]
  <2>1. CASE fits
    BY <1>1, <1>2, <1>3, <2>1 DEF Fits, KubeTypes
  <2>2. CASE ~fits
    <3>1. disc' = Append(disc, "empty") /\ c = [of |-> req[r].kc, disc |-> Len(disc) + 1]
      BY <1>3, <2>2
    <3>2. disc' \in Seq({"empty", "without", "with"}) /\ Len(disc') = Len(disc) + 1
      BY <1>1, <3>1 DEF KubeTypes
    <3>3. \A d \in 1..Len(disc) : disc'[d] = disc[d]
      BY <1>1, <3>1 DEF KubeTypes
    <3>4. QED
      BY <1>2, <3>1, <3>2, <3>3
  <2>3. QED
    BY <2>1, <2>2
<1> HIDE DEF c, fits
<1>5. KubeTypes'
  BY <1>1, <1>3, <1>4 DEF KubeTypes, helm
<1>6. ConfigShared'
  BY <1>1 DEF ApiInv, ConfigShared
<1>7. c.of \in Nat /\ c.disc \in Nat
  BY <1>4
<1>8. x \in Request
  BY <1>1, <1>7 DEF Request
<1>9. Use(req[r].kind) \in {"call", "discover", "map", "stream"} /\ req[r].kind \in KindsAt(Use(req[r].kind))
  BY <1>1 DEF ReqOK, Placed, KindsAt, ByKubeconfig, Use
<1>10. goes \in Request
  <2>1. Use(req[r].kind) \in Places
    BY <1>9 DEF Places, Calls
  <2>2. QED
    BY <1>8, <2>1, GoOnType
<1>11. PICK q \in Request : q = goes
  BY <1>10
<1>12. /\ q.at = Use(req[r].kind) /\ q.kind = req[r].kind /\ q.used = c.of /\ q.disc = c.disc
       /\ q.avoid = req[r].avoid /\ q.least = req[r].least /\ q.had = req[r].had
       /\ q.docs = req[r].docs /\ q.did = req[r].did
  BY <1>1, <1>8, <1>10, <1>11 DEF GoOn, Request
<1> HIDE DEF goes, x
<1>13. Placed(q) /\ Waited(q) /\ LogOK(q)
  BY <1>1, <1>9, <1>12 DEF ReqOK, Placed, Waited, Waits, LogOK
<1>14. IndexOK(q)
  BY <1>1, <1>9, <1>12 DEF ReqOK, IndexOK
<1>15. ConfigOK(q)'
  BY <1>1, <1>4, <1>9, <1>12 DEF ReqOK, ConfigOK
<1>16. DiscOK(q)'
  BY <1>1, <1>4, <1>9, <1>12 DEF ReqOK, DiscOK
<1>17. \A y \in Request : ReqOK(y) => ConfigOK(y)' /\ DiscOK(y)'
  BY <1>1, <1>4 DEF ReqOK, ConfigOK, DiscOK
<1>18. UNCHANGED <<menu, came, process, index, published, floor, tasklog>>
  BY <1>1 DEF helm
<1>19. QED
  BY <1>3, <1>5, <1>6, <1>11, <1>13, <1>14, <1>15, <1>16, <1>17, <1>18, KubeMoved

LEMMA InvalidateInv ==
  ASSUME ApiInv, NEW r \in Reqs, Invalidate(r)
  PROVE  ApiInv'
<1> DEFINE goes == GoOn([req[r] EXCEPT !.had = served, !.shared = FALSE, !.lost = FALSE], "remap")
<1>1. /\ req[r] \in Request /\ ReqOK(req[r]) /\ req[r].at = "invalidate" /\ KubeTypes
      /\ UNCHANGED <<menu, came, process, kubeconfig, stored, retired, client, served, helm, tasklog>>
  BY KubeTyped DEF ApiInv, TypeOK, Invalidate, At
<1>2. disc' = [disc EXCEPT ![req[r].disc] = "empty"] /\ Set(r, goes)
  BY DEF Invalidate, Emptied
<1>3. /\ disc' \in Seq({"empty", "without", "with"}) /\ Len(disc') = Len(disc) /\ disc'[req[r].disc] = "empty"
      /\ req[r].disc \in 1..Len(disc) /\ \A d \in 1..Len(disc) : disc'[d] \in {disc[d], "empty"}
  BY <1>1, <1>2 DEF KubeTypes, ReqOK, DiscOK
<1>4. goes \in Request
  BY <1>1 DEF GoOn, Request, Places, Calls, KubeTypes
<1>5. PICK q \in Request : q = goes
  BY <1>4
<1>6. /\ q.at = "remap" /\ q.kind = req[r].kind /\ q.used = req[r].used /\ q.disc = req[r].disc
      /\ q.avoid = req[r].avoid /\ q.least = req[r].least /\ (q.had => served) /\ q.maps = req[r].maps
      /\ q.docs = req[r].docs /\ q.did = req[r].did
  BY <1>1, <1>4, <1>5 DEF GoOn, Request
<1> HIDE DEF goes
<1>7. Placed(q) /\ Waited(q) /\ LogOK(q) /\ IndexOK(q)
  BY <1>1, <1>6 DEF ReqOK, Placed, KindsAt, Waited, Waits, LogOK, IndexOK
<1>8. ConfigOK(q)' /\ DiscOK(q)'
  BY <1>1, <1>3, <1>6 DEF ReqOK, ConfigOK, DiscOK
<1>9. \A y \in Request : ReqOK(y) => ConfigOK(y)' /\ DiscOK(y)'
  BY <1>1, <1>3 DEF ReqOK, ConfigOK, DiscOK
<1>10. KubeTypes' /\ ConfigShared'
  BY <1>1, <1>3 DEF ApiInv, ConfigShared, KubeTypes, helm
<1>11. UNCHANGED <<menu, came, process, index, published, floor, tasklog>>
  BY <1>1 DEF helm
<1>12. QED
  BY <1>2, <1>5, <1>7, <1>8, <1>9, <1>10, <1>11, KubeMoved

LEMMA WriteKubeconfigInv ==
  ASSUME ApiInv, NEW r \in Reqs, WriteKubeconfig(r)
  PROVE  ApiInv'
<1> DEFINE goes == GoOn([req[r] EXCEPT !.kc = kubeconfig, !.did = kubeconfig # 0], "forget")
<1>1. /\ req[r] \in Request /\ ReqOK(req[r]) /\ req[r].at = "write" /\ KubeTypes /\ ConfigShared
      /\ UNCHANGED <<menu, came, process, retired, client, disc, served, helm, tasklog>>
  BY KubeTyped DEF ApiInv, TypeOK, WriteKubeconfig, At
<1>2. /\ stored' = IF kubeconfig = 0 THEN stored ELSE stored + 1
      /\ kubeconfig' = IF kubeconfig = 0 THEN 0 ELSE stored + 1
      /\ Set(r, goes)
  BY DEF WriteKubeconfig
<1>3. goes \in Request
  BY <1>1 DEF GoOn, Request, Places, Calls, KubeTypes
<1>4. PICK q \in Request : q = goes
  BY <1>3
<1>5. /\ q.at = "forget" /\ q.kind = req[r].kind /\ q.used = req[r].used /\ q.kc = kubeconfig
      /\ q.avoid = req[r].avoid /\ q.least = req[r].least /\ q.had = req[r].had
  BY <1>1, <1>3, <1>4 DEF GoOn, Request
<1> HIDE DEF goes
<1>6. q.kind = "update"
  BY <1>1, <1>5 DEF ReqOK, Placed, KindsAt
<1>7. Placed(q)
  BY <1>5, <1>6 DEF Placed, KindsAt, Writes
<1>8. Waited(q) /\ LogOK(q) /\ IndexOK(q)
  BY <1>1, <1>5 DEF ReqOK, Waited, Waits, LogOK, IndexOK
<1>9. ConfigOK(q)' /\ DiscOK(q)'
  BY <1>1, <1>2, <1>5 DEF ReqOK, ConfigOK, ConfigShared, DiscOK, KubeTypes, Request
<1>10. \A y \in Request : ReqOK(y) => ConfigOK(y)' /\ DiscOK(y)'
  <2>1. TAKE y \in Request
  <2>2. HAVE ReqOK(y)
  <2>3. y.kc \in Nat
    BY DEF Request
  <2>4. ConfigOK(y)'
    BY <1>1, <1>2, <2>2, <2>3 DEF ReqOK, ConfigOK, ConfigShared, KubeTypes
  <2>5. QED
    BY <1>1, <2>2, <2>4 DEF ReqOK, DiscOK
<1>11. KubeTypes' /\ ConfigShared'
  BY <1>1, <1>2 DEF ConfigShared, KubeTypes, helm
<1>12. UNCHANGED <<menu, came, process, index, published, floor, tasklog>>
  BY <1>1 DEF helm
<1>13. QED
  BY <1>2, <1>4, <1>7, <1>8, <1>9, <1>10, <1>11, <1>12, KubeMoved

\* Nothing but the row of the cluster, what has retired, or the row of the repository changes,
\* and the handler returns.
LEMMA RowReturns ==
  ASSUME ApiInv, NEW r \in Reqs, NEW q \in Request, q.at = req[r].at, q.kind = req[r].kind,
         req[r].at # "idle", q.did => q.kind \in Writes, Set(r, Returned(q)),
         UNCHANGED <<menu, came, process, stored, disc, served, index, published, floor, tasklog>>,
         KubeTypes', ConfigShared',
         \A x \in Request : ReqOK(x) => ConfigOK(x)'
  PROVE  ApiInv'
<1>1. Waited(q) /\ TypeOK
  BY DEF ApiInv, ReqOK, Waited, Waits
<1>2. Returned(q) \in Request /\ ReqOK(Returned(q))
  BY <1>1, ReturnedOK
<1>3. PICK x \in Request : x = Returned(q)
  BY <1>2
<1>4. Set(r, x) /\ ReqOK(x)
  BY <1>2, <1>3
<1>5. \A y \in Request : ReqOK(y) => ConfigOK(y)' /\ DiscOK(y)'
  BY DEF ReqOK, DiscOK
<1>6. QED
  BY <1>4, <1>5, KubeMoved DEF ReqOK

LEMMA DeleteClusterInv ==
  ASSUME ApiInv, NEW r \in Reqs, DeleteCluster(r)
  PROVE  ApiInv'
<1>1. /\ req[r] \in Request /\ ReqOK(req[r]) /\ req[r].at = "delete" /\ KubeTypes /\ kubeconfig' = 0 /\ repo' = None
      /\ UNCHANGED <<menu, came, process, stored, retired, client, disc, served, index, published, floor, tasklog>>
  BY KubeTyped DEF ApiInv, TypeOK, DeleteCluster, At
<1>2. KubeTypes' /\ ConfigShared'
  BY <1>1 DEF ConfigShared, KubeTypes
<1>3. \A x \in Request : ReqOK(x) => ConfigOK(x)' /\ DiscOK(x)'
  BY <1>1 DEF ReqOK, ConfigOK, DiscOK
<1>4. CASE kubeconfig = 0
  <2>1. Set(r, Returned(req[r]))
    BY <1>4 DEF DeleteCluster
  <2>2. req[r].did => req[r].kind \in Writes
    BY <1>1 DEF ReqOK, Placed
  <2>3. QED
    BY <1>1, <1>2, <1>3, <2>1, <2>2, RowReturns
<1>5. CASE kubeconfig # 0
  <2> DEFINE goes == GoOn([req[r] EXCEPT !.kc = kubeconfig, !.did = TRUE], "forget")
  <2>1. goes \in Request
    BY <1>1 DEF GoOn, Request, Places, Calls, KubeTypes
  <2>2. Set(r, goes)
    BY <1>5 DEF DeleteCluster
  <2>3. PICK q \in Request : q = goes
    BY <2>1
  <2>4. /\ q.at = "forget" /\ q.kind = req[r].kind /\ q.used = req[r].used
        /\ q.avoid = req[r].avoid /\ q.least = req[r].least /\ q.had = req[r].had
    BY <1>1, <2>1, <2>3 DEF GoOn, Request
  <2> HIDE DEF goes
  <2>5. q.kind = "drop"
    BY <1>1, <2>4 DEF ReqOK, Placed, KindsAt
  <2>6. Placed(q)
    BY <2>4, <2>5 DEF Placed, KindsAt, Writes
  <2>7. Waited(q) /\ LogOK(q) /\ IndexOK(q)
    BY <1>1, <2>4 DEF ReqOK, Waited, Waits, LogOK, IndexOK
  <2>8. ConfigOK(q)' /\ DiscOK(q)'
    BY <1>1, <2>4 DEF ReqOK, ConfigOK, DiscOK
  <2>9. QED
    BY <1>1, <1>2, <1>3, <2>2, <2>3, <2>6, <2>7, <2>8, KubeMoved
<1>6. QED
  BY <1>4, <1>5

LEMMA ForgetInv ==
  ASSUME ApiInv, NEW r \in Reqs, Forget(r)
  PROVE  ApiInv'
<1>1. /\ req[r] \in Request /\ ReqOK(req[r]) /\ req[r].at = "forget" /\ KubeTypes /\ ConfigShared
      /\ UNCHANGED <<menu, came, process, kubeconfig, stored, disc, served, helm, tasklog>>
  BY KubeTyped DEF ApiInv, TypeOK, Forget, At
<1>2. /\ client' = None /\ retired' = IF req[r].kc > retired THEN req[r].kc ELSE retired
      /\ Set(r, Returned(req[r]))
  BY DEF Forget
<1>3. req[r].kc \in Nat /\ (kubeconfig # 0 => req[r].kc < kubeconfig)
  BY <1>1 DEF Request, ReqOK, ConfigOK
<1>4. retired' \in Nat /\ retired <= retired'
  BY <1>1, <1>2, <1>3 DEF KubeTypes
<1>5. KubeTypes' /\ ConfigShared'
  BY <1>1, <1>2, <1>3, <1>4 DEF ConfigShared, KubeTypes, helm
<1>6. \A x \in Request : ReqOK(x) => ConfigOK(x)'
  <2>1. TAKE x \in Request
  <2>2. HAVE ReqOK(x)
  <2>3. x.avoid \in Nat /\ x.avoid <= retired /\ retired \in Nat
    BY <1>1, <2>2 DEF Request, ReqOK, ConfigOK, KubeTypes
  <2>4. x.avoid <= retired'
    BY <1>4, <2>3
  <2>5. QED
    BY <1>1, <2>2, <2>4 DEF ReqOK, ConfigOK
<1>7. req[r].did => req[r].kind \in Writes
  BY <1>1 DEF ReqOK, Placed
<1>8. UNCHANGED <<menu, came, process, stored, disc, served, index, published, floor, tasklog>>
  BY <1>1 DEF helm
<1>9. QED
  BY <1>1, <1>2, <1>5, <1>6, <1>7, <1>8, RowReturns

LEMMA InsertRepoInv ==
  ASSUME ApiInv, NEW r \in Reqs, InsertRepo(r)
  PROVE  ApiInv'
<1> DEFINE ok == repo = None /\ kubeconfig # 0
           q == [req[r] EXCEPT !.did = ok]
<1>1. /\ req[r] \in Request /\ ReqOK(req[r]) /\ req[r].at = "insert" /\ KubeTypes /\ ConfigShared
      /\ UNCHANGED <<menu, came, process, kube, index, published, floor, tasklog>>
  BY KubeTyped DEF ApiInv, TypeOK, InsertRepo, At
<1>2. req[r].url \in Urls /\ req[r].kind = "add"
  BY <1>1 DEF ReqOK, Placed, KindsAt
<1>3. repo' \in Urls \cup {None} /\ Set(r, Returned(q))
  BY <1>1, <1>2 DEF InsertRepo, KubeTypes
<1>4. KubeTypes' /\ ConfigShared'
  BY <1>1, <1>3 DEF ConfigShared, KubeTypes, kube
<1>5. \A x \in Request : ReqOK(x) => ConfigOK(x)'
  BY <1>1 DEF ReqOK, ConfigOK, kube
<1>6. q \in Request /\ q.at = req[r].at /\ q.kind = req[r].kind
  BY <1>1 DEF Request
<1>7. q.kind \in Writes
  BY <1>2, <1>6 DEF Writes
<1>8. UNCHANGED <<menu, came, process, stored, disc, served, index, published, floor, tasklog>>
  BY <1>1 DEF kube
<1> HIDE DEF q
<1>9. QED
  BY <1>1, <1>3, <1>4, <1>5, <1>6, <1>7, <1>8, RowReturns

LEMMA RemoveRepoInv ==
  ASSUME ApiInv, NEW r \in Reqs, RemoveRepo(r)
  PROVE  ApiInv'
<1>1. /\ req[r] \in Request /\ ReqOK(req[r]) /\ req[r].at = "remove" /\ KubeTypes /\ ConfigShared
      /\ UNCHANGED <<menu, came, process, kube, index, published, floor, tasklog>> /\ repo' = None
  BY KubeTyped DEF ApiInv, TypeOK, RemoveRepo, At
<1>2. req[r].url \in Urls /\ req[r].kind = "remove"
  BY <1>1 DEF ReqOK, Placed, KindsAt
<1>3. KubeTypes' /\ ConfigShared'
  BY <1>1 DEF ConfigShared, KubeTypes, kube
<1>4. \A x \in Request : ReqOK(x) => ConfigOK(x)' /\ DiscOK(x)'
  BY <1>1 DEF ReqOK, ConfigOK, DiscOK, kube
<1>5. UNCHANGED <<menu, came, process, stored, disc, served, index, published, floor, tasklog>>
  BY <1>1 DEF kube
<1>6. CASE repo = None
  <2>1. Set(r, Returned(req[r]))
    BY <1>6 DEF RemoveRepo
  <2>2. req[r].did => req[r].kind \in Writes
    BY <1>1 DEF ReqOK, Placed
  <2>3. QED
    BY <1>1, <1>3, <1>4, <1>5, <2>1, <2>2, RowReturns
<1>7. CASE repo # None
  <2> DEFINE goes == GoOn([req[r] EXCEPT !.did = TRUE], "forgetindex")
  <2>1. goes \in Request
    BY <1>1 DEF GoOn, Request, Places, Calls
  <2>2. Set(r, goes)
    BY <1>7 DEF RemoveRepo
  <2>3. PICK q \in Request : q = goes
    BY <2>1
  <2>4. /\ q.at = "forgetindex" /\ q.kind = "remove" /\ q.used = req[r].used /\ q.url \in Urls
        /\ q.avoid = req[r].avoid /\ q.least = req[r].least /\ q.had = req[r].had
    BY <1>1, <1>2, <2>1, <2>3 DEF GoOn, Request
  <2> HIDE DEF goes
  <2>5. Placed(q)
    BY <2>4 DEF Placed, KindsAt, Writes
  <2>6. Waited(q) /\ LogOK(q) /\ IndexOK(q)
    BY <1>1, <1>2, <2>4 DEF ReqOK, Waited, Waits, LogOK, IndexOK
  <2>7. ConfigOK(q)' /\ DiscOK(q)'
    BY <1>1, <2>4 DEF ReqOK, ConfigOK, DiscOK, kube
  <2>8. QED
    BY <1>1, <1>3, <1>4, <1>5, <2>2, <2>3, <2>5, <2>6, <2>7, KubeMoved
<1>8. QED
  BY <1>6, <1>7

-----------------------------------------------------------------------------
(* Steps that use the discovery cache. *)

LEMMA ViewType == View \in {"without", "with"} /\ (served => View = "with") /\ Views \subseteq {"without", "with"}
BY DEF View, Views

LEMMA FilledType ==
  ASSUME ApiInv, NEW d \in 1..Len(disc), NEW view \in Views
  PROVE  Filled(d, view) \in {"without", "with"} /\ (disc[d] = "empty" => Filled(d, view) = view)
BY ViewType DEF ApiInv, TypeOK, Filled

\* The cache of r's client holds v now, and the others know that r has used it.
LEMMA ShareMoved ==
  ASSUME ApiInv, NEW r \in Reqs, NEW q \in Request, Share(r, q), req[r].disc \in 1..Len(disc),
         NEW v \in {"empty", "without", "with"}, disc' = [disc EXCEPT ![req[r].disc] = v],
         UNCHANGED <<menu, came, process, kubeconfig, stored, retired, client, served, helm, tasklog>>,
         ReqOK(q), q.at # "remap"
  PROVE  ApiInv'
<1> USE DEF process, helm, tasklog, work, drawer
<1>1. req \in [Reqs -> Request] /\ disc \in Seq({"empty", "without", "with"})
  BY DEF ApiInv, TypeOK
<1>2. disc' \in Seq({"empty", "without", "with"}) /\ Len(disc') = Len(disc)
  BY <1>1
<1>3. \A d \in 1..Len(disc) : d # req[r].disc => disc'[d] = disc[d]
  BY <1>1
<1>4. Share(r, q) <=> req' = [p \in Reqs |-> IF p = r THEN q
                         ELSE [req[p] EXCEPT !.shared = @ \/ req[p].disc = req[r].disc]]
  BY DEF Share
<1>5. ASSUME NEW p \in Reqs, p # r
      PROVE  req'[p] \in Request /\ ReqOK(req[p])'
  <2>1. req[p] \in Request /\ ReqOK(req[p])
    BY DEF ApiInv, TypeOK
  <2>2. req'[p] = [req[p] EXCEPT !.shared = @ \/ req[p].disc = req[r].disc]
    BY <1>4, <1>5
  <2>3. req'[p] \in Request
    BY <2>1, <2>2 DEF Request
  <2>4. PICK x \in Request : x = req[p]
    BY <2>1
  <2>5. PICK y \in Request : y = req'[p]
    BY <2>3
  <2>6. ~y.shared => ~x.shared /\ x.disc # req[r].disc
    BY <2>2, <2>4, <2>5 DEF Request
  <2>7. /\ y.kind = x.kind /\ y.at = x.at /\ y.did = x.did /\ y.avoid = x.avoid /\ y.kc = x.kc
        /\ y.used = x.used /\ y.disc = x.disc /\ y.maps = x.maps /\ y.docs = x.docs /\ y.had = x.had
        /\ y.lost = x.lost /\ y.url = x.url /\ y.least = x.least /\ y.got = x.got /\ y.over = x.over
    BY <2>2, <2>4, <2>5 DEF Request
  <2>8. ReqOK(x)
    BY <2>1, <2>4
  <2>9. Placed(y)' /\ Waited(y)' /\ LogOK(y)'
    BY <2>7, <2>8 DEF ReqOK, Placed, Waited, Waits, LogOK
  <2>10. ConfigOK(y)' /\ IndexOK(y)'
    BY <2>7, <2>8 DEF ReqOK, ConfigOK, IndexOK
  <2>11. DiscOK(y)'
    BY <1>2, <1>3, <2>6, <2>7, <2>8 DEF ReqOK, DiscOK
  <2>12. ReqOK(y)'
    BY <2>9, <2>10, <2>11 DEF ReqOK
  <2>13. QED
    BY <2>3, <2>5, <2>12
<1>6. ReqOK(q)'
  BY <1>2 DEF ReqOK, Placed, Waited, ConfigOK, DiscOK, IndexOK, LogOK
<1>7. req'[r] = q
  BY <1>4
<1>8. (\A p \in Reqs : ReqOK(req[p]))'
  BY <1>5, <1>6, <1>7
<1>9. req' \in [Reqs -> Request]
  BY <1>4, <1>5, <1>7
<1>10. client' \in [of : Nat, disc : 1..Len(disc')] \cup {None}
  BY <1>2 DEF ApiInv, TypeOK
<1>11. TypeOK'
  BY <1>2, <1>9, <1>10 DEF ApiInv, TypeOK
<1>12. (ConfigShared /\ IndexShared /\ LogShared)'
  BY DEF ApiInv, ConfigShared, IndexShared, LogShared, Strays
<1>13. QED
  BY <1>8, <1>11, <1>12 DEF ApiInv

LEMMA ResourceKindsInv ==
  ASSUME ApiInv, NEW r \in Reqs, ResourceKinds(r)
  PROVE  ApiInv'
<1>1. /\ req[r] \in Request /\ ReqOK(req[r]) /\ req[r].at = "discover" /\ TypeOK
      /\ UNCHANGED <<menu, came, process, kubeconfig, stored, retired, client, served, helm, tasklog>>
  BY DEF ApiInv, TypeOK, ResourceKinds, At
<1>2. req[r].disc \in 1..Len(disc) /\ (req[r].did => req[r].kind \in Writes) /\ Waited(req[r])
  BY <1>1 DEF ReqOK, DiscOK, Placed
<1>3. Returned(req[r]) \in Request /\ ReqOK(Returned(req[r]))
  BY <1>1, <1>2, ReturnedOK
<1>4. PICK q \in Request : q = Returned(req[r])
  BY <1>3
<1>5. PICK view \in Views : disc' = [disc EXCEPT ![req[r].disc] = Filled(req[r].disc, view)]
  BY DEF ResourceKinds
<1>9. PICK v \in {"without", "with"} : v = Filled(req[r].disc, view)
  BY <1>2, FilledType
<1>6. Share(r, q) /\ disc' = [disc EXCEPT ![req[r].disc] = v]
  BY <1>4, <1>5, <1>9 DEF ResourceKinds
<1>7. q.at # "remap"
  BY <1>4 DEF Returned, Idle
<1>8. QED
  BY <1>1, <1>2, <1>3, <1>4, <1>6, <1>7, ShareMoved

\* The mapping of a document, with the place it goes to when the kind is unknown.
LEMMA MappingInv ==
  ASSUME ApiInv, NEW r \in Reqs, req[r].at \in {"map", "remap"}, NEW missed \in {"invalidate", "unknown"},
         NEW view \in Views, Mapping(r, view, missed),
         req[r].kind \in KindsAt(missed),
         missed = "unknown" /\ req[r].kind = "apply" => req[r].at = "remap",
         UNCHANGED <<menu, came, process, kubeconfig, stored, retired, client, served, helm, tasklog>>
  PROVE  ApiInv'
<1> DEFINE d == req[r].disc
           first == req[r].maps = "none"
           copy == IF first THEN Filled(d, view) ELSE req[r].maps
           again == ~Known(Head(req[r].docs), copy) /\ ~first /\ disc[d] = "empty"
           maps == IF again THEN view ELSE copy
           asks == (first \/ again) /\ disc[d] = "empty"
           lost == req[r].lost \/ (asks /\ view # View)
           known == Known(Head(req[r].docs), maps)
           x == [req[r] EXCEPT !.maps = maps, !.lost = @ \/ (asks /\ view # View)]
           next == GoOn(x, IF known THEN "patch" ELSE missed)
<1>1. /\ req[r] \in Request /\ ReqOK(req[r]) /\ disc \in Seq({"empty", "without", "with"})
  BY DEF ApiInv, TypeOK
<1>2. /\ req[r].disc \in 1..Len(disc) /\ req[r].maps \in {"none", "without", "with"}
      /\ req[r].at = "remap" => (req[r].had /\ ~req[r].shared => disc[d] = "empty")
      /\ (req[r].had => served)
  BY <1>1 DEF ReqOK, DiscOK, Request
<1>3. disc' = [disc EXCEPT ![d] = IF first \/ again THEN Filled(d, view) ELSE @]
      /\ Share(r, next)
  BY DEF Mapping
<1>4. PICK v \in {"empty", "without", "with"} : disc' = [disc EXCEPT ![d] = v]
  <2>1. CASE first \/ again
    BY <1>2, <1>3, <2>1, FilledType
  <2>2. CASE ~(first \/ again)
    <3>1. disc[d] \in {"empty", "without", "with"}
      BY <1>1, <1>2
    <3>2. disc' = [disc EXCEPT ![d] = disc[d]]
      BY <1>3, <2>2
    <3>3. QED
      BY <3>1, <3>2
  <2>3. QED
    BY <2>1, <2>2
<1>5. maps \in {"without", "with"} /\ lost \in BOOLEAN
  BY <1>1, <1>2, FilledType, ViewType DEF Request
<1>6. ~known /\ req[r].at = "remap" => ~req[r].had \/ req[r].shared \/ lost
  <2> SUFFICES ASSUME ~known, req[r].at = "remap", req[r].had, ~req[r].shared PROVE view # View /\ asks
    OBVIOUS
  <2>1. disc[d] = "empty" /\ served /\ Filled(d, view) = view
    BY <1>2, FilledType
  <2>2. maps # "with"
    BY DEF Known
  <2>3. first \/ again
    BY <2>1, <2>2 DEF Known
  <2>4. maps = view
    BY <2>1, <2>3
  <2>5. QED
    BY <2>1, <2>2, <2>3, <2>4, ViewType
<1>18. x \in Request /\ x.lost = lost /\ x.maps = maps /\ x.kind = req[r].kind /\ x.did = req[r].did
       /\ x.avoid = req[r].avoid /\ x.used = req[r].used /\ x.disc = req[r].disc /\ x.docs = req[r].docs
       /\ x.had = req[r].had /\ x.least = req[r].least /\ x.shared = req[r].shared /\ x.kc = req[r].kc
       /\ x.over = req[r].over /\ x.url = req[r].url /\ x.got = req[r].got
  <2> HIDE DEF maps, asks
  <2>1. maps \in {"none", "without", "with"}
    BY <1>5
  <2>2. QED
    BY <1>1, <1>5, <2>1 DEF Request
<1> HIDE DEF maps, known, lost, x
<1>7. next \in Request
  <2>1. \A place \in Places : GoOn(x, place) \in Request
    BY <1>18 DEF GoOn, Request
  <2>2. (IF known THEN "patch" ELSE missed) \in Places
    BY DEF Places, Calls
  <2>3. QED
    BY <2>1, <2>2
<1>8. PICK q \in Request : q = next
  BY <1>7
<1>9. /\ q.kind = req[r].kind /\ q.did = req[r].did /\ q.avoid = req[r].avoid /\ q.used = req[r].used
      /\ q.disc = req[r].disc /\ q.docs = req[r].docs /\ q.had = req[r].had /\ q.least = req[r].least
      /\ (req[r].shared => q.shared) /\ q.maps = maps /\ q.lost = lost
      /\ q.at = IF known THEN "patch" ELSE missed
  BY <1>1, <1>8, <1>18 DEF GoOn, Request
<1>10. Share(r, q)
  BY <1>3, <1>8
<1> HIDE DEF next
<1>11. q.kind \in {"apply", "undo"} /\ q.kind \in KindsAt(q.at)
  BY <1>1, <1>9 DEF ReqOK, Placed, KindsAt
<1>12. Placed(q)
  BY <1>1, <1>9, <1>11 DEF ReqOK, Placed
<1>13. Waited(q) /\ LogOK(q)
  BY <1>1, <1>9 DEF ReqOK, Waited, Waits, LogOK
<1>14. ConfigOK(q) /\ IndexOK(q)
  BY <1>1, <1>9 DEF ReqOK, ConfigOK, IndexOK
<1>15. DiscOK(q)
  BY <1>2, <1>5, <1>6, <1>9 DEF DiscOK
<1>16. ReqOK(q) /\ q.at # "remap"
  BY <1>9, <1>12, <1>13, <1>14, <1>15 DEF ReqOK
<1>17. QED
  BY <1>2, <1>4, <1>10, <1>16, ShareMoved

LEMMA MapInv ==
  ASSUME ApiInv, NEW r \in Reqs, MapDocument(r) \/ MapAgain(r)
  PROVE  ApiInv'
<1>1. req[r] \in Request /\ Placed(req[r])
  BY DEF ApiInv, TypeOK, ReqOK
<1>2. CASE MapDocument(r)
  <2> DEFINE missed == IF Is(r, "apply") THEN "invalidate" ELSE "unknown"
  <2>1. /\ req[r].at = "map"
        /\ UNCHANGED <<menu, came, process, kubeconfig, stored, retired, client, served, helm, tasklog>>
    BY <1>2 DEF MapDocument, At
  <2>5. PICK view \in Views : Mapping(r, view, missed)
    BY <1>2 DEF MapDocument, Missed
  <2>2. req[r].kind \in KindsAt(missed) /\ (missed = "unknown" => req[r].kind # "apply")
    BY <1>1, <2>1 DEF Placed, KindsAt, Is
  <2>3. missed \in {"invalidate", "unknown"}
    OBVIOUS
  <2> HIDE DEF missed
  <2>4. QED
    BY <2>1, <2>2, <2>3, <2>5, MappingInv
<1>3. CASE MapAgain(r)
  <2>1. /\ req[r].at = "remap"
        /\ UNCHANGED <<menu, came, process, kubeconfig, stored, retired, client, served, helm, tasklog>>
    BY <1>3 DEF MapAgain, At
  <2>4. PICK view \in Views : Mapping(r, view, "unknown")
    BY <1>3 DEF MapAgain, Missed, At
  <2>2. req[r].kind \in KindsAt("unknown")
    BY <1>1, <2>1 DEF Placed, KindsAt
  <2>3. QED
    BY <2>1, <2>2, <2>4, MappingInv
<1>4. QED
  BY <1>2, <1>3

\* Discovery that fails altogether leaves the cache as empty as it was.
LEMMA MappingFailsInv ==
  ASSUME ApiInv, NEW r \in Reqs, MappingFails(r)
  PROVE  ApiInv'
<1> DEFINE x == [req[r] EXCEPT !.maps = "none", !.lost = TRUE]
           next == GoOn(x, Missed(r))
<1>1. /\ req[r] \in Request /\ ReqOK(req[r]) /\ req[r].at \in {"map", "remap"}
      /\ UNCHANGED <<menu, came, process, kube, helm, tasklog>> /\ Set(r, next)
  BY DEF ApiInv, TypeOK, MappingFails, At
<1>2. /\ Missed(r) \in {"invalidate", "unknown"} /\ req[r].kind \in KindsAt(Missed(r))
  BY <1>1 DEF Missed, ReqOK, Placed, KindsAt, Is, At
<1>3. x \in Request
  BY <1>1 DEF Request
<1>4. next \in Request
  BY <1>1, <1>2, <1>3 DEF GoOn, Request, Places, Calls
<1>5. PICK q \in Request : q = next
  BY <1>4
<1>6. /\ q.kind = req[r].kind /\ q.did = req[r].did /\ q.avoid = req[r].avoid /\ q.used = req[r].used
      /\ q.disc = req[r].disc /\ q.docs = req[r].docs /\ q.had = req[r].had /\ q.least = req[r].least
      /\ q.lost /\ q.at = Missed(r)
  BY <1>1, <1>5 DEF GoOn, Request
<1> HIDE DEF next
<1>7. Placed(q)
  BY <1>1, <1>2, <1>6 DEF ReqOK, Placed
<1>8. Waited(q) /\ LogOK(q)
  BY <1>1, <1>2, <1>6 DEF ReqOK, Waited, Waits, LogOK
<1>9. ConfigOK(q) /\ IndexOK(q) /\ DiscOK(q)
  BY <1>1, <1>2, <1>6 DEF ReqOK, ConfigOK, IndexOK, DiscOK
<1>10. came' \in 0..MaxRequests
  BY <1>1 DEF ApiInv, TypeOK
<1>11. QED
  BY <1>1, <1>5, <1>7, <1>8, <1>9, <1>10, Quiet DEF ReqOK

-----------------------------------------------------------------------------
(* Steps of a handler that change an index or what is promised of it, or the drawer. *)

LEMMA HelmMoved ==
  ASSUME ApiInv, NEW r \in Reqs, NEW q \in Request, Set(r, q), ReqOK(q),
         UNCHANGED <<menu, came, process, kube, repo, published, tasklog>>,
         index' \in [Urls -> [v : Nat, old : BOOLEAN] \cup {None}], floor' \in [Urls -> 0..MaxPublished],
         IndexShared', IndexOK(q)', \A x \in {req[p] : p \in Reqs} : IndexOK(x)'
  PROVE  ApiInv'
<1> USE DEF process, kube, tasklog, work, drawer
<1>1. req \in [Reqs -> Request] /\ \A x \in {req[p] : p \in Reqs} : ReqOK(x)
  BY DEF ApiInv, TypeOK
<1>2. \A x \in {req[p] : p \in Reqs} : ReqOK(x)'
  BY <1>1 DEF ReqOK, Placed, Waited, ConfigOK, DiscOK, LogOK
<1>3. ReqOK(q)'
  BY DEF ReqOK, Placed, Waited, ConfigOK, DiscOK, LogOK
<1>4. req' \in [Reqs -> Request] /\ (\A p \in Reqs : ReqOK(req[p]))'
  BY <1>1, <1>2, <1>3, Moved
<1>5. TypeOK'
  BY <1>4 DEF ApiInv, TypeOK
<1>6. (ConfigShared /\ LogShared)'
  BY DEF ApiInv, ConfigShared, LogShared, Strays
<1>7. QED
  BY <1>4, <1>5, <1>6 DEF ApiInv

LEMMA StoreIndexInv ==
  ASSUME ApiInv, NEW r \in Reqs, StoreIndex(r)
  PROVE  ApiInv'
<1> DEFINE goes == GoOn(req[r], After(req[r].kind))
<1>1. /\ req[r] \in Request /\ ReqOK(req[r]) /\ req[r].at = "store" /\ TypeOK /\ IndexShared
      /\ UNCHANGED <<menu, came, process, kube, repo, published, floor, tasklog>>
      /\ index' = [index EXCEPT ![req[r].url] = [v |-> req[r].got, old |-> FALSE]]
      /\ Set(r, goes)
  BY DEF ApiInv, TypeOK, StoreIndex, At
<1>2. req[r].url \in Urls /\ req[r].kind \in {"search", "refresh", "add", "install"}
  BY <1>1 DEF ReqOK, Placed, KindsAt
<1>3. goes \in Request
  BY <1>1, <1>2, AfterPlaces, GoOnType
<1>4. PICK q \in Request : q = goes
  BY <1>3
<1>5. /\ Same(q, req[r]) /\ q.at = After(req[r].kind) /\ q.url = req[r].url /\ q.got = req[r].got
      /\ q.docs = req[r].docs /\ q.did = req[r].did
  BY <1>1, <1>3, <1>4 DEF GoOn, Request, Same
<1>6. q.at \in {"show", "answer", "insert", "chart"} /\ q.kind \in KindsAt(q.at)
  BY <1>2, <1>5, AfterPlaces DEF Same
<1> HIDE DEF goes
<1>7. Placed(q)
  BY <1>1, <1>2, <1>5, <1>6 DEF ReqOK, Placed, Same
<1>8. Waited(q) /\ ConfigOK(q) /\ LogOK(q)
  BY <1>1, <1>5, <1>6 DEF ReqOK, Waited, Waits, ConfigOK, LogOK, Same
<1>9. DiscOK(q)
  BY <1>1, <1>5, <1>6 DEF ReqOK, DiscOK, Same
<1>10. IndexOK(q)
  BY <1>1, <1>5, <1>6 DEF ReqOK, IndexOK, Same
<1>11. req[r].got \in Nat /\ req[r].got >= floor[req[r].url]
  BY <1>1 DEF ReqOK, IndexOK, Request
<1>12. index' \in [Urls -> [v : Nat, old : BOOLEAN] \cup {None}]
  BY <1>1, <1>2, <1>11 DEF TypeOK
<1>13. IndexShared'
  <2> SUFFICES ASSUME NEW u \in Urls
               PROVE  floor[u] <= published /\ (index'[u] # None => index'[u].v >= floor[u])
    BY <1>1 DEF IndexShared
  <2>1. CASE u = req[r].url
    BY <1>1, <1>2, <1>11, <2>1 DEF IndexShared, TypeOK
  <2>2. CASE u # req[r].url
    BY <1>1, <1>2, <2>2 DEF IndexShared, TypeOK
  <2>3. QED
    BY <2>1, <2>2
<1>14. IndexOK(q)' /\ \A x \in {req[p] : p \in Reqs} : IndexOK(x)'
  <2>1. \A x : IndexOK(x) => IndexOK(x)'
    BY <1>1 DEF IndexOK
  <2>2. \A x \in {req[p] : p \in Reqs} : IndexOK(x)
    BY DEF ApiInv, ReqOK
  <2>3. QED
    BY <1>10, <2>1, <2>2
<1>15. floor' \in [Urls -> 0..MaxPublished]
  BY <1>1 DEF TypeOK
<1>16. Set(r, q) /\ ReqOK(q)
  BY <1>1, <1>4, <1>7, <1>8, <1>9, <1>10 DEF ReqOK
<1>17. QED
  BY <1>1, <1>12, <1>13, <1>14, <1>15, <1>16, HelmMoved

LEMMA ForgetIndexInv ==
  ASSUME ApiInv, NEW r \in Reqs, ForgetIndex(r)
  PROVE  ApiInv'
<1>1. /\ req[r] \in Request /\ ReqOK(req[r]) /\ req[r].at = "forgetindex" /\ TypeOK /\ IndexShared
      /\ UNCHANGED <<menu, came, process, kube, repo, published, floor, tasklog>>
      /\ index' = [index EXCEPT ![req[r].url] = None]
      /\ Set(r, Returned(req[r]))
  BY DEF ApiInv, TypeOK, ForgetIndex, At
<1>2. Waited(req[r]) /\ (req[r].did => req[r].kind \in Writes)
  BY <1>1 DEF ReqOK, Placed
<1>3. Returned(req[r]) \in Request /\ ReqOK(Returned(req[r]))
  BY <1>1, <1>2, ReturnedOK
<1>4. PICK q \in Request : q = Returned(req[r])
  BY <1>3
<1>5. index' \in [Urls -> [v : Nat, old : BOOLEAN] \cup {None}] /\ floor' \in [Urls -> 0..MaxPublished]
  BY <1>1 DEF TypeOK
<1>6. \A u \in Urls : index'[u] # None => index'[u] = index[u]
  BY <1>1 DEF TypeOK
<1>7. IndexShared'
  BY <1>1, <1>6 DEF IndexShared
<1>8. \A x : IndexOK(x) => IndexOK(x)'
  BY <1>1 DEF IndexOK
<1>9. IndexOK(q)' /\ \A x \in {req[p] : p \in Reqs} : IndexOK(x)'
  BY <1>3, <1>4, <1>8 DEF ApiInv, ReqOK
<1>10. QED
  BY <1>1, <1>3, <1>4, <1>5, <1>7, <1>9, HelmMoved

LEMMA RefreshedInv ==
  ASSUME ApiInv, NEW r \in Reqs, Refreshed(r)
  PROVE  ApiInv'
<1> DEFINE u == req[r].url
           v == req[r].least[u]
<1>1. /\ req[r] \in Request /\ ReqOK(req[r]) /\ req[r].at = "answer" /\ TypeOK /\ IndexShared
      /\ UNCHANGED <<menu, came, process, kube, repo, index, published, tasklog>>
      /\ floor' = IF Settled(u, v) /\ v > floor[u] THEN [floor EXCEPT ![u] = v] ELSE floor
      /\ Set(r, Returned(req[r]))
  BY DEF ApiInv, TypeOK, Refreshed, At
<1>2. Waited(req[r]) /\ (req[r].did => req[r].kind \in Writes)
  BY <1>1 DEF ReqOK, Placed
<1>3. Returned(req[r]) \in Request /\ ReqOK(Returned(req[r]))
  BY <1>1, <1>2, ReturnedOK
<1>4. PICK q \in Request : q = Returned(req[r])
  BY <1>3
<1>5. u \in Urls /\ v \in Nat /\ v <= published
  BY <1>1 DEF ReqOK, Placed, IndexOK, Request
<1>6. /\ index' \in [Urls -> [v : Nat, old : BOOLEAN] \cup {None}] /\ index' = index /\ published' = published
      /\ floor \in [Urls -> 0..MaxPublished] /\ published \in 0..MaxPublished
  BY <1>1 DEF TypeOK
<1>7. q.at # "store"
  BY <1>4 DEF Returned, Idle
<1>8. CASE Settled(u, v) /\ v > floor[u]
  <2>1. floor' = [floor EXCEPT ![u] = v]
    BY <1>1, <1>8
  <2>2. \A w \in Urls : floor'[w] = IF w = u THEN v ELSE floor[w]
    BY <1>5, <1>6, <2>1
  <2>3. v \in 0..MaxPublished
    BY <1>5, <1>6 DEF ApiAssumption
  <2>4. floor' \in [Urls -> 0..MaxPublished]
    BY <1>5, <1>6, <2>1, <2>3
  <2>5. \A w \in Urls : floor[w] <= floor'[w]
    BY <1>5, <1>6, <1>8, <2>2
  <2>6. IndexShared'
    BY <1>1, <1>5, <1>6, <1>8, <2>2 DEF IndexShared, Settled
  <2>7. ASSUME NEW x \in Request, IndexOK(x), Placed(x), x.at = "store" /\ x.url = u => x.got >= v
        PROVE  IndexOK(x)'
    <3>1. ASSUME NEW w \in Urls
          PROVE  x.least[w] <= published /\ (x.kind # "refresh" => x.least[w] <= floor'[w])
      <4>1. x.least[w] \in Nat /\ floor[w] \in Nat /\ floor'[w] \in Nat
        BY <1>6, <2>4 DEF Request
      <4>2. QED
        BY <2>5, <2>7, <4>1 DEF IndexOK
    <3>2. x.at = "store" => x.got >= floor'[x.url]
      <4>1. x.at = "store" => x.url \in Urls
        BY <2>7 DEF Placed
      <4>2. QED
        BY <2>2, <2>7, <4>1 DEF IndexOK
    <3>3. QED
      BY <1>6, <2>7, <3>1, <3>2 DEF IndexOK
  <2>8. IndexOK(q)'
    BY <1>3, <1>4, <1>7, <2>7 DEF ReqOK
  <2>9. ASSUME NEW x \in {req[p] : p \in Reqs} PROVE IndexOK(x)'
    <3>1. x \in Request /\ IndexOK(x) /\ Placed(x)
      BY <1>1 DEF ApiInv, TypeOK, ReqOK
    <3>2. x.at = "store" /\ x.url = u => x.got >= v
      BY <1>8 DEF Settled
    <3>3. QED
      BY <2>7, <3>1, <3>2
  <2>10. QED
    BY <1>1, <1>3, <1>4, <1>6, <2>4, <2>6, <2>8, <2>9, HelmMoved
<1>9. CASE ~(Settled(u, v) /\ v > floor[u])
  <2>1. floor' = floor
    BY <1>1, <1>9
  <2>2. \A x : IndexOK(x) => IndexOK(x)'
    BY <1>6, <2>1 DEF IndexOK
  <2>3. IndexShared' /\ floor' \in [Urls -> 0..MaxPublished]
    BY <1>1, <1>6, <2>1 DEF IndexShared
  <2>4. IndexOK(q)' /\ \A x \in {req[p] : p \in Reqs} : IndexOK(x)'
    BY <1>3, <1>4, <2>2 DEF ApiInv, ReqOK
  <2>5. QED
    BY <1>1, <1>3, <1>4, <1>6, <2>3, <2>4, HelmMoved
<1>10. QED
  BY <1>8, <1>9

LEMMA ReadLinesInv ==
  ASSUME ApiInv, NEW r \in Reqs, ReadLines(r)
  PROVE  ApiInv'
<1> DEFINE page == IF lines - seen > Page THEN Page ELSE lines - seen
<1>1. /\ req[r].at = "lines" /\ LogOK(req[r]) /\ TypeOK /\ LogShared
      /\ UNCHANGED <<menu, came, process, kube, helm, lines, finished, work>>
      /\ seen' = seen + page
      /\ polling' = IF ~req[r].over THEN "on" ELSE IF page < Page THEN "ended" ELSE "cut"
      /\ Set(r, Idle)
  BY DEF ApiInv, ReqOK, ReadLines, At
<1>2. lines \in Nat /\ seen \in Nat /\ lines <= MaxLines /\ seen <= lines /\ Page \in Nat /\ MaxLines \in Nat
  BY <1>1 DEF TypeOK, LogShared, ApiAssumption
<1>3. page \in Nat /\ seen + page <= lines /\ (page < Page => seen + page = lines)
  BY <1>2
<1>4. seen' \in 0..MaxLines /\ seen' <= lines
  BY <1>1, <1>2, <1>3
<1>5. polling' = "ended" => finished /\ seen' = lines /\ (held => astray)
  BY <1>1, <1>3 DEF LogOK, LogShared
<1>13. LogShared'
  BY <1>1, <1>2, <1>4, <1>5 DEF LogShared, Strays, work
<1>6. polling' \in {"on", "ended", "cut"}
  BY <1>1
<1> USE DEF process, kube, helm, work
<1>7. \A x \in Request : ReqOK(x) => ReqOK(x)'
  BY <1>1 DEF ReqOK, Placed, Waited, ConfigOK, DiscOK, IndexOK, LogOK
<1>8. req \in [Reqs -> Request] /\ \A x \in {req[p] : p \in Reqs} : x \in Request /\ ReqOK(x)
  BY DEF ApiInv, TypeOK
<1>9. req' \in [Reqs -> Request] /\ (\A p \in Reqs : ReqOK(req[p]))'
  BY <1>1, <1>7, <1>8, IdleIsRequest, IdleOK, Moved
<1>10. TypeOK'
  BY <1>1, <1>4, <1>6, <1>9 DEF TypeOK
<1>11. (ConfigShared /\ IndexShared /\ LogShared)'
  BY <1>1, <1>13 DEF ApiInv, ConfigShared, IndexShared
<1>12. QED
  BY <1>9, <1>10, <1>11 DEF ApiInv

-----------------------------------------------------------------------------
(* The process and the world outside. *)

\* The requests stay where they are.
LEMMA Around ==
  ASSUME ApiInv, UNCHANGED req, TypeOK', (ConfigShared /\ IndexShared /\ LogShared)',
         \A x \in Request : (\E p \in Reqs : x = req[p]) /\ ReqOK(x) => ReqOK(x)'
  PROVE  ApiInv'
<1>1. ASSUME NEW p \in Reqs PROVE ReqOK(req[p])'
  <2>1. PICK x \in Request : x = req[p]
    BY DEF ApiInv, TypeOK
  <2>2. ReqOK(x)
    BY <2>1 DEF ApiInv
  <2>3. ReqOK(x)'
    BY <2>1, <2>2
  <2>4. req'[p] = x
    BY <2>1
  <2>5. QED
    BY <2>3, <2>4
<1>2. QED
  BY <1>1 DEF ApiInv

LEMMA ProcessInv ==
  ASSUME ApiInv, Stop \/ Drained \/ DrainTimeout \/ Exit \/ AgentLeaves
  PROVE  ApiInv'
<1> USE DEF kube, helm, tasklog, work, drawer
<1>1. UNCHANGED <<menu, came, req, kube, helm, tasklog>> /\ TypeOK
  BY DEF ApiInv, Stop, Drained, DrainTimeout, Exit, AgentLeaves
<1>2. /\ stage' \in {"up", "draining", "graceful", "exited"}
      /\ timedOut' \in BOOLEAN /\ agents' \in BOOLEAN
  BY <1>1 DEF TypeOK, Stop, Drained, DrainTimeout, Exit, AgentLeaves, Graceful
<1>3. TypeOK'
  BY <1>1, <1>2 DEF TypeOK
<1>4. (ConfigShared /\ IndexShared /\ LogShared)'
  BY <1>1 DEF ApiInv, ConfigShared, IndexShared, LogShared, Strays
<1>5. ASSUME NEW x \in Request, NEW p \in Reqs, x = req[p], ReqOK(x)
      PROVE  ReqOK(x)'
  <2>1. Waited(x)'
    <3>1. CASE Drained
      BY <1>5, <3>1 DEF Drained, Waited
    <3>2. CASE Stop \/ DrainTimeout \/ Exit \/ AgentLeaves
      BY <1>5, <3>2 DEF Stop, DrainTimeout, Exit, AgentLeaves, Waited, ReqOK
    <3>3. QED
      BY <3>1, <3>2
  <2>2. QED
    BY <1>1, <1>5, <2>1 DEF ReqOK, Placed, ConfigOK, DiscOK, IndexOK, LogOK
<1>6. QED
  BY <1>1, <1>3, <1>4, <1>5, Around

LEMMA ServeInv ==
  ASSUME ApiInv, Serve
  PROVE  ApiInv'
<1> USE DEF process, helm, tasklog, work, drawer
<1>1. /\ UNCHANGED <<menu, came, req, process, kubeconfig, stored, retired, client, disc, helm, tasklog>>
      /\ served' = TRUE
  BY DEF Serve
<1>2. TypeOK'
  BY <1>1 DEF ApiInv, TypeOK
<1>3. (ConfigShared /\ IndexShared /\ LogShared)'
  BY <1>1 DEF ApiInv, ConfigShared, IndexShared, LogShared, Strays
<1>4. \A x \in Request : ReqOK(x) => ReqOK(x)'
  BY <1>1 DEF ReqOK, Placed, Waited, ConfigOK, DiscOK, IndexOK, LogOK
<1>5. QED
  BY <1>1, <1>2, <1>3, <1>4, Around

LEMMA PublishInv ==
  ASSUME ApiInv, Publish
  PROVE  ApiInv'
<1> USE DEF process, kube, tasklog, work, drawer
<1>1. /\ UNCHANGED <<menu, came, req, process, kube, repo, index, floor, tasklog>> /\ TypeOK
      /\ published' = published + 1 /\ published < MaxPublished /\ MaxPublished \in Nat
  BY DEF ApiInv, Publish, ApiAssumption
<1>2. published \in 0..MaxPublished /\ published' \in 0..MaxPublished /\ floor \in [Urls -> 0..MaxPublished]
  BY <1>1 DEF TypeOK
<1>3. TypeOK'
  BY <1>1, <1>2 DEF TypeOK
<1>4. (ConfigShared /\ LogShared)'
  BY <1>1 DEF ApiInv, ConfigShared, LogShared, Strays
<1>5. IndexShared'
  BY <1>1, <1>2 DEF ApiInv, IndexShared
<1>6. ASSUME NEW x \in Request, ReqOK(x) PROVE ReqOK(x)'
  <2>1. \A u \in Urls : x.least[u] \in Nat
    BY DEF Request
  <2>2. IndexOK(x)'
    BY <1>1, <1>2, <1>6, <2>1 DEF ReqOK, IndexOK
  <2>3. QED
    BY <1>1, <1>6, <2>2 DEF ReqOK, Placed, Waited, ConfigOK, DiscOK, LogOK
<1>7. QED
  BY <1>1, <1>3, <1>4, <1>5, <1>6, Around

LEMMA AgeInv ==
  ASSUME ApiInv, NEW u \in Urls, Age(u)
  PROVE  ApiInv'
<1> USE DEF process, kube, tasklog, work, drawer
<1>1. /\ UNCHANGED <<menu, came, req, process, kube, repo, published, floor, tasklog>> /\ TypeOK
      /\ index' = [index EXCEPT ![u].old = TRUE] /\ index[u] # None
  BY DEF ApiInv, Age
<1>2. index \in [Urls -> [v : Nat, old : BOOLEAN] \cup {None}] /\ index[u] \in [v : Nat, old : BOOLEAN]
  BY <1>1 DEF TypeOK
<1>3. [index[u] EXCEPT !.old = TRUE] \in [v : Nat, old : BOOLEAN] /\ [index[u] EXCEPT !.old = TRUE].v = index[u].v
  BY <1>2
<1>4. index' = [index EXCEPT ![u] = [index[u] EXCEPT !.old = TRUE]]
  BY <1>1
<1>5. index' \in [Urls -> [v : Nat, old : BOOLEAN] \cup {None}]
  BY <1>2, <1>3, <1>4
<1>6. \A w \in Urls : index'[w] # None => index[w] # None /\ index'[w].v = index[w].v
  BY <1>1, <1>2, <1>3, <1>4
<1>7. TypeOK'
  BY <1>1, <1>5 DEF TypeOK
<1>8. (ConfigShared /\ LogShared)'
  BY <1>1 DEF ApiInv, ConfigShared, LogShared, Strays
<1>9. IndexShared'
  BY <1>1, <1>6 DEF ApiInv, IndexShared
<1>10. \A x \in Request : ReqOK(x) => ReqOK(x)'
  BY <1>1 DEF ReqOK, Placed, Waited, ConfigOK, DiscOK, IndexOK, LogOK
<1>11. QED
  BY <1>1, <1>7, <1>8, <1>9, <1>10, Around

LEMMA TaskInv ==
  ASSUME ApiInv, TaskStep
  PROVE  ApiInv'
<1> USE DEF process, kube, helm, drawer
<1>1. UNCHANGED <<menu, came, req, process, kube, helm, drawer>> /\ TypeOK /\ LogShared
  BY DEF ApiInv, TaskStep, AppendLine, LookUpLine, StoreLine, FnReturns, LastLine, FinishTask, Elsewhere
<1>2. \/ /\ job = "runs" /\ lines < MaxLines /\ lines' = lines + 1
         /\ UNCHANGED <<finished, work>>
      \/ job = "runs" /\ held' = TRUE /\ UNCHANGED <<lines, finished, job, astray>>
      \/ /\ held /\ held' = FALSE /\ lines < MaxLines /\ lines' = lines + 1
         /\ UNCHANGED <<finished, job, astray>>
      \/ job = "runs" /\ job' \in {"error", "ended"} /\ astray' = held /\ UNCHANGED <<lines, finished, held>>
      \/ /\ job = "error" /\ job' = "ended" /\ lines < MaxLines /\ lines' = lines + 1
         /\ UNCHANGED <<finished, held, astray>>
      \/ job = "ended" /\ finished' = TRUE /\ UNCHANGED <<lines, work>>
  BY DEF TaskStep, AppendLine, LookUpLine, StoreLine, FnReturns, LastLine, FinishTask, OneMore
<1>3. lines \in Nat /\ seen \in Nat /\ lines <= MaxLines /\ MaxLines \in Nat
  BY <1>1 DEF TypeOK, ApiAssumption
<1>4. lines' \in 0..MaxLines /\ lines <= lines'
  <2>1. lines' = lines \/ (lines < MaxLines /\ lines' = lines + 1)
    BY <1>2
  <2>2. QED
    BY <1>3, <2>1
<1>5. finished' \in BOOLEAN /\ job' \in {"runs", "error", "ended"} /\ held' \in BOOLEAN /\ astray' \in BOOLEAN
  BY <1>1, <1>2 DEF TypeOK, work
<1>6. TypeOK'
  BY <1>1, <1>4, <1>5 DEF TypeOK
<1>7. (ConfigShared /\ IndexShared)'
  BY <1>1 DEF ApiInv, ConfigShared, IndexShared
<1>8. seen' = seen /\ polling' = polling
  BY <1>1
<1>9. seen' <= lines'
  BY <1>1, <1>3, <1>4, <1>8 DEF LogShared
<1>10. (held => job = "runs" \/ astray)' /\ (finished => job = "ended")'
  BY <1>1, <1>2 DEF LogShared, work
<1>11. polling' = "ended" => finished' /\ lines' + (IF held' THEN 1 ELSE 0) <= seen' + (IF astray' THEN 1 ELSE 0)
  <2> SUFFICES ASSUME polling = "ended"
               PROVE  finished' /\ lines' + (IF held' THEN 1 ELSE 0) <= seen + (IF astray' THEN 1 ELSE 0)
    BY <1>8
  <2>1. finished /\ job = "ended" /\ lines + (IF held THEN 1 ELSE 0) <= seen + (IF astray THEN 1 ELSE 0)
    BY <1>1 DEF LogShared, Strays
  <2>2. \/ held /\ held' = FALSE /\ lines' = lines + 1 /\ UNCHANGED <<finished, astray>>
        \/ finished' = TRUE /\ UNCHANGED <<lines, held, astray>>
    BY <1>2, <2>1 DEF work
  <2>3. CASE held /\ held' = FALSE /\ lines' = lines + 1 /\ UNCHANGED <<finished, astray>>
    <3>1. lines + 1 <= seen + (IF astray THEN 1 ELSE 0)
      BY <2>1, <2>3
    <3>2. finished' /\ held' = FALSE /\ astray' = astray
      BY <2>1, <2>3
    <3>3. lines' + 0 <= seen + (IF astray THEN 1 ELSE 0)
      BY <1>3, <2>3, <3>1
    <3>4. QED
      BY <3>2, <3>3
  <2>4. CASE finished' = TRUE /\ UNCHANGED <<lines, held, astray>>
    BY <2>1, <2>4
  <2>5. QED
    BY <2>2, <2>3, <2>4
<1>12. LogShared'
  BY <1>9, <1>10, <1>11 DEF LogShared, Strays
<1>13. \A x \in Request : ReqOK(x) => ReqOK(x)'
  <2>1. finished => finished'
    BY <1>2 DEF work
  <2>2. QED
    BY <1>1, <2>1 DEF ReqOK, Placed, Waited, ConfigOK, DiscOK, IndexOK, LogOK
<1>14. QED
  BY <1>1, <1>6, <1>7, <1>12, <1>13, Around

-----------------------------------------------------------------------------
LEMMA StutterInv == ApiInv /\ UNCHANGED vars => ApiInv'
<1> SUFFICES ASSUME ApiInv, UNCHANGED vars PROVE ApiInv'
  OBVIOUS
<1> USE DEF vars, process, kube, helm, tasklog, work, drawer
<1>1. TypeOK' /\ (ConfigShared /\ IndexShared /\ LogShared)'
  BY DEF ApiInv, TypeOK, ConfigShared, IndexShared, LogShared, Strays
<1>2. \A x \in Request : ReqOK(x) => ReqOK(x)'
  BY DEF ReqOK, Placed, Waited, ConfigOK, DiscOK, IndexOK, LogOK
<1>3. QED
  BY <1>1, <1>2, Around

LEMMA KubeStepInv == ASSUME ApiInv, NEW r \in Reqs, KubeStep(r) PROVE ApiInv'
BY ReadKubeconfigInv, EntryInv, OutsideInv, ResourceKindsInv, MapInv, MappingFailsInv, InvalidateInv, PatchInv, LooksUpInv,
   WriteKubeconfigInv, DeleteClusterInv, ForgetInv DEF KubeStep

LEMMA HelmStepInv == ASSUME ApiInv, NEW r \in Reqs, HelmStep(r) PROVE ApiInv'
BY LooksUpInv, LookUpInv, DownloadInv, StoreIndexInv, OutsideInv, RefreshedInv, InsertRepoInv, RemoveRepoInv,
   ForgetIndexInv DEF HelmStep

LEMMA NextInv == ApiInv /\ [Next]_vars => ApiInv'
<1> SUFFICES ASSUME ApiInv, [Next]_vars PROVE ApiInv'
  OBVIOUS
<1>1. ASSUME NEW r \in Reqs, NEW kind \in menu, NEW url \in Urls \cup {None},
             NEW docs \in Manifests \cup {<<>>}, Arrive(r, kind, url, docs)
      PROVE  ApiInv'
  <2>1. kind \in Kinds
    BY DEF ApiInv, TypeOK, ApiAssumption
  <2>2. QED
    BY <1>1, <2>1, ArriveInv
<1>2. ASSUME NEW r \in Reqs, Step(r) \/ EndStream(r) PROVE ApiInv'
  BY <1>2, KubeStepInv, HelmStepInv, ReadTaskInv, ReadLinesInv, FailInv, AuditInv, OutsideInv DEF Step
<1>3. CASE Stop \/ Drained \/ DrainTimeout \/ Exit
  BY <1>3, ProcessInv
<1>4. CASE World
  BY <1>4, ProcessInv, ServeInv, PublishInv, AgeInv, TaskInv DEF World
<1>5. CASE UNCHANGED vars
  BY <1>5, StutterInv
<1>6. QED
  BY <1>1, <1>2, <1>3, <1>4, <1>5 DEF Next

\* ApiInv is an inductive invariant of the requests and what they share.
THEOREM ApiInvariant == Spec => []ApiInv
<1>1. QED
  BY InitInv, NextInv, PTL DEF Spec

-----------------------------------------------------------------------------
(* What it says of the properties. *)

\* Every variable keeps its type: no request is at a place with what it has not read.
THEOREM ApiTypeCorrect == Spec => []TypeOK
<1>1. ApiInv => TypeOK
  BY DEF ApiInv
<1>2. QED
  BY <1>1, ApiInvariant, PTL

\* A call that comes after the answer to PUT kubeconfig does not use the content that was
\* replaced, however often calls that came before put its client back into the cache.
THEOREM NoRetiredConfig == Spec => []RetiredConfigUnused
<1>1. ApiInv => RetiredConfigUnused
  BY DEF ApiInv, ReqOK, ConfigOK, RetiredConfigUnused
<1>2. QED
  BY <1>1, ApiInvariant, PTL

\* Apply calls a kind unknown only if the apiserver did not serve it when Apply emptied the
\* discovery cache, another request has filled the cache since, or asking the apiserver again failed.
THEOREM UnknownIsUnknown == Spec => []UnknownKindIsUnknown
<1>1. ApiInv => UnknownKindIsUnknown
  BY DEF ApiInv, ReqOK, DiscOK, UnknownKindIsUnknown, At, Is
<1>2. QED
  BY <1>1, ApiInvariant, PTL

\* Charts are searched and installed from an index at least as new as the last refresh promised,
\* and a refresh answers with one at least as new as when it came.
THEOREM IndexIsFresh == Spec => []FreshAfterRefresh
<1>1. ApiInv => FreshAfterRefresh
  BY DEF ApiInv, ReqOK, IndexOK, FreshAfterRefresh
<1>2. QED
  BY <1>1, ApiInvariant, PTL

\* A drawer that has stopped after a page that was not full shows the whole log of a task that
\* has ended, but for one line looked up before its request was cut short.
THEOREM NothingMissed == Spec => []FollowerMissesNothing
<1>1. ApiInv => FollowerMissesNothing
  <2> SUFFICES ASSUME ApiInv, polling = "ended" PROVE finished /\ lines <= seen + Strays
    BY DEF FollowerMissesNothing
  <2>1. finished /\ lines + (IF held THEN 1 ELSE 0) <= seen + Strays /\ lines \in Nat /\ seen \in Nat /\ Strays \in Nat
    BY DEF ApiInv, TypeOK, LogShared, Strays, ApiAssumption
  <2>2. QED
    BY <2>1
<1>2. QED
  BY <1>1, ApiInvariant, PTL

\* A shutdown whose ten seconds were enough leaves no write out of the audit log.
THEOREM AllAudited == Spec => []WritesAreAudited
<1>1. ApiInv => WritesAreAudited
  <2> SUFFICES ASSUME ApiInv, stage = "exited", ~timedOut, NEW r \in Reqs
               PROVE  ~req[r].did
    BY DEF WritesAreAudited
  <2>1. Placed(req[r]) /\ ~Waits(req[r])
    BY DEF ApiInv, ReqOK, Waited
  <2>2. QED
    BY <2>1 DEF Placed, Waits, Writes
<1>2. QED
  BY <1>1, ApiInvariant, PTL

=============================================================================

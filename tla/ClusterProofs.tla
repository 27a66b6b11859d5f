--------------------------- MODULE ClusterProofs ---------------------------
(***************************************************************************)
(* Proofs about Cluster, for any number of clusters, nodes, calls, tasks   *)
(* and restarts.                                                           *)
(***************************************************************************)
EXTENDS Cluster, TLAPS, SequenceTheorems, FiniteSetTheorems

-----------------------------------------------------------------------------
(***************************************************************************)
(* Types, and what goes with them: task ids are not reused, a call's       *)
(* locals fit the place it has reached, a plan has at most two scripts and *)
(* resets only the task's own node.                                        *)
(***************************************************************************)
Shape(r) ==
  /\ Len(r.plan) <= 2
  /\ r.kind = "install" =>
       Len(r.plan) = 1 /\ r.plan[1] = [at |-> r.n, script |-> "install"] /\ r.role \in Roles
  /\ \A x \in 1..Len(r.plan) : r.plan[x].script = "reset" => r.plan[x].at = r.n /\ r.kind # "install"

TaskInv(t) ==
  /\ t > made => tpc[t] = "none"
  /\ tpc[t] = "none" => pos[t] = 1 /\ tstat[t] = "none"
  /\ tpc[t] # "none" => task[t] \in TaskRec /\ Shape(task[t])
  /\ tpc[t] \in {"send", "wait"} => pos[t] <= Len(task[t].plan)
  /\ tpc[t] \in {"after", "store", "settle"} => task[t].kind # "destroy"
  /\ tpc[t] \in {"store", "settle"} => task[t].kind = "install" /\ task[t].role = "first-master"
  /\ tpc[t] = "store" => res[t] = "ok"
  /\ tstat[t] = "running" => tpc[t] \in {"send", "wait", "finish"}

Installs == {"membership", "endpoint", "status", "creds", "issue", "upsert"}

\* The locals c of a call fit the place it has reached.
Fits(c) ==
  /\ c.at # "idle" => c.k \in Clusters
  /\ c.at \in Installs => c.does = "install"
  /\ c.at \in {"member", "drainer", "removing"} => c.does = "remove"
  /\ c.at = "start" => c.does \in {"install", "remove"}
  /\ c.does = "remove" /\ c.at # "member" => c.was \in {"ready", "failed"}
  /\ c.at \in {"list", "destroy"} => c.does \in {"delete", "force"}
  /\ c.does \in {"install", "remove"} => c.n \in Nodes
  /\ c.does = "install" => c.role \in Roles
  /\ c.does # "install" => c.role = "none"
  /\ c.at \in {"endpoint", "status"} => c.role = "first-master" /\ NeedsFirstMaster(c.seen)
  /\ c.does = "force" => "force" \in Events

TypeInv ==
  /\ TypeOK
  /\ \A t \in TaskIds : TaskInv(t)
  /\ \A q \in Callers : Fits(call[q])

USE ClusterAssumption DEF ClusterAssumption

-----------------------------------------------------------------------------
\* The scripts that StartTask fixes: one install, or at most a drain and a reset of the node.
LEMMA PlanShape ==
  ASSUME online \in [Nodes -> BOOLEAN], NEW c \in CallRec, c.n \in Nodes, c.does \in {"install", "remove"},
         c.does = "install" => c.role \in Roles
  PROVE  /\ Plan(c) \in Seq(Job)
         /\ Len(Plan(c)) \in 0..2
         /\ c.does = "install" => Len(Plan(c)) = 1 /\ Plan(c)[1] = [at |-> c.n, script |-> "install"]
         /\ \A x \in 1..Len(Plan(c)) : Plan(c)[x].script = "reset" => Plan(c)[x].at = c.n /\ c.does # "install"
<1> DEFINE On(m, s) == <<[at |-> m, script |-> s]>>
           D == IF c.drainer = NoNode THEN <<>> ELSE On(c.drainer, "drain")
           R == IF online[c.n] THEN On(c.n, "reset") ELSE <<>>
<1>1. CASE c.does = "install"
  <2>1. Plan(c) = <<[at |-> c.n, script |-> "install"]>>
    BY <1>1 DEF Plan
  <2>2. QED
    BY <1>1, <2>1 DEF Job
<1>2. CASE c.does # "install"
  <2>1. Plan(c) = D \o R
    BY <1>2 DEF Plan
  <2>2. /\ D \in Seq(Job) /\ Len(D) \in 0..1
        /\ \A x \in 1..Len(D) : D[x].script = "drain"
    <3>1. CASE c.drainer = NoNode
      BY <3>1
    <3>2. CASE c.drainer # NoNode
      <4>1. [at |-> c.drainer, script |-> "drain"] \in Job
        BY <3>2 DEF Job, CallRec
      <4>2. QED
        BY <3>2, <4>1
    <3>3. QED
      BY <3>1, <3>2
  <2>3. /\ R \in Seq(Job) /\ Len(R) \in 0..1
        /\ \A x \in 1..Len(R) : R[x].at = c.n
    <3>1. [at |-> c.n, script |-> "reset"] \in Job
      BY DEF Job
    <3>2. QED
      BY <3>1
  <2> HIDE DEF D, R
  <2>4. /\ D \o R \in Seq(Job) /\ Len(D \o R) = Len(D) + Len(R)
        /\ \A x \in 1..(Len(D) + Len(R)) : (D \o R)[x] = IF x <= Len(D) THEN D[x] ELSE R[x - Len(D)]
    BY <2>2, <2>3, ConcatProperties
  <2>5. \A x \in 1..(Len(D) + Len(R)) : x <= Len(D) \/ x - Len(D) \in 1..Len(R)
    BY <2>2, <2>3
  <2>6. \A x \in 1..(Len(D) + Len(R)) : (D \o R)[x].script = "reset" => (D \o R)[x].at = c.n
    BY <2>2, <2>3, <2>4, <2>5
  <2>7. QED
    BY <1>2, <2>1, <2>2, <2>3, <2>4, <2>6
<1>3. QED
  BY <1>1, <1>2

\* Runner.Start takes a fresh id; every other task stays as it is.
LEMMA StartFresh ==
  ASSUME TypeInv, NEW r, Start(r)
  PROVE  /\ made' \in TaskIds /\ made' = made + 1 /\ tpc[made'] = "none"
         /\ task'[made'] = r /\ tstat'[made'] = "running" /\ pos'[made'] = 1
         /\ tpc'[made'] = (IF r.plan = <<>> THEN "finish" ELSE "send")
         /\ res'[made'] = (IF r.plan = <<>> THEN "ok" ELSE "none")
         /\ \A t \in TaskIds \ {made'} : task'[t] = task[t] /\ tstat'[t] = tstat[t] /\ tpc'[t] = tpc[t] /\ res'[t] = res[t]
         /\ pos' = pos /\ cancelled' = cancelled
<1>1. made \in Nat /\ made < MaxTasks /\ made' = made + 1 /\ made' \in TaskIds
  BY DEF TypeInv, TypeOK, Start, TaskIds
<1>2. TaskInv(made')
  BY <1>1 DEF TypeInv
<1>3. tpc[made'] = "none" /\ pos[made'] = 1
  BY <1>1, <1>2 DEF TaskInv
<1>4. QED
  BY <1>1, <1>3 DEF Start, TypeInv, TypeOK

LEMMA StartTypes ==
  ASSUME TypeInv, NEW r \in TaskRec, Shape(r), Start(r)
  PROVE  /\ tstat' \in [TaskIds -> {"none", "running", "succeeded", "failed", "cancelled"}]
         /\ task' \in [TaskIds -> TaskRec \cup {NoTask}]
         /\ tpc' \in [TaskIds -> {"none", "send", "wait", "finish", "after", "store", "settle", "over"}]
         /\ pos' \in [TaskIds -> 1..2]
         /\ res' \in [TaskIds -> {"none", "ok", "fail", "cancelled"}]
         /\ cancelled' \in SUBSET TaskIds
         /\ made' \in 0..MaxTasks
         /\ \A t \in TaskIds : TaskInv(t)'
<1>0. made \in Nat
  BY DEF TypeInv, TypeOK
<1>1. made' \in TaskIds /\ made' = made + 1 /\ made \in Nat
  BY <1>0, StartFresh
<1>2. /\ tstat' = [tstat EXCEPT ![made'] = "running"] /\ task' = [task EXCEPT ![made'] = r]
      /\ tpc' = [tpc EXCEPT ![made'] = IF r.plan = <<>> THEN "finish" ELSE "send"]
      /\ res' = [res EXCEPT ![made'] = IF r.plan = <<>> THEN "ok" ELSE "none"]
      /\ pos' = pos /\ cancelled' = cancelled
  BY DEF Start
<1>3. tstat' \in [TaskIds -> {"none", "running", "succeeded", "failed", "cancelled"}]
  BY <1>1, <1>2 DEF TypeInv, TypeOK
<1>4. task' \in [TaskIds -> TaskRec \cup {NoTask}]
  BY <1>1, <1>2 DEF TypeInv, TypeOK
<1>5. tpc' \in [TaskIds -> {"none", "send", "wait", "finish", "after", "store", "settle", "over"}]
  BY <1>1, <1>2 DEF TypeInv, TypeOK
<1>6. res' \in [TaskIds -> {"none", "ok", "fail", "cancelled"}]
  BY <1>1, <1>2 DEF TypeInv, TypeOK
<1>7. made' \in 0..MaxTasks
  BY <1>1 DEF TaskIds
<1>8. ASSUME NEW t \in TaskIds PROVE TaskInv(t)'
  <2>1. CASE t = made'
    <3>1. r.plan # <<>> => Len(r.plan) \in Nat /\ Len(r.plan) > 0
      BY EmptySeq, LenProperties DEF TaskRec
    <3>2. /\ task'[t] = r /\ tstat'[t] = "running" /\ pos'[t] = 1
          /\ tpc'[t] = IF r.plan = <<>> THEN "finish" ELSE "send"
      BY <2>1, StartFresh
    <3>3. QED
      BY <1>1, <2>1, <3>1, <3>2 DEF TaskInv
  <2>2. CASE t # made'
    <3>1. TaskInv(t) /\ t \in TaskIds \ {made'} /\ t \in Nat
      BY <2>2 DEF TypeInv, TaskIds
    <3>2. task'[t] = task[t] /\ tstat'[t] = tstat[t] /\ tpc'[t] = tpc[t] /\ res'[t] = res[t] /\ pos'[t] = pos[t]
      BY <3>1, StartFresh
    <3>3. QED
      BY <1>1, <3>1, <3>2 DEF TaskInv
  <2>3. QED
    BY <2>1, <2>2
<1>9. pos' \in [TaskIds -> 1..2] /\ cancelled' \in SUBSET TaskIds
  BY <1>2 DEF TypeInv, TypeOK
<1>10. QED
  BY <1>3, <1>4, <1>5, <1>6, <1>7, <1>8, <1>9

-----------------------------------------------------------------------------
(***************************************************************************)
(* What the statements of the store do to the rows they are for, and to    *)
(* the others.                                                             *)
(***************************************************************************)
Places == {"idle", "membership", "endpoint", "status", "creds", "issue", "upsert",
           "member", "drainer", "removing", "start", "list", "destroy"}
Statuses == {"new", "created", "installing", "ready", "failed", "gone"}
TablesOK ==
  /\ cstat \in [Clusters -> Statuses]
  /\ endpoint \in [Clusters -> Nodes \cup {Unset, Own}]
  /\ member \in [Clusters -> [Nodes -> Row \cup {NoRow}]]

LEMMA StatusSet ==
  ASSUME TablesOK, NEW k \in Clusters, NEW s \in Statuses, SetClusterStatus(k, s)
  PROVE  /\ cstat' \in [Clusters -> Statuses]
         /\ cstat'[k] = (IF Exists(k) THEN s ELSE cstat[k])
         /\ \A o \in Clusters : o # k => cstat'[o] = cstat[o]
BY DEF TablesOK, SetClusterStatus

LEMMA EndpointSet ==
  ASSUME TablesOK, NEW k \in Clusters, NEW e \in Nodes \cup {Unset, Own}, SetClusterEndpoint(k, e)
  PROVE  endpoint' \in [Clusters -> Nodes \cup {Unset, Own}]
BY DEF TablesOK, SetClusterEndpoint

LEMMA RowSet ==
  ASSUME TablesOK, NEW k \in Clusters, NEW n \in Nodes, NEW r \in Row \cup {NoRow},
         member' = [member EXCEPT ![k][n] = r]
  PROVE  /\ member' \in [Clusters -> [Nodes -> Row \cup {NoRow}]]
         /\ member'[k][n] = r
         /\ \A o \in Clusters, m \in Nodes : o # k \/ m # n => member'[o][m] = member[o][m]
BY DEF TablesOK

\* UPDATE cluster_nodes: no row comes or goes.
LEMMA MemberStatusSet ==
  ASSUME TablesOK, NEW k \in Clusters, NEW n \in Nodes, NEW s \in {"installing", "ready", "failed", "removing"},
         SetMemberStatus(k, n, s)
  PROVE  /\ member' \in [Clusters -> [Nodes -> Row \cup {NoRow}]]
         /\ \A o \in Clusters, m \in Nodes : o # k \/ m # n => member'[o][m] = member[o][m]
         /\ Has(k, n)' <=> Has(k, n)
         /\ Has(k, n) => member'[k][n].status = s
<1>1. CASE member[k][n] = NoRow
  <2>1. member' = [member EXCEPT ![k][n] = NoRow]
    BY <1>1 DEF SetMemberStatus, TablesOK
  <2>2. /\ member' \in [Clusters -> [Nodes -> Row \cup {NoRow}]] /\ member'[k][n] = NoRow
        /\ \A o \in Clusters, m \in Nodes : o # k \/ m # n => member'[o][m] = member[o][m]
    BY <2>1 DEF TablesOK
  <2>3. QED
    BY <1>1, <2>2 DEF Has
<1>2. CASE member[k][n] # NoRow
  <2> DEFINE r == [member[k][n] EXCEPT !.status = s]
  <2>1. member[k][n] \in Row
    BY <1>2 DEF TablesOK
  <2>2. r \in Row /\ r.status = s /\ r # NoRow
    BY <2>1 DEF Row, NoRow
  <2>3. member' = [member EXCEPT ![k][n] = r]
    BY <1>2 DEF SetMemberStatus, TablesOK
  <2> HIDE DEF r
  <2>4. QED
    BY <1>2, <2>2, <2>3, RowSet DEF Has
<1>3. QED
  BY <1>1, <1>2

LEMMA MemberUpserted ==
  ASSUME TablesOK, NEW k \in Clusters, NEW n \in Nodes, NEW r \in Roles, UpsertMember(k, n, r)
  PROVE  /\ member' \in [Clusters -> [Nodes -> Row \cup {NoRow}]]
         /\ \A o \in Clusters, m \in Nodes : o # k \/ m # n => member'[o][m] = member[o][m]
         /\ Has(k, n)' /\ member'[k][n].status = "installing"
<1> DEFINE x == [role |-> r, status |-> "installing"]
<1>1. x \in Row /\ x # NoRow /\ x.status = "installing"
  BY DEF Row, NoRow
<1>2. member' = [member EXCEPT ![k][n] = x]
  BY DEF UpsertMember
<1> HIDE DEF x
<1>3. /\ member' \in [Clusters -> [Nodes -> Row \cup {NoRow}]] /\ member'[k][n] = x
      /\ \A o \in Clusters, m \in Nodes : o # k \/ m # n => member'[o][m] = member[o][m]
  BY <1>1, <1>2 DEF TablesOK
<1>4. QED
  BY <1>1, <1>3 DEF Has

LEMMA MemberDeleted ==
  ASSUME TablesOK, NEW k \in Clusters, NEW n \in Nodes, DeleteMember(k, n)
  PROVE  /\ member' \in [Clusters -> [Nodes -> Row \cup {NoRow}]]
         /\ \A o \in Clusters, m \in Nodes : o # k \/ m # n => member'[o][m] = member[o][m]
         /\ ~Has(k, n)'
<1>1. member' = [member EXCEPT ![k][n] = NoRow]
  BY DEF DeleteMember
<1>2. /\ member' \in [Clusters -> [Nodes -> Row \cup {NoRow}]] /\ member'[k][n] = NoRow
      /\ \A o \in Clusters, m \in Nodes : o # k \/ m # n => member'[o][m] = member[o][m]
  BY <1>1 DEF TablesOK
<1>3. QED
  BY <1>2 DEF Has

LEMMA ClusterDeleted ==
  ASSUME TablesOK, NEW k \in Clusters, DeleteCluster(k)
  PROVE  /\ cstat' \in [Clusters -> Statuses] /\ cstat'[k] = "gone"
         /\ member' \in [Clusters -> [Nodes -> Row \cup {NoRow}]]
         /\ \A o \in Clusters : o # k => cstat'[o] = cstat[o] /\ member'[o] = member[o]
         /\ \A n \in Nodes : ~Has(k, n)'
BY DEF TablesOK, DeleteCluster, Has, Statuses

\* A row that is there has a status of a member; no row has none of them.
LEMMA RowStatus ==
  ASSUME TablesOK, NEW k \in Clusters, NEW n \in Nodes
  PROVE  /\ Has(k, n) => member[k][n].status \in {"installing", "ready", "failed", "removing"}
         /\ ~Has(k, n) => member[k][n].status = "absent"
         /\ Busy(k, n) => Has(k, n)
BY DEF TablesOK, Has, Busy, Row, NoRow

-----------------------------------------------------------------------------
\* A call that has ended keeps nothing.
LEMMA IdleFits == Idle \in CallRec /\ Fits(Idle) /\ Idle.at = "idle"
BY DEF Idle, CallRec, Fits, Installs

\* A call that moves on keeps its locals.
LEMMA Moves ==
  ASSUME NEW c \in CallRec, NEW w \in Places
  PROVE  LET d == [c EXCEPT !.at = w] IN
         /\ d \in CallRec /\ d.at = w
         /\ d.does = c.does /\ d.k = c.k /\ d.n = c.n /\ d.role = c.role /\ d.seen = c.seen /\ d.ep = c.ep
         /\ d.drainer = c.drainer /\ d.todo = c.todo /\ d.busy = c.busy /\ d.was = c.was
BY DEF CallRec, Places

\* A step of a call that touches nothing but the call and the tables of clusters and members.
LEMMA CallTypes ==
  ASSUME TypeInv, NEW q \in Callers, NEW c \in CallRec, Fits(c), call' = [call EXCEPT ![q] = c],
         TablesOK', UNCHANGED <<tstat, taskVars, nodeVars, restarts>>
  PROVE  TypeInv'
<1>1. TypeOK'
  BY DEF TypeInv, TypeOK, TablesOK, Statuses, taskVars, nodeVars
<1>2. ASSUME NEW t \in TaskIds PROVE TaskInv(t)'
  BY DEF TypeInv, TaskInv, taskVars
<1>3. ASSUME NEW p \in Callers PROVE Fits(call'[p])
  BY DEF TypeInv, TypeOK
<1>4. QED
  BY <1>1, <1>2, <1>3 DEF TypeInv

\* The typing of tables, in the form used below.
LEMMA TypedTables == TypeInv => TablesOK
BY DEF TypeInv, TypeOK, TablesOK, Statuses

\* The same for the two ways a call usually moves: it answers, or it goes on to another place.
LEMMA CallEnds ==
  ASSUME TypeInv, NEW q \in Callers, Answers(q), TablesOK', UNCHANGED <<tstat, taskVars, nodeVars, restarts>>
  PROVE  TypeInv'
BY IdleFits, CallTypes DEF Answers

LEMMA CallGoes ==
  ASSUME TypeInv, NEW q \in Callers, NEW w \in Places, Goes(q, w), TablesOK',
         UNCHANGED <<tstat, taskVars, nodeVars, restarts>>,
         \A d \in CallRec : d.at = w /\ d.does = call[q].does /\ d.k = call[q].k /\ d.n = call[q].n
                            /\ d.role = call[q].role /\ d.seen = call[q].seen /\ d.was = call[q].was => Fits(d)
  PROVE  TypeInv'
<1> DEFINE d == [call[q] EXCEPT !.at = w]
<1>1. call[q] \in CallRec
  BY DEF TypeInv, TypeOK
<1>2. d \in CallRec /\ Fits(d)
  BY <1>1, Moves
<1>3. call' = [call EXCEPT ![q] = d]
  BY DEF Goes
<1> HIDE DEF d
<1>4. QED
  BY <1>2, <1>3, CallTypes

-----------------------------------------------------------------------------
(***************************************************************************)
(* Every action preserves TypeInv.                                         *)
(***************************************************************************)
LEMMA CreateTypes == ASSUME TypeInv, NEW k \in Clusters, Create(k) PROVE TypeInv'
<1>1. TypeOK'
  BY DEF TypeInv, TypeOK, Create, taskVars, nodeVars
<1>2. ASSUME NEW t \in TaskIds PROVE TaskInv(t)'
  BY DEF TypeInv, TaskInv, Create, taskVars
<1>3. ASSUME NEW p \in Callers PROVE Fits(call'[p])
  BY DEF TypeInv, Create
<1>4. QED
  BY <1>1, <1>2, <1>3 DEF TypeInv

\* AddNode, RemoveNode and Delete begin with GetCluster.
LEMMA BeginTypes ==
  ASSUME TypeInv, NEW q \in Callers, NEW k \in Clusters,
         \/ \E n \in Nodes, r \in Roles : AddNode(q, k, n, r)
         \/ \E n \in Nodes : RemoveNode(q, k, n)
         \/ \E how \in {"delete", "force"} : Delete(q, k, how)
  PROVE  TypeInv'
<1>1. cstat[k] \in {"created", "installing", "ready", "failed"} /\ endpoint[k] \in Nodes \cup {Unset, Own} /\ TablesOK
  <2>1. TablesOK
    BY TypedTables
  <2>2. Exists(k)
    BY DEF AddNode, RemoveNode, Delete
  <2>3. QED
    BY <2>1, <2>2 DEF TablesOK, Statuses, Exists
<1>2. TablesOK'
  BY <1>1 DEF TablesOK, AddNode, RemoveNode, Delete, tables
<1>3. ASSUME NEW n \in Nodes, NEW r \in Roles, AddNode(q, k, n, r) PROVE TypeInv'
  <2> DEFINE d == [Idle EXCEPT !.at = "membership", !.does = "install",
                     !.k = k, !.n = n, !.role = r, !.seen = cstat[k], !.ep = endpoint[k]]
  <2>1. d \in CallRec /\ Fits(d)
    BY <1>1 DEF Idle, CallRec, Fits, Installs
  <2>2. call' = [call EXCEPT ![q] = d] /\ UNCHANGED <<tstat, taskVars, nodeVars, restarts>>
    BY <1>3 DEF AddNode, tables
  <2> HIDE DEF d
  <2>3. QED
    BY <1>2, <2>1, <2>2, CallTypes
<1>4. ASSUME NEW n \in Nodes, RemoveNode(q, k, n) PROVE TypeInv'
  <2> DEFINE d == [Idle EXCEPT !.at = "member", !.does = "remove", !.k = k, !.n = n, !.seen = cstat[k]]
  <2>1. d \in CallRec /\ Fits(d)
    BY <1>1 DEF Idle, CallRec, Fits, Installs
  <2>2. call' = [call EXCEPT ![q] = d] /\ UNCHANGED <<tstat, taskVars, nodeVars, restarts>>
    BY <1>4 DEF RemoveNode, tables
  <2> HIDE DEF d
  <2>3. QED
    BY <1>2, <2>1, <2>2, CallTypes
<1>5. ASSUME NEW how \in {"delete", "force"}, Delete(q, k, how) PROVE TypeInv'
  <2> DEFINE d == [Idle EXCEPT !.at = "list", !.does = how, !.k = k]
  <2>1. d \in CallRec /\ Fits(d)
    BY <1>5 DEF Idle, CallRec, Fits, Installs, Delete
  <2>2. call' = [call EXCEPT ![q] = d] /\ UNCHANGED <<tstat, taskVars, nodeVars, restarts>>
    BY <1>5 DEF Delete, tables
  <2> HIDE DEF d
  <2>3. QED
    BY <1>2, <2>1, <2>2, CallTypes
<1>6. QED
  BY <1>3, <1>4, <1>5

LEMMA CheckMembershipTypes == ASSUME TypeInv, NEW q \in Callers, CheckMembership(q) PROVE TypeInv'
<1>1. TablesOK' /\ UNCHANGED <<tstat, taskVars, nodeVars, restarts>>
  BY TypedTables DEF TablesOK, CheckMembership, tables
<1>2. Fits(call[q]) /\ call[q].at = "membership"
  BY DEF TypeInv, CheckMembership, At
<1>3. \/ Answers(q)
      \/ Goes(q, "creds")
      \/ /\ call[q].role = "first-master" /\ NeedsFirstMaster(call[q].seen)
         /\ Goes(q, "endpoint") \/ Goes(q, "status")
  BY DEF CheckMembership
<1>4. CASE Answers(q)
  BY <1>1, <1>4, CallEnds
<1>5. CASE Goes(q, "creds")
  BY <1>1, <1>2, <1>5, CallGoes DEF Fits, Installs, Places
<1>6. CASE call[q].role = "first-master" /\ NeedsFirstMaster(call[q].seen) /\ Goes(q, "endpoint")
  BY <1>1, <1>2, <1>6, CallGoes DEF Fits, Installs, Places
<1>7. CASE call[q].role = "first-master" /\ NeedsFirstMaster(call[q].seen) /\ Goes(q, "status")
  BY <1>1, <1>2, <1>7, CallGoes DEF Fits, Installs, Places
<1>8. QED
  BY <1>3, <1>4, <1>5, <1>6, <1>7

LEMMA DeriveEndpointTypes == ASSUME TypeInv, NEW q \in Callers, DeriveEndpoint(q) PROVE TypeInv'
<1>1. Fits(call[q]) /\ call[q] \in CallRec /\ call[q].at = "endpoint"
  BY DEF TypeInv, TypeOK, DeriveEndpoint, At
<1>2. call[q].k \in Clusters /\ call[q].n \in Nodes
  BY <1>1 DEF Fits, Installs
<1>3. TablesOK' /\ UNCHANGED <<tstat, taskVars, nodeVars, restarts>>
  BY <1>2, TypedTables, EndpointSet DEF TablesOK, DeriveEndpoint
<1> DEFINE d == [call[q] EXCEPT !.at = "status", !.ep = call[q].n]
<1>4. d \in CallRec /\ Fits(d)
  BY <1>1, <1>2 DEF CallRec, Fits, Installs
<1>5. call' = [call EXCEPT ![q] = d]
  BY DEF DeriveEndpoint
<1> HIDE DEF d
<1>6. QED
  BY <1>3, <1>4, <1>5, CallTypes

LEMMA MarkInstallingTypes == ASSUME TypeInv, NEW q \in Callers, MarkInstalling(q) PROVE TypeInv'
<1>1. Fits(call[q]) /\ call[q].at = "status"
  BY DEF TypeInv, MarkInstalling, At
<1>2. call[q].k \in Clusters
  BY <1>1 DEF Fits
<1>3. TablesOK' /\ UNCHANGED <<tstat, taskVars, nodeVars, restarts>> /\ Goes(q, "upsert")
  BY <1>2, TypedTables, StatusSet DEF TablesOK, Statuses, MarkInstalling
<1>4. QED
  BY <1>1, <1>3, CallGoes DEF Fits, Installs, Places

LEMMA CredentialsTypes == ASSUME TypeInv, NEW q \in Callers, FreshJoin(q) \/ IssueJoin(q) PROVE TypeInv'
<1>1. Fits(call[q]) /\ call[q].at \in {"creds", "issue"}
  BY DEF TypeInv, FreshJoin, IssueJoin, At
<1>2. TablesOK' /\ UNCHANGED <<tstat, taskVars, nodeVars, restarts>>
  BY TypedTables DEF TablesOK, FreshJoin, IssueJoin, tables
<1>3. Answers(q) \/ Goes(q, "upsert") \/ Goes(q, "issue")
  BY DEF FreshJoin, IssueJoin
<1>4. CASE Answers(q)
  BY <1>2, <1>4, CallEnds
<1>5. CASE Goes(q, "upsert")
  BY <1>1, <1>2, <1>5, CallGoes DEF Fits, Installs, Places
<1>6. CASE Goes(q, "issue")
  BY <1>1, <1>2, <1>6, CallGoes DEF Fits, Installs, Places
<1>7. QED
  BY <1>3, <1>4, <1>5, <1>6

LEMMA JoinTableTypes == ASSUME TypeInv, NEW q \in Callers, JoinTable(q) PROVE TypeInv'
<1>1. Fits(call[q]) /\ call[q].at = "upsert"
  BY DEF TypeInv, JoinTable, At
<1>2. call[q].k \in Clusters /\ call[q].n \in Nodes /\ call[q].role \in Roles
  BY <1>1 DEF Fits, Installs
<1>3. TablesOK' /\ UNCHANGED <<tstat, taskVars, nodeVars, restarts>>
  <2>1. CASE Exists(call[q].k) /\ call[q].n \in enrolled
    BY <1>2, <2>1, TypedTables, MemberUpserted DEF TablesOK, JoinTable
  <2>2. CASE ~(Exists(call[q].k) /\ call[q].n \in enrolled)
    BY <2>2, TypedTables DEF TablesOK, JoinTable
  <2>3. QED
    BY <2>1, <2>2
<1>4. Answers(q) \/ Goes(q, "start")
  BY DEF JoinTable
<1>5. CASE Answers(q)
  BY <1>3, <1>5, CallEnds
<1>6. CASE Goes(q, "start")
  BY <1>1, <1>3, <1>6, CallGoes DEF Fits, Installs, Places
<1>7. QED
  BY <1>4, <1>5, <1>6

LEMMA CheckMemberTypes == ASSUME TypeInv, NEW q \in Callers, CheckMember(q) PROVE TypeInv'
<1>1. Fits(call[q]) /\ call[q] \in CallRec /\ call[q].at = "member"
  BY DEF TypeInv, TypeOK, CheckMember, At
<1>2. TablesOK' /\ UNCHANGED <<tstat, taskVars, nodeVars, restarts>>
  BY TypedTables DEF TablesOK, CheckMember, tables
<1>3. CASE Answers(q)
  BY <1>2, <1>3, CallEnds
<1> DEFINE w == IF call[q].seen = "ready" THEN "drainer" ELSE "removing"
           x == member[call[q].k][call[q].n].status
           d == [call[q] EXCEPT !.at = w, !.was = x]
<1>4. CASE Has(call[q].k, call[q].n) /\ ~Busy(call[q].k, call[q].n) /\ call' = [call EXCEPT ![q] = d]
  <2>1. x \in {"ready", "failed"}
    <3>1. call[q].k \in Clusters /\ call[q].n \in Nodes
      BY <1>1 DEF Fits
    <3>2. QED
      BY <1>4, <3>1, TypedTables, RowStatus DEF Busy
  <2>2. w \in {"drainer", "removing"}
    OBVIOUS
  <2> HIDE DEF w, x
  <2>3. d \in CallRec /\ Fits(d)
    BY <1>1, <2>1, <2>2 DEF CallRec, Fits, Installs
  <2> HIDE DEF d
  <2>4. QED
    BY <1>2, <1>4, <2>3, CallTypes
<1>5. QED
  BY <1>3, <1>4 DEF CheckMember

LEMMA PickDrainerTypes == ASSUME TypeInv, NEW q \in Callers, PickDrainer(q) PROVE TypeInv'
<1>1. Fits(call[q]) /\ call[q] \in CallRec /\ call[q].at = "drainer"
  BY DEF TypeInv, TypeOK, PickDrainer, At
<1>2. TablesOK' /\ UNCHANGED <<tstat, taskVars, nodeVars, restarts>>
  BY TypedTables DEF TablesOK, PickDrainer, tables
<1>3. CASE Answers(q)
  BY <1>2, <1>3, CallEnds
<1>4. ASSUME NEW m \in Nodes, call' = [call EXCEPT ![q].at = "removing", ![q].drainer = m] PROVE TypeInv'
  <2> DEFINE d == [call[q] EXCEPT !.at = "removing", !.drainer = m]
  <2>1. d \in CallRec /\ Fits(d)
    BY <1>1 DEF CallRec, Fits, Installs
  <2>2. call' = [call EXCEPT ![q] = d]
    BY <1>4
  <2> HIDE DEF d
  <2>3. QED
    BY <1>2, <2>1, <2>2, CallTypes
<1>5. QED
  BY <1>3, <1>4 DEF PickDrainer, OtherMasters, ReadyMasters

LEMMA MarkRemovingTypes == ASSUME TypeInv, NEW q \in Callers, MarkRemoving(q) PROVE TypeInv'
<1>1. Fits(call[q]) /\ call[q].at = "removing"
  BY DEF TypeInv, MarkRemoving, At
<1>2. call[q].k \in Clusters /\ call[q].n \in Nodes
  BY <1>1 DEF Fits
<1>3. TablesOK' /\ UNCHANGED <<tstat, taskVars, nodeVars, restarts>> /\ Goes(q, "start")
  BY <1>2, TypedTables, MemberStatusSet DEF TablesOK, MarkRemoving
<1>4. QED
  BY <1>1, <1>3, CallGoes DEF Fits, Installs, Places

LEMMA ListMembersTypes == ASSUME TypeInv, NEW q \in Callers, ListMembers(q) PROVE TypeInv'
<1>1. Fits(call[q]) /\ call[q] \in CallRec /\ call[q].at = "list"
  BY DEF TypeInv, TypeOK, ListMembers, At
<1>2. TablesOK' /\ UNCHANGED <<tstat, taskVars, nodeVars, restarts>>
  BY TypedTables DEF TablesOK, ListMembers, tables
<1> DEFINE rows == {n \in Nodes : Has(call[q].k, n)}
           b == {n \in rows : Busy(call[q].k, n)}
           d == [call[q] EXCEPT !.at = "destroy", !.todo = rows, !.busy = b]
<1>3. CASE Answers(q)
  BY <1>2, <1>3, CallEnds
<1>4. CASE call' = [call EXCEPT ![q] = d]
  <2>1. rows \in SUBSET Nodes /\ b \in SUBSET Nodes
    OBVIOUS
  <2> HIDE DEF rows, b
  <2>2. d \in CallRec /\ Fits(d)
    BY <1>1, <2>1 DEF CallRec, Fits, Installs
  <2> HIDE DEF d
  <2>3. QED
    BY <1>2, <1>4, <2>2, CallTypes
<1>5. QED
  BY <1>3, <1>4 DEF ListMembers

LEMMA DropClusterTypes == ASSUME TypeInv, NEW q \in Callers, DropCluster(q) PROVE TypeInv'
<1>1. call[q].k \in Clusters
  BY DEF TypeInv, DropCluster, At, Fits
<1>2. TablesOK' /\ UNCHANGED <<tstat, taskVars, nodeVars, restarts>>
  BY <1>1, TypedTables, ClusterDeleted DEF TablesOK, DropCluster
<1>3. QED
  BY <1>2, CallEnds DEF DropCluster

LEMMA HangUpTypes == ASSUME TypeInv, NEW q \in Callers, HangUp(q) PROVE TypeInv'
<1>1. TablesOK' /\ UNCHANGED <<tstat, taskVars, nodeVars, restarts>> /\ Answers(q)
  BY TypedTables DEF TablesOK, HangUp, tables
<1>2. QED
  BY <1>1, CallEnds


LEMMA StartTaskTypes == ASSUME TypeInv, NEW q \in Callers, StartTask(q) PROVE TypeInv'
<1> DEFINE c == call[q]
           r == [kind |-> c.does, k |-> c.k, n |-> c.n, role |-> c.role, ep |-> c.ep, plan |-> Plan(c)]
<1>1. c \in CallRec /\ Fits(c) /\ c.at = "start" /\ online \in [Nodes -> BOOLEAN]
  BY DEF TypeInv, TypeOK, StartTask, At
<1>2. c.k \in Clusters /\ c.n \in Nodes /\ c.does \in {"install", "remove"} /\ (c.does = "install" => c.role \in Roles)
  BY <1>1 DEF Fits
<1>3. /\ Plan(c) \in Seq(Job) /\ Len(Plan(c)) \in 0..2
      /\ c.does = "install" => Len(Plan(c)) = 1 /\ Plan(c)[1] = [at |-> c.n, script |-> "install"]
      /\ \A x \in 1..Len(Plan(c)) : Plan(c)[x].script = "reset" => Plan(c)[x].at = c.n /\ c.does # "install"
  BY <1>1, <1>2, PlanShape
<1>4. r \in TaskRec
  BY <1>1, <1>2, <1>3 DEF TaskRec, CallRec
<1>5. Shape(r)
  BY <1>2, <1>3 DEF Shape
<1>6. Start(r) /\ Answers(q) /\ UNCHANGED <<cstat, endpoint, member, nodeVars, restarts>>
  BY DEF StartTask
<1> HIDE DEF c, r
<1>7. call' \in [Callers -> CallRec] /\ \A p \in Callers : Fits(call'[p])
  BY <1>6, IdleFits DEF Answers, TypeInv, TypeOK
<1>8. TypeOK' /\ \A t \in TaskIds : TaskInv(t)'
  BY <1>4, <1>5, <1>6, <1>7, StartTypes DEF TypeInv, TypeOK, nodeVars
<1>9. QED
  BY <1>7, <1>8 DEF TypeInv

LEMMA StartFailsTypes == ASSUME TypeInv, NEW q \in Callers, StartFails(q) PROVE TypeInv'
<1> DEFINE x == IF call[q].does = "install" THEN "failed" ELSE call[q].was
<1>1. Fits(call[q]) /\ call[q].at = "start"
  BY DEF TypeInv, StartFails, At
<1>2. call[q].k \in Clusters /\ call[q].n \in Nodes /\ x \in {"ready", "failed"}
  BY <1>1 DEF Fits
<1>3. SetMemberStatus(call[q].k, call[q].n, x) \/ UNCHANGED member
  BY DEF StartFails
<1>4. UNCHANGED <<cstat, endpoint, tstat, taskVars, nodeVars, restarts>> /\ Answers(q)
  BY DEF StartFails
<1> HIDE DEF x
<1>5. TablesOK'
  BY <1>2, <1>3, <1>4, TypedTables, MemberStatusSet DEF TablesOK
<1>6. QED
  BY <1>4, <1>5, CallEnds

LEMMA DestroyOneTypes == ASSUME TypeInv, NEW q \in Callers, NEW n \in Nodes, DestroyOne(q, n) PROVE TypeInv'
<1>1. call[q] \in CallRec /\ Fits(call[q]) /\ call[q].at = "destroy"
  BY DEF TypeInv, TypeOK, DestroyOne, At
<1>2. call[q].k \in Clusters
  BY <1>1 DEF Fits
<1>3. TablesOK' /\ UNCHANGED <<nodeVars, restarts>>
  BY TypedTables DEF TablesOK, DestroyOne
<1> DEFINE d == [call[q] EXCEPT !.todo = @ \ {n}]
           r == [NoTask EXCEPT !.kind = "destroy", !.k = call[q].k, !.n = n,
                   !.plan = <<[at |-> n, script |-> "reset"]>>]
<1>4. d \in CallRec /\ Fits(d)
  <2>1. call[q].todo \ {n} \in SUBSET Nodes
    BY <1>1 DEF CallRec
  <2>2. QED
    BY <1>1, <2>1 DEF CallRec, Fits
<1>5. CASE n \in call[q].busy
  BY <1>3, <1>5, CallEnds DEF DestroyOne
<1>6. CASE call' = [call EXCEPT ![q] = d] /\ UNCHANGED <<tstat, taskVars>>
  <2> HIDE DEF d
  <2>1. QED
    BY <1>3, <1>4, <1>6, CallTypes
<1>7. CASE Answers(q) /\ UNCHANGED <<tstat, taskVars>>
  BY <1>3, <1>7, CallEnds
<1>8. CASE call' = [call EXCEPT ![q] = d] /\ Start(r)
  <2>1. call' = [call EXCEPT ![q] = d] /\ Start(r)
    BY <1>8
  <2>2. r \in TaskRec
    <3>1. [at |-> n, script |-> "reset"] \in Job
      BY DEF Job
    <3>2. <<[at |-> n, script |-> "reset"]>> \in Seq(Job)
      BY <3>1
    <3>3. QED
      BY <1>2, <3>2 DEF TaskRec, NoTask
  <2>3. Shape(r)
    BY DEF Shape, NoTask
  <2> HIDE DEF d, r
  <2>4. call' \in [Callers -> CallRec] /\ \A p \in Callers : Fits(call'[p])
    BY <1>4, <2>1 DEF TypeInv, TypeOK
  <2>5. TypeOK' /\ \A t \in TaskIds : TaskInv(t)'
    BY <1>3, <2>1, <2>2, <2>3, <2>4, StartTypes DEF TypeInv, TypeOK, nodeVars, TablesOK, Statuses
  <2>6. QED
    BY <2>4, <2>5 DEF TypeInv
<1>9. QED
  BY <1>5, <1>6, <1>7, <1>8 DEF DestroyOne

\* What a task's goroutine does leaves calls, and other tasks, alone.
TaskVarsOK ==
  /\ tstat \in [TaskIds -> {"none", "running", "succeeded", "failed", "cancelled"}]
  /\ tpc \in [TaskIds -> {"none", "send", "wait", "finish", "after", "store", "settle", "over"}]
  /\ pos \in [TaskIds -> 1..2]
  /\ res \in [TaskIds -> {"none", "ok", "fail", "cancelled"}]
  /\ cancelled \in SUBSET TaskIds
  /\ enrolled \subseteq Nodes
  /\ inbox \in [Nodes -> Seq([t : TaskIds, script : {"install", "drain", "reset"}])]
  /\ online \in [Nodes -> BOOLEAN]

LEMMA TaskTypes ==
  ASSUME TypeInv, TaskVarsOK', TablesOK', UNCHANGED <<task, made, call, restarts>>,
         \A t \in TaskIds : TaskInv(t)'
  PROVE  TypeInv'
BY DEF TypeInv, TypeOK, TablesOK, Statuses, TaskVarsOK

LEMMA TypedTasks == TypeInv => TaskVarsOK
BY DEF TypeInv, TypeOK, TaskVarsOK

\* A task that has begun captured a cluster and a node.
LEMMA Captured ==
  ASSUME TypeInv, NEW t \in TaskIds, tpc[t] # "none"
  PROVE  task[t] \in TaskRec /\ Shape(task[t]) /\ task[t].k \in Clusters /\ task[t].n \in Nodes
         /\ task[t].plan \in Seq(Job) /\ t <= made
BY DEF TypeInv, TaskInv, TaskRec, TypeOK, TaskIds

LEMMA SubmitTypes == ASSUME TypeInv, NEW t \in TaskIds, Submit(t) PROVE TypeInv'
<1> DEFINE j == task[t].plan[pos[t]]
<1>1. task[t].plan \in Seq(Job) /\ pos[t] \in 1..Len(task[t].plan)
  <2>1. tpc[t] = "send" /\ pos[t] \in 1..2
    BY DEF TypeInv, TypeOK, Submit
  <2>2. pos[t] <= Len(task[t].plan) /\ task[t].plan \in Seq(Job)
    BY <2>1, Captured DEF TypeInv, TaskInv
  <2>3. QED
    BY <2>1, <2>2
<1>2. j \in Job
  BY <1>1, ElementOfSeq
<1>3. TablesOK' /\ UNCHANGED <<task, made, call, restarts>>
  BY TypedTables DEF TablesOK, Submit, tables
<1>4. TaskVarsOK /\ tstat' = tstat /\ pos' = pos /\ cancelled' = cancelled /\ online' = online /\ enrolled' = enrolled
  BY TypedTasks DEF Submit, tables
<1>5. tpc' \in [TaskIds -> {"none", "send", "wait", "finish", "after", "store", "settle", "over"}]
  <2>1. tpc' = [tpc EXCEPT ![t] = "wait"] \/ tpc' = [tpc EXCEPT ![t] = "finish"]
    BY DEF Submit, Ends
  <2>2. QED
    BY <1>4, <2>1 DEF TaskVarsOK
<1>6. res' \in [TaskIds -> {"none", "ok", "fail", "cancelled"}]
  BY <1>4 DEF Submit, TaskVarsOK, Ends
<1>7. inbox' \in [Nodes -> Seq([t : TaskIds, script : {"install", "drain", "reset"}])]
  <2> DEFINE J == [t : TaskIds, script : {"install", "drain", "reset"}]
             x == [t |-> t, script |-> j.script]
  <2>1. j.at \in Nodes /\ x \in J
    BY <1>2 DEF Job
  <2>2. inbox[j.at] \in Seq(J)
    BY <1>4, <2>1 DEF TaskVarsOK
  <2>3. inbox' = inbox \/ inbox' = [inbox EXCEPT ![j.at] = Append(@, x)]
    BY DEF Submit
  <2>4. Append(inbox[j.at], x) \in Seq(J)
    BY <2>1, <2>2, AppendProperties
  <2> HIDE DEF J, x, j
  <2>5. inbox \in [Nodes -> Seq(J)]
    BY <1>4 DEF TaskVarsOK, J
  <2>6. inbox' \in [Nodes -> Seq(J)]
    BY <2>1, <2>3, <2>4, <2>5
  <2>7. QED
    BY <2>6 DEF J
<1>8. ASSUME NEW u \in TaskIds PROVE TaskInv(u)'
  <2>1. (tpc'[u] = tpc[u] /\ res'[u] = res[u]) \/ (u = t /\ tpc[u] = "send" /\ tpc'[u] \in {"wait", "finish"})
    BY <1>4 DEF Submit, Ends, TaskVarsOK
  <2>2. TaskInv(u)
    BY DEF TypeInv
  <2>3. QED
    BY <1>3, <1>4, <2>1, <2>2 DEF TaskInv
<1>9. QED
  BY <1>3, <1>4, <1>5, <1>6, <1>7, <1>8, TaskTypes DEF TaskVarsOK

\* A step of one task that gives it a new place, and perhaps a result or a final state.
LEMMA TaskMoves ==
  ASSUME TypeInv, NEW t \in TaskIds, NEW w \in {"finish", "after", "store", "settle", "over"},
         tpc[t] \in {"send", "wait", "finish", "after", "store", "settle"},
         tpc' = [tpc EXCEPT ![t] = w], TablesOK',
         UNCHANGED <<task, pos, cancelled, made, nodeVars, call, restarts>>,
         res' = res \/ \E o \in {"ok", "fail", "cancelled"} : res' = [res EXCEPT ![t] = o],
         \/ tstat' = tstat /\ (w # "finish" => tpc[t] \in {"after", "store", "settle"})
         \/ \E o \in {"succeeded", "failed", "cancelled"} : tstat' = [tstat EXCEPT ![t] = o],
         w \in {"after", "store", "settle"} => task[t].kind # "destroy",
         w \in {"store", "settle"} => task[t].kind = "install" /\ task[t].role = "first-master",
         w = "store" => res' = res /\ res[t] = "ok"
  PROVE  TypeInv'
<1>1. TaskVarsOK
  BY TypedTasks
<1>2. TaskVarsOK'
  <2>1. tpc' \in [TaskIds -> {"none", "send", "wait", "finish", "after", "store", "settle", "over"}]
    BY <1>1 DEF TaskVarsOK
  <2>2. res' \in [TaskIds -> {"none", "ok", "fail", "cancelled"}]
    BY <1>1 DEF TaskVarsOK
  <2>3. tstat' \in [TaskIds -> {"none", "running", "succeeded", "failed", "cancelled"}]
    BY <1>1 DEF TaskVarsOK
  <2>4. QED
    BY <1>1, <2>1, <2>2, <2>3 DEF TaskVarsOK, nodeVars
<1>3. ASSUME NEW u \in TaskIds PROVE TaskInv(u)'
  <2>1. TaskInv(u) /\ TaskInv(t) /\ made \in Nat /\ u \in Nat
    BY DEF TypeInv, TypeOK, TaskIds
  <2>2. CASE u = t
    BY <1>1, <2>1, <2>2 DEF TaskInv, TaskVarsOK
  <2>3. CASE u # t
    <3>1. tpc'[u] = tpc[u] /\ tstat'[u] = tstat[u] /\ res'[u] = res[u]
      BY <1>1, <2>3 DEF TaskVarsOK
    <3>2. QED
      BY <2>1, <3>1 DEF TaskInv
  <2>4. QED
    BY <2>2, <2>3
<1>4. QED
  BY <1>2, <1>3, TaskTypes

LEMMA CtxDoneTypes == ASSUME TypeInv, NEW t \in TaskIds, CtxDone(t) PROVE TypeInv'
<1>1. TablesOK' /\ tstat' = tstat
  BY TypedTables DEF CtxDone, TablesOK, tables
<1>2. QED
  BY <1>1, TaskMoves DEF CtxDone, Ends

LEMMA FinishTypes == ASSUME TypeInv, NEW t \in TaskIds, Finish(t) PROVE TypeInv'
<1>1. TablesOK'
  BY TypedTables DEF Finish, TablesOK
<1> DEFINE w == IF task[t].kind = "destroy" THEN "over" ELSE "after"
<1>2. w \in {"over", "after"} /\ (w = "after" => task[t].kind # "destroy") /\ tpc' = [tpc EXCEPT ![t] = w]
  BY DEF Finish
<1> HIDE DEF w
<1>3. \E o \in {"succeeded", "failed", "cancelled"} : tstat' = [tstat EXCEPT ![t] = o]
  BY DEF Finish
<1>4. QED
  BY <1>1, <1>2, <1>3, TaskMoves DEF Finish

LEMMA TakeOverTypes == ASSUME TypeInv, NEW t \in TaskIds, TakeOver(t) PROVE TypeInv'
<1>1. task[t].k \in Clusters /\ task[t].n \in Nodes /\ task[t].ep \in Nodes \cup {Unset, Own}
  BY Captured DEF TakeOver, TaskRec
<1>2. TablesOK'
  <2>1. CASE SetClusterEndpoint(task[t].k, task[t].ep) /\ UNCHANGED <<cstat, member>>
    BY <1>1, <2>1, TypedTables, EndpointSet DEF TablesOK
  <2>2. CASE SetMemberStatus(task[t].k, task[t].n, "failed") /\ UNCHANGED <<cstat, endpoint>>
    BY <1>1, <2>2, TypedTables, MemberStatusSet DEF TablesOK
  <2>3. QED
    BY <2>1, <2>2 DEF TakeOver
<1>3. CASE tpc' = [tpc EXCEPT ![t] = "store"] /\ res' = res
  BY <1>2, <1>3, TaskMoves DEF TakeOver
<1>4. CASE tpc' = [tpc EXCEPT ![t] = "settle"] /\ res' = [res EXCEPT ![t] = "fail"]
  BY <1>2, <1>4, TaskMoves DEF TakeOver
<1>5. QED
  BY <1>3, <1>4 DEF TakeOver

LEMMA StoreCredentialsTypes == ASSUME TypeInv, NEW t \in TaskIds, StoreCredentials(t) PROVE TypeInv'
<1>1. task[t].k \in Clusters /\ task[t].kind = "install" /\ task[t].role = "first-master"
  BY Captured DEF StoreCredentials, TypeInv, TaskInv
<1>2. TablesOK'
  BY <1>1, TypedTables, StatusSet DEF TablesOK, Statuses, StoreCredentials
<1>3. QED
  BY <1>1, <1>2, TaskMoves DEF StoreCredentials

LEMMA InstallDoneTypes == ASSUME TypeInv, NEW t \in TaskIds, InstallDone(t) PROVE TypeInv'
<1>1. task[t].k \in Clusters /\ task[t].n \in Nodes
  BY Captured DEF InstallDone
<1>2. TablesOK'
  BY <1>1, TypedTables, MemberStatusSet DEF TablesOK, InstallDone
<1> DEFINE w == IF task[t].role = "first-master" THEN "settle" ELSE "over"
<1>3. w \in {"settle", "over"} /\ (w = "settle" => task[t].role = "first-master") /\ tpc' = [tpc EXCEPT ![t] = w]
  BY DEF InstallDone
<1> HIDE DEF w
<1>4. QED
  BY <1>2, <1>3, TaskMoves DEF InstallDone

LEMMA SettleTypes == ASSUME TypeInv, NEW t \in TaskIds, Settle(t) PROVE TypeInv'
<1>1. task[t].k \in Clusters /\ task[t].n \in Nodes
  BY Captured DEF Settle
<1>2. TablesOK'
  <2>1. CASE SetMemberStatus(task[t].k, task[t].n, "ready") /\ UNCHANGED cstat
    BY <1>1, <2>1, TypedTables, MemberStatusSet DEF TablesOK, Settle
  <2>2. CASE SetClusterStatus(task[t].k, "failed") /\ UNCHANGED member
    BY <1>1, <2>2, TypedTables, StatusSet DEF TablesOK, Settle, Statuses
  <2>3. QED
    BY <2>1, <2>2 DEF Settle
<1>3. QED
  BY <1>2, TaskMoves DEF Settle

LEMMA RemoveDoneTypes == ASSUME TypeInv, NEW t \in TaskIds, RemoveDone(t) PROVE TypeInv'
<1>1. task[t].k \in Clusters /\ task[t].n \in Nodes
  BY Captured DEF RemoveDone
<1>2. TablesOK'
  <2>1. CASE res[t] = "ok"
    BY <1>1, <2>1, TypedTables, MemberDeleted DEF TablesOK, RemoveDone
  <2>2. CASE res[t] # "ok"
    BY <1>1, <2>2, TypedTables, MemberStatusSet DEF TablesOK, RemoveDone
  <2>3. QED
    BY <2>1, <2>2
<1>3. QED
  BY <1>2, TaskMoves DEF RemoveDone

LEMMA CancelTypes == ASSUME TypeInv, NEW t \in TaskIds, Cancel(t) PROVE TypeInv'
<1>1. TypeOK'
  BY DEF TypeInv, TypeOK, Cancel, tables, nodeVars
<1>2. ASSUME NEW u \in TaskIds PROVE TaskInv(u)'
  BY DEF TypeInv, TaskInv, Cancel, tables
<1>3. ASSUME NEW p \in Callers PROVE Fits(call'[p])
  BY DEF TypeInv, Cancel
<1>4. QED
  BY <1>1, <1>2, <1>3 DEF TypeInv


-----------------------------------------------------------------------------
\* What is left of an agent's queue when it drops the last scripts, or has finished the first.
Jobs == Seq([t : TaskIds, script : {"install", "drain", "reset"}])

LEMMA QueueCut ==
  ASSUME NEW q \in Jobs, NEW m \in 0..Len(q)
  PROVE  /\ SubSeq(q, 1, m) \in Jobs /\ Len(SubSeq(q, 1, m)) = m
         /\ \A x \in 1..m : SubSeq(q, 1, m)[x] = q[x]
<1> DEFINE J == [t : TaskIds, script : {"install", "drain", "reset"}]
<1>1. q \in Seq(J) /\ Len(q) \in Nat
  BY LenProperties DEF Jobs
<1> HIDE DEF J
<1>2. \A x \in 1..m : q[x] \in J
  BY <1>1, ElementOfSeq
<1>3. SubSeq(q, 1, m) = [x \in 1..m |-> q[x]]
  BY <1>1, SubSeqProperties
<1>4. QED
  BY <1>1, <1>2, <1>3 DEF J, Jobs

LEMMA QueueRest ==
  ASSUME NEW q \in Jobs, q # <<>>
  PROVE  /\ Head(q) = q[1] /\ Len(q) \in Nat /\ Len(q) > 0 /\ Head(q).t \in TaskIds
         /\ Tail(q) \in Jobs /\ Len(Tail(q)) = Len(q) - 1
         /\ \A x \in 1..Len(Tail(q)) : Tail(q)[x] = q[x + 1]
<1> DEFINE J == [t : TaskIds, script : {"install", "drain", "reset"}]
<1>1. q \in Seq(J)
  BY DEF Jobs
<1> HIDE DEF J
<1>2. Len(q) \in Nat /\ Len(q) > 0 /\ Head(q) = q[1] /\ Head(q) \in J
  BY <1>1, EmptySeq, LenProperties, HeadTailProperties
<1>3. Tail(q) \in Seq(J) /\ Len(Tail(q)) = Len(q) - 1 /\ \A x \in 1..Len(Tail(q)) : Tail(q)[x] = q[x + 1]
  BY <1>1, <1>2, HeadTailProperties
<1>4. QED
  BY <1>2, <1>3 DEF J, Jobs

\* Who hears of a script that ended: the task that sent it, if it still waits for it.
LEMMA WorkDoes ==
  ASSUME TypeInv, NEW n \in Nodes, NEW ok \in BOOLEAN, Work(n, ok)
  PROVE  \E t \in TaskIds :
           /\ t = Head(inbox[n]).t
           /\ \/ UNCHANGED <<tpc, pos, res>>
              \/ /\ WaitsOn(t, n) /\ task[t].plan[pos[t]].script = Head(inbox[n]).script
                 /\ \/ /\ pos[t] < Len(task[t].plan)
                       /\ tpc' = [tpc EXCEPT ![t] = "send"] /\ pos' = [pos EXCEPT ![t] = @ + 1] /\ res' = res
                    \/ /\ tpc' = [tpc EXCEPT ![t] = "finish"] /\ pos' = pos
                       /\ res' = [res EXCEPT ![t] = IF ok THEN "ok" ELSE "fail"]
<1>1. inbox[n] \in Jobs /\ inbox[n] # <<>>
  BY DEF TypeInv, TypeOK, Jobs, Work
<1>2. PICK t \in TaskIds : t = Head(inbox[n]).t
  BY <1>1, QueueRest
<1>3. \/ UNCHANGED <<tpc, pos, res>>
      \/ /\ WaitsOn(t, n) /\ task[t].plan[pos[t]].script = Head(inbox[n]).script
         /\ \/ /\ pos[t] < Len(task[t].plan)
               /\ tpc' = [tpc EXCEPT ![t] = "send"] /\ pos' = [pos EXCEPT ![t] = @ + 1] /\ res' = res
            \/ /\ tpc' = [tpc EXCEPT ![t] = "finish"] /\ pos' = pos
               /\ res' = [res EXCEPT ![t] = IF ok THEN "ok" ELSE "fail"]
  BY <1>2 DEF Work, Ends
<1>4. QED
  BY <1>2, <1>3

LEMMA WorkTypes == ASSUME TypeInv, NEW n \in Nodes, NEW ok \in BOOLEAN, Work(n, ok) PROVE TypeInv'
<1>1. TaskVarsOK
  BY TypedTasks
<1>2. inbox[n] \in Jobs /\ inbox[n] # <<>>
  BY <1>1 DEF TaskVarsOK, Jobs, Work
<1>3. Tail(inbox[n]) \in Jobs
  BY <1>2, QueueRest
<1>4. TablesOK' /\ UNCHANGED <<tstat, task, cancelled, made, enrolled, online, call, restarts>>
  BY TypedTables DEF TablesOK, Work, tables
<1>5. inbox' \in [Nodes -> Jobs]
  BY <1>1, <1>3 DEF Work, TaskVarsOK, Jobs
<1>6. PICK t \in TaskIds :
        \/ UNCHANGED <<tpc, pos, res>>
        \/ /\ tpc[t] = "wait" /\ pos[t] < Len(task[t].plan) /\ tpc' = [tpc EXCEPT ![t] = "send"]
           /\ pos' = [pos EXCEPT ![t] = @ + 1] /\ UNCHANGED res
        \/ /\ tpc[t] = "wait" /\ tpc' = [tpc EXCEPT ![t] = "finish"] /\ UNCHANGED pos
           /\ res' = [res EXCEPT ![t] = IF ok THEN "ok" ELSE "fail"]
  BY WorkDoes DEF WaitsOn
<1>7. tpc[t] = "wait" => Len(task[t].plan) \in Nat /\ Len(task[t].plan) <= 2
  BY <1>3, Captured, LenProperties DEF Shape
<1>8. tpc' \in [TaskIds -> {"none", "send", "wait", "finish", "after", "store", "settle", "over"}]
  BY <1>1, <1>3, <1>6 DEF TaskVarsOK
<1>9. pos' \in [TaskIds -> 1..2]
  <2>1. pos \in [TaskIds -> 1..2]
    BY <1>1 DEF TaskVarsOK
  <2>2. CASE pos' = [pos EXCEPT ![t] = @ + 1] /\ tpc[t] = "wait" /\ pos[t] < Len(task[t].plan)
    <3>1. pos[t] \in {1, 2} /\ pos[t] # 2
      BY <1>3, <1>7, <2>1, <2>2
    <3>2. pos[t] = 1
      BY <3>1
    <3>3. pos' = [pos EXCEPT ![t] = 1 + 1]
      BY <2>2, <3>2
    <3>4. pos' = [pos EXCEPT ![t] = 2]
      BY <3>3
    <3>5. QED
      BY <2>1, <3>4
  <2>3. QED
    BY <1>6, <2>1, <2>2
<1>10. res' \in [TaskIds -> {"none", "ok", "fail", "cancelled"}]
  BY <1>1, <1>3, <1>6 DEF TaskVarsOK
<1>11. TaskVarsOK'
  BY <1>1, <1>4, <1>5, <1>8, <1>9, <1>10 DEF TaskVarsOK, Jobs
<1>12. ASSUME NEW u \in TaskIds PROVE TaskInv(u)'
  <2>1. TaskInv(u) /\ pos[u] \in 1..2
    BY DEF TypeInv, TypeOK
  <2>2. CASE tpc'[u] = tpc[u] /\ pos'[u] = pos[u] /\ res'[u] = res[u]
    BY <1>4, <2>1, <2>2 DEF TaskInv
  <2>3. CASE u = t /\ tpc[t] = "wait"
    <3>1. tpc'[u] \in {"wait", "send", "finish"} /\ (tpc'[u] = "send" => pos'[u] <= Len(task[u].plan))
      BY <1>1, <1>6, <1>7, <2>1, <2>3 DEF TaskVarsOK, TaskInv
    <3>2. tpc'[u] = "wait" => pos'[u] = pos[u]
      BY <1>1, <1>6, <2>3 DEF TaskVarsOK
    <3>3. QED
      BY <1>4, <2>1, <2>3, <3>1, <3>2 DEF TaskInv
  <2>4. QED
    BY <1>1, <1>6, <2>2, <2>3 DEF TaskVarsOK
<1>13. QED
  BY <1>4, <1>11, <1>12, TaskTypes

LEMMA DisconnectTypes == ASSUME TypeInv, NEW n \in Nodes, Disconnect(n) PROVE TypeInv'
<1>1. TaskVarsOK
  BY TypedTasks
<1>2. TablesOK' /\ UNCHANGED <<tstat, task, pos, cancelled, made, enrolled, call, restarts>>
  BY TypedTables DEF TablesOK, Disconnect, tables
<1>3. PICK m \in 0..Len(inbox[n]) : inbox' = [inbox EXCEPT ![n] = SubSeq(@, 1, m)]
  BY DEF Disconnect
<1>4. inbox[n] \in Jobs
  BY <1>1 DEF TaskVarsOK, Jobs
<1>5. SubSeq(inbox[n], 1, m) \in Jobs
  BY <1>4, QueueCut
<1>6. inbox' \in [Nodes -> Jobs]
  BY <1>1, <1>3, <1>5 DEF TaskVarsOK, Jobs
<1>7. tpc' \in [TaskIds -> {"none", "send", "wait", "finish", "after", "store", "settle", "over"}]
  BY <1>1 DEF Disconnect, TaskVarsOK
<1>8. res' \in [TaskIds -> {"none", "ok", "fail", "cancelled"}]
  BY <1>1 DEF Disconnect, TaskVarsOK
<1>9. online' \in [Nodes -> BOOLEAN]
  BY <1>1 DEF Disconnect, TaskVarsOK
<1>10. TaskVarsOK'
  BY <1>1, <1>2, <1>6, <1>7, <1>8, <1>9 DEF TaskVarsOK, Jobs
<1>11. ASSUME NEW u \in TaskIds PROVE TaskInv(u)'
  <2>1. (tpc'[u] = tpc[u] /\ res'[u] = res[u]) \/ (tpc[u] = "wait" /\ tpc'[u] = "finish")
    BY <1>1 DEF Disconnect, WaitsOn, TaskVarsOK
  <2>2. TaskInv(u)
    BY DEF TypeInv
  <2>3. QED
    BY <1>2, <2>1, <2>2 DEF TaskInv
<1>12. QED
  BY <1>2, <1>10, <1>11, TaskTypes

LEMMA DeleteNodeTypes == ASSUME TypeInv, NEW n \in Nodes, DeleteNode(n) PROVE TypeInv'
<1>1. TypeOK'
  BY DEF TypeInv, TypeOK, DeleteNode, tables, taskVars
<1>2. ASSUME NEW u \in TaskIds PROVE TaskInv(u)'
  BY DEF TypeInv, TaskInv, DeleteNode, tables, taskVars
<1>3. ASSUME NEW p \in Callers PROVE Fits(call'[p])
  BY DEF TypeInv, DeleteNode
<1>4. QED
  BY <1>1, <1>2, <1>3 DEF TypeInv

LEMMA ConnectTypes == ASSUME TypeInv, NEW n \in Nodes, Connect(n) PROVE TypeInv'
<1>1. TypeOK'
  BY DEF TypeInv, TypeOK, Connect, tables, taskVars
<1>2. ASSUME NEW u \in TaskIds PROVE TaskInv(u)'
  BY DEF TypeInv, TaskInv, Connect, tables, taskVars
<1>3. ASSUME NEW p \in Callers PROVE Fits(call'[p])
  BY DEF TypeInv, Connect
<1>4. QED
  BY <1>1, <1>2, <1>3 DEF TypeInv

LEMMA RestartTypes == ASSUME TypeInv, Restart PROVE TypeInv'
<1>1. TaskVarsOK /\ TablesOK /\ restarts \in 0..MaxRestarts /\ call \in [Callers -> CallRec]
  BY TypedTasks, TypedTables DEF TypeInv, TypeOK
<1>2. tstat' \in [TaskIds -> {"none", "running", "succeeded", "failed", "cancelled"}]
  BY <1>1 DEF Restart, TaskVarsOK
<1>3. tpc' \in [TaskIds -> {"none", "send", "wait", "finish", "after", "store", "settle", "over"}]
  BY <1>1 DEF Restart, Forgotten, TaskVarsOK
<1>4. call' \in [Callers -> CallRec] /\ \A p \in Callers : Fits(call'[p])
  BY IdleFits DEF Restart
<1>5. online' \in [Nodes -> BOOLEAN] /\ restarts' \in 0..MaxRestarts
  BY <1>1 DEF Restart
<1>6. TypeOK'
  BY <1>2, <1>3, <1>4, <1>5 DEF TypeInv, TypeOK, Restart
<1>7. ASSUME NEW u \in TaskIds PROVE TaskInv(u)'
  <2>1. /\ tpc'[u] = (IF tpc[u] = "none" THEN "none" ELSE "over")
        /\ tstat'[u] = (IF tstat[u] = "running" THEN "failed" ELSE tstat[u])
        /\ task' = task /\ pos' = pos /\ made' = made
    BY DEF Restart, Forgotten
  <2>2. TaskInv(u)
    BY DEF TypeInv
  <2>3. QED
    BY <2>1, <2>2 DEF TaskInv
<1>8. QED
  BY <1>4, <1>6, <1>7 DEF TypeInv

\* Init: nothing has begun.
LEMMA InitTypes == Init => TypeInv
<1> SUFFICES ASSUME Init PROVE TypeInv
  OBVIOUS
<1>1. call \in [Callers -> CallRec] /\ \A q \in Callers : Fits(call[q])
  BY IdleFits DEF Init
<1>2. inbox \in [Nodes -> Seq([t : TaskIds, script : {"install", "drain", "reset"}])]
  BY DEF Init
<1>3. TypeOK
  BY <1>1, <1>2 DEF Init, TypeOK
<1>4. \A t \in TaskIds : TaskInv(t)
  BY DEF Init, TaskInv, TaskIds
<1>5. QED
  BY <1>1, <1>3, <1>4 DEF TypeInv

LEMMA StutterTypes == TypeInv /\ UNCHANGED vars => TypeInv'
<1> SUFFICES ASSUME TypeInv, UNCHANGED vars PROVE TypeInv'
  OBVIOUS
<1>1. TypeOK'
  BY DEF TypeInv, TypeOK, vars, tables, taskVars, nodeVars
<1>2. ASSUME NEW t \in TaskIds PROVE TaskInv(t)'
  BY DEF TypeInv, TaskInv, vars, tables, taskVars, nodeVars
<1>3. ASSUME NEW p \in Callers PROVE Fits(call'[p])
  BY DEF TypeInv, vars
<1>4. QED
  BY <1>1, <1>2, <1>3 DEF TypeInv

LEMMA StepTypes == TypeInv /\ [Next]_vars => TypeInv'
<1> SUFFICES ASSUME TypeInv, [Next]_vars PROVE TypeInv'
  OBVIOUS
<1>1. ASSUME NEW q \in Callers, CallStep(q) PROVE TypeInv'
  BY <1>1, CheckMembershipTypes, DeriveEndpointTypes, MarkInstallingTypes, CredentialsTypes, JoinTableTypes,
     CheckMemberTypes, PickDrainerTypes, MarkRemovingTypes, StartTaskTypes, StartFailsTypes, ListMembersTypes,
     DropClusterTypes, DestroyOneTypes DEF CallStep
<1>2. ASSUME NEW q \in Callers, User(q) PROVE TypeInv'
  BY <1>2, BeginTypes, HangUpTypes DEF User
<1>3. ASSUME NEW t \in TaskIds, TaskStep(t) PROVE TypeInv'
  BY <1>3, SubmitTypes, CtxDoneTypes, FinishTypes, TakeOverTypes, StoreCredentialsTypes, InstallDoneTypes, SettleTypes,
     RemoveDoneTypes DEF TaskStep
<1>4. QED
  BY <1>1, <1>2, <1>3, CreateTypes, CancelTypes, DeleteNodeTypes, DisconnectTypes, ConnectTypes, WorkTypes, RestartTypes,
     StutterTypes DEF Next

\* Every variable keeps its type, and task ids, plans and the locals of calls keep their shape.
THEOREM TypeInvariant == Spec => []TypeInv
BY InitTypes, StepTypes, PTL DEF Spec

\* Every variable of the cluster service keeps its type.
THEOREM TypeCorrect == Spec => []TypeOK
<1>1. TypeInv => TypeOK
  BY DEF TypeInv
<1>2. QED
  BY <1>1, TypeInvariant, PTL


-----------------------------------------------------------------------------
(***************************************************************************)
(* A busy member: somebody is about to settle it.  BusyHasTask is not      *)
(* inductive: a task past its last word on the row is still live, and      *)
(* stands behind nothing any more.                                         *)
(***************************************************************************)
\* The callback of task t has not said its last word on the member's row yet.
Pending(t) ==
  /\ Live(t)
  /\ task[t].kind \in {"install", "remove"}
  /\ ~(tpc[t] = "settle" /\ res[t] # "ok")

BehindMember(k, n) ==
  \/ \E t \in TaskIds : Pending(t) /\ For(t, k, n)
  \/ \E q \in Callers : At(q, "start") /\ call[q].k = k /\ call[q].n = n

BusyInv(k, n) == restarts = 0 /\ Busy(k, n) => BehindMember(k, n)

StuckInv == \A k \in Clusters, n \in Nodes : BusyInv(k, n)

\* Not both: tasks.Start fails, and the client has left when the row is to be put back.
UndoIsWritten == ~({"refuse", "hangup"} \subseteq Events)

\* A call that is not about to start its task stands behind no member; the others stay.
LEMMA BehindMemberKept ==
  ASSUME TypeInv, NEW k \in Clusters, NEW n \in Nodes, NEW q \in Callers, ~At(q, "start"),
         \A p \in Callers : p # q => call'[p] = call[p],
         \A t \in TaskIds : Pending(t) => Pending(t)' /\ task'[t] = task[t],
         BehindMember(k, n)
  PROVE  BehindMember(k, n)'
<1>1. CASE \E t \in TaskIds : Pending(t) /\ For(t, k, n)
  BY <1>1 DEF BehindMember, For
<1>2. ASSUME NEW p \in Callers, At(p, "start"), call[p].k = k, call[p].n = n PROVE BehindMember(k, n)'
  BY <1>2 DEF BehindMember, At
<1>3. QED
  BY <1>1, <1>2 DEF BehindMember

\* What the tasks do is nobody's affair in a step that leaves them alone.
LEMMA TasksQuiet ==
  ASSUME taskVars' = taskVars
  PROVE  \A t \in TaskIds : (Pending(t) <=> Pending(t)') /\ task'[t] = task[t]
BY DEF taskVars, Pending, Live

\* A new task changes nothing about those that run.
LEMMA TasksStarted ==
  ASSUME TypeInv, NEW r, Start(r)
  PROVE  \A t \in TaskIds : Pending(t) => Pending(t)' /\ task'[t] = task[t]
<1> TAKE t \in TaskIds
<1>1. CASE t = made'
  <2>1. tpc[t] = "none"
    BY <1>1, StartFresh
  <2>2. QED
    BY <2>1 DEF Pending, Live
<1>2. CASE t # made'
  <2>1. task'[t] = task[t] /\ tpc'[t] = tpc[t] /\ res'[t] = res[t]
    BY <1>2, StartFresh
  <2>2. QED
    BY <2>1 DEF Pending, Live
<1>3. QED
  BY <1>1, <1>2

\* Calls other than those that start a task, in a step that makes no member busy.
LEMMA CallQuiet ==
  ASSUME TypeInv, StuckInv, NEW q \in Callers, call[q].at # "start",
         \A p \in Callers : p # q => call'[p] = call[p],
         \A t \in TaskIds : Pending(t) => Pending(t)' /\ task'[t] = task[t],
         \A k \in Clusters, n \in Nodes : Busy(k, n)' => Busy(k, n),
         restarts' = restarts
  PROVE  StuckInv'
BY BehindMemberKept DEF StuckInv, BusyInv, At

\* How a call's new locals show in the table of calls.
LEMMA OnlyOneCall ==
  ASSUME TypeInv, NEW q \in Callers, NEW c, call' = [call EXCEPT ![q] = c]
  PROVE  call'[q] = c /\ \A p \in Callers : p # q => call'[p] = call[p]
BY DEF TypeInv, TypeOK

LEMMA MovedCall ==
  ASSUME TypeInv, NEW q \in Callers, NEW w \in Places, Goes(q, w)
  PROVE  /\ call'[q].at = w /\ call'[q].does = call[q].does /\ call'[q].k = call[q].k /\ call'[q].n = call[q].n
         /\ call'[q].role = call[q].role /\ call'[q].seen = call[q].seen /\ call'[q].was = call[q].was
         /\ \A p \in Callers : p # q => call'[p] = call[p]
<1> DEFINE d == [call[q] EXCEPT !.at = w]
<1>1. call[q] \in CallRec
  BY DEF TypeInv, TypeOK
<1>2. /\ d.at = w /\ d.does = call[q].does /\ d.k = call[q].k /\ d.n = call[q].n /\ d.role = call[q].role
      /\ d.seen = call[q].seen /\ d.was = call[q].was
  BY <1>1, Moves
<1>3. call' = [call EXCEPT ![q] = d]
  BY DEF Goes
<1> HIDE DEF d
<1>4. QED
  BY <1>2, <1>3, OnlyOneCall

\* A call reads, decides, writes the cluster's row, or ends without having written anything.
LEMMA ReadersStuck ==
  ASSUME TypeInv, StuckInv, NEW q \in Callers,
         \/ CheckMembership(q) \/ DeriveEndpoint(q) \/ MarkInstalling(q) \/ FreshJoin(q) \/ IssueJoin(q)
         \/ CheckMember(q) \/ PickDrainer(q) \/ ListMembers(q) \/ HangUp(q)
         \/ \E k \in Clusters, n \in Nodes, r \in Roles : AddNode(q, k, n, r)
         \/ \E k \in Clusters, n \in Nodes : RemoveNode(q, k, n)
         \/ \E k \in Clusters, how \in {"delete", "force"} : Delete(q, k, how)
  PROVE  StuckInv'
<1>1. call[q].at # "start"
  BY DEF CheckMembership, DeriveEndpoint, MarkInstalling, FreshJoin, IssueJoin, CheckMember, PickDrainer,
         ListMembers, HangUp, AddNode, RemoveNode, Delete, MayBegin, At
<1>2. /\ taskVars' = taskVars /\ member' = member /\ restarts' = restarts
      /\ \A p \in Callers : p # q => call'[p] = call[p]
  <2>1. call \in [Callers -> CallRec]
    BY DEF TypeInv, TypeOK
  <2>2. QED
    BY <2>1 DEF CheckMembership, DeriveEndpoint, MarkInstalling, FreshJoin, IssueJoin, CheckMember, PickDrainer,
         ListMembers, HangUp, AddNode, RemoveNode, Delete, Answers, Goes, tables
<1>3. \A k \in Clusters, n \in Nodes : Busy(k, n)' => Busy(k, n)
  BY <1>2 DEF Busy
<1>4. QED
  BY <1>1, <1>2, <1>3, TasksQuiet, CallQuiet

\* A call that has made a member busy is about to start the task.
LEMMA MarkedStuck ==
  ASSUME TypeInv, StuckInv, NEW q \in Callers, ~At(q, "start"),
         taskVars' = taskVars, restarts' = restarts,
         call'[q].at = "start", call'[q].k = call[q].k, call'[q].n = call[q].n,
         \A o \in Clusters, m \in Nodes : o # call[q].k \/ m # call[q].n => member'[o][m] = member[o][m],
         \A p \in Callers : p # q => call'[p] = call[p]
  PROVE  StuckInv'
<1>1. ASSUME NEW k \in Clusters, NEW n \in Nodes PROVE BusyInv(k, n)'
  <2>1. CASE k = call[q].k /\ n = call[q].n
    BY <2>1 DEF BusyInv, BehindMember, At
  <2>2. CASE k # call[q].k \/ n # call[q].n
    BY <2>2, TasksQuiet, BehindMemberKept DEF StuckInv, BusyInv, Busy
  <2>3. QED
    BY <2>1, <2>2
<1>2. QED
  BY <1>1 DEF StuckInv

LEMMA JoinTableStuck == ASSUME TypeInv, StuckInv, NEW q \in Callers, JoinTable(q) PROVE StuckInv'
<1>1. call[q].at = "upsert" /\ Fits(call[q]) /\ TablesOK /\ call \in [Callers -> CallRec]
  BY TypedTables DEF JoinTable, At, TypeInv, TypeOK
<1>2. call[q].k \in Clusters /\ call[q].n \in Nodes /\ call[q].role \in Roles
  BY <1>1 DEF Fits, Installs
<1>3. /\ taskVars' = taskVars /\ restarts' = restarts
      /\ \A p \in Callers : p # q => call'[p] = call[p]
  BY <1>1 DEF JoinTable, Answers, Goes
<1>4. CASE UpsertMember(call[q].k, call[q].n, call[q].role) /\ Goes(q, "start")
  <2>1. /\ call'[q].at = "start" /\ call'[q].k = call[q].k /\ call'[q].n = call[q].n
        /\ \A o \in Clusters, m \in Nodes : o # call[q].k \/ m # call[q].n => member'[o][m] = member[o][m]
    BY <1>1, <1>2, <1>4, MovedCall, MemberUpserted DEF Places
  <2>2. QED
    BY <1>1, <1>3, <2>1, MarkedStuck DEF At
<1>5. CASE member' = member
  BY <1>1, <1>3, <1>5, TasksQuiet, CallQuiet DEF Busy
<1>6. QED
  BY <1>4, <1>5 DEF JoinTable

LEMMA MarkRemovingStuck == ASSUME TypeInv, StuckInv, NEW q \in Callers, MarkRemoving(q) PROVE StuckInv'
<1>1. call[q].at = "removing" /\ Fits(call[q]) /\ TablesOK
  BY TypedTables DEF MarkRemoving, At, TypeInv
<1>2. call[q].k \in Clusters /\ call[q].n \in Nodes
  BY <1>1 DEF Fits
<1>3. /\ taskVars' = taskVars /\ restarts' = restarts
      /\ call'[q].at = "start" /\ call'[q].k = call[q].k /\ call'[q].n = call[q].n
      /\ \A o \in Clusters, m \in Nodes : o # call[q].k \/ m # call[q].n => member'[o][m] = member[o][m]
      /\ \A p \in Callers : p # q => call'[p] = call[p]
  BY <1>1, <1>2, MovedCall, MemberStatusSet DEF MarkRemoving, Places
<1>4. QED
  BY <1>1, <1>3, MarkedStuck DEF At

\* The new task takes over what the call stood behind.
LEMMA StartTaskStuck == ASSUME TypeInv, StuckInv, NEW q \in Callers, StartTask(q) PROVE StuckInv'
<1> DEFINE r == [kind |-> call[q].does, k |-> call[q].k, n |-> call[q].n, role |-> call[q].role,
                 ep |-> call[q].ep, plan |-> Plan(call[q])]
<1>1. call[q].at = "start" /\ Fits(call[q]) /\ call \in [Callers -> CallRec]
  BY DEF StartTask, At, TypeInv, TypeOK
<1>2. call[q].does \in {"install", "remove"}
  BY <1>1 DEF Fits
<1>3. /\ Start(r) /\ member' = member /\ restarts' = restarts
      /\ \A p \in Callers : p # q => call'[p] = call[p]
  BY <1>1 DEF StartTask, Answers
<1>4. r.kind = call[q].does /\ r.k = call[q].k /\ r.n = call[q].n
  OBVIOUS
<1> HIDE DEF r
<1>5. PICK u \in TaskIds : u = made'
  BY <1>3, StartFresh
<1>6. task'[u] = r /\ tpc'[u] = (IF r.plan = <<>> THEN "finish" ELSE "send")
  BY <1>3, <1>5, StartFresh
<1>7. ASSUME NEW k, NEW n, k = call[q].k, n = call[q].n PROVE Pending(u)' /\ For(u, k, n)'
  BY <1>2, <1>4, <1>6, <1>7 DEF Pending, Live, For
<1>8. \A t \in TaskIds : Pending(t) => Pending(t)' /\ task'[t] = task[t]
  BY <1>3, TasksStarted
<1>9. ASSUME NEW k \in Clusters, NEW n \in Nodes PROVE BusyInv(k, n)'
  <2> SUFFICES ASSUME BehindMember(k, n) PROVE BehindMember(k, n)'
    BY <1>3 DEF StuckInv, BusyInv, Busy
  <2>1. CASE \E t \in TaskIds : Pending(t) /\ For(t, k, n)
    BY <1>8, <2>1 DEF BehindMember, For
  <2>2. ASSUME NEW p \in Callers, At(p, "start"), call[p].k = k, call[p].n = n PROVE BehindMember(k, n)'
    <3>1. CASE p = q
      BY <1>7, <2>2, <3>1 DEF BehindMember
    <3>2. CASE p # q
      BY <1>3, <2>2, <3>2 DEF BehindMember, At
    <3>3. QED
      BY <3>1, <3>2
  <2>3. QED
    BY <2>1, <2>2 DEF BehindMember
<1>10. QED
  BY <1>9 DEF StuckInv

LEMMA DestroyOneStuck == ASSUME TypeInv, StuckInv, NEW q \in Callers, NEW n \in Nodes, DestroyOne(q, n) PROVE StuckInv'
<1>1. call[q].at # "start" /\ call \in [Callers -> CallRec]
  BY DEF DestroyOne, At, TypeInv, TypeOK
<1>2. /\ member' = member /\ restarts' = restarts
      /\ \A p \in Callers : p # q => call'[p] = call[p]
  BY <1>1 DEF DestroyOne, Answers
<1>3. \A k \in Clusters, m \in Nodes : Busy(k, m)' => Busy(k, m)
  BY <1>2 DEF Busy
<1>4. CASE taskVars' = taskVars
  BY <1>1, <1>2, <1>3, <1>4, TasksQuiet, CallQuiet
<1>5. CASE \E r : Start(r)
  BY <1>1, <1>2, <1>3, <1>5, TasksStarted, CallQuiet
<1>6. QED
  BY <1>4, <1>5 DEF DestroyOne

LEMMA DropClusterStuck == ASSUME TypeInv, StuckInv, NEW q \in Callers, DropCluster(q) PROVE StuckInv'
<1>1. call[q].at = "destroy" /\ Fits(call[q]) /\ call \in [Callers -> CallRec] /\ TablesOK
  BY TypedTables DEF DropCluster, At, TypeInv, TypeOK
<1>2. PICK g \in Clusters : g = call[q].k
  BY <1>1 DEF Fits
<1>3. /\ taskVars' = taskVars /\ restarts' = restarts
      /\ \A p \in Callers : p # q => call'[p] = call[p]
  BY <1>1 DEF DropCluster, Answers
<1>4. /\ \A o \in Clusters : o # g => member'[o] = member[o]
      /\ \A n \in Nodes : ~Has(g, n)'
  BY <1>1, <1>2, ClusterDeleted DEF DropCluster
<1>5. \A k \in Clusters, n \in Nodes : Busy(k, n)' => Busy(k, n)
  <2> SUFFICES ASSUME NEW k \in Clusters, NEW n \in Nodes, Busy(k, n)' PROVE Busy(k, n)
    OBVIOUS
  <2>1. k # g
    BY <1>4 DEF Has, Busy, NoRow
  <2>2. QED
    BY <1>4, <2>1 DEF Busy
<1>6. QED
  BY <1>1, <1>3, <1>5, TasksQuiet, CallQuiet

\* Calls, tasks and rows stay; only machines come and go, or clusters appear.
LEMMA ElsewhereStuck ==
  ASSUME TypeInv, StuckInv, UNCHANGED <<taskVars, call, restarts, member>>
  PROVE  StuckInv'
BY TasksQuiet DEF StuckInv, BusyInv, Busy, BehindMember, For, At

\* A step of tasks: whoever stands behind something still does, or has settled it.
LEMMA TasksStuck ==
  ASSUME TypeInv, StuckInv, call' = call, task' = task, restarts' = restarts,
         \A t \in TaskIds, k \in Clusters, n \in Nodes :
           Pending(t) /\ For(t, k, n) /\ Busy(k, n)' => Pending(t)',
         \A k \in Clusters, n \in Nodes : Busy(k, n)' => Busy(k, n)
  PROVE  StuckInv'
BY DEF StuckInv, BusyInv, BehindMember, For, At

\* A task that is sent, waits or has just ended goes on to its callback.
LEMMA RunningStuck ==
  ASSUME TypeInv, StuckInv, UNCHANGED <<member, task, call, restarts>>,
         \A t \in TaskIds :
           \/ tpc'[t] = tpc[t] /\ res'[t] = res[t]
           \/ tpc[t] \in {"send", "wait"} /\ tpc'[t] \in {"send", "wait", "finish"}
           \/ tpc[t] = "finish" /\ tpc'[t] = (IF task[t].kind = "destroy" THEN "over" ELSE "after")
  PROVE  StuckInv'
<1>1. \A k \in Clusters, n \in Nodes : Busy(k, n)' => Busy(k, n)
  BY DEF Busy
<1>2. ASSUME NEW t \in TaskIds PROVE Pending(t) => Pending(t)'
  <2>1. CASE tpc'[t] = tpc[t] /\ res'[t] = res[t]
    BY <2>1 DEF Pending, Live
  <2>2. CASE tpc[t] \in {"send", "wait"} /\ tpc'[t] \in {"send", "wait", "finish"}
    BY <2>2 DEF Pending, Live
  <2>3. CASE tpc[t] = "finish" /\ tpc'[t] = (IF task[t].kind = "destroy" THEN "over" ELSE "after")
    BY <2>3 DEF Pending, Live
  <2>4. QED
    BY <2>1, <2>2, <2>3
<1>3. QED
  BY <1>1, <1>2, TasksStuck

LEMMA BeforeCallbackStuck ==
  ASSUME TypeInv, StuckInv,
         \/ \E t \in TaskIds : Submit(t) \/ CtxDone(t) \/ Finish(t) \/ Cancel(t)
         \/ \E n \in Nodes : Disconnect(n) \/ \E ok \in BOOLEAN : Work(n, ok)
  PROVE  StuckInv'
<1>1. TaskVarsOK
  BY TypedTasks
<1>2. ASSUME NEW t \in TaskIds, Submit(t) \/ CtxDone(t) \/ Finish(t) \/ Cancel(t) PROVE StuckInv'
  BY <1>1, <1>2, RunningStuck DEF Submit, CtxDone, Finish, Cancel, Ends, tables, TaskVarsOK
<1>3. ASSUME NEW n \in Nodes, Disconnect(n) PROVE StuckInv'
  BY <1>1, <1>3, RunningStuck DEF Disconnect, WaitsOn, tables, TaskVarsOK
<1>4. ASSUME NEW n \in Nodes, NEW ok \in BOOLEAN, Work(n, ok) PROVE StuckInv'
  <2>1. UNCHANGED <<member, task, call, restarts>>
    BY <1>4 DEF Work, tables
  <2>2. PICK t \in TaskIds :
          \/ UNCHANGED <<tpc, res>>
          \/ tpc[t] = "wait" /\ tpc' = [tpc EXCEPT ![t] = "send"] /\ res' = res
          \/ /\ tpc[t] = "wait" /\ tpc' = [tpc EXCEPT ![t] = "finish"]
             /\ res' = [res EXCEPT ![t] = IF ok THEN "ok" ELSE "fail"]
    BY <1>4, WorkDoes DEF WaitsOn
  <2>3. QED
    BY <1>1, <2>1, <2>2, RunningStuck DEF TaskVarsOK
<1>5. QED
  BY <1>2, <1>3, <1>4

\* A member that is set ready or failed, or deleted, is busy no more; nor is any other newly.
LEMMA SettledNotBusy ==
  ASSUME TablesOK, NEW k \in Clusters, NEW n \in Nodes,
         \/ \E s \in {"ready", "failed"} : SetMemberStatus(k, n, s)
         \/ DeleteMember(k, n)
  PROVE  ~Busy(k, n)' /\ \A o \in Clusters, m \in Nodes : Busy(o, m)' => Busy(o, m)
<1>1. ASSUME NEW s \in {"ready", "failed"}, SetMemberStatus(k, n, s) PROVE ~Busy(k, n)'
  <2>1. (Has(k, n)' => member'[k][n].status = s)
    BY <1>1, MemberStatusSet
  <2>2. QED
    BY <2>1 DEF Has, Busy, NoRow
<1>2. CASE DeleteMember(k, n)
  <2>1. ~Has(k, n)'
    BY <1>2, MemberDeleted
  <2>2. ~Busy(k, n)'
    BY <2>1 DEF Has, Busy, NoRow
  <2>3. QED
    BY <1>2, <2>2, MemberDeleted DEF Busy
<1>3. ASSUME NEW s \in {"ready", "failed"}, SetMemberStatus(k, n, s), NEW o \in Clusters, NEW m \in Nodes, Busy(o, m)'
      PROVE  Busy(o, m)
  <2>1. o # k \/ m # n
    BY <1>1, <1>3
  <2>2. QED
    BY <1>3, <2>1, MemberStatusSet DEF Busy
<1>4. QED
  BY <1>1, <1>2, <1>3

\* A callback's step on the row of task t, seen from everyone else.
LEMMA CallbackStuck ==
  ASSUME TypeInv, StuckInv, NEW t \in TaskIds,
         UNCHANGED <<call, task, restarts>>,
         \A u \in TaskIds : u # t => tpc'[u] = tpc[u] /\ res'[u] = res[u],
         Pending(t) /\ Busy(task[t].k, task[t].n)' => Pending(t)',
         \A k \in Clusters, n \in Nodes : Busy(k, n)' => Busy(k, n)
  PROVE  StuckInv'
<1>1. ASSUME NEW u \in TaskIds, NEW k \in Clusters, NEW n \in Nodes, Pending(u), For(u, k, n), Busy(k, n)'
      PROVE  Pending(u)'
  <2>1. CASE u = t
    BY <1>1, <2>1 DEF For, Busy
  <2>2. CASE u # t
    BY <1>1, <2>2 DEF Pending, Live
  <2>3. QED
    BY <2>1, <2>2
<1>2. QED
  BY <1>1, TasksStuck

\* tasks.Start fails: with the undo written, nothing is left behind.
LEMMA StartFailsStuck ==
  ASSUME TypeInv, StuckInv, UndoIsWritten, NEW q \in Callers, StartFails(q)
  PROVE  StuckInv'
<1>1. Fits(call[q]) /\ call[q].at = "start" /\ call \in [Callers -> CallRec] /\ TablesOK
  BY TypedTables DEF StartFails, At, TypeInv, TypeOK
<1> DEFINE s == IF call[q].does = "install" THEN "failed" ELSE call[q].was
<1>2. call[q].k \in Clusters /\ call[q].n \in Nodes /\ s \in {"ready", "failed"}
  BY <1>1 DEF Fits
<1>3. PICK g \in Clusters, m \in Nodes : g = call[q].k /\ m = call[q].n
  BY <1>2
<1>4. SetMemberStatus(g, m, s)
  BY <1>3 DEF StartFails, UndoIsWritten
<1>5. taskVars' = taskVars /\ restarts' = restarts /\ \A p \in Callers : p # q => call'[p] = call[p]
  BY <1>1 DEF StartFails, Answers
<1> HIDE DEF s
<1>6. ~Busy(g, m)' /\ \A o \in Clusters, x \in Nodes : Busy(o, x)' => Busy(o, x)
  BY <1>1, <1>2, <1>4, SettledNotBusy
<1>7. ASSUME NEW k \in Clusters, NEW n \in Nodes, restarts' = 0, Busy(k, n)' PROVE BehindMember(k, n)'
  <2>1. ~(k = call[q].k /\ n = call[q].n) /\ BehindMember(k, n)
    BY <1>3, <1>5, <1>6, <1>7 DEF StuckInv, BusyInv
  <2>2. CASE \E t \in TaskIds : Pending(t) /\ For(t, k, n)
    BY <1>5, <2>2, TasksQuiet DEF BehindMember, For
  <2>3. ASSUME NEW p \in Callers, At(p, "start"), call[p].k = k, call[p].n = n PROVE BehindMember(k, n)'
    BY <1>5, <2>1, <2>3 DEF BehindMember, At
  <2>4. QED
    BY <2>1, <2>2, <2>3 DEF BehindMember
<1>8. QED
  BY <1>7 DEF StuckInv, BusyInv

LEMMA TakeOverStuck == ASSUME TypeInv, StuckInv, NEW t \in TaskIds, TakeOver(t) PROVE StuckInv'
<1>1. TablesOK /\ TaskVarsOK /\ task[t].k \in Clusters /\ task[t].n \in Nodes /\ tpc[t] = "after"
  BY TypedTables, TypedTasks, Captured DEF TakeOver
<1>2. UNCHANGED <<call, task, restarts>>
  BY DEF TakeOver
<1>3. CASE tpc' = [tpc EXCEPT ![t] = "store"] /\ UNCHANGED <<member, res>>
  <2>1. \A u \in TaskIds : u # t => tpc'[u] = tpc[u] /\ res'[u] = res[u]
    BY <1>3
  <2>2. \A k \in Clusters, n \in Nodes : Busy(k, n)' => Busy(k, n)
    BY <1>3 DEF Busy
  <2>3. Pending(t)'
    BY <1>1, <1>2, <1>3 DEF Pending, Live, TakeOver, TaskVarsOK
  <2>4. QED
    BY <1>2, <2>1, <2>2, <2>3, CallbackStuck
<1>4. CASE /\ SetMemberStatus(task[t].k, task[t].n, "failed")
           /\ res' = [res EXCEPT ![t] = "fail"] /\ tpc' = [tpc EXCEPT ![t] = "settle"]
  <2>1. ~Busy(task[t].k, task[t].n)'
    BY <1>1, <1>2, <1>4, SettledNotBusy DEF Busy
  <2>2. \A k \in Clusters, n \in Nodes : Busy(k, n)' => Busy(k, n)
    BY <1>1, <1>4, SettledNotBusy
  <2>3. \A u \in TaskIds : u # t => tpc'[u] = tpc[u] /\ res'[u] = res[u]
    BY <1>1, <1>4 DEF TaskVarsOK
  <2>4. QED
    BY <1>2, <2>1, <2>2, <2>3, CallbackStuck
<1>5. QED
  BY <1>3, <1>4 DEF TakeOver

LEMMA StoreCredentialsStuck == ASSUME TypeInv, StuckInv, NEW t \in TaskIds, StoreCredentials(t) PROVE StuckInv'
<1>1. UNCHANGED <<call, task, restarts, member, res>> /\ tpc[t] = "store" /\ tpc' = [tpc EXCEPT ![t] = "settle"]
  BY DEF StoreCredentials
<1>2. TaskInv(t) /\ TaskVarsOK
  BY TypedTasks DEF TypeInv
<1>3. \A k \in Clusters, n \in Nodes : Busy(k, n)' => Busy(k, n)
  BY <1>1 DEF Busy
<1>4. \A u \in TaskIds : u # t => tpc'[u] = tpc[u] /\ res'[u] = res[u]
  BY <1>1
<1>5. Pending(t) => Pending(t)'
  BY <1>1, <1>2 DEF Pending, Live, TaskInv, TaskVarsOK
<1>6. QED
  BY <1>1, <1>3, <1>4, <1>5, CallbackStuck

LEMMA InstallDoneStuck == ASSUME TypeInv, StuckInv, NEW t \in TaskIds, InstallDone(t) PROVE StuckInv'
<1>1. TablesOK /\ TaskVarsOK /\ task[t].k \in Clusters /\ task[t].n \in Nodes
  BY TypedTables, TypedTasks, Captured DEF InstallDone
<1>2. UNCHANGED <<call, task, restarts, res>> /\ \A u \in TaskIds : u # t => tpc'[u] = tpc[u]
  BY <1>1 DEF InstallDone, TaskVarsOK
<1>3. \E s \in {"ready", "failed"} : SetMemberStatus(task[t].k, task[t].n, s)
  BY DEF InstallDone
<1>4. ~Busy(task[t].k, task[t].n)'
  BY <1>1, <1>2, <1>3, SettledNotBusy DEF Busy
<1>5. \A k \in Clusters, n \in Nodes : Busy(k, n)' => Busy(k, n)
  BY <1>1, <1>3, SettledNotBusy
<1>6. QED
  BY <1>2, <1>4, <1>5, CallbackStuck

LEMMA SettleStuck == ASSUME TypeInv, StuckInv, NEW t \in TaskIds, Settle(t) PROVE StuckInv'
<1>1. TablesOK /\ TaskVarsOK /\ task[t].k \in Clusters /\ task[t].n \in Nodes /\ tpc[t] = "settle"
  BY TypedTables, TypedTasks, Captured DEF Settle
<1>2. UNCHANGED <<call, task, restarts, res>> /\ \A u \in TaskIds : u # t => tpc'[u] = tpc[u]
  BY <1>1 DEF Settle, TaskVarsOK
<1>3. CASE res[t] = "ok"
  <2>1. SetMemberStatus(task[t].k, task[t].n, "ready")
    BY <1>3 DEF Settle
  <2>2. ~Busy(task[t].k, task[t].n)'
    BY <1>1, <1>2, <2>1, SettledNotBusy DEF Busy
  <2>3. \A k \in Clusters, n \in Nodes : Busy(k, n)' => Busy(k, n)
    BY <1>1, <2>1, SettledNotBusy
  <2>4. QED
    BY <1>2, <2>2, <2>3, CallbackStuck
<1>4. CASE res[t] # "ok"
  <2>1. member' = member
    BY <1>4 DEF Settle
  <2>2. \A k \in Clusters, n \in Nodes : Busy(k, n)' => Busy(k, n)
    BY <2>1 DEF Busy
  <2>3. ~Pending(t)
    BY <1>1, <1>4 DEF Pending
  <2>4. QED
    BY <1>2, <2>2, <2>3, CallbackStuck
<1>5. QED
  BY <1>3, <1>4

LEMMA RemoveDoneStuck == ASSUME TypeInv, StuckInv, NEW t \in TaskIds, RemoveDone(t) PROVE StuckInv'
<1>1. TablesOK /\ TaskVarsOK /\ task[t].k \in Clusters /\ task[t].n \in Nodes
  BY TypedTables, TypedTasks, Captured DEF RemoveDone
<1>2. UNCHANGED <<call, task, restarts, res>> /\ \A u \in TaskIds : u # t => tpc'[u] = tpc[u]
  BY <1>1 DEF RemoveDone, TaskVarsOK
<1>3. DeleteMember(task[t].k, task[t].n) \/ \E s \in {"ready", "failed"} : SetMemberStatus(task[t].k, task[t].n, s)
  BY DEF RemoveDone
<1>4. ~Busy(task[t].k, task[t].n)'
  BY <1>1, <1>2, <1>3, SettledNotBusy DEF Busy
<1>5. \A k \in Clusters, n \in Nodes : Busy(k, n)' => Busy(k, n)
  BY <1>1, <1>3, SettledNotBusy
<1>6. QED
  BY <1>2, <1>4, <1>5, CallbackStuck

\* A restart is where the promise ends (ClusterRestart.cfg shows it).
LEMMA RestartStuck == ASSUME TypeInv, StuckInv, Restart PROVE StuckInv'
<1>1. restarts' # 0
  BY DEF Restart, TypeInv, TypeOK
<1>2. QED
  BY <1>1 DEF StuckInv, BusyInv

LEMMA InitStuck == Init => StuckInv
BY DEF Init, StuckInv, BusyInv, Busy, NoRow

LEMMA StepStuck == UndoIsWritten /\ TypeInv /\ StuckInv /\ [Next]_vars => StuckInv'
<1> SUFFICES ASSUME UndoIsWritten, TypeInv, StuckInv, [Next]_vars PROVE StuckInv'
  OBVIOUS
<1>1. ASSUME NEW q \in Callers, CallStep(q) PROVE StuckInv'
  BY <1>1, ReadersStuck, JoinTableStuck, MarkRemovingStuck, StartTaskStuck, StartFailsStuck, DropClusterStuck,
     DestroyOneStuck DEF CallStep
<1>2. ASSUME NEW q \in Callers, User(q) PROVE StuckInv'
  BY <1>2, ReadersStuck DEF User
<1>3. ASSUME NEW t \in TaskIds, TaskStep(t) PROVE StuckInv'
  BY <1>3, BeforeCallbackStuck, TakeOverStuck, StoreCredentialsStuck, InstallDoneStuck, SettleStuck, RemoveDoneStuck
     DEF TaskStep
<1>4. ASSUME \/ \E k \in Clusters : Create(k)
             \/ \E n \in Nodes : DeleteNode(n) \/ Connect(n)
             \/ UNCHANGED vars
      PROVE  StuckInv'
  BY <1>4, ElsewhereStuck DEF Create, DeleteNode, Connect, vars, tables
<1>5. QED
  BY <1>1, <1>2, <1>3, <1>4, BeforeCallbackStuck, RestartStuck DEF Next

\* Who marks a member busy, or the task it started, settles it again.
THEOREM StuckInvariant == UndoIsWritten => (Spec => []StuckInv)
<1> SUFFICES ASSUME UndoIsWritten PROVE Spec => []StuckInv
  OBVIOUS
<1>1. TypeInv /\ StuckInv /\ [Next]_vars => StuckInv'
  BY StepStuck
<1>2. QED
  BY <1>1, InitStuck, TypeInvariant, PTL DEF Spec

\* Until the panel is restarted, and whatever calls overlap, a member that is installing or being
\* removed has a task that will settle it, or a call about to start one.  Clients may hang up, or
\* the task's row may be refused, but not both: then the undo of a refused start may be lost.
THEOREM MembersAreSettled == UndoIsWritten => (Spec => []BusyUntilRestart)
<1> SUFFICES ASSUME UndoIsWritten PROVE Spec => []BusyUntilRestart
  OBVIOUS
<1>1. StuckInv => BusyUntilRestart
  BY DEF StuckInv, BusyInv, BehindMember, BusyHasTask, BusyUntilRestart, Pending
<1>2. QED
  BY <1>1, StuckInvariant, PTL

=============================================================================

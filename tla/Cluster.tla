------------------------------ MODULE Cluster ------------------------------
(***************************************************************************)
(* Cluster lifecycle: the service that installs nodes into clusters and    *)
(* removes them (internal/panel/cluster), the runner of its background     *)
(* tasks (internal/panel/task) and the three tables both of them write     *)
(* (internal/panel/store: clusters, cluster_nodes, tasks), with deleteNode *)
(* (api_nodes.go), which takes away the row a member refers to.            *)
(*                                                                         *)
(* The store is one SQLite connection, so a statement is atomic and a      *)
(* sequence of statements is not: every HTTP call and every task goroutine *)
(* is a little process whose steps are its statements, its looks at the    *)
(* hub, and its sends.  The node's agent is the queue of scripts it works  *)
(* off one at a time (agent/conn.go execLoop), also after its stream broke.*)
(***************************************************************************)
EXTENDS Naturals, Sequences, FiniteSets

CONSTANTS
  Clusters,
  Nodes,
  Callers,      \* HTTP calls that may be in flight at the same time
  Addressed,    \* clusters created with a controlPlaneEndpoint or a VIP
  MaxTasks,     \* bound: tasks started in a behaviour
  MaxRestarts,  \* bound: restarts of the panel
  Events,       \* what besides plain use happens: see Event
  NoCluster, NoNode,
  Unset, Own    \* endpoints that are no node's: empty, and the user's

\* force: DELETE ?force=true;  hangup: an HTTP client leaves before its answer;
\* offline: an agent's stream breaks;  cancel: POST /tasks/{id}/cancel;
\* retire: DELETE /nodes/{id};  refuse: the row of a new task cannot be written
Event == {"force", "hangup", "offline", "cancel", "retire", "refuse"}

ASSUME ClusterAssumption ==
  /\ Addressed \subseteq Clusters
  /\ MaxTasks \in Nat
  /\ MaxRestarts \in Nat
  /\ Events \subseteq Event
  /\ NoCluster \notin Clusters
  /\ NoNode \notin Nodes
  /\ Unset # Own
  /\ {Unset, Own} \cap Nodes = {}

VARIABLES
  \* tables
  cstat,      \* clusters.status; "new" before the row, "gone" after it
  endpoint,   \* clusters.control_plane_endpoint: user's, a node's address, or empty
  member,     \* cluster_nodes: role and status, "absent" when there is no row
  tstat,      \* tasks.status
  \* the tasks' goroutines
  task,       \* what the closure of a task captured
  tpc, pos,   \* where the goroutine is, and in which script of its plan
  res,        \* the Result its Fn returned
  cancelled,  \* tasks whose context is cancelled
  made,       \* tasks made so far
  \* nodes
  enrolled,   \* ids with a row in nodes; one that is deleted never comes back
  inbox,      \* scripts an agent was given and has not finished
  online,     \* hub.Online
  \* HTTP calls
  call,       \* locals of each call
  restarts

tables == <<cstat, endpoint, member, tstat>>
taskVars == <<task, tpc, pos, res, cancelled, made>>
nodeVars == <<enrolled, inbox, online>>
vars == <<tables, taskVars, nodeVars, call, restarts>>

TaskIds == 1..MaxTasks
Masters == {"first-master", "join-master"}
Roles == Masters \cup {"worker"}

Job == [at : Nodes, script : {"install", "drain", "reset"}]
NoTask == [kind |-> "none", k |-> NoCluster, n |-> NoNode, role |-> "none",
           ep |-> Unset, plan |-> <<>>]
TaskRec == [kind : {"install", "remove", "destroy"}, k : Clusters, n : Nodes,
            role : Roles \cup {"none"}, ep : Nodes \cup {Unset, Own}, plan : Seq(Job)]

NoRow == [role |-> "none", status |-> "absent"]
Row == [role : Roles, status : {"installing", "ready", "failed", "removing"}]

Idle == [at |-> "idle", does |-> "none", k |-> NoCluster, n |-> NoNode, role |-> "none",
         seen |-> "new", was |-> "absent", ep |-> Unset, drainer |-> NoNode, todo |-> {}, busy |-> {}]
CallRec == [at : {"idle", "membership", "endpoint", "status", "creds", "issue", "upsert",
                  "member", "drainer", "removing", "start", "list", "destroy"},
            does : {"none", "install", "remove", "delete", "force"},
            k : Clusters \cup {NoCluster}, n : Nodes \cup {NoNode},
            role : Roles \cup {"none"},
            seen : {"new", "created", "installing", "ready", "failed"},
            was : {"absent", "ready", "failed"},
            ep : Nodes \cup {Unset, Own}, drainer : Nodes \cup {NoNode},
            todo : SUBSET Nodes, busy : SUBSET Nodes]

TypeOK ==
  /\ cstat \in [Clusters -> {"new", "created", "installing", "ready", "failed", "gone"}]
  /\ endpoint \in [Clusters -> Nodes \cup {Unset, Own}]
  /\ member \in [Clusters -> [Nodes -> Row \cup {NoRow}]]
  /\ tstat \in [TaskIds -> {"none", "running", "succeeded", "failed", "cancelled"}]
  /\ task \in [TaskIds -> TaskRec \cup {NoTask}]
  /\ tpc \in [TaskIds -> {"none", "send", "wait", "finish", "after", "store", "settle", "over"}]
  /\ pos \in [TaskIds -> 1..2]
  /\ res \in [TaskIds -> {"none", "ok", "fail", "cancelled"}]
  /\ cancelled \in SUBSET TaskIds
  /\ made \in 0..MaxTasks
  /\ enrolled \subseteq Nodes
  /\ inbox \in [Nodes -> Seq([t : TaskIds, script : {"install", "drain", "reset"}])]
  /\ online \in [Nodes -> BOOLEAN]
  /\ call \in [Callers -> CallRec]
  /\ restarts \in 0..MaxRestarts

Init ==
  /\ cstat = [k \in Clusters |-> "new"]
  /\ endpoint = [k \in Clusters |-> Unset]
  /\ member = [k \in Clusters |-> [n \in Nodes |-> NoRow]]
  /\ tstat = [t \in TaskIds |-> "none"]
  /\ task = [t \in TaskIds |-> NoTask]
  /\ tpc = [t \in TaskIds |-> "none"]
  /\ pos = [t \in TaskIds |-> 1]
  /\ res = [t \in TaskIds |-> "none"]
  /\ cancelled = {}
  /\ made = 0
  /\ enrolled = Nodes
  /\ inbox = [n \in Nodes |-> <<>>]
  /\ online = [n \in Nodes |-> TRUE]
  /\ call = [q \in Callers |-> Idle]
  /\ restarts = 0

-----------------------------------------------------------------------------
(***************************************************************************)
(* Statements of the store.  An UPDATE of a row that is gone does nothing. *)
(***************************************************************************)
Exists(k) == cstat[k] \notin {"new", "gone"}

SetClusterStatus(k, s) == cstat' = [cstat EXCEPT ![k] = IF Exists(k) THEN s ELSE @]

SetClusterEndpoint(k, ep) == endpoint' = [endpoint EXCEPT ![k] = IF Exists(k) THEN ep ELSE @]

SetMemberStatusAnyway(k, n, s) ==  \* a slip: an upsert where the code updates
  member' = [member EXCEPT ![k][n].status = s]

SetMemberStatus(k, n, s) ==
  member' = [member EXCEPT ![k][n] = IF @ = NoRow THEN NoRow ELSE [@ EXCEPT !.status = s]]

UpsertMember(k, n, r) ==
  member' = [member EXCEPT ![k][n] = [role |-> r, status |-> "installing"]]

DeleteMember(k, n) == member' = [member EXCEPT ![k][n] = NoRow]

\* DELETE FROM clusters, which cascades to cluster_nodes.
DeleteCluster(k) ==
  /\ cstat' = [cstat EXCEPT ![k] = "gone"]
  /\ member' = [member EXCEPT ![k] = [n \in Nodes |-> NoRow]]

Has(k, n) == member[k][n] # NoRow
Busy(k, n) == member[k][n].status \in {"installing", "removing"}

\* Runner.Start: the row, the entry in running, and go run(...).
Start(t) ==
  /\ made < MaxTasks
  /\ made' = made + 1
  /\ task' = [task EXCEPT ![made'] = t]
  /\ tstat' = [tstat EXCEPT ![made'] = "running"]
  /\ tpc' = [tpc EXCEPT ![made'] = IF t.plan = <<>> THEN "finish" ELSE "send"]
  /\ res' = [res EXCEPT ![made'] = IF t.plan = <<>> THEN "ok" ELSE "none"]
  /\ UNCHANGED <<pos, cancelled>>

-----------------------------------------------------------------------------
(***************************************************************************)
(* HTTP calls.  Goes keeps a call's locals and moves it on; Answers ends   *)
(* it, whether with a result or with an error.                             *)
(***************************************************************************)
At(q, where) == call[q].at = where
Goes(q, where) == call' = [call EXCEPT ![q].at = where]
Answers(q) == call' = [call EXCEPT ![q] = Idle]

\* Every call in flight can still make its task: keeps the bound on tasks out of the way.
MayBegin(q) == At(q, "idle") /\ made + Cardinality({p \in Callers : ~At(p, "idle")}) < MaxTasks

Create(k) ==
  /\ cstat[k] = "new"
  /\ cstat' = [cstat EXCEPT ![k] = "created"]
  /\ endpoint' = [endpoint EXCEPT ![k] = IF k \in Addressed THEN Own ELSE Unset]
  /\ UNCHANGED <<member, tstat, taskVars, nodeVars, call, restarts>>

\* AddNode: GetCluster.  What it read is used to the end of the call.
AddNode(q, k, n, r) ==
  /\ MayBegin(q)
  /\ Exists(k)
  /\ call' = [call EXCEPT ![q] = [Idle EXCEPT !.at = "membership", !.does = "install",
                !.k = k, !.n = n, !.role = r, !.seen = cstat[k], !.ep = endpoint[k]]]
  /\ UNCHANGED <<tables, taskVars, nodeVars, restarts>>

\* A slip: a member being removed may be added again.
FreeForUnlessInstalling(k, n) ==
  \A o \in Clusters : Has(o, n) => o = k /\ member[o][n].status \in {"failed", "removing"}

\* checkMembership: no row, or a failed one in this very cluster.
FreeFor(k, n) ==
  \A o \in Clusters : Has(o, n) => o = k /\ member[o][n].status = "failed"

NeedsFirstMaster(s) == s \in {"created", "failed"}

CheckMembership(q) ==
  /\ At(q, "membership")
  /\ LET c == call[q] IN
     IF ~(c.n \in enrolled /\ online[c.n] /\ FreeFor(c.k, c.n)) THEN Answers(q)
     ELSE IF c.role = "first-master" THEN
            IF NeedsFirstMaster(c.seen)
              THEN Goes(q, IF c.ep = Unset THEN "endpoint" ELSE "status")
              ELSE Answers(q)
     ELSE IF c.seen = "ready" THEN Goes(q, "creds") ELSE Answers(q)
  /\ UNCHANGED <<tables, taskVars, nodeVars, restarts>>

DeriveEndpoint(q) ==
  /\ At(q, "endpoint")
  /\ SetClusterEndpoint(call[q].k, call[q].n)
  /\ call' = [call EXCEPT ![q].at = "status", ![q].ep = call[q].n]
  /\ UNCHANGED <<cstat, member, tstat, taskVars, nodeVars, restarts>>

MarkInstalling(q) ==
  /\ At(q, "status")
  /\ SetClusterStatus(call[q].k, "installing")
  /\ Goes(q, "upsert")
  /\ UNCHANGED <<endpoint, member, tstat, taskVars, nodeVars, restarts>>

ReadyMasters(k) ==
  {m \in Nodes : member[k][m].status = "ready" /\ member[k][m].role \in Masters /\ online[m]}

\* ensureFreshJoin: the credentials read at the start are fresh, or an online master issues
\* new ones (issueJoin, up to two minutes), or there is none.
FreshJoin(q) ==
  /\ At(q, "creds")
  /\ \/ Goes(q, "upsert")
     \/ ReadyMasters(call[q].k) # {} /\ Goes(q, "issue")
     \/ ReadyMasters(call[q].k) = {} /\ Answers(q)
  /\ UNCHANGED <<tables, taskVars, nodeVars, restarts>>

IssueJoin(q) ==
  /\ At(q, "issue")
  /\ Goes(q, "upsert") \/ Answers(q)
  /\ UNCHANGED <<tables, taskVars, nodeVars, restarts>>

\* UpsertMember; its foreign keys refuse it when the cluster or the node is gone.
JoinTable(q) ==
  /\ At(q, "upsert")
  /\ IF Exists(call[q].k) /\ call[q].n \in enrolled
       THEN UpsertMember(call[q].k, call[q].n, call[q].role) /\ Goes(q, "start")
       ELSE Answers(q) /\ UNCHANGED member
  /\ UNCHANGED <<cstat, endpoint, tstat, taskVars, nodeVars, restarts>>

\* RemoveNode: GetCluster.
RemoveNode(q, k, n) ==
  /\ MayBegin(q)
  /\ Exists(k)
  /\ call' = [call EXCEPT ![q] = [Idle EXCEPT !.at = "member", !.does = "remove",
                !.k = k, !.n = n, !.seen = cstat[k]]]
  /\ UNCHANGED <<tables, taskVars, nodeVars, restarts>>

\* GetMember, and MEMBER_BUSY.
CheckMember(q) ==
  /\ At(q, "member")
  /\ LET c == call[q] IN
     IF ~Has(c.k, c.n) \/ Busy(c.k, c.n) THEN Answers(q)
     ELSE IF ~(c.seen = "ready" \/ online[c.n]) THEN Answers(q)
     ELSE call' = [call EXCEPT ![q].at = IF c.seen = "ready" THEN "drainer" ELSE "removing",
                               ![q].was = member[c.k][c.n].status]
  /\ UNCHANGED <<tables, taskVars, nodeVars, restarts>>

OtherMasters(k, n) == ReadyMasters(k) \ {n}

\* readyMasterExcept: LAST_MASTER / NO_ONLINE_MASTER if there is none.
PickDrainer(q) ==
  /\ At(q, "drainer")
  /\ LET others == OtherMasters(call[q].k, call[q].n) IN
     \/ others = {} /\ Answers(q)
     \/ \E m \in others :
          call' = [call EXCEPT ![q].at = "removing", ![q].drainer = m]
  /\ UNCHANGED <<tables, taskVars, nodeVars, restarts>>

MarkRemoving(q) ==
  /\ At(q, "removing")
  /\ SetMemberStatus(call[q].k, call[q].n, "removing")
  /\ Goes(q, "start")
  /\ UNCHANGED <<cstat, endpoint, tstat, taskVars, nodeVars, restarts>>

\* The scripts a task will run, fixed when it is started: remove drains on the other
\* master if there is one, and resets the node only if it is online right now.
Plan(c) ==
  LET on(m, s) == <<[at |-> m, script |-> s]>> IN
  IF c.does = "install" THEN on(c.n, "install")
  ELSE (IF c.drainer = NoNode THEN <<>> ELSE on(c.drainer, "drain"))
       \o (IF online[c.n] THEN on(c.n, "reset") ELSE <<>>)

StartTask(q) ==
  /\ At(q, "start")
  /\ LET c == call[q] IN
     Start([kind |-> c.does, k |-> c.k, n |-> c.n, role |-> c.role, ep |-> c.ep,
            plan |-> Plan(c)])
  /\ Answers(q)
  /\ UNCHANGED <<cstat, endpoint, member, nodeVars, restarts>>

StartFailsSilently(q) ==  \* a slip: the member is left as it was marked
  /\ "refuse" \in Events
  /\ At(q, "start")
  /\ Answers(q)
  /\ UNCHANGED <<tables, taskVars, nodeVars, restarts>>

\* tasks.Start fails: the member is failed, or what RemoveNode read of it.  That statement takes
\* the request's context, and does nothing if the client has left.
StartFails(q) ==
  /\ "refuse" \in Events
  /\ At(q, "start")
  /\ LET c == call[q] IN
     \/ SetMemberStatus(c.k, c.n, IF c.does = "install" THEN "failed" ELSE c.was)
     \/ "hangup" \in Events /\ UNCHANGED member
  /\ Answers(q)
  /\ UNCHANGED <<cstat, endpoint, tstat, taskVars, nodeVars, restarts>>

\* Delete: GetCluster.
Delete(q, k, how) ==
  /\ MayBegin(q)
  /\ Exists(k)
  /\ how = "force" => "force" \in Events
  /\ call' = [call EXCEPT ![q] = [Idle EXCEPT !.at = "list", !.does = how, !.k = k]]
  /\ UNCHANGED <<tables, taskVars, nodeVars, restarts>>

\* ListMembers, and CLUSTER_HAS_MEMBERS.
ListMembers(q) ==
  /\ At(q, "list")
  /\ LET k == call[q].k
         rows == {n \in Nodes : Has(k, n)} IN
     IF rows # {} /\ call[q].does # "force" THEN Answers(q)
     ELSE call' = [call EXCEPT ![q].at = "destroy", ![q].todo = rows,
                                ![q].busy = {n \in rows : Busy(k, n)}]
  /\ UNCHANGED <<tables, taskVars, nodeVars, restarts>>

\* One round of Delete's loop, members in any order.  A member that was busy ends the call
\* where it is, one that is offline is passed over, any other gets a reset task.
DestroyOne(q, n) ==
  /\ At(q, "destroy")
  /\ n \in call[q].todo
  /\ IF n \in call[q].busy THEN Answers(q) /\ UNCHANGED <<tstat, taskVars>>
     ELSE \/ "refuse" \in Events /\ online[n] /\ Answers(q) /\ UNCHANGED <<tstat, taskVars>>
          \/ /\ call' = [call EXCEPT ![q].todo = @ \ {n}]
             /\ IF online[n]
                  THEN Start([NoTask EXCEPT !.kind = "destroy", !.k = call[q].k, !.n = n,
                                !.plan = <<[at |-> n, script |-> "reset"]>>])
                  ELSE UNCHANGED <<tstat, taskVars>>
  /\ UNCHANGED <<cstat, endpoint, member, nodeVars, restarts>>

DropCluster(q) ==
  /\ At(q, "destroy")
  /\ call[q].todo = {}
  /\ DeleteCluster(call[q].k)
  /\ Answers(q)
  /\ UNCHANGED <<endpoint, tstat, taskVars, nodeVars, restarts>>

\* The client is gone: the request's context is cancelled and the next statement that
\* takes it fails.  Start and the task itself run on a context of their own.
HangUp(q) ==
  /\ "hangup" \in Events
  /\ ~At(q, "idle") /\ ~At(q, "start")
  /\ At(q, "destroy") => call[q].todo = {}
  /\ Answers(q)
  /\ UNCHANGED <<tables, taskVars, nodeVars, restarts>>

-----------------------------------------------------------------------------
(***************************************************************************)
(* A task's goroutine (Runner.run).                                        *)
(***************************************************************************)
Ends(t, what) ==
  /\ tpc' = [tpc EXCEPT ![t] = "finish"]
  /\ res' = [res EXCEPT ![t] = what]

\* hub.Exec / hub.Install: offline at once, or the script is on its way.
Submit(t) ==
  /\ tpc[t] = "send"
  /\ LET j == task[t].plan[pos[t]] IN
     IF online[j.at]
       THEN /\ inbox' = [inbox EXCEPT ![j.at] = Append(@, [t |-> t, script |-> j.script])]
            /\ tpc' = [tpc EXCEPT ![t] = "wait"]
            /\ UNCHANGED res
       ELSE Ends(t, "fail") /\ UNCHANGED inbox
  /\ UNCHANGED <<tables, task, pos, cancelled, made, enrolled, online, call, restarts>>

CtxIgnored(t) ==  \* a slip: the task's script runs on a context of its own
  /\ tpc[t] = "wait"
  /\ t \in cancelled
  /\ UNCHANGED vars

\* The hub's request saw ctx.Done.  The agent may or may not stop the script.
CtxDone(t) ==
  /\ tpc[t] = "wait"
  /\ t \in cancelled
  /\ Ends(t, "cancelled")
  /\ UNCHANGED <<tables, task, pos, cancelled, made, nodeVars, call, restarts>>

\* FinishTask writes the final state.
Finish(t) ==
  /\ tpc[t] = "finish"
  /\ tstat' = [tstat EXCEPT ![t] = IF res[t] = "ok" THEN "succeeded"
                                   ELSE IF res[t] = "fail" THEN "failed" ELSE "cancelled"]
  /\ tpc' = [tpc EXCEPT ![t] = IF task[t].kind = "destroy" THEN "over" ELSE "after"]
  /\ UNCHANGED <<cstat, endpoint, member, task, pos, res, cancelled, made, nodeVars,
                 call, restarts>>

\* onInstallDone of a first master that came up: takeOver stores the endpoint the agent
\* returned, or finds the result incomplete.
TakeOver(t) ==
  /\ tpc[t] = "after" /\ task[t].kind = "install"
  /\ task[t].role = "first-master" /\ res[t] = "ok"
  /\ \/ /\ SetClusterEndpoint(task[t].k, task[t].ep)
        /\ tpc' = [tpc EXCEPT ![t] = "store"]
        /\ UNCHANGED <<member, res>>
     \/ /\ SetMemberStatus(task[t].k, task[t].n, "failed")
        /\ res' = [res EXCEPT ![t] = "fail"]
        /\ tpc' = [tpc EXCEPT ![t] = "settle"]
        /\ UNCHANGED endpoint
  /\ UNCHANGED <<cstat, tstat, task, pos, cancelled, made, nodeVars, call, restarts>>

\* Then SetClusterCredentials makes the cluster ready.
StoreCredentials(t) ==
  /\ tpc[t] = "store"
  /\ SetClusterStatus(task[t].k, "ready")
  /\ tpc' = [tpc EXCEPT ![t] = "settle"]
  /\ UNCHANGED <<endpoint, member, tstat, task, pos, res, cancelled, made, nodeVars, call, restarts>>

\* onInstallDone of any other outcome: the member first ...
InstallDone(t) ==
  /\ tpc[t] = "after" /\ task[t].kind = "install"
  /\ task[t].role # "first-master" \/ res[t] # "ok"
  /\ SetMemberStatus(task[t].k, task[t].n, IF res[t] = "ok" THEN "ready" ELSE "failed")
  /\ tpc' = [tpc EXCEPT ![t] = IF task[t].role = "first-master" THEN "settle" ELSE "over"]
  /\ UNCHANGED <<cstat, endpoint, tstat, task, pos, res, cancelled, made, nodeVars,
                 call, restarts>>

SettleMemberOnly(t) ==  \* a slip: the cluster's status is forgotten
  /\ tpc[t] = "settle"
  /\ IF res[t] = "ok"
       THEN SetMemberStatus(task[t].k, task[t].n, "ready")
       ELSE UNCHANGED member
  /\ tpc' = [tpc EXCEPT ![t] = "over"]
  /\ UNCHANGED <<cstat, endpoint, tstat, task, pos, res, cancelled, made, nodeVars,
                 call, restarts>>

\* ... and for a first master one more statement: the member is ready, or the cluster failed.
Settle(t) ==
  /\ tpc[t] = "settle"
  /\ IF res[t] = "ok"
       THEN SetMemberStatus(task[t].k, task[t].n, "ready") /\ UNCHANGED cstat
       ELSE SetClusterStatus(task[t].k, "failed") /\ UNCHANGED member
  /\ tpc' = [tpc EXCEPT ![t] = "over"]
  /\ UNCHANGED <<endpoint, tstat, task, pos, res, cancelled, made, nodeVars, call, restarts>>

\* RemoveNode's callback.
RemoveDone(t) ==
  /\ tpc[t] = "after" /\ task[t].kind = "remove"
  /\ IF res[t] = "ok" THEN DeleteMember(task[t].k, task[t].n)
                      ELSE SetMemberStatus(task[t].k, task[t].n, "failed")
  /\ tpc' = [tpc EXCEPT ![t] = "over"]
  /\ UNCHANGED <<cstat, endpoint, tstat, task, pos, res, cancelled, made, nodeVars,
                 call, restarts>>

\* Runner.Cancel: the goroutine is in running until it returns.
Cancel(t) ==
  /\ "cancel" \in Events
  /\ tpc[t] \notin {"none", "over"}
  /\ cancelled' = cancelled \cup {t}
  /\ UNCHANGED <<tables, task, tpc, pos, res, made, nodeVars, call, restarts>>

-----------------------------------------------------------------------------
(***************************************************************************)
(* Nodes, and the panel's own restart.                                     *)
(***************************************************************************)
WaitsOn(t, n) == tpc[t] = "wait" /\ task[t].plan[pos[t]].at = n

\* The agent finishes the script at hand; whoever still waits for it gets the result.
Work(n, ok) ==
  /\ inbox[n] # <<>>
  /\ inbox' = [inbox EXCEPT ![n] = Tail(@)]
  /\ LET t == Head(inbox[n]).t IN
     IF ~(WaitsOn(t, n) /\ task[t].plan[pos[t]].script = Head(inbox[n]).script)
       THEN UNCHANGED <<tpc, pos, res>>
     ELSE IF ok /\ pos[t] < Len(task[t].plan)
       THEN /\ tpc' = [tpc EXCEPT ![t] = "send"]
            /\ pos' = [pos EXCEPT ![t] = @ + 1]
            /\ UNCHANGED res
     ELSE Ends(t, IF ok THEN "ok" ELSE "fail") /\ UNCHANGED pos
  /\ UNCHANGED <<tables, task, cancelled, made, enrolled, online, call, restarts>>

\* deleteNode: no member may refer to the row.  Kick is a Disconnect of its own.
DeleteNode(n) ==
  /\ "retire" \in Events
  /\ n \in enrolled
  /\ \A k \in Clusters : ~Has(k, n)
  /\ enrolled' = enrolled \ {n}
  /\ UNCHANGED <<tables, taskVars, inbox, online, call, restarts>>

\* The stream breaks, or is kicked: the hub tells its callers (Hub.tla), the agent drops
\* scripts it had not begun.
Disconnect(n) ==
  /\ "offline" \in Events \/ n \notin enrolled
  /\ online[n]
  /\ online' = [online EXCEPT ![n] = FALSE]
  /\ \E kept \in 0..Len(inbox[n]) : inbox' = [inbox EXCEPT ![n] = SubSeq(@, 1, kept)]
  /\ tpc' = [t \in TaskIds |-> IF WaitsOn(t, n) THEN "finish" ELSE tpc[t]]
  /\ res' = [t \in TaskIds |-> IF WaitsOn(t, n) THEN "fail" ELSE res[t]]
  /\ UNCHANGED <<tables, task, pos, cancelled, made, enrolled, call, restarts>>

\* runSession waits for the script at hand before the agent dials again; a deleted node's token
\* is not taken.
Connect(n) ==
  /\ ~online[n] /\ n \in enrolled
  /\ inbox[n] = <<>>
  /\ online' = [online EXCEPT ![n] = TRUE]
  /\ UNCHANGED <<tables, taskVars, enrolled, inbox, call, restarts>>

Forgotten == [t \in TaskIds |-> IF tpc[t] = "none" THEN "none" ELSE "over"]

\* The process ends and comes back (server.New): goroutines and streams are gone,
\* FailRunningTasks has closed the running tasks, members and clusters are as they were.
Restart ==
  /\ restarts < MaxRestarts
  /\ restarts' = restarts + 1
  /\ tstat' = [t \in TaskIds |-> IF tstat[t] = "running" THEN "failed" ELSE tstat[t]]
  /\ tpc' = Forgotten
  /\ call' = [q \in Callers |-> Idle]
  /\ online' = [n \in Nodes |-> FALSE]
  /\ UNCHANGED <<cstat, endpoint, member, task, pos, res, cancelled, made, enrolled, inbox>>

-----------------------------------------------------------------------------
CallStep(q) ==
  \/ CheckMembership(q) \/ DeriveEndpoint(q) \/ MarkInstalling(q)
  \/ FreshJoin(q) \/ IssueJoin(q) \/ JoinTable(q)
  \/ CheckMember(q) \/ PickDrainer(q) \/ MarkRemoving(q)
  \/ StartTask(q) \/ StartFails(q)
  \/ ListMembers(q) \/ DropCluster(q) \/ \E n \in Nodes : DestroyOne(q, n)

User(q) ==
  \/ \E k \in Clusters, n \in Nodes, r \in Roles : AddNode(q, k, n, r)
  \/ \E k \in Clusters, n \in Nodes : RemoveNode(q, k, n)
  \/ \E k \in Clusters, how \in {"delete", "force"} : Delete(q, k, how)
  \/ HangUp(q)

TaskStep(t) ==
  \/ Submit(t) \/ CtxDone(t) \/ Finish(t)
  \/ TakeOver(t) \/ StoreCredentials(t) \/ InstallDone(t) \/ Settle(t) \/ RemoveDone(t)

Next ==
  \/ \E k \in Clusters : Create(k)
  \/ \E q \in Callers : CallStep(q) \/ User(q)
  \/ \E t \in TaskIds : TaskStep(t) \/ Cancel(t)
  \/ \E n \in Nodes : DeleteNode(n) \/ Disconnect(n) \/ Connect(n) \/ \E ok \in BOOLEAN : Work(n, ok)
  \/ Restart

Spec == Init /\ [][Next]_vars

\* Goroutines run.  Nothing is assumed of agents.
FairSpec ==
  Spec /\ (\A q \in Callers : WF_vars(CallStep(q))) /\ (\A t \in TaskIds : WF_vars(TaskStep(t)))

-----------------------------------------------------------------------------
Live(t) == tpc[t] \notin {"none", "over"}
For(t, k, n) == task[t].k = k /\ task[t].n = n
Initialising(t, k) == task[t].kind = "install" /\ task[t].k = k /\ task[t].role = "first-master"

\* "Wait for the task to end" (MEMBER_BUSY): behind an installing or removing member there
\* is a task, or a call that is about to start it.
BusyHasTask ==
  \A k \in Clusters, n \in Nodes : Busy(k, n) =>
    \/ \E t \in TaskIds : Live(t) /\ For(t, k, n) /\ task[t].kind # "destroy"
    \/ \E q \in Callers : At(q, "start") /\ call[q].k = k /\ call[q].n = n

\* So it is while the panel is not restarted, whatever calls overlap.
BusyUntilRestart == restarts = 0 => BusyHasTask

\* A machine belongs to one cluster only (docs/api.md:173).
OneClusterPerNode ==
  \A n \in Nodes : Cardinality({k \in Clusters : Has(k, n)}) <= 1

\* First one first-master (docs/api.md:172): never two at once, and none in a cluster that
\* is ready.
OneFirstMaster ==
  \A k \in Clusters :
    /\ Cardinality({t \in TaskIds : tstat[t] = "running" /\ Initialising(t, k)}) <= 1
    /\ cstat[k] = "ready" => ~\E t \in TaskIds : tstat[t] = "running" /\ Initialising(t, k)

\* docs/api.md gives both as rules: a state in which neither holds refutes the two of them.
ARuleIsKept == OneClusterPerNode \/ OneFirstMaster

\* A reset of n by task t is at the agent, or about to be sent.
ResetComing(t, n) ==
  \/ \E i \in 1..Len(inbox[n]) : inbox[n][i] = [t |-> t, script |-> "reset"]
  \/ tpc[t] = "send" /\ task[t].plan[pos[t]] = [at |-> n, script |-> "reset"]

\* No reset is on its way to a machine on which the panel believes a member runs, but the
\* one that goes with deleting that member's own cluster (remove.go:27: reset is for nodes
\* that were removed, to make them usable again).
ResetSparesReady ==
  \A k \in Clusters, n \in Nodes : member[k][n].status = "ready" =>
    \A t \in TaskIds : ResetComing(t, n) => task[t].kind = "destroy" /\ task[t].k = k

\* A cancelled task ends, whatever the agent does.
CancelledTaskEnds == \A t \in TaskIds : t \in cancelled ~> tstat[t] # "running"

\* A first-master install that got as far as its task settles the cluster, provided every
\* script ends at some time (exec scripts have a timeout on the agent, installs end or fail).
ScriptsEnd == \A n \in Nodes : WF_vars(\E ok \in BOOLEAN : Work(n, ok))
InstallSettles ==
  ScriptsEnd =>
    \A k \in Clusters, t \in TaskIds : Live(t) /\ Initialising(t, k) ~> cstat[k] # "installing"

=============================================================================

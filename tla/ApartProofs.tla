----------------------------- MODULE ApartProofs -----------------------------
(***************************************************************************)
(* Proofs about Cluster when requests for the same thing keep apart.       *)
(*                                                                         *)
(* AddNode, RemoveNode and Delete read, decide and write in separate       *)
(* statements and take no lock; ClusterOverlap.cfg shows what that costs.  *)
(* That no machine is reset under a member that is believed to run is kept *)
(* whatever tasks, agents, operators and restarts do, and for any number   *)
(* of requests, clusters, nodes and tasks, in behaviours in which requests *)
(* for the same machine or the same cluster do not overlap.                *)
(***************************************************************************)
EXTENDS ClusterProofs

USE ClusterAssumption DEF ClusterAssumption

\* AddNode and RemoveNode requests are for different machines, and the cluster that a Delete is
\* for has no other request.
CallsApart ==
  \A p, q \in Callers : p # q =>
    /\ call[p].does \in {"install", "remove"} /\ call[q].does \in {"install", "remove"} =>
         call[p].n # call[q].n
    /\ call[p].does \in {"delete", "force"} /\ call[q].does # "none" => call[p].k # call[q].k

-----------------------------------------------------------------------------
(***************************************************************************)
(* What the steps of a call do, in the terms the invariants below need.    *)
(***************************************************************************)
\* The locals that stay as they are for the length of a call.
Keeps(q) ==
  /\ call'[q].does = call[q].does /\ call'[q].k = call[q].k /\ call'[q].n = call[q].n

\* A call that answers is idle, and nothing is known of an idle call.
LEMMA AnswersDoes ==
  ASSUME TypeInv, NEW q \in Callers, Answers(q)
  PROVE  call'[q] = Idle /\ call'[q].at = "idle"
<1>1. call' = [call EXCEPT ![q] = Idle]
  BY DEF Answers
<1>2. call'[q] = Idle
  BY <1>1, OnlyOneCall
<1>3. QED
  BY <1>2 DEF Idle

\* AddNode, RemoveNode, Delete: nothing is written, and what is read is remembered.
LEMMA BeginDoes ==
  ASSUME TypeInv, NEW q \in Callers, NEW k \in Clusters,
         \/ \E n \in Nodes, r \in Roles : AddNode(q, k, n, r)
         \/ \E n \in Nodes : RemoveNode(q, k, n)
         \/ \E how \in {"delete", "force"} : Delete(q, k, how)
  PROVE  /\ UNCHANGED <<tables, taskVars, nodeVars, restarts>>
         /\ call'[q].at \in {"membership", "member", "list"}
<1>1. call \in [Callers -> CallRec]
  BY DEF TypeInv, TypeOK
<1>2. UNCHANGED <<tables, taskVars, nodeVars, restarts>>
  BY DEF AddNode, RemoveNode, Delete
<1>3. \/ \E n \in Nodes, r \in Roles :
           call'[q] = [Idle EXCEPT !.at = "membership", !.does = "install",
                        !.k = k, !.n = n, !.role = r, !.seen = cstat[k], !.ep = endpoint[k]]
      \/ \E n \in Nodes :
           call'[q] = [Idle EXCEPT !.at = "member", !.does = "remove", !.k = k, !.n = n, !.seen = cstat[k]]
      \/ \E how \in {"delete", "force"} : call'[q] = [Idle EXCEPT !.at = "list", !.does = how, !.k = k]
  BY <1>1 DEF AddNode, RemoveNode, Delete
<1>4. QED
  BY <1>2, <1>3 DEF Idle

\* AddNode goes on only for a machine that no cluster has a row of.
LEMMA CheckMembershipDoes ==
  ASSUME TypeInv, NEW q \in Callers, CheckMembership(q)
  PROVE  /\ UNCHANGED <<tables, taskVars, nodeVars, restarts>>
         /\ call[q].at = "membership"
         /\ \/ Answers(q)
            \/ /\ Keeps(q) /\ FreeFor(call[q].k, call[q].n)
               /\ call'[q].at \in {"endpoint", "status", "creds"}
<1>1. /\ UNCHANGED <<tables, taskVars, nodeVars, restarts>> /\ call[q].at = "membership"
      /\ \/ Answers(q)
         \/ /\ FreeFor(call[q].k, call[q].n)
            /\ Goes(q, "endpoint") \/ Goes(q, "status") \/ Goes(q, "creds")
  BY DEF CheckMembership, At
<1>2. \A w \in Places : Goes(q, w) => Keeps(q) /\ call'[q].at = w
  BY MovedCall DEF Keeps
<1>3. QED
  BY <1>1, <1>2 DEF Places

\* Only the endpoint's row is written,
LEMMA DeriveEndpointDoes ==
  ASSUME TypeInv, NEW q \in Callers, DeriveEndpoint(q)
  PROVE  /\ UNCHANGED <<cstat, member, tstat, taskVars, nodeVars, restarts>>
         /\ call[q].at = "endpoint" /\ call'[q].at = "status" /\ Keeps(q)
<1> DEFINE d == [call[q] EXCEPT !.at = "status", !.ep = call[q].n]
<1>1. call[q] \in CallRec
  BY DEF TypeInv, TypeOK
<1>2. /\ d.at = "status" /\ d.does = call[q].does /\ d.k = call[q].k /\ d.n = call[q].n
  BY <1>1 DEF CallRec
<1>3. call' = [call EXCEPT ![q] = d] /\ call[q].at = "endpoint"
  BY DEF DeriveEndpoint, At
<1> HIDE DEF d
<1>4. call'[q] = d
  BY <1>3, OnlyOneCall
<1>5. QED
  BY <1>2, <1>3, <1>4 DEF Keeps, DeriveEndpoint

\* then only the cluster's status,
LEMMA MarkInstallingDoes ==
  ASSUME TypeInv, NEW q \in Callers, MarkInstalling(q)
  PROVE  /\ UNCHANGED <<endpoint, member, tstat, taskVars, nodeVars, restarts>>
         /\ call[q].at = "status" /\ call'[q].at = "upsert" /\ Keeps(q)
BY MovedCall DEF MarkInstalling, At, Places, Keeps

\* and for a join nothing.
LEMMA CredentialsDoes ==
  ASSUME TypeInv, NEW q \in Callers, FreshJoin(q) \/ IssueJoin(q)
  PROVE  /\ UNCHANGED <<tables, taskVars, nodeVars, restarts>>
         /\ call[q].at \in {"creds", "issue"}
         /\ Answers(q) \/ (Keeps(q) /\ call'[q].at \in {"issue", "upsert"})
<1>1. Answers(q) \/ Goes(q, "issue") \/ Goes(q, "upsert")
  BY DEF FreshJoin, IssueJoin
<1>2. \A w \in Places : Goes(q, w) => Keeps(q) /\ call'[q].at = w
  BY MovedCall DEF Keeps
<1>3. QED
  BY <1>1, <1>2 DEF Places, FreshJoin, IssueJoin, At

\* The member's row is written as installing.
LEMMA JoinTableDoes ==
  ASSUME TypeInv, NEW q \in Callers, JoinTable(q)
  PROVE  /\ UNCHANGED <<cstat, endpoint, tstat, taskVars, nodeVars, restarts>>
         /\ call[q].at = "upsert" /\ call[q].does = "install"
         /\ call[q].k \in Clusters /\ call[q].n \in Nodes /\ call[q].role \in Roles
         /\ \/ /\ Keeps(q) /\ call'[q].at = "start"
               /\ member'[call[q].k][call[q].n] # NoRow /\ member'[call[q].k][call[q].n].status = "installing"
               /\ \A o \in Clusters, m \in Nodes : o # call[q].k \/ m # call[q].n => member'[o][m] = member[o][m]
            \/ Answers(q) /\ member' = member
<1>1. call[q].at = "upsert" /\ Fits(call[q]) /\ TablesOK
  BY TypedTables DEF JoinTable, At, TypeInv
<1>2. call[q].does = "install" /\ call[q].k \in Clusters /\ call[q].n \in Nodes /\ call[q].role \in Roles
  BY <1>1 DEF Fits, Installs
<1>3. UNCHANGED <<cstat, endpoint, tstat, taskVars, nodeVars, restarts>>
  BY DEF JoinTable
<1>4. CASE UpsertMember(call[q].k, call[q].n, call[q].role) /\ Goes(q, "start")
  <2>2. Keeps(q) /\ call'[q].at = "start" /\ \A p \in Callers : p # q => call'[p] = call[p]
    BY <1>4, MovedCall DEF Places, Keeps
  <2>3. PICK g \in Clusters, m \in Nodes : g = call[q].k /\ m = call[q].n
    BY <1>2
  <2>4. /\ Has(g, m)' /\ member'[g][m].status = "installing"
        /\ \A o \in Clusters, x \in Nodes : o # g \/ x # m => member'[o][x] = member[o][x]
    BY <1>1, <1>2, <1>4, <2>3, MemberUpserted
  <2>5. QED
    BY <1>1, <1>2, <1>3, <1>4, <2>2, <2>3, <2>4 DEF Has, Keeps
<1>5. CASE Answers(q) /\ member' = member
  BY <1>1, <1>2, <1>3, <1>5
<1>6. QED
  BY <1>4, <1>5 DEF JoinTable

\* RemoveNode writes nothing while it checks
LEMMA CheckMemberDoes ==
  ASSUME TypeInv, NEW q \in Callers, CheckMember(q)
  PROVE  /\ UNCHANGED <<tables, taskVars, nodeVars, restarts>>
         /\ call[q].at = "member" /\ call[q].k \in Clusters /\ call[q].n \in Nodes
         /\ \/ Answers(q)
            \/ /\ Keeps(q) /\ call'[q].at \in {"drainer", "removing"}
               /\ Has(call[q].k, call[q].n) /\ ~Busy(call[q].k, call[q].n)
               /\ call'[q].was = member[call[q].k][call[q].n].status
<1> DEFINE w == IF call[q].seen = "ready" THEN "drainer" ELSE "removing"
           x == member[call[q].k][call[q].n].status
           d == [call[q] EXCEPT !.at = w, !.was = x]
<1>1. call[q] \in CallRec /\ call[q].at = "member" /\ Fits(call[q])
  BY DEF TypeInv, TypeOK, CheckMember, At
<1>2. /\ UNCHANGED <<tables, taskVars, nodeVars, restarts>>
      /\ \/ Answers(q)
         \/ /\ call' = [call EXCEPT ![q] = d]
            /\ Has(call[q].k, call[q].n) /\ ~Busy(call[q].k, call[q].n)
  BY DEF CheckMember
<1>3. w \in {"drainer", "removing"}
  OBVIOUS
<1> HIDE DEF w, x
<1>4. d.at = w /\ d.does = call[q].does /\ d.k = call[q].k /\ d.n = call[q].n /\ d.was = x
  BY <1>1 DEF CallRec
<1>5. ASSUME call' = [call EXCEPT ![q] = d] PROVE call'[q] = d
  <2> HIDE DEF d
  <2>1. QED
    BY <1>5, OnlyOneCall
<1> HIDE DEF d
<1>6. QED
  BY <1>1, <1>2, <1>3, <1>4, <1>5 DEF Keeps, Fits, x

\* and picks a master to drain from;
LEMMA PickDrainerDoes ==
  ASSUME TypeInv, NEW q \in Callers, PickDrainer(q)
  PROVE  /\ UNCHANGED <<tables, taskVars, nodeVars, restarts>>
         /\ call[q].at = "drainer"
         /\ Answers(q) \/ (Keeps(q) /\ call'[q].at = "removing" /\ call'[q].was = call[q].was)
<1>1. call[q] \in CallRec
  BY DEF TypeInv, TypeOK
<1>2. ASSUME NEW m, call' = [call EXCEPT ![q].at = "removing", ![q].drainer = m]
      PROVE  Keeps(q) /\ call'[q].at = "removing" /\ call'[q].was = call[q].was
  <2> DEFINE d == [call[q] EXCEPT !.at = "removing", !.drainer = m]
  <2>1. /\ d.at = "removing" /\ d.does = call[q].does /\ d.k = call[q].k /\ d.n = call[q].n
        /\ d.was = call[q].was
    BY <1>1 DEF CallRec
  <2>2. call' = [call EXCEPT ![q] = d]
    BY <1>2
  <2> HIDE DEF d
  <2>3. call'[q] = d
    BY <2>2, OnlyOneCall
  <2>4. QED
    BY <2>1, <2>3 DEF Keeps
<1>3. QED
  BY <1>2 DEF PickDrainer, At

\* then it marks the row as removing, if it is still there.
LEMMA MarkRemovingDoes ==
  ASSUME TypeInv, NEW q \in Callers, MarkRemoving(q)
  PROVE  /\ UNCHANGED <<cstat, endpoint, tstat, taskVars, nodeVars, restarts>>
         /\ call[q].at = "removing" /\ call'[q].at = "start" /\ Keeps(q) /\ call'[q].was = call[q].was
         /\ call[q].does = "remove" /\ call[q].k \in Clusters /\ call[q].n \in Nodes
         /\ member'[call[q].k][call[q].n] # NoRow <=> Has(call[q].k, call[q].n)
         /\ Has(call[q].k, call[q].n) => member'[call[q].k][call[q].n].status = "removing"
         /\ \A o \in Clusters, m \in Nodes : o # call[q].k \/ m # call[q].n => member'[o][m] = member[o][m]
<1>1. call[q].at = "removing" /\ Fits(call[q]) /\ TablesOK
  BY TypedTables DEF MarkRemoving, At, TypeInv
<1>2. PICK g \in Clusters, m \in Nodes : g = call[q].k /\ m = call[q].n
  BY <1>1 DEF Fits
<1>3. SetMemberStatus(g, m, "removing") /\ Goes(q, "start")
  BY <1>2 DEF MarkRemoving
<1>4. Keeps(q) /\ call'[q].at = "start" /\ call'[q].was = call[q].was
  BY <1>3, MovedCall DEF Places, Keeps
<1>5. /\ Has(g, m)' <=> Has(g, m)
      /\ Has(g, m) => member'[g][m].status = "removing"
      /\ \A o \in Clusters, x \in Nodes : o # g \/ x # m => member'[o][x] = member[o][x]
  BY <1>1, <1>3, MemberStatusSet
<1>6. QED
  BY <1>1, <1>2, <1>4, <1>5 DEF MarkRemoving, Has, Keeps, Fits

\* The task that a call hands over to.
LEMMA StartTaskDoes ==
  ASSUME TypeInv, NEW q \in Callers, StartTask(q)
  PROVE  /\ UNCHANGED <<cstat, endpoint, member, nodeVars, restarts>>
         /\ call[q].at = "start" /\ Answers(q)
         /\ call[q].k \in Clusters /\ call[q].n \in Nodes /\ call[q].does \in {"install", "remove"}
         /\ \E r \in TaskRec :
              /\ r.kind = call[q].does /\ r.k = call[q].k /\ r.n = call[q].n
              /\ r.kind = "install" => Len(r.plan) = 1 /\ r.plan[1].script = "install" /\ r.plan # <<>>
              /\ Start(r)
<1> DEFINE c == call[q]
           r == [kind |-> c.does, k |-> c.k, n |-> c.n, role |-> c.role, ep |-> c.ep, plan |-> Plan(c)]
<1>1. c \in CallRec /\ Fits(c) /\ c.at = "start" /\ online \in [Nodes -> BOOLEAN]
  BY DEF TypeInv, TypeOK, StartTask, At
<1>2. c.k \in Clusters /\ c.n \in Nodes /\ c.does \in {"install", "remove"} /\ (c.does = "install" => c.role \in Roles)
      /\ (c.does # "install" => c.role = "none")
  BY <1>1 DEF Fits
<1>3. /\ Plan(c) \in Seq(Job) /\ Len(Plan(c)) \in 0..2
      /\ c.does = "install" => Len(Plan(c)) = 1 /\ Plan(c)[1] = [at |-> c.n, script |-> "install"]
  BY <1>1, <1>2, PlanShape
<1>4. r \in TaskRec
  BY <1>1, <1>2, <1>3 DEF TaskRec, CallRec
<1>5. c.does = "install" => Len(Plan(c)) = 1 /\ Plan(c)[1].script = "install" /\ Plan(c) # <<>>
  BY <1>3
<1>6. Start(r) /\ Answers(q) /\ UNCHANGED <<cstat, endpoint, member, nodeVars, restarts>>
  BY DEF StartTask
<1> HIDE DEF c
<1>7. /\ r.kind = c.does /\ r.k = c.k /\ r.n = c.n /\ r.role = c.role
      /\ r.kind = "install" => Len(r.plan) = 1 /\ r.plan[1].script = "install" /\ r.plan # <<>>
  BY <1>5
<1> HIDE DEF r
<1>8. QED
  BY <1>1, <1>2, <1>4, <1>6, <1>7 DEF c

\* When the task cannot be made, the row gets the status it is meant to fall back to, or keeps it.
LEMMA StartFailsDoes ==
  ASSUME TypeInv, NEW q \in Callers, StartFails(q)
  PROVE  /\ UNCHANGED <<cstat, endpoint, tstat, taskVars, nodeVars, restarts>>
         /\ call[q].at = "start" /\ Answers(q)
         /\ call[q].k \in Clusters /\ call[q].n \in Nodes /\ call[q].does \in {"install", "remove"}
         /\ member'[call[q].k][call[q].n] # NoRow <=> Has(call[q].k, call[q].n)
         /\ \/ member' = member
            \/ Has(call[q].k, call[q].n) =>
                 member'[call[q].k][call[q].n].status = (IF call[q].does = "install" THEN "failed" ELSE call[q].was)
         /\ \A o \in Clusters, m \in Nodes : o # call[q].k \/ m # call[q].n => member'[o][m] = member[o][m]
<1> DEFINE x == IF call[q].does = "install" THEN "failed" ELSE call[q].was
<1>1. call[q].at = "start" /\ Fits(call[q]) /\ TablesOK
  BY TypedTables DEF StartFails, At, TypeInv
<1>2. /\ call[q].k \in Clusters /\ call[q].n \in Nodes /\ call[q].does \in {"install", "remove"}
      /\ x \in {"ready", "failed"}
  BY <1>1 DEF Fits
<1>3. PICK g \in Clusters, m \in Nodes : g = call[q].k /\ m = call[q].n
  BY <1>2
<1>4. SetMemberStatus(g, m, x) \/ member' = member
  BY <1>3 DEF StartFails
<1>5. UNCHANGED <<cstat, endpoint, tstat, taskVars, nodeVars, restarts>> /\ Answers(q)
  BY DEF StartFails
<1> HIDE DEF x
<1>6. CASE SetMemberStatus(g, m, x)
  <2>1. /\ Has(g, m)' <=> Has(g, m)
        /\ Has(g, m) => member'[g][m].status = x
        /\ \A o \in Clusters, y \in Nodes : o # g \/ y # m => member'[o][y] = member[o][y]
    BY <1>1, <1>2, <1>6, MemberStatusSet
  <2>2. QED
    BY <1>1, <1>2, <1>3, <1>5, <2>1 DEF Has, x
<1>7. CASE member' = member
  BY <1>1, <1>2, <1>5, <1>7 DEF Has
<1>8. QED
  BY <1>4, <1>6, <1>7

\* Delete goes on only with force, or when it lists no members;
LEMMA ListMembersDoes ==
  ASSUME TypeInv, NEW q \in Callers, ListMembers(q)
  PROVE  /\ UNCHANGED <<tables, taskVars, nodeVars, restarts>>
         /\ call[q].at = "list" /\ call[q].does \in {"delete", "force"}
         /\ \/ Answers(q)
            \/ /\ Keeps(q) /\ call'[q].at = "destroy"
               /\ call'[q].todo = {n \in Nodes : Has(call[q].k, n)}
               /\ call[q].does = "force" \/ \A n \in Nodes : ~Has(call[q].k, n)
<1>1. Fits(call[q]) /\ call[q] \in CallRec /\ call[q].at = "list"
  BY DEF TypeInv, TypeOK, ListMembers, At
<1>2. UNCHANGED <<tables, taskVars, nodeVars, restarts>> /\ call[q].does \in {"delete", "force"}
  BY <1>1 DEF ListMembers, Fits
<1> DEFINE rows == {n \in Nodes : Has(call[q].k, n)}
           b == {n \in rows : Busy(call[q].k, n)}
           d == [call[q] EXCEPT !.at = "destroy", !.todo = rows, !.busy = b]
<1>3. \/ Answers(q)
      \/ call' = [call EXCEPT ![q] = d] /\ (rows = {} \/ call[q].does = "force")
  BY DEF ListMembers
<1>4. /\ d.at = "destroy" /\ d.does = call[q].does /\ d.k = call[q].k /\ d.n = call[q].n
      /\ d.todo = rows
  <2> HIDE DEF rows, b
  <2>1. QED
    BY <1>1 DEF CallRec
<1>5. ASSUME call' = [call EXCEPT ![q] = d] PROVE call'[q] = d
  <2> HIDE DEF d
  <2>1. QED
    BY <1>5, OnlyOneCall
<1>6. rows = {} => \A n \in Nodes : ~Has(call[q].k, n)
  OBVIOUS
<1> HIDE DEF d
<1>7. QED
  BY <1>1, <1>2, <1>3, <1>4, <1>5, <1>6 DEF Keeps

\* with force it starts a destroy task for each of them, one by one,
LEMMA DestroyOneDoes ==
  ASSUME TypeInv, NEW q \in Callers, NEW n \in Nodes, DestroyOne(q, n)
  PROVE  /\ UNCHANGED <<cstat, endpoint, member, nodeVars, restarts>>
         /\ call[q].at = "destroy" /\ n \in call[q].todo /\ call[q].k \in Clusters
         /\ Answers(q) \/ (Keeps(q) /\ call'[q].at = "destroy")
         /\ UNCHANGED <<tstat, taskVars>> \/ \E r \in TaskRec : r.kind = "destroy" /\ Start(r)
<1>1. call[q] \in CallRec /\ Fits(call[q]) /\ call[q].at = "destroy"
  BY DEF TypeInv, TypeOK, DestroyOne, At
<1>2. call[q].k \in Clusters
  BY <1>1 DEF Fits
<1> DEFINE d == [call[q] EXCEPT !.todo = @ \ {n}]
           r == [NoTask EXCEPT !.kind = "destroy", !.k = call[q].k, !.n = n,
                   !.plan = <<[at |-> n, script |-> "reset"]>>]
<1>3. /\ d.at = "destroy" /\ d.does = call[q].does /\ d.k = call[q].k /\ d.n = call[q].n
  BY <1>1 DEF CallRec
<1>4. Answers(q) \/ call' = [call EXCEPT ![q] = d]
  BY DEF DestroyOne
<1>5. ASSUME call' = [call EXCEPT ![q] = d] PROVE call'[q] = d
  <2> HIDE DEF d
  <2>1. QED
    BY <1>5, OnlyOneCall
<1>6. r \in TaskRec /\ r.kind = "destroy"
  <2>1. [at |-> n, script |-> "reset"] \in Job
    BY DEF Job
  <2>2. <<[at |-> n, script |-> "reset"]>> \in Seq(Job)
    BY <2>1
  <2>3. QED
    BY <1>2, <2>2 DEF TaskRec, NoTask
<1>7. UNCHANGED <<tstat, taskVars>> \/ Start(r)
  BY DEF DestroyOne
<1> HIDE DEF d, r
<1>8. QED
  BY <1>1, <1>2, <1>3, <1>4, <1>5, <1>6, <1>7 DEF Keeps, DestroyOne

\* and drops the cluster's rows at last.
LEMMA DropClusterDoes ==
  ASSUME TypeInv, NEW q \in Callers, DropCluster(q)
  PROVE  /\ UNCHANGED <<endpoint, tstat, taskVars, nodeVars, restarts>>
         /\ call[q].at = "destroy" /\ Answers(q) /\ call[q].k \in Clusters
         /\ cstat'[call[q].k] = "gone"
         /\ \A n \in Nodes : member'[call[q].k][n] = NoRow
         /\ \A o \in Clusters : o # call[q].k => cstat'[o] = cstat[o] /\ member'[o] = member[o]
<1>1. call[q].at = "destroy" /\ Fits(call[q]) /\ TablesOK
  BY TypedTables DEF DropCluster, At, TypeInv
<1>2. PICK g \in Clusters : g = call[q].k
  BY <1>1 DEF Fits
<1>3. /\ cstat'[g] = "gone"
      /\ \A o \in Clusters : o # g => cstat'[o] = cstat[o] /\ member'[o] = member[o]
      /\ \A n \in Nodes : ~Has(g, n)'
  BY <1>1, <1>2, ClusterDeleted DEF DropCluster
<1>4. QED
  BY <1>1, <1>2, <1>3 DEF DropCluster, Has


\* A client that leaves, whenever the service notices.
LEMMA HangUpDoes ==
  ASSUME TypeInv, NEW q \in Callers, HangUp(q)
  PROVE  UNCHANGED <<tables, taskVars, nodeVars, restarts>> /\ Answers(q)
BY DEF HangUp

\* No call touches the locals of another.
LEMMA OthersStay ==
  ASSUME TypeInv, NEW q \in Callers,
         \/ CheckMembership(q) \/ DeriveEndpoint(q) \/ MarkInstalling(q) \/ FreshJoin(q) \/ IssueJoin(q)
         \/ JoinTable(q) \/ CheckMember(q) \/ PickDrainer(q) \/ MarkRemoving(q) \/ StartTask(q) \/ StartFails(q)
         \/ ListMembers(q) \/ DropCluster(q) \/ \E n \in Nodes : DestroyOne(q, n)
         \/ User(q) \/ Answers(q)
  PROVE  \A p \in Callers : p # q => call'[p] = call[p]
<1>1. call \in [Callers -> CallRec]
  BY DEF TypeInv, TypeOK
<1>2. CASE User(q)
  BY <1>1, <1>2 DEF User, AddNode, RemoveNode, Delete, HangUp, Answers
<1>3. CASE MarkInstalling(q) \/ JoinTable(q) \/ MarkRemoving(q) \/ StartTask(q) \/ StartFails(q) \/ DropCluster(q) \/ Answers(q)
           \/ \E n \in Nodes : DestroyOne(q, n)
  BY <1>1, <1>3 DEF MarkInstalling, JoinTable, MarkRemoving, StartTask, StartFails, DropCluster, DestroyOne, Answers, Goes
<1>4. CASE CheckMembership(q) \/ DeriveEndpoint(q) \/ FreshJoin(q) \/ IssueJoin(q) \/ CheckMember(q)
           \/ PickDrainer(q) \/ ListMembers(q)
  BY <1>1, <1>4 DEF CheckMembership, DeriveEndpoint, FreshJoin, IssueJoin, CheckMember, PickDrainer, ListMembers,
     Answers, Goes
<1>5. QED
  BY <1>2, <1>3, <1>4

\* The statements of the callbacks: no row appears, and only the task's own row changes.
LEMMA CallbackRows ==
  ASSUME TypeInv, NEW t \in TaskIds,
         TakeOver(t) \/ StoreCredentials(t) \/ InstallDone(t) \/ Settle(t) \/ RemoveDone(t)
  PROVE  /\ UNCHANGED <<call, restarts, task, pos, inbox, online, cancelled, made>>
         /\ \A k \in Clusters, n \in Nodes : member'[k][n] # NoRow => Has(k, n)
         /\ \A k \in Clusters, n \in Nodes : k # task[t].k \/ n # task[t].n => member'[k][n] = member[k][n]
<1>1. TablesOK /\ task[t].k \in Clusters /\ task[t].n \in Nodes
  BY TypedTables, Captured DEF TakeOver, StoreCredentials, InstallDone, Settle, RemoveDone
<1>2. UNCHANGED <<call, restarts, task, pos, inbox, online, cancelled, made>>
  BY DEF TakeOver, StoreCredentials, InstallDone, Settle, RemoveDone, nodeVars
<1>3. \/ member' = member
      \/ DeleteMember(task[t].k, task[t].n)
      \/ \E s \in {"ready", "failed"} : SetMemberStatus(task[t].k, task[t].n, s)
  BY DEF TakeOver, StoreCredentials, InstallDone, Settle, RemoveDone
<1>4. CASE member' = member
  BY <1>2, <1>4 DEF Has
<1>5. PICK g \in Clusters, m \in Nodes : g = task[t].k /\ m = task[t].n
  BY <1>1
<1>6. CASE DeleteMember(g, m)
  BY <1>1, <1>2, <1>5, <1>6, MemberDeleted DEF Has
<1>7. CASE \E s \in {"ready", "failed"} : SetMemberStatus(g, m, s)
  BY <1>1, <1>2, <1>5, <1>7, MemberStatusSet DEF Has
<1>8. QED
  BY <1>3, <1>4, <1>5, <1>6, <1>7

\* Everything else that tasks, agents and operators do leaves tables and calls as they are.
LEMMA RunningRows ==
  ASSUME \/ \E t \in TaskIds : Submit(t) \/ CtxDone(t) \/ Finish(t) \/ Cancel(t)
         \/ \E n \in Nodes : DeleteNode(n) \/ Disconnect(n) \/ Connect(n) \/ \E ok \in BOOLEAN : Work(n, ok)
  PROVE  UNCHANGED <<cstat, endpoint, member, call, restarts>>
BY DEF Submit, CtxDone, Finish, Cancel, DeleteNode, Disconnect, Connect, Work, tables

-----------------------------------------------------------------------------
(***************************************************************************)
(* A machine in one cluster.  What checkMembership saw still holds when    *)
(* the member's row is written, several statements later: tasks update and *)
(* delete rows, and only this call could add one.                          *)
(***************************************************************************)
Adding == {"endpoint", "status", "creds", "issue", "upsert"}

RowsInv ==
  /\ \A k, o \in Clusters, n \in Nodes : Has(k, n) /\ Has(o, n) => k = o
  /\ \A q \in Callers : call[q].at \in Adding =>
       \A o \in Clusters : Has(o, call[q].n) => o = call[q].k

\* Rows that were there, and requests for machines that are free, break nothing.
LEMMA RowsKept ==
  ASSUME TypeInv, RowsInv,
         \A k \in Clusters, n \in Nodes : member'[k][n] # NoRow => Has(k, n),
         \A q \in Callers : call'[q].at \in Adding =>
           \/ call[q].at \in Adding /\ call'[q].k = call[q].k /\ call'[q].n = call[q].n
           \/ \A o \in Clusters : Has(o, call'[q].n) => o = call'[q].k,
         \A q \in Callers : call'[q].at \in Adding => call'[q].n \in Nodes
  PROVE  RowsInv'
BY DEF RowsInv, Has

\* Every step keeps it.
LEMMA StepRows ==
  ASSUME CallsApart, TypeInv, RowsInv, [Next]_vars
  PROVE  RowsInv'
<1>1. TypeInv'
  BY StepTypes
<1>2. \A q \in Callers : call'[q].at \in Adding => call'[q].n \in Nodes
  BY <1>1 DEF TypeInv, Fits, Installs, Adding
<1>3. TablesOK
  BY TypedTables
<1>4. ASSUME NEW q \in Callers, member' = member,
             \A p \in Callers : p # q => call'[p] = call[p],
             call'[q].at \in Adding => 
               \/ call[q].at \in Adding /\ call'[q].k = call[q].k /\ call'[q].n = call[q].n
               \/ FreeFor(call'[q].k, call'[q].n)
      PROVE  RowsInv'
  <2>2. \A p \in Callers : call'[p].at \in Adding =>
          \/ call[p].at \in Adding /\ call'[p].k = call[p].k /\ call'[p].n = call[p].n
          \/ \A o \in Clusters : Has(o, call'[p].n) => o = call'[p].k
    BY <1>4 DEF FreeFor
  <2>3. \A k \in Clusters, n \in Nodes : member'[k][n] # NoRow => Has(k, n)
    BY <1>4 DEF Has
  <2>4. QED
    BY <1>2, <2>2, <2>3, RowsKept
<1>5. ASSUME NEW q \in Callers, Answers(q), member' = member PROVE RowsInv'
  BY <1>4, <1>5, AnswersDoes, OthersStay DEF Adding
<1>6. ASSUME NEW q \in Callers, CheckMembership(q) PROVE RowsInv'
  BY <1>4, <1>5, <1>6, CheckMembershipDoes, OthersStay DEF Keeps, tables
<1>7. ASSUME NEW q \in Callers, DeriveEndpoint(q) PROVE RowsInv'
  BY <1>4, <1>7, DeriveEndpointDoes, OthersStay DEF Keeps, Adding
<1>8. ASSUME NEW q \in Callers, MarkInstalling(q) PROVE RowsInv'
  BY <1>4, <1>8, MarkInstallingDoes, OthersStay DEF Keeps, Adding
<1>9. ASSUME NEW q \in Callers, FreshJoin(q) \/ IssueJoin(q) PROVE RowsInv'
  BY <1>4, <1>5, <1>9, CredentialsDoes, OthersStay DEF Keeps, Adding, tables
<1>10. ASSUME NEW q \in Callers, JoinTable(q) PROVE RowsInv'
  <2>1. CASE Answers(q) /\ member' = member
    BY <1>5, <2>1
  <2>2. CASE ~(Answers(q) /\ member' = member)
    <3>1. PICK g \in Clusters, m \in Nodes : g = call[q].k /\ m = call[q].n
      BY <1>10, JoinTableDoes
    <3>2. /\ call[q].at \in Adding /\ call'[q].at = "start"
          /\ \A o \in Clusters, x \in Nodes : o # g \/ x # m => member'[o][x] = member[o][x]
      BY <1>10, <2>2, <3>1, JoinTableDoes DEF Adding
    <3>3. \A o \in Clusters : Has(o, m) => o = g
      BY <3>1, <3>2 DEF RowsInv
    <3>4. ASSUME NEW p \in Callers, call'[p].at \in Adding, NEW o \in Clusters, member'[o][call'[p].n] # NoRow
          PROVE  o = call'[p].k
      <4>1. p # q
        BY <3>2, <3>4 DEF Adding
      <4>2. call'[p] = call[p] /\ call[p].does = "install" /\ call[q].does = "install"
        BY <1>10, <3>2, <3>4, <4>1, OthersStay DEF TypeInv, Fits, Adding, Installs
      <4>3. call[p].n # m /\ call[p].n \in Nodes
        BY <1>2, <3>1, <3>4, <4>1, <4>2 DEF CallsApart
      <4>4. QED
        BY <3>2, <3>4, <4>2, <4>3 DEF RowsInv, Has
    <3>5. ASSUME NEW k \in Clusters, NEW o \in Clusters, NEW n \in Nodes, Has(k, n)', Has(o, n)' PROVE k = o
      <4>1. CASE n = m
        BY <3>2, <3>3, <3>5, <4>1 DEF Has
      <4>2. CASE n # m
        BY <3>2, <3>5, <4>2 DEF Has, RowsInv
      <4>3. QED
        BY <4>1, <4>2
    <3>6. QED
      BY <3>4, <3>5 DEF RowsInv, Has
  <2>3. QED
    BY <2>1, <2>2
<1>11. ASSUME NEW q \in Callers, CheckMember(q) PROVE RowsInv'
  BY <1>4, <1>5, <1>11, CheckMemberDoes, OthersStay DEF Adding, tables
<1>12. ASSUME NEW q \in Callers, PickDrainer(q) PROVE RowsInv'
  BY <1>4, <1>5, <1>12, PickDrainerDoes, OthersStay DEF Adding, tables
<1>13. ASSUME NEW q \in Callers, MarkRemoving(q) PROVE RowsInv'
  <2>1. \A p \in Callers : call'[p].at \in Adding => call'[p] = call[p]
    BY <1>13, MarkRemovingDoes, OthersStay DEF Adding
  <2>2. PICK g \in Clusters, m \in Nodes : g = call[q].k /\ m = call[q].n
    BY <1>13, MarkRemovingDoes
  <2>3. /\ member'[g][m] # NoRow <=> Has(g, m)
        /\ \A o \in Clusters, x \in Nodes : o # g \/ x # m => member'[o][x] = member[o][x]
    BY <1>13, <2>2, MarkRemovingDoes
  <2>4. \A k \in Clusters, n \in Nodes : member'[k][n] # NoRow => Has(k, n)
    BY <2>3 DEF Has
  <2>5. QED
    BY <1>2, <2>1, <2>4, RowsKept
<1>14. ASSUME NEW q \in Callers, StartTask(q) \/ StartFails(q) PROVE RowsInv'
  <2>1. CASE member' = member
    BY <1>5, <1>14, <2>1, StartTaskDoes, StartFailsDoes
  <2>2. CASE StartFails(q)
    <3>1. \A p \in Callers : call'[p].at \in Adding => call'[p] = call[p]
      BY <2>2, StartFailsDoes, AnswersDoes, OthersStay DEF Adding
    <3>2. PICK g \in Clusters, m \in Nodes : g = call[q].k /\ m = call[q].n
      BY <2>2, StartFailsDoes
    <3>3. /\ member'[g][m] # NoRow <=> Has(g, m)
          /\ \A o \in Clusters, x \in Nodes : o # g \/ x # m => member'[o][x] = member[o][x]
      BY <2>2, <3>2, StartFailsDoes
    <3>4. \A k \in Clusters, n \in Nodes : member'[k][n] # NoRow => Has(k, n)
      BY <3>3 DEF Has
    <3>5. QED
      BY <1>2, <3>1, <3>4, RowsKept
  <2>3. QED
    BY <1>14, <2>1, <2>2, StartTaskDoes
<1>15. ASSUME NEW q \in Callers, ListMembers(q) PROVE RowsInv'
  BY <1>4, <1>5, <1>15, ListMembersDoes, OthersStay DEF Adding, tables
<1>16. ASSUME NEW q \in Callers, NEW n \in Nodes, DestroyOne(q, n) PROVE RowsInv'
  BY <1>4, <1>5, <1>16, DestroyOneDoes, OthersStay DEF Adding
<1>17. ASSUME NEW q \in Callers, DropCluster(q) PROVE RowsInv'
  <2>1. \A p \in Callers : call'[p].at \in Adding => call'[p] = call[p]
    BY <1>17, DropClusterDoes, AnswersDoes, OthersStay DEF Adding
  <2>2. \A k \in Clusters, n \in Nodes : member'[k][n] # NoRow => Has(k, n)
    BY <1>17, DropClusterDoes DEF Has
  <2>3. QED
    BY <1>2, <2>1, <2>2, RowsKept
<1>18. ASSUME NEW q \in Callers, User(q) PROVE RowsInv'
  <2>1. CASE HangUp(q)
    BY <1>5, <2>1, HangUpDoes DEF tables
  <2>2. ASSUME NEW k \in Clusters,
               \/ \E n \in Nodes, r \in Roles : AddNode(q, k, n, r)
               \/ \E n \in Nodes : RemoveNode(q, k, n)
               \/ \E how \in {"delete", "force"} : Delete(q, k, how)
        PROVE  RowsInv'
    BY <1>4, <1>18, <2>2, BeginDoes, OthersStay DEF Adding, tables
  <2>3. QED
    BY <1>18, <2>1, <2>2 DEF User
<1>19. ASSUME NEW t \in TaskIds, TakeOver(t) \/ StoreCredentials(t) \/ InstallDone(t) \/ Settle(t) \/ RemoveDone(t) PROVE RowsInv'
  BY <1>2, <1>19, CallbackRows, RowsKept
<1>20. ASSUME UNCHANGED <<member, call>> PROVE RowsInv'
  BY <1>2, <1>20, RowsKept DEF Has
<1>21. CASE Restart
  <2>1. member' = member /\ \A p \in Callers : call'[p].at \notin Adding
    BY <1>21 DEF Restart, Idle, Adding
  <2>2. QED
    BY <2>1, RowsKept DEF Has
<1>22. CASE \E k \in Clusters : Create(k)
  BY <1>20, <1>22 DEF Create
<1>23. ASSUME NEW t \in TaskIds, TaskStep(t) \/ Cancel(t) PROVE RowsInv'
  BY <1>19, <1>20, <1>23, RunningRows DEF TaskStep
<1>24. CASE \E n \in Nodes : DeleteNode(n) \/ Disconnect(n) \/ Connect(n) \/ \E ok \in BOOLEAN : Work(n, ok)
  BY <1>20, <1>24, RunningRows
<1>25. ASSUME NEW q \in Callers, CallStep(q) PROVE RowsInv'
  BY <1>6, <1>7, <1>8, <1>9, <1>10, <1>11, <1>12, <1>13, <1>14, <1>15, <1>16, <1>17, <1>25 DEF CallStep
<1>26. CASE UNCHANGED vars
  BY <1>20, <1>26 DEF vars, tables
<1>27. QED
  BY <1>18, <1>21, <1>22, <1>23, <1>24, <1>25, <1>26 DEF Next

-----------------------------------------------------------------------------
(***************************************************************************)
(* No reset for a machine that is believed to run.  A reset may be left in *)
(* an agent's queue by a removal that was cancelled or cut off, and the    *)
(* machine added again: the queue is worked off in order, so the install   *)
(* that makes the member ready has the reset before it, never behind it.   *)
(***************************************************************************)
\* Scripts z that an agent has been given: no reset, none behind a script of task t, and
\* all of them from tasks made so far.
Spares(z) == \A i \in 1..Len(z) : z[i].script # "reset"
SparesAfter(z, t) == \A i, j \in 1..Len(z) : i < j /\ z[i].t = t => z[j].script # "reset"
Known(z, m) == \A i \in 1..Len(z) : z[i].t <= m

\* The scripts that a node was sent before some point,
LEMMA CutSpares ==
  ASSUME NEW z \in Jobs, NEW m \in 0..Len(z)
  PROVE  /\ Spares(z) => Spares(SubSeq(z, 1, m))
         /\ \A t \in TaskIds : SparesAfter(z, t) => SparesAfter(SubSeq(z, 1, m), t)
         /\ \A h \in Nat : Known(z, h) => Known(SubSeq(z, 1, m), h)
<1> DEFINE y == SubSeq(z, 1, m)
<1>1. Len(z) \in Nat
  BY LenProperties DEF Jobs
<1>2. Len(y) = m /\ \A x \in 1..m : y[x] = z[x] /\ x \in 1..Len(z)
  BY <1>1, QueueCut
<1> HIDE DEF y
<1>3. QED
  BY <1>1, <1>2 DEF Spares, SparesAfter, Known, y

\* those after the first,
LEMMA RestSpares ==
  ASSUME NEW z \in Jobs, z # <<>>
  PROVE  /\ Spares(z) => Spares(Tail(z))
         /\ \A t \in TaskIds : SparesAfter(z, t) => SparesAfter(Tail(z), t)
         /\ \A t \in TaskIds : SparesAfter(z, t) /\ Head(z).t = t => Spares(Tail(z))
         /\ \A h \in Nat : Known(z, h) => Known(Tail(z), h)
<1> DEFINE y == Tail(z)
<1>1. /\ Head(z) = z[1] /\ Len(z) \in Nat /\ Len(z) > 0 /\ Len(y) = Len(z) - 1
      /\ \A x \in 1..Len(y) : y[x] = z[x + 1]
  BY QueueRest
<1> HIDE DEF y
<1>2. \A x \in 1..Len(y) : x + 1 \in 1..Len(z) /\ 1 < x + 1
  BY <1>1
<1>3. Spares(z) => Spares(y)
  BY <1>1, <1>2 DEF Spares
<1>4. ASSUME NEW t \in TaskIds, SparesAfter(z, t) PROVE SparesAfter(y, t)
  <2> SUFFICES ASSUME NEW i \in 1..Len(y), NEW j \in 1..Len(y), i < j, y[i].t = t PROVE y[j].script # "reset"
    BY DEF SparesAfter
  <2>1. i + 1 < j + 1 /\ z[i + 1].t = t /\ i + 1 \in 1..Len(z) /\ j + 1 \in 1..Len(z) /\ y[j] = z[j + 1]
    BY <1>1, <1>2
  <2>2. QED
    BY <1>4, <2>1 DEF SparesAfter
<1>5. ASSUME NEW t \in TaskIds, SparesAfter(z, t), Head(z).t = t PROVE Spares(y)
  <2> SUFFICES ASSUME NEW j \in 1..Len(y) PROVE y[j].script # "reset"
    BY DEF Spares
  <2>1. 1 < j + 1 /\ z[1].t = t /\ 1 \in 1..Len(z) /\ j + 1 \in 1..Len(z) /\ y[j] = z[j + 1]
    BY <1>1, <1>2, <1>5
  <2>2. QED
    BY <1>5, <2>1 DEF SparesAfter
<1>6. \A h \in Nat : Known(z, h) => Known(y, h)
  BY <1>1, <1>2 DEF Known
<1>7. QED
  BY <1>3, <1>4, <1>5, <1>6 DEF y

\* those with one more that is no reset,
LEMMA AddSpares ==
  ASSUME NEW z \in Jobs, NEW x \in [t : TaskIds, script : {"install", "drain", "reset"}]
  PROVE  /\ Spares(z) /\ x.script # "reset" => Spares(Append(z, x))
         /\ \A t \in TaskIds : SparesAfter(z, t) /\ x.script # "reset" => SparesAfter(Append(z, x), t)
         /\ \A h \in Nat : Known(z, h) /\ x.t <= h => Known(Append(z, x), h)
<1> DEFINE y == Append(z, x)
<1>1. /\ Len(z) \in Nat /\ Len(y) = Len(z) + 1 /\ y[Len(z) + 1] = x
      /\ \A i \in 1..Len(z) : y[i] = z[i]
  BY AppendProperties, LenProperties DEF Jobs
<1> HIDE DEF y
<1>2. \A i \in 1..Len(y) : i \in 1..Len(z) \/ i = Len(z) + 1
  BY <1>1
<1>3. Spares(z) /\ x.script # "reset" => Spares(y)
  BY <1>1, <1>2 DEF Spares
<1>4. ASSUME NEW t \in TaskIds, SparesAfter(z, t), x.script # "reset" PROVE SparesAfter(y, t)
  <2> SUFFICES ASSUME NEW i \in 1..Len(y), NEW j \in 1..Len(y), i < j, y[i].t = t PROVE y[j].script # "reset"
    BY DEF SparesAfter
  <2>1. CASE j = Len(z) + 1
    BY <1>1, <1>4, <2>1
  <2>2. CASE j \in 1..Len(z)
    <3>1. i \in 1..Len(z)
      BY <1>1, <2>2
    <3>2. QED
      BY <1>1, <1>4, <2>2, <3>1 DEF SparesAfter
  <2>3. QED
    BY <1>2, <2>1, <2>2
<1>5. \A h \in Nat : Known(z, h) /\ x.t <= h => Known(y, h)
  BY <1>1, <1>2 DEF Known
<1>6. QED
  BY <1>3, <1>4, <1>5 DEF y

\* and those of tasks before a new one, spare what the whole queue does.
LEMMA UnknownSpares ==
  ASSUME NEW z \in Jobs, NEW m \in Nat, Known(z, m)
  PROVE  SparesAfter(z, m + 1) /\ Known(z, m + 1)
<1>1. Len(z) \in Nat /\ \A i \in 1..Len(z) : z[i].t \in Nat
  <2> DEFINE J == [t : TaskIds, script : {"install", "drain", "reset"}]
  <2>1. z \in Seq(J) /\ \A x \in J : x.t \in Nat
    BY DEF Jobs, TaskIds
  <2> HIDE DEF J
  <2>2. QED
    BY <2>1, ElementOfSeq, LenProperties
<1>2. QED
  BY <1>1 DEF Known, SparesAfter

Expected(does) == IF does = "install" THEN "installing" ELSE "removing"

NoPending(n) == \A t \in TaskIds : Pending(t) => task[t].n # n

\* What its own install may count on, as long as its callback is still to come.
InstallClear(t) ==
  Pending(t) /\ task[t].kind = "install" =>
    /\ res[t] = "ok" => Spares(inbox[task[t].n])
    /\ tpc[t] \in {"send", "wait"} => SparesAfter(inbox[task[t].n], t)

\* A call past its checks: what it saw of the members still holds.
ResetCall(c) ==
  /\ c.at \in Adding => FreeFor(c.k, c.n)
  /\ c.at \in {"drainer", "removing"} => Has(c.k, c.n) /\ ~Busy(c.k, c.n)
  /\ c.at = "start" => NoPending(c.n) /\ member[c.k][c.n].status = Expected(c.does)
  /\ c.at \in {"drainer", "removing", "start"} /\ c.does = "remove" /\ c.was = "ready" => Spares(inbox[c.n])
  /\ c.at = "destroy" => c.todo = {} /\ \A n \in Nodes : ~Has(c.k, n)

ResetInv ==
  /\ \A t \in TaskIds : Live(t) => task[t].kind # "destroy"
  /\ \A t \in TaskIds : Pending(t) => member[task[t].k][task[t].n].status = Expected(task[t].kind)
  /\ \A t, u \in TaskIds : Pending(t) /\ Pending(u) /\ task[t].n = task[u].n => t = u
  /\ \A t \in TaskIds : InstallClear(t)
  /\ \A n \in Nodes : Known(inbox[n], made)
  /\ \A k \in Clusters, n \in Nodes : member[k][n].status = "ready" => Spares(inbox[n])
  /\ \A q \in Callers : ResetCall(call[q])

\* A machine with a task that will still write its row has one row, and that one is busy.
LEMMA PendingRow ==
  ASSUME TypeInv, RowsInv, ResetInv, NEW t \in TaskIds, Pending(t)
  PROVE  /\ task[t].k \in Clusters /\ task[t].n \in Nodes /\ tpc[t] # "none"
         /\ Has(task[t].k, task[t].n) /\ Busy(task[t].k, task[t].n)
         /\ \A o \in Clusters : Has(o, task[t].n) => o = task[t].k
<1>1. tpc[t] # "none"
  BY DEF Pending, Live
<1>2. task[t].k \in Clusters /\ task[t].n \in Nodes
  BY <1>1, Captured
<1>3. member[task[t].k][task[t].n].status \in {"installing", "removing"}
  BY DEF ResetInv, Expected
<1>4. Has(task[t].k, task[t].n) /\ Busy(task[t].k, task[t].n)
  BY <1>3 DEF Has, Busy, NoRow
<1>5. QED
  BY <1>1, <1>2, <1>4 DEF RowsInv

\* So has no machine that may be added, or whose row says it is not busy.
LEMMA FreeOfTasks ==
  ASSUME TypeInv, RowsInv, ResetInv, NEW k \in Clusters, NEW n \in Nodes,
         FreeFor(k, n) \/ (Has(k, n) /\ ~Busy(k, n))
  PROVE  NoPending(n)
<1> SUFFICES ASSUME NEW t \in TaskIds, Pending(t), task[t].n = n PROVE FALSE
  BY DEF NoPending
<1>1. Has(task[t].k, n) /\ Busy(task[t].k, n) /\ task[t].k \in Clusters /\ \A o \in Clusters : Has(o, n) => o = task[t].k
  BY PendingRow
<1>2. CASE FreeFor(k, n)
  BY <1>1, <1>2 DEF FreeFor, Busy
<1>3. CASE Has(k, n) /\ ~Busy(k, n)
  BY <1>1, <1>3
<1>4. QED
  BY <1>2, <1>3


\* A step of one call that leaves members, tasks and queues alone.
LEMMA CallReset ==
  ASSUME ResetInv, NEW q \in Callers, UNCHANGED <<member, taskVars, inbox>>, ResetCall(call'[q]),
         \A p \in Callers : p # q => call'[p] = call[p]
  PROVE  ResetInv'
<1>1. /\ \A t \in TaskIds : (Live(t)' <=> Live(t)) /\ (Pending(t)' <=> Pending(t)) /\ (InstallClear(t)' <=> InstallClear(t))
      /\ \A n \in Nodes : NoPending(n)' <=> NoPending(n)
  BY DEF taskVars, Live, Pending, InstallClear, NoPending
<1>2. ASSUME NEW p \in Callers PROVE ResetCall(call[p])'
  <2>1. ResetCall(call'[p])
    BY DEF ResetInv
  <2>2. QED
    BY <2>1 DEF ResetCall, FreeFor, Has, Busy, NoPending, Pending, Live, taskVars
<1>3. QED
  BY <1>1, <1>2 DEF ResetInv, taskVars

\* A request that answers,
LEMMA AnswersReset ==
  ASSUME TypeInv, ResetInv, NEW q \in Callers, UNCHANGED <<member, taskVars, inbox>>, Answers(q)
  PROVE  ResetInv'
<1>1. ResetCall(call'[q])
  BY AnswersDoes DEF ResetCall, Adding
<1>2. QED
  BY <1>1, CallReset, OthersStay

\* an AddNode that goes on,
LEMMA AddingReset ==
  ASSUME TypeInv, ResetInv, NEW q \in Callers,
         CheckMembership(q) \/ DeriveEndpoint(q) \/ MarkInstalling(q) \/ FreshJoin(q) \/ IssueJoin(q)
  PROVE  ResetInv'
<1>1. UNCHANGED <<member, taskVars, inbox>>
  BY CheckMembershipDoes, DeriveEndpointDoes, MarkInstallingDoes, CredentialsDoes DEF tables, nodeVars
<1>2. CASE Answers(q)
  BY <1>1, <1>2, AnswersReset
<1>3. CASE ~Answers(q)
  <2>1. Keeps(q) /\ call'[q].at \in Adding /\ (call[q].at \in Adding \/ FreeFor(call[q].k, call[q].n))
    BY <1>3, CheckMembershipDoes, DeriveEndpointDoes, MarkInstallingDoes, CredentialsDoes DEF Adding
  <2>2. FreeFor(call[q].k, call[q].n)
    BY <2>1 DEF ResetInv, ResetCall
  <2>3. ResetCall(call'[q])
    BY <2>1, <2>2 DEF ResetCall, Keeps, Adding
  <2>4. QED
    BY <1>1, <2>3, CallReset, OthersStay
<1>4. QED
  BY <1>2, <1>3

\* a RemoveNode that goes on,
LEMMA CheckMemberReset ==
  ASSUME TypeInv, ResetInv, NEW q \in Callers, CheckMember(q) \/ PickDrainer(q)
  PROVE  ResetInv'
<1>1. UNCHANGED <<member, taskVars, inbox>>
  BY CheckMemberDoes, PickDrainerDoes DEF tables, nodeVars
<1>2. CASE Answers(q)
  BY <1>1, <1>2, AnswersReset
<1>3. CASE ~Answers(q)
  <2>1. Keeps(q) /\ call'[q].at \in {"drainer", "removing"}
        /\ \/ call[q].at = "drainer" /\ call[q].does = "remove" /\ call'[q].was = call[q].was
           \/ /\ Has(call[q].k, call[q].n) /\ ~Busy(call[q].k, call[q].n)
              /\ call[q].k \in Clusters /\ call[q].n \in Nodes
              /\ call'[q].was = member[call[q].k][call[q].n].status
    BY <1>3, CheckMemberDoes, PickDrainerDoes DEF TypeInv, Fits
  <2>2. Has(call[q].k, call[q].n) /\ ~Busy(call[q].k, call[q].n)
    BY <2>1 DEF ResetInv, ResetCall
  <2>5. call'[q].was = "ready" => Spares(inbox[call[q].n])
    BY <2>1 DEF ResetInv, ResetCall
  <2>3. ResetCall(call'[q])
    BY <2>1, <2>2, <2>5 DEF ResetCall, Keeps, Adding
  <2>4. QED
    BY <1>1, <2>3, CallReset, OthersStay
<1>4. QED
  BY <1>2, <1>3

\* a Delete that goes on,
LEMMA ListMembersReset ==
  ASSUME TypeInv, ResetInv, NEW q \in Callers, "force" \notin Events, ListMembers(q)
  PROVE  ResetInv'
<1>1. UNCHANGED <<member, taskVars, inbox>>
  BY ListMembersDoes DEF tables, nodeVars
<1>2. CASE Answers(q)
  BY <1>1, <1>2, AnswersReset
<1>3. CASE ~Answers(q)
  <2>1. call[q].does # "force"
    BY DEF TypeInv, Fits
  <2>2. /\ Keeps(q) /\ call'[q].at = "destroy" /\ call'[q].todo = {n \in Nodes : Has(call[q].k, n)}
        /\ \A n \in Nodes : ~Has(call[q].k, n)
    BY <1>3, <2>1, ListMembersDoes
  <2>3. ResetCall(call'[q])
    BY <2>2 DEF ResetCall, Keeps, Adding
  <2>4. QED
    BY <1>1, <2>3, CallReset, OthersStay
<1>4. QED
  BY <1>2, <1>3

\* and requests as they come and are hung up on.
LEMMA BeginReset ==
  ASSUME TypeInv, ResetInv, NEW q \in Callers, User(q)
  PROVE  ResetInv'
<1>1. CASE HangUp(q)
  BY <1>1, HangUpDoes, AnswersReset DEF tables, nodeVars
<1>2. ASSUME NEW k \in Clusters,
             \/ \E n \in Nodes, r \in Roles : AddNode(q, k, n, r)
             \/ \E n \in Nodes : RemoveNode(q, k, n)
             \/ \E how \in {"delete", "force"} : Delete(q, k, how)
      PROVE  ResetInv'
  <2>1. UNCHANGED <<member, taskVars, inbox>> /\ call'[q].at \in {"membership", "member", "list"}
    BY <1>2, BeginDoes DEF tables, nodeVars
  <2>2. ResetCall(call'[q])
    BY <2>1 DEF ResetCall, Adding
  <2>3. QED
    BY <1>2, <2>1, <2>2, CallReset, OthersStay
<1>3. QED
  BY <1>1, <1>2 DEF User

\* A call that writes the row of a machine without a task, tasks and queues being left alone.
LEMMA RowReset ==
  ASSUME CallsApart, TypeInv, ResetInv, NEW q \in Callers, NEW k \in Clusters, NEW n \in Nodes,
         UNCHANGED <<taskVars, inbox>>,
         call[q].does \in {"install", "remove"}, call[q].k = k, call[q].n = n,
         \A p \in Callers : p # q => call'[p] = call[p],
         \A o \in Clusters, m \in Nodes : o # k \/ m # n => member'[o][m] = member[o][m],
         NoPending(n), member'[k][n].status = "ready" => Spares(inbox[n]),
         \/ call'[q] = Idle
         \/ /\ call'[q].at = "start" /\ call'[q].k = k /\ call'[q].n = n
            /\ member'[k][n].status = Expected(call'[q].does)
            /\ call'[q].does = "remove" /\ call'[q].was = "ready" => Spares(inbox[n])
  PROVE  ResetInv'
<1>1. /\ \A t \in TaskIds : (Live(t)' <=> Live(t)) /\ (Pending(t)' <=> Pending(t)) /\ (InstallClear(t)' <=> InstallClear(t))
      /\ \A m : NoPending(m)' <=> NoPending(m)
  BY DEF taskVars, Live, Pending, InstallClear, NoPending
<1>2. ASSUME NEW p \in Callers PROVE ResetCall(call[p])'
  <2>1. CASE p = q /\ call'[q] = Idle
    BY <2>1 DEF ResetCall, Adding, Idle
  <2>4. CASE p = q /\ call'[q] # Idle
    <3>1. NoPending(call[p].n)'
      BY <1>1, <2>4 DEF NoPending
    <3>2. QED
      BY <2>4, <3>1 DEF ResetCall, Adding
  <2>2. CASE p # q
    <3>1. call'[p] = call[p] /\ ResetCall(call[p]) /\ Fits(call[p])
      BY <2>2 DEF ResetInv, TypeInv
    <3>2. call[p].at \in Adding \cup {"drainer", "removing", "start"} => call[p].does \in {"install", "remove"}
      BY <3>1 DEF Fits, Adding, Installs
    <3>3. call[p].at \in Adding \cup {"drainer", "removing", "start"} => call[p].n # n /\ call[p].n \in Nodes
      BY <2>2, <3>1, <3>2 DEF CallsApart, Fits
    <3>4. call[p].at # "idle" => call[p].k \in Clusters
      BY <3>1 DEF Fits
    <3>5. call[p].at = "destroy" => call[p].k # k
      BY <2>2, <3>1 DEF CallsApart, Fits
    <3>6. \A m \in Nodes : m # n => \A o \in Clusters : member'[o][m] = member[o][m]
      OBVIOUS
    <3>7. call[p].at \in Adding => FreeFor(call[p].k, call[p].n)'
      BY <3>1, <3>3, <3>4, <3>6 DEF ResetCall, FreeFor, Has
    <3>8. call[p].at \in {"drainer", "removing", "start"} =>
            member'[call[p].k][call[p].n] = member[call[p].k][call[p].n]
      BY <3>3, <3>4
    <3>9. call[p].at = "destroy" => \A m \in Nodes : member'[call[p].k][m] = member[call[p].k][m]
      BY <3>4, <3>5
    <3>10. NoPending(call[p].n)' <=> NoPending(call[p].n)
      BY <3>1 DEF taskVars, NoPending, Pending, Live
    <3>11. QED
      BY <3>1, <3>7, <3>8, <3>9, <3>10 DEF ResetCall, Has, Busy
  <2>3. QED
    BY <2>1, <2>2, <2>4
<1>3. ASSUME NEW t \in TaskIds, Pending(t)' PROVE member'[task'[t].k][task'[t].n].status = Expected(task'[t].kind)
  <2>1. Pending(t) /\ task' = task /\ tpc[t] # "none"
    BY <1>1, <1>3 DEF taskVars, Pending, Live
  <2>2. task[t].n # n /\ task[t].k \in Clusters /\ task[t].n \in Nodes
    BY <2>1, Captured DEF NoPending
  <2>3. QED
    BY <2>1, <2>2 DEF ResetInv
<1>4. ASSUME NEW o \in Clusters, NEW m \in Nodes, member'[o][m].status = "ready" PROVE Spares(inbox'[m])
  <2>1. CASE o = k /\ m = n
    BY <1>4, <2>1
  <2>2. CASE o # k \/ m # n
    BY <1>4, <2>2 DEF ResetInv
  <2>3. QED
    BY <2>1, <2>2
<1>5. QED
  BY <1>1, <1>2, <1>3, <1>4 DEF ResetInv, taskVars

\* The row of a machine that is added: there is no reset under way to it.
LEMMA JoinTableReset ==
  ASSUME CallsApart, TypeInv, RowsInv, ResetInv, NEW q \in Callers, JoinTable(q)
  PROVE  ResetInv'
<1>1. UNCHANGED <<taskVars, inbox>>
  BY JoinTableDoes DEF nodeVars
<1>2. CASE Answers(q) /\ member' = member
  BY <1>1, <1>2, AnswersReset
<1>3. CASE ~(Answers(q) /\ member' = member)
  <2>1. PICK g \in Clusters, m \in Nodes : g = call[q].k /\ m = call[q].n
    BY JoinTableDoes
  <2>2. /\ call[q].at = "upsert" /\ call[q].does = "install"
        /\ Keeps(q) /\ call'[q].at = "start" /\ member'[g][m].status = "installing"
        /\ \A o \in Clusters, x \in Nodes : o # g \/ x # m => member'[o][x] = member[o][x]
    BY <1>3, <2>1, JoinTableDoes
  <2>3. NoPending(m)
    <3>1. FreeFor(g, m)
      BY <2>1, <2>2 DEF ResetInv, ResetCall, Adding
    <3>2. QED
      BY <3>1, FreeOfTasks
  <2>4. QED
    BY <1>1, <2>1, <2>2, <2>3, RowReset, OthersStay DEF Keeps, Expected
<1>4. QED
  BY <1>2, <1>3

\* The row of a machine that is removed: it is not ready any more.
LEMMA MarkRemovingReset ==
  ASSUME CallsApart, TypeInv, RowsInv, ResetInv, NEW q \in Callers, MarkRemoving(q)
  PROVE  ResetInv'
<1>1. UNCHANGED <<taskVars, inbox>>
  BY MarkRemovingDoes DEF nodeVars
<1>2. PICK g \in Clusters, m \in Nodes : g = call[q].k /\ m = call[q].n
  BY MarkRemovingDoes
<1>3. call[q].at = "removing" /\ call[q].does = "remove" /\ Keeps(q) /\ call'[q].at = "start"
  BY MarkRemovingDoes
<1>4. Has(g, m) /\ ~Busy(g, m)
  BY <1>2, <1>3 DEF ResetInv, ResetCall
<1>8. call'[q].was = "ready" => Spares(inbox[m])
  BY <1>2, <1>3, MarkRemovingDoes DEF ResetInv, ResetCall
<1>5. /\ member'[g][m].status = "removing"
      /\ \A o \in Clusters, x \in Nodes : o # g \/ x # m => member'[o][x] = member[o][x]
  BY <1>2, <1>4, MarkRemovingDoes
<1>6. NoPending(m)
  BY <1>4, FreeOfTasks
<1>7. QED
  BY <1>1, <1>2, <1>3, <1>5, <1>6, <1>8, RowReset, OthersStay DEF Keeps, Expected

\* The row that gets its old status back, because there is to be no task: no reset is under way either.
LEMMA StartFailsReset ==
  ASSUME CallsApart, TypeInv, RowsInv, ResetInv, NEW q \in Callers, StartFails(q)
  PROVE  ResetInv'
<1>1. UNCHANGED <<taskVars, inbox>> /\ call[q].at = "start" /\ Answers(q) /\ call[q].does \in {"install", "remove"}
  BY StartFailsDoes DEF nodeVars
<1>2. CASE member' = member
  BY <1>1, <1>2, AnswersReset
<1>3. CASE member' # member
  <2>1. PICK g \in Clusters, m \in Nodes : g = call[q].k /\ m = call[q].n
    BY StartFailsDoes
  <2>2. NoPending(m) /\ member[g][m].status = Expected(call[q].does)
        /\ (call[q].does = "remove" /\ call[q].was = "ready" => Spares(inbox[m]))
    BY <1>1, <2>1 DEF ResetInv, ResetCall
  <2>3. Has(g, m)
    BY <2>2 DEF Has, NoRow, Expected
  <2>4. /\ member'[g][m].status = (IF call[q].does = "install" THEN "failed" ELSE call[q].was)
        /\ \A o \in Clusters, x \in Nodes : o # g \/ x # m => member'[o][x] = member[o][x]
    BY <1>3, <2>1, <2>3, StartFailsDoes
  <2>5. member'[g][m].status = "ready" => Spares(inbox[m])
    BY <1>1, <2>2, <2>4
  <2>6. QED
    BY <1>1, <2>1, <2>2, <2>4, <2>5, RowReset, OthersStay, AnswersDoes
<1>4. QED
  BY <1>2, <1>3

\* The rows of a cluster that has gone: there were none left.
LEMMA DropClusterReset ==
  ASSUME CallsApart, TypeInv, RowsInv, ResetInv, NEW q \in Callers, DropCluster(q)
  PROVE  ResetInv'
<1>1. UNCHANGED <<taskVars, inbox>> /\ Answers(q)
  BY DropClusterDoes DEF nodeVars
<1>2. PICK g \in Clusters : g = call[q].k
  BY DropClusterDoes
<1>3. \A n \in Nodes : ~Has(g, n) /\ member'[g][n] = NoRow
  BY <1>2, DropClusterDoes DEF ResetInv, ResetCall
<1>4. \A o \in Clusters, n \in Nodes : member'[o][n] = member[o][n]
  BY <1>2, <1>3, DropClusterDoes DEF Has
<1>5. /\ \A t \in TaskIds : (Live(t)' <=> Live(t)) /\ (Pending(t)' <=> Pending(t)) /\ (InstallClear(t)' <=> InstallClear(t))
  BY <1>1 DEF taskVars, Live, Pending, InstallClear
<1>6. ASSUME NEW p \in Callers PROVE ResetCall(call[p])'
  <2>1. CASE p = q
    BY <1>1, <2>1, AnswersDoes DEF ResetCall, Adding
  <2>2. CASE p # q
    <3>1. call'[p] = call[p] /\ ResetCall(call[p]) /\ Fits(call[p])
      BY <2>2, OthersStay DEF ResetInv, TypeInv
    <3>2. call[p].at \in Adding \cup {"drainer", "removing", "start", "destroy"} => call[p].k \in Clusters
      BY <3>1 DEF Fits, Adding
    <3>3. call[p].at \in Adding \cup {"drainer", "removing", "start"} => call[p].n \in Nodes
      BY <3>1 DEF Fits, Adding, Installs
    <3>4. NoPending(call[p].n)' <=> NoPending(call[p].n)
      BY <1>1, <3>1 DEF taskVars, NoPending, Pending, Live
    <3>5. QED
      BY <1>1, <1>4, <3>1, <3>2, <3>3, <3>4 DEF ResetCall, FreeFor, Has, Busy
  <2>3. QED
    BY <2>1, <2>2
<1>7. ASSUME NEW t \in TaskIds, Pending(t)' PROVE member'[task'[t].k][task'[t].n].status = Expected(task'[t].kind)
  <2>1. Pending(t) /\ task' = task /\ tpc[t] # "none"
    BY <1>1, <1>5, <1>7 DEF taskVars, Pending, Live
  <2>2. task[t].k \in Clusters /\ task[t].n \in Nodes
    BY <2>1, Captured
  <2>3. QED
    BY <1>4, <2>1, <2>2 DEF ResetInv
<1>8. QED
  BY <1>1, <1>4, <1>5, <1>6, <1>7 DEF ResetInv, taskVars


\* The new task finds its row as the call left it, its machine without a task, and no script
\* of its own in any queue.
LEMMA StartTaskReset ==
  ASSUME CallsApart, TypeInv, RowsInv, ResetInv, NEW q \in Callers, StartTask(q)
  PROVE  ResetInv'
<1>0. made \in Nat
  BY DEF TypeInv, TypeOK
<1>1. /\ UNCHANGED <<member, inbox>> /\ call[q].at = "start" /\ Answers(q)
      /\ call[q].does \in {"install", "remove"}
  BY StartTaskDoes DEF nodeVars
<1>2. PICK g \in Clusters, m \in Nodes : g = call[q].k /\ m = call[q].n
  BY StartTaskDoes
<1>3. PICK r \in TaskRec :
        /\ r.kind = call[q].does /\ r.k = g /\ r.n = m
        /\ r.kind = "install" => r.plan # <<>>
        /\ Start(r)
  BY <1>2, StartTaskDoes
<1>4. PICK u \in TaskIds : u = made'
  BY <1>3, StartFresh
<1>5. /\ u = made + 1 /\ made \in Nat /\ tpc[u] = "none"
      /\ task'[u] = r /\ tpc'[u] = (IF r.plan = <<>> THEN "finish" ELSE "send")
      /\ res'[u] = (IF r.plan = <<>> THEN "ok" ELSE "none")
      /\ \A t \in TaskIds : t # u => task'[t] = task[t] /\ tpc'[t] = tpc[t] /\ res'[t] = res[t]
  BY <1>0, <1>3, <1>4, StartFresh
<1>6. \A t \in TaskIds : t # u => (Live(t)' <=> Live(t)) /\ (Pending(t)' <=> Pending(t))
  BY <1>5 DEF Live, Pending
<1>7. NoPending(m) /\ member[g][m].status = Expected(r.kind)
  BY <1>1, <1>2, <1>3 DEF ResetInv, ResetCall
<1>8. ASSUME NEW t \in TaskIds, Live(t)' PROVE task'[t].kind # "destroy"
  BY <1>1, <1>3, <1>5, <1>6, <1>8 DEF ResetInv
<1>9. ASSUME NEW t \in TaskIds, Pending(t)' PROVE member'[task'[t].k][task'[t].n].status = Expected(task'[t].kind)
  BY <1>1, <1>3, <1>5, <1>6, <1>7, <1>9 DEF ResetInv
<1>10. ASSUME NEW t \in TaskIds, Pending(t)', t # u PROVE task'[t].n # task'[u].n
  BY <1>3, <1>5, <1>6, <1>7, <1>10 DEF NoPending
<1>11. ASSUME NEW t \in TaskIds, NEW v \in TaskIds, Pending(t)', Pending(v)', task'[t].n = task'[v].n PROVE t = v
  BY <1>5, <1>6, <1>10, <1>11 DEF ResetInv
<1>12. ASSUME NEW n \in Nodes PROVE Known(inbox'[n], made') /\ SparesAfter(inbox'[n], u)
  <2>1. inbox[n] \in Jobs /\ Known(inbox[n], made)
    BY DEF TypeInv, TypeOK, Jobs, ResetInv
  <2>2. QED
    BY <1>1, <1>4, <1>5, <2>1, UnknownSpares
<1>13. ASSUME NEW t \in TaskIds PROVE InstallClear(t)'
  <2>1. CASE t = u
    <3>1. r.kind = "install" => res'[u] # "ok"
      BY <1>3, <1>5
    <3>2. QED
      BY <1>3, <1>5, <1>12, <2>1, <3>1 DEF InstallClear
  <2>2. CASE t # u
    BY <1>1, <1>5, <1>6, <2>2 DEF ResetInv, InstallClear
  <2>3. QED
    BY <2>1, <2>2
<1>14. ASSUME NEW p \in Callers PROVE ResetCall(call[p])'
  <2>1. CASE p = q
    BY <1>1, <2>1, AnswersDoes DEF ResetCall, Adding
  <2>2. CASE p # q
    <3>1. call'[p] = call[p] /\ ResetCall(call[p]) /\ Fits(call[p])
      BY <2>2, OthersStay DEF ResetInv, TypeInv
    <3>2. call[p].at = "start" => call[p].n # m
      BY <1>1, <1>2, <2>2, <3>1 DEF CallsApart, Fits
    <3>3. ASSUME call[p].at = "start", NEW t \in TaskIds, Pending(t)' PROVE task'[t].n # call[p].n
      BY <1>3, <1>5, <1>6, <3>1, <3>2, <3>3 DEF ResetCall, NoPending
    <3>4. call[p].at = "start" => NoPending(call[p].n)'
      BY <3>1, <3>3 DEF NoPending
    <3>5. QED
      BY <1>1, <3>1, <3>4 DEF ResetCall, FreeFor, Has, Busy
  <2>3. QED
    BY <2>1, <2>2
<1>15. QED
  BY <1>1, <1>8, <1>9, <1>11, <1>12, <1>13, <1>14 DEF ResetInv

\* Delete reaches no member: without force it has refused before (CLUSTER_HAS_MEMBERS).
LEMMA DestroyOneReset ==
  ASSUME TypeInv, ResetInv, NEW q \in Callers, NEW n \in Nodes
  PROVE  ~DestroyOne(q, n)
BY DestroyOneDoes DEF ResetInv, ResetCall

\* A callback settles its own row: the only task for that machine, as it has just been.
LEMMA CallbackReset ==
  ASSUME TypeInv, RowsInv, ResetInv, NEW t \in TaskIds, tpc[t] \in {"after", "store", "settle"},
         UNCHANGED <<call, task, inbox, made>>,
         \A u \in TaskIds : u # t => tpc'[u] = tpc[u] /\ res'[u] = res[u],
         tpc'[t] \in {"store", "settle", "over"},
         \A k \in Clusters, n \in Nodes : k # task[t].k \/ n # task[t].n => member'[k][n] = member[k][n],
         ~Pending(t) => member'[task[t].k][task[t].n] = member[task[t].k][task[t].n],
         Pending(t)' => /\ Pending(t) /\ member'[task[t].k][task[t].n] = member[task[t].k][task[t].n]
                        /\ res'[t] = res[t],
         member'[task[t].k][task[t].n].status = "ready" =>
           \/ member[task[t].k][task[t].n].status = "ready"
           \/ Pending(t) /\ task[t].kind = "install" /\ res[t] = "ok"
  PROVE  ResetInv'
<1>1. PICK g \in Clusters, m \in Nodes : g = task[t].k /\ m = task[t].n
  BY Captured
<1>2. \A u \in TaskIds : (Live(u)' => Live(u)) /\ (Pending(u)' => Pending(u))
  BY DEF Live, Pending
<1>3. ASSUME NEW u \in TaskIds, Pending(u)' PROVE member'[task'[u].k][task'[u].n] = member[task[u].k][task[u].n]
  <2>1. CASE u = t
    BY <1>3, <2>1
  <2>2. CASE u # t /\ Pending(t)
    <3>1. Pending(u) /\ task[u].n # m
      BY <1>1, <1>2, <1>3, <2>2 DEF ResetInv
    <3>2. task[u].k \in Clusters /\ task[u].n \in Nodes
      BY <3>1, PendingRow
    <3>3. QED
      BY <1>1, <3>1, <3>2
  <2>3. CASE ~Pending(t)
    <3>1. \A k \in Clusters, n \in Nodes : member'[k][n] = member[k][n]
      BY <1>1, <2>3
    <3>2. task[u].k \in Clusters /\ task[u].n \in Nodes
      BY <1>2, <1>3, PendingRow
    <3>3. QED
      BY <3>1, <3>2
  <2>4. QED
    BY <2>1, <2>2, <2>3
<1>4. ASSUME NEW u \in TaskIds PROVE InstallClear(u)'
  <2>1. CASE u = t
    BY <1>2, <2>1 DEF InstallClear, ResetInv
  <2>2. CASE u # t
    BY <1>2, <2>2 DEF InstallClear, ResetInv
  <2>3. QED
    BY <2>1, <2>2
<1>5. ASSUME NEW k \in Clusters, NEW n \in Nodes, member'[k][n].status = "ready" PROVE Spares(inbox'[n])
  <2>1. CASE member[k][n].status = "ready"
    BY <2>1 DEF ResetInv
  <2>2. CASE member[k][n].status # "ready"
    <3>1. n = m /\ Pending(t) /\ task[t].kind = "install" /\ res[t] = "ok"
      BY <1>1, <1>5, <2>2
    <3>2. QED
      BY <1>1, <3>1 DEF ResetInv, InstallClear
  <2>3. QED
    BY <2>1, <2>2
<1>6. ASSUME NEW q \in Callers PROVE ResetCall(call[q])'
  <2>1. ResetCall(call[q]) /\ Fits(call[q])
    BY DEF ResetInv, TypeInv
  <2>2. CASE call[q].at \in Adding \cup {"drainer", "removing"}
    <3>1. PICK k \in Clusters, n \in Nodes : k = call[q].k /\ n = call[q].n
      BY <2>1, <2>2 DEF Fits, Adding, Installs
    <3>2. FreeFor(k, n) \/ (Has(k, n) /\ ~Busy(k, n))
      BY <2>1, <2>2, <3>1 DEF ResetCall
    <3>3. NoPending(n)
      BY <3>2, FreeOfTasks
    <3>4. \A o \in Clusters : member'[o][n] = member[o][n]
      BY <1>1, <3>3 DEF NoPending
    <3>5. QED
      BY <2>1, <2>2, <3>1, <3>4 DEF ResetCall, FreeFor, Has, Busy, Adding
  <2>3. CASE call[q].at = "start"
    <3>1. PICK k \in Clusters, n \in Nodes : k = call[q].k /\ n = call[q].n
      BY <2>1, <2>3 DEF Fits
    <3>2. NoPending(n) /\ member[k][n].status = Expected(call[q].does)
      BY <2>1, <2>3, <3>1 DEF ResetCall
    <3>3. NoPending(n)' /\ member'[k][n] = member[k][n]
      BY <1>1, <1>2, <3>2 DEF NoPending
    <3>4. NoPending(call[q].n)'
      BY <3>1, <3>3 DEF NoPending
    <3>5. QED
      BY <2>1, <2>3, <3>1, <3>2, <3>3, <3>4 DEF ResetCall, Adding
  <2>4. CASE call[q].at = "destroy"
    <3>1. PICK k \in Clusters : k = call[q].k
      BY <2>1, <2>4 DEF Fits
    <3>2. \A n \in Nodes : ~Has(k, n)
      BY <2>1, <2>4, <3>1 DEF ResetCall
    <3>3. \A n \in Nodes : member'[k][n] = member[k][n]
      <4> SUFFICES ASSUME NEW n \in Nodes, k = g, n = m PROVE member'[k][n] = member[k][n]
        BY <1>1
      <4>1. ~Pending(t)
        BY <1>1, <3>2, PendingRow
      <4>2. QED
        BY <1>1, <4>1
    <3>4. QED
      BY <2>1, <2>4, <3>1, <3>3 DEF ResetCall, Has, Adding
  <2>5. CASE call[q].at \notin Adding \cup {"drainer", "removing", "start", "destroy"}
    BY <2>5 DEF ResetCall, Adding
  <2>6. QED
    BY <2>2, <2>3, <2>4, <2>5
<1>7. QED
  BY <1>2, <1>3, <1>4, <1>5, <1>6 DEF ResetInv


\* What a callback's statement leaves in the row: what it wrote, or no row as before.
LEMMA RowWritten ==
  ASSUME TablesOK, NEW k \in Clusters, NEW n \in Nodes, NEW s \in {"ready", "failed"}, SetMemberStatus(k, n, s)
  PROVE  member'[k][n].status \in {s, "absent"}
<1>1. Has(k, n)' <=> Has(k, n)
  BY MemberStatusSet
<1>2. CASE Has(k, n)
  BY <1>2, MemberStatusSet
<1>3. CASE ~Has(k, n)
  <2>1. member'[k][n] = NoRow
    BY <1>1, <1>3 DEF Has
  <2>2. QED
    BY <2>1 DEF NoRow
<1>4. QED
  BY <1>2, <1>3

\* A finished task that takes the cluster over,
LEMMA TakeOverReset == ASSUME TypeInv, RowsInv, ResetInv, NEW t \in TaskIds, TakeOver(t) PROVE ResetInv'
<1>1. TablesOK /\ TaskVarsOK /\ tpc[t] = "after" /\ task[t].k \in Clusters /\ task[t].n \in Nodes
  BY TypedTables, TypedTasks, Captured DEF TakeOver
<1>2. /\ UNCHANGED <<call, task, inbox, made>> /\ tpc'[t] \in {"store", "settle"}
      /\ \A u \in TaskIds : u # t => tpc'[u] = tpc[u]
      /\ Pending(t)
  BY <1>1 DEF TakeOver, TaskVarsOK, nodeVars, Pending, Live
<1>3. \A k \in Clusters, n \in Nodes : k # task[t].k \/ n # task[t].n => member'[k][n] = member[k][n]
  BY CallbackRows
<1>4. CASE UNCHANGED <<member, res>>
  BY <1>1, <1>2, <1>3, <1>4, CallbackReset
<1>5. CASE SetMemberStatus(task[t].k, task[t].n, "failed") /\ res' = [res EXCEPT ![t] = "fail"]
           /\ tpc' = [tpc EXCEPT ![t] = "settle"]
  <2>5. tpc'[t] = "settle"
    BY <1>1, <1>5 DEF TaskVarsOK
  <2>1. res'[t] = "fail" /\ \A u \in TaskIds : u # t => res'[u] = res[u]
    BY <1>1, <1>5 DEF TaskVarsOK
  <2>2. member'[task[t].k][task[t].n].status # "ready"
    BY <1>1, <1>5, RowWritten
  <2>3. ~Pending(t)'
    BY <2>1, <2>5 DEF Pending
  <2>4. QED
    BY <1>1, <1>2, <1>3, <2>1, <2>2, <2>3, CallbackReset
<1>6. QED
  BY <1>4, <1>5 DEF TakeOver

\* stores what it came up with,
LEMMA StoreCredentialsReset == ASSUME TypeInv, RowsInv, ResetInv, NEW t \in TaskIds, StoreCredentials(t) PROVE ResetInv'
<1>1. /\ TaskVarsOK /\ tpc[t] = "store" /\ res[t] = "ok" /\ task[t].k \in Clusters /\ task[t].n \in Nodes
      /\ task[t].kind = "install"
  BY TypedTasks, Captured DEF StoreCredentials, TypeInv, TaskInv
<1>2. /\ UNCHANGED <<call, task, inbox, made, res, member>> /\ tpc'[t] = "settle"
      /\ \A u \in TaskIds : u # t => tpc'[u] = tpc[u]
      /\ Pending(t)
  BY <1>1 DEF StoreCredentials, TaskVarsOK, nodeVars, Pending, Live
<1>3. QED
  BY <1>1, <1>2, CallbackReset

\* sets the member's row,
LEMMA InstallDoneReset == ASSUME TypeInv, RowsInv, ResetInv, NEW t \in TaskIds, InstallDone(t) PROVE ResetInv'
<1>1. TablesOK /\ TaskVarsOK /\ tpc[t] = "after" /\ task[t].k \in Clusters /\ task[t].n \in Nodes
  BY TypedTables, TypedTasks, Captured DEF InstallDone
<1>2. /\ UNCHANGED <<call, task, inbox, made, res>> /\ \A u \in TaskIds : u # t => tpc'[u] = tpc[u]
      /\ tpc'[t] = (IF task[t].role = "first-master" THEN "settle" ELSE "over")
      /\ Pending(t) /\ task[t].kind = "install"
  BY <1>1 DEF InstallDone, TaskVarsOK, nodeVars, Pending, Live
<1>3. \A k \in Clusters, n \in Nodes : k # task[t].k \/ n # task[t].n => member'[k][n] = member[k][n]
  BY CallbackRows
<1>4. ~Pending(t)'
  BY <1>2 DEF InstallDone, Pending, Live
<1>5. member'[task[t].k][task[t].n].status = "ready" => res[t] = "ok"
  BY <1>1, RowWritten DEF InstallDone
<1>6. QED
  BY <1>1, <1>2, <1>3, <1>4, <1>5, CallbackReset

\* sets the cluster's status,
LEMMA SettleReset == ASSUME TypeInv, RowsInv, ResetInv, NEW t \in TaskIds, Settle(t) PROVE ResetInv'
<1>1. /\ TaskVarsOK /\ tpc[t] = "settle" /\ task[t].k \in Clusters /\ task[t].n \in Nodes
      /\ task[t].kind = "install"
  BY TypedTasks, Captured DEF Settle, TypeInv, TaskInv
<1>2. /\ UNCHANGED <<call, task, inbox, made, res>> /\ tpc'[t] = "over" /\ \A u \in TaskIds : u # t => tpc'[u] = tpc[u]
  BY <1>1 DEF Settle, TaskVarsOK, nodeVars
<1>3. \A k \in Clusters, n \in Nodes : k # task[t].k \/ n # task[t].n => member'[k][n] = member[k][n]
  BY CallbackRows
<1>4. ~Pending(t)'
  BY <1>2 DEF Pending, Live
<1>5. Pending(t) <=> res[t] = "ok"
  BY <1>1 DEF Pending, Live
<1>6. res[t] # "ok" => member' = member
  BY DEF Settle
<1>7. QED
  BY <1>1, <1>2, <1>3, <1>4, <1>5, <1>6, CallbackReset

\* or drops the row of a machine that left.
LEMMA RemoveDoneReset == ASSUME TypeInv, RowsInv, ResetInv, NEW t \in TaskIds, RemoveDone(t) PROVE ResetInv'
<1>1. TablesOK /\ TaskVarsOK /\ tpc[t] = "after" /\ task[t].k \in Clusters /\ task[t].n \in Nodes
  BY TypedTables, TypedTasks, Captured DEF RemoveDone
<1>2. /\ UNCHANGED <<call, task, inbox, made, res>> /\ tpc'[t] = "over" /\ \A u \in TaskIds : u # t => tpc'[u] = tpc[u]
      /\ Pending(t)
  BY <1>1 DEF RemoveDone, TaskVarsOK, nodeVars, Pending, Live
<1>3. \A k \in Clusters, n \in Nodes : k # task[t].k \/ n # task[t].n => member'[k][n] = member[k][n]
  BY CallbackRows
<1>4. ~Pending(t)'
  BY <1>2 DEF Pending, Live
<1>5. member'[task[t].k][task[t].n].status # "ready"
  <2>1. CASE SetMemberStatus(task[t].k, task[t].n, "failed")
    BY <1>1, <2>1, RowWritten
  <2>2. CASE DeleteMember(task[t].k, task[t].n)
    <3>1. PICK g \in Clusters, m \in Nodes : g = task[t].k /\ m = task[t].n
      BY <1>1
    <3>2. member'[g][m] = NoRow
      BY <1>1, <2>2, <3>1, MemberDeleted DEF Has
    <3>3. QED
      BY <3>1, <3>2 DEF NoRow
  <2>3. QED
    BY <2>1, <2>2 DEF RemoveDone
<1>6. QED
  BY <1>1, <1>2, <1>3, <1>4, <1>5, CallbackReset

\* Tasks that are sent, wait or have just ended, and the queues of their agents.
LEMMA RunningReset ==
  ASSUME TypeInv, RowsInv, ResetInv, UNCHANGED <<member, call, task, made>>,
         \A t \in TaskIds :
           \/ tpc'[t] = tpc[t] /\ res'[t] = res[t]
           \/ tpc[t] \in {"send", "wait"} /\ tpc'[t] \in {"send", "wait", "finish"}
           \/ tpc[t] = "finish" /\ tpc'[t] = (IF task[t].kind = "destroy" THEN "over" ELSE "after")
              /\ res'[t] = res[t],
         \A n \in Nodes : Known(inbox'[n], made),
         \A n \in Nodes : NoPending(n) /\ Spares(inbox[n]) => Spares(inbox'[n]),
         \A t \in TaskIds : Pending(t) /\ task[t].kind = "install" =>
           /\ res'[t] = "ok" => Spares(inbox'[task[t].n])
           /\ tpc'[t] \in {"send", "wait"} => SparesAfter(inbox'[task[t].n], t)
  PROVE  ResetInv'
<1>1. \A t \in TaskIds : (Live(t)' => Live(t)) /\ (Pending(t)' => Pending(t))
  BY DEF Live, Pending
<1>2. ASSUME NEW t \in TaskIds PROVE InstallClear(t)'
  BY <1>1 DEF InstallClear
<1>3. ASSUME NEW q \in Callers PROVE ResetCall(call[q])'
  <2>1. ResetCall(call[q]) /\ Fits(call[q])
    BY DEF ResetInv, TypeInv
  <2>2. NoPending(call[q].n) => NoPending(call[q].n)'
    BY <1>1 DEF NoPending
  <2>3. ASSUME call[q].at \in {"drainer", "removing", "start"}, call[q].does = "remove", call[q].was = "ready"
        PROVE  Spares(inbox'[call[q].n])
    <3>1. PICK k \in Clusters, n \in Nodes : k = call[q].k /\ n = call[q].n
      BY <2>1, <2>3 DEF Fits
    <3>2. NoPending(n)
      BY <2>1, <2>3, <3>1, FreeOfTasks DEF ResetCall
    <3>3. QED
      BY <2>1, <2>3, <3>1, <3>2 DEF ResetCall
  <2>4. QED
    BY <2>1, <2>2, <2>3 DEF ResetCall, FreeFor, Has, Busy
<1>4. ASSUME NEW k \in Clusters, NEW n \in Nodes, member[k][n].status = "ready" PROVE Spares(inbox'[n])
  <2>1. Has(k, n) /\ ~Busy(k, n)
    BY <1>4 DEF Has, Busy, NoRow
  <2>2. NoPending(n)
    BY <2>1, FreeOfTasks
  <2>3. QED
    BY <1>4, <2>2 DEF ResetInv
<1>5. QED
  BY <1>1, <1>2, <1>3, <1>4 DEF ResetInv


\* A node's queue holds scripts of tasks that there have been.
LEMMA TypedQueues == ASSUME TypeInv, ResetInv, NEW n \in Nodes PROVE inbox[n] \in Jobs /\ Known(inbox[n], made) /\ made \in Nat
<1>1. inbox[n] \in Jobs
  BY DEF TypeInv, TypeOK, Jobs
<1>2. made \in Nat
  BY DEF TypeInv, TypeOK
<1>3. QED
  BY <1>1, <1>2 DEF ResetInv

\* The script a task sends goes to the back of the queue.  It is a reset only when the task
\* removes that very machine, and then nothing else is about to happen to it.
LEMMA SubmitReset == ASSUME TypeInv, RowsInv, ResetInv, NEW t \in TaskIds, Submit(t) PROVE ResetInv'
<1> DEFINE j == task[t].plan[pos[t]]
           x == [t |-> t, script |-> j.script]
<1>1. TaskVarsOK /\ tpc[t] = "send" /\ TaskInv(t) /\ pos[t] \in 1..2
  BY TypedTasks DEF TypeInv, TypeOK, Submit
<1>2. task[t].plan \in Seq(Job) /\ Shape(task[t]) /\ t <= made
  BY <1>1, Captured
<1>3. pos[t] \in 1..Len(task[t].plan)
  <2>1. Len(task[t].plan) \in Nat /\ pos[t] <= Len(task[t].plan) /\ pos[t] \in Nat /\ pos[t] >= 1
    BY <1>1, <1>2, LenProperties DEF TaskInv
  <2>2. QED
    BY <2>1
<1>4. j \in Job
  BY <1>2, <1>3, ElementOfSeq
<1>5. PICK m \in Nodes : m = j.at
  BY <1>4 DEF Job
<1>6. x \in [t : TaskIds, script : {"install", "drain", "reset"}] /\ x.t = t /\ x.script = j.script
  BY <1>4 DEF Job
<1>7. j.script = "reset" => m = task[t].n /\ Pending(t) /\ task[t].kind # "install"
  <2>1. j.script = "reset" => j.at = task[t].n /\ task[t].kind # "install"
    BY <1>2, <1>3 DEF Shape
  <2>2. Live(t) /\ task[t].kind # "destroy"
    BY <1>1 DEF ResetInv, Live
  <2>3. task[t].kind \in {"install", "remove", "destroy"}
    BY <1>1, Captured DEF TaskRec
  <2>4. QED
    BY <1>1, <1>5, <2>1, <2>2, <2>3 DEF Pending
<1>8. \/ inbox' = inbox /\ tpc' = [tpc EXCEPT ![t] = "finish"] /\ res' = [res EXCEPT ![t] = "fail"]
      \/ inbox' = [inbox EXCEPT ![m] = Append(@, x)] /\ tpc' = [tpc EXCEPT ![t] = "wait"] /\ res' = res
  BY <1>5 DEF Submit, Ends
<1> HIDE DEF j, x
<1>9. UNCHANGED <<member, call, task, made>>
  BY DEF Submit, tables
<1>10. /\ tpc[t] = "send" /\ tpc'[t] \in {"wait", "finish"} /\ (res'[t] = "ok" => res[t] = "ok")
       /\ \A u \in TaskIds : u # t => tpc'[u] = tpc[u] /\ res'[u] = res[u]
  BY <1>1, <1>8 DEF TaskVarsOK
<1>11. CASE inbox' = inbox
  <2>1. \A u \in TaskIds : Pending(u) /\ task[u].kind = "install" =>
          /\ res'[u] = "ok" => Spares(inbox'[task[u].n])
          /\ tpc'[u] \in {"send", "wait"} => SparesAfter(inbox'[task[u].n], u)
    BY <1>10, <1>11 DEF ResetInv, InstallClear
  <2>2. \A n \in Nodes : Known(inbox'[n], made)
    BY <1>11 DEF ResetInv
  <2>3. QED
    BY <1>9, <1>10, <1>11, <2>1, <2>2, RunningReset
<1>12. CASE inbox' = [inbox EXCEPT ![m] = Append(@, x)]
  <2>1. inbox'[m] = Append(inbox[m], x) /\ \A n \in Nodes : n # m => inbox'[n] = inbox[n]
    BY <1>1, <1>12 DEF TaskVarsOK
  <2>2. inbox[m] \in Jobs /\ Known(inbox[m], made) /\ made \in Nat
    BY TypedQueues
  <2>3. /\ Known(inbox'[m], made)
        /\ Spares(inbox[m]) /\ x.script # "reset" => Spares(inbox'[m])
        /\ \A u \in TaskIds : SparesAfter(inbox[m], u) /\ x.script # "reset" => SparesAfter(inbox'[m], u)
    BY <1>2, <1>6, <2>1, <2>2, AddSpares
  <2>4. \A n \in Nodes : Known(inbox'[n], made)
    BY <2>1, <2>3 DEF ResetInv
  <2>5. ASSUME NEW n \in Nodes, NoPending(n), Spares(inbox[n])
        PROVE  Spares(inbox'[n])
    <3>1. CASE n # m
      BY <2>1, <2>5, <3>1
    <3>2. CASE n = m /\ x.script # "reset"
      BY <2>3, <2>5, <3>2
    <3>3. CASE n = m /\ x.script = "reset"
      BY <1>6, <1>7, <2>5, <3>3 DEF NoPending
    <3>4. QED
      BY <3>1, <3>2, <3>3
  <2>6. ASSUME NEW u \in TaskIds, Pending(u), task[u].kind = "install"
        PROVE  /\ res'[u] = "ok" => Spares(inbox'[task[u].n])
               /\ tpc'[u] \in {"send", "wait"} => SparesAfter(inbox'[task[u].n], u)
    <3>1. /\ res'[u] = "ok" => Spares(inbox[task[u].n])
          /\ tpc'[u] \in {"send", "wait"} => SparesAfter(inbox[task[u].n], u)
      BY <1>10, <2>6 DEF ResetInv, InstallClear
    <3>2. task[u].n \in Nodes
      BY <2>6, PendingRow
    <3>3. CASE task[u].n # m
      BY <2>1, <3>1, <3>2, <3>3
    <3>4. CASE task[u].n = m
      <4>1. x.script # "reset"
        BY <1>6, <1>7, <2>6, <3>4 DEF ResetInv
      <4>2. QED
        BY <2>3, <3>1, <3>4, <4>1
    <3>5. QED
      BY <3>3, <3>4
  <2>7. QED
    BY <1>9, <1>10, <2>4, <2>5, <2>6, RunningReset
<1>13. QED
  BY <1>8, <1>11, <1>12

\* Steps of tasks that leave the queues alone, and none of which makes a result "ok".
LEMMA QuietReset ==
  ASSUME TypeInv, RowsInv, ResetInv,
         \/ \E t \in TaskIds : CtxDone(t) \/ Finish(t) \/ Cancel(t)
         \/ \E n \in Nodes : Connect(n)
  PROVE  ResetInv'
<1>1. TaskVarsOK
  BY TypedTasks
<1>2. UNCHANGED <<member, call, task, made, inbox>>
  BY DEF CtxDone, Finish, Cancel, Connect, tables, taskVars, nodeVars
<1>3. \A t \in TaskIds :
        \/ tpc'[t] = tpc[t] /\ res'[t] = res[t]
        \/ tpc[t] = "wait" /\ tpc'[t] = "finish" /\ res'[t] = "cancelled"
        \/ tpc[t] = "finish" /\ tpc'[t] = (IF task[t].kind = "destroy" THEN "over" ELSE "after") /\ res'[t] = res[t]
  BY <1>1 DEF CtxDone, Finish, Cancel, Connect, Ends, taskVars, TaskVarsOK
<1>4. \A t \in TaskIds : Pending(t) /\ task[t].kind = "install" =>
        /\ res'[t] = "ok" => Spares(inbox'[task[t].n])
        /\ tpc'[t] \in {"send", "wait"} => SparesAfter(inbox'[task[t].n], t)
  BY <1>2, <1>3 DEF ResetInv, InstallClear
<1>5. \A n \in Nodes : Known(inbox'[n], made)
  BY <1>2 DEF ResetInv
<1>6. QED
  BY <1>2, <1>3, <1>4, <1>5, RunningReset

\* A stream that breaks takes the end of the queue with it.
LEMMA DisconnectReset == ASSUME TypeInv, RowsInv, ResetInv, NEW n \in Nodes, Disconnect(n) PROVE ResetInv'
<1>1. TaskVarsOK
  BY TypedTasks
<1>2. UNCHANGED <<member, call, task, made>>
  BY DEF Disconnect, tables
<1>3. PICK kept \in 0..Len(inbox[n]) : inbox' = [inbox EXCEPT ![n] = SubSeq(@, 1, kept)]
  BY DEF Disconnect
<1>4. inbox'[n] = SubSeq(inbox[n], 1, kept) /\ \A m \in Nodes : m # n => inbox'[m] = inbox[m]
  BY <1>1, <1>3 DEF TaskVarsOK
<1>5. inbox[n] \in Jobs /\ Known(inbox[n], made) /\ made \in Nat
  BY TypedQueues
<1>6. /\ Spares(inbox[n]) => Spares(inbox'[n])
      /\ \A t \in TaskIds : SparesAfter(inbox[n], t) => SparesAfter(inbox'[n], t)
      /\ Known(inbox'[n], made)
  BY <1>4, <1>5, CutSpares
<1>7. \A t \in TaskIds :
        \/ tpc'[t] = tpc[t] /\ res'[t] = res[t]
        \/ tpc[t] = "wait" /\ tpc'[t] = "finish" /\ res'[t] = "fail"
  BY <1>1 DEF Disconnect, WaitsOn, TaskVarsOK
<1>8. ASSUME NEW t \in TaskIds, Pending(t), task[t].kind = "install"
      PROVE  /\ res'[t] = "ok" => Spares(inbox'[task[t].n])
             /\ tpc'[t] \in {"send", "wait"} => SparesAfter(inbox'[task[t].n], t)
  <2>1. /\ res'[t] = "ok" => Spares(inbox[task[t].n])
        /\ tpc'[t] \in {"send", "wait"} => SparesAfter(inbox[task[t].n], t)
    BY <1>7, <1>8 DEF ResetInv, InstallClear
  <2>2. task[t].n \in Nodes
    BY <1>8, PendingRow
  <2>3. QED
    BY <1>4, <1>6, <2>1, <2>2
<1>9. \A m \in Nodes : Known(inbox'[m], made) /\ (Spares(inbox[m]) => Spares(inbox'[m]))
  BY <1>4, <1>6 DEF ResetInv
<1>10. QED
  BY <1>2, <1>7, <1>8, <1>9, RunningReset

\* The install that ends well was at the head of its agent's queue: what is left has no reset.
LEMMA WorkReset ==
  ASSUME TypeInv, RowsInv, ResetInv, NEW n \in Nodes, NEW ok \in BOOLEAN, Work(n, ok)
  PROVE  ResetInv'
<1>1. TaskVarsOK
  BY TypedTasks
<1>2. UNCHANGED <<member, call, task, made>> /\ inbox' = [inbox EXCEPT ![n] = Tail(@)] /\ inbox[n] # <<>>
  BY DEF Work, tables
<1>3. inbox'[n] = Tail(inbox[n]) /\ \A m \in Nodes : m # n => inbox'[m] = inbox[m]
  BY <1>1, <1>2 DEF TaskVarsOK
<1>4. inbox[n] \in Jobs /\ Known(inbox[n], made) /\ made \in Nat
  BY TypedQueues
<1>5. /\ Spares(inbox[n]) => Spares(inbox'[n])
      /\ \A t \in TaskIds : SparesAfter(inbox[n], t) => SparesAfter(inbox'[n], t)
      /\ \A t \in TaskIds : SparesAfter(inbox[n], t) /\ Head(inbox[n]).t = t => Spares(inbox'[n])
      /\ Known(inbox'[n], made)
  BY <1>2, <1>3, <1>4, RestSpares
<1>6. \A m \in Nodes : Known(inbox'[m], made) /\ (Spares(inbox[m]) => Spares(inbox'[m]))
  BY <1>3, <1>5 DEF ResetInv
<1>7. PICK t \in TaskIds :
        /\ t = Head(inbox[n]).t
        /\ \/ UNCHANGED <<tpc, pos, res>>
           \/ /\ WaitsOn(t, n)
              /\ \/ pos[t] < Len(task[t].plan) /\ tpc' = [tpc EXCEPT ![t] = "send"] /\ res' = res
                 \/ /\ tpc' = [tpc EXCEPT ![t] = "finish"]
                    /\ res' = [res EXCEPT ![t] = IF ok THEN "ok" ELSE "fail"]
  BY WorkDoes
<1>8. /\ \A u \in TaskIds : u # t => tpc'[u] = tpc[u] /\ res'[u] = res[u]
      /\ \/ tpc'[t] = tpc[t] /\ res'[t] = res[t]
         \/ /\ tpc[t] = "wait" /\ WaitsOn(t, n)
            /\ \/ pos[t] < Len(task[t].plan) /\ tpc'[t] = "send" /\ res'[t] = res[t]
               \/ tpc'[t] = "finish"
  BY <1>1, <1>7 DEF TaskVarsOK, WaitsOn
<1>9. ASSUME task[t].kind = "install", WaitsOn(t, n) PROVE task[t].n = n /\ ~(pos[t] < Len(task[t].plan))
  <2>1. tpc[t] = "wait" /\ TaskInv(t) /\ pos[t] \in 1..2
    BY <1>9 DEF WaitsOn, TypeInv, TypeOK
  <2>2. Shape(task[t]) /\ Len(task[t].plan) = 1 /\ task[t].plan[1] = [at |-> task[t].n, script |-> "install"]
    BY <1>9, <2>1, Captured DEF Shape
  <2>3. pos[t] = 1
    BY <2>1, <2>2 DEF TaskInv
  <2>4. QED
    BY <1>9, <2>2, <2>3 DEF WaitsOn
<1>10. ASSUME NEW u \in TaskIds, Pending(u), task[u].kind = "install"
       PROVE  /\ res'[u] = "ok" => Spares(inbox'[task[u].n])
              /\ tpc'[u] \in {"send", "wait"} => SparesAfter(inbox'[task[u].n], u)
  <2>1. task[u].n \in Nodes
    BY <1>10, PendingRow
  <2>2. CASE tpc'[u] = tpc[u] /\ res'[u] = res[u]
    <3>1. /\ res'[u] = "ok" => Spares(inbox[task[u].n])
          /\ tpc'[u] \in {"send", "wait"} => SparesAfter(inbox[task[u].n], u)
      BY <1>10, <2>2 DEF ResetInv, InstallClear
    <3>2. QED
      BY <1>3, <1>5, <2>1, <3>1
  <2>3. CASE u = t /\ tpc[t] = "wait" /\ WaitsOn(t, n) /\ tpc'[t] = "finish"
    <3>1. task[u].n = n /\ SparesAfter(inbox[n], u)
      BY <1>9, <1>10, <2>3 DEF ResetInv, InstallClear
    <3>2. QED
      BY <1>5, <1>7, <2>3, <3>1
  <2>4. QED
    BY <1>8, <1>9, <1>10, <2>2, <2>3
<1>11. QED
  BY <1>2, <1>6, <1>8, <1>10, RunningReset

\* After a restart nobody waits for anything, and no member has become ready.
LEMMA RestartReset == ASSUME TypeInv, ResetInv, Restart PROVE ResetInv'
<1>1. \A t \in TaskIds : ~Live(t)' /\ ~Pending(t)'
  BY DEF Restart, Forgotten, Live, Pending
<1>2. UNCHANGED <<member, inbox, made>>
  BY DEF Restart
<1>3. \A q \in Callers : ResetCall(call[q])'
  BY DEF Restart, Idle, ResetCall, Adding
<1>4. \A t \in TaskIds : InstallClear(t)'
  BY <1>1 DEF InstallClear
<1>5. QED
  BY <1>1, <1>2, <1>3, <1>4 DEF ResetInv

\* Steps elsewhere.
LEMMA StutterReset == ASSUME ResetInv, UNCHANGED <<member, taskVars, inbox, call>> PROVE ResetInv'
<1>1. /\ \A t \in TaskIds : (Live(t)' <=> Live(t)) /\ (Pending(t)' <=> Pending(t)) /\ (InstallClear(t)' <=> InstallClear(t))
  BY DEF taskVars, Live, Pending, InstallClear
<1>2. ASSUME NEW q \in Callers PROVE ResetCall(call[q])'
  BY DEF ResetInv, ResetCall, FreeFor, Has, Busy, NoPending, Pending, Live, taskVars
<1>3. QED
  BY <1>1, <1>2 DEF ResetInv, taskVars

\* Every step keeps it.
LEMMA StepReset ==
  ASSUME CallsApart, "force" \notin Events, TypeInv, RowsInv, ResetInv, [Next]_vars
  PROVE  ResetInv'
<1>1. ASSUME NEW q \in Callers, CallStep(q) PROVE ResetInv'
  BY <1>1, AddingReset, JoinTableReset, CheckMemberReset, MarkRemovingReset, StartTaskReset, ListMembersReset,
     StartFailsReset, DropClusterReset, DestroyOneReset DEF CallStep
<1>2. ASSUME NEW q \in Callers, User(q) PROVE ResetInv'
  BY <1>2, BeginReset
<1>3. ASSUME NEW t \in TaskIds, TaskStep(t) \/ Cancel(t) PROVE ResetInv'
  BY <1>3, SubmitReset, QuietReset, TakeOverReset, StoreCredentialsReset, InstallDoneReset, SettleReset, RemoveDoneReset DEF TaskStep
<1>4. CASE \E n \in Nodes : DeleteNode(n) \/ Disconnect(n) \/ Connect(n) \/ \E ok \in BOOLEAN : Work(n, ok)
  <2>1. CASE \E n \in Nodes : DeleteNode(n)
    BY <2>1, StutterReset DEF DeleteNode, tables
  <2>2. QED
    BY <1>4, <2>1, DisconnectReset, QuietReset, WorkReset
<1>5. CASE \E k \in Clusters : Create(k)
  BY <1>5, StutterReset DEF Create, nodeVars
<1>6. CASE UNCHANGED vars
  BY <1>6, StutterReset DEF vars, tables, nodeVars
<1>7. QED
  BY <1>1, <1>2, <1>3, <1>4, <1>5, <1>6, RestartReset DEF Next

\* No reset is on its way to a machine on which the panel believes a member runs, as long as requests
\* about the same member or the same cluster keep apart.  (Without DELETE ?force=true, which resets
\* members and forgets them in one go: the machine may be added again before its reset is sent.)
THEOREM ReadyMembersAreSpared ==
  "force" \notin Events => (Spec /\ []CallsApart => []ResetSparesReady)
<1> SUFFICES ASSUME "force" \notin Events PROVE Spec /\ []CallsApart => []ResetSparesReady
  OBVIOUS
<1>1. Init => RowsInv /\ ResetInv
  <2> SUFFICES ASSUME Init PROVE RowsInv /\ ResetInv
    OBVIOUS
  <2>1. \A t \in TaskIds : ~Live(t) /\ ~Pending(t)
    BY DEF Init, Live, Pending
  <2>2. \A n \in Nodes : Known(inbox[n], made) /\ Spares(inbox[n])
    BY DEF Init, Known, Spares
  <2>3. \A q \in Callers : ResetCall(call[q])
    BY DEF Init, Idle, ResetCall, Adding
  <2>4. RowsInv
    BY DEF Init, RowsInv, Has, Idle, Adding
  <2>5. QED
    BY <2>1, <2>2, <2>3, <2>4 DEF ResetInv, InstallClear
<1>2. CallsApart /\ TypeInv /\ RowsInv /\ ResetInv /\ [Next]_vars => RowsInv' /\ ResetInv'
  BY StepRows, StepReset
<1>3. TypeInv /\ RowsInv /\ ResetInv => ResetSparesReady
  <2> SUFFICES ASSUME TypeInv, RowsInv, ResetInv, NEW k \in Clusters, NEW n \in Nodes, NEW t \in TaskIds,
                      member[k][n].status = "ready", ResetComing(t, n)
               PROVE  FALSE
    BY DEF ResetSparesReady
  <2>1. Has(k, n) /\ ~Busy(k, n)
    BY DEF Has, Busy, NoRow
  <2>2. CASE \E i \in 1..Len(inbox[n]) : inbox[n][i] = [t |-> t, script |-> "reset"]
    BY <2>2 DEF ResetInv, Spares
  <2>3. CASE tpc[t] = "send" /\ task[t].plan[pos[t]] = [at |-> n, script |-> "reset"]
    <3>1. Live(t) /\ task[t].kind # "destroy" /\ TaskInv(t) /\ pos[t] \in 1..2
      BY <2>3 DEF ResetInv, Live, TypeInv, TypeOK
    <3>2. task[t] \in TaskRec /\ Shape(task[t]) /\ Len(task[t].plan) \in Nat /\ pos[t] <= Len(task[t].plan)
      BY <2>3, <3>1, Captured, LenProperties DEF TaskInv
    <3>3. pos[t] \in 1..Len(task[t].plan)
      BY <3>1, <3>2
    <3>4. task[t].n = n /\ task[t].kind = "remove"
      BY <2>3, <3>1, <3>2, <3>3 DEF Shape, TaskRec
    <3>5. Pending(t)
      BY <2>3, <3>1, <3>4 DEF Pending
    <3>6. QED
      BY <2>1, <3>4, <3>5, FreeOfTasks DEF NoPending
  <2>4. QED
    BY <2>2, <2>3 DEF ResetComing
<1>4. QED
  BY <1>1, <1>2, <1>3, TypeInvariant, PTL DEF Spec


=============================================================================

------------------------------- MODULE Enroll -------------------------------
(***************************************************************************)
(* How machines become nodes: the agent's main loop (agent/agent.go,       *)
(* register.go, state.go: identity file, registration, reconnection), the  *)
(* panel's registration and authentication (agenthub/register.go,          *)
(* store/nodes.go) and the deletion of a node (api_nodes.go deleteNode).   *)
(*                                                                         *)
(* A token is abstracted to whether it is still the one in its row: a      *)
(* credential is the node id it was issued for and that flag.  Hostname    *)
(* and internal IP are one address.  A stream is the agent's side of one:  *)
(* what happens on it is Hub's and AgentSession's.  An old agent sends no  *)
(* machine-id, and does when it has been upgraded; an agent that has read  *)
(* its machine's id once goes on reading it.                               *)
(***************************************************************************)
EXTENDS Naturals

CONSTANTS
  Machines,
  Names,       \* machine-ids
  MachineIds,  \* the functions from machines to machine-id, or Anon, a behaviour starts with
  Addrs,       \* hostname + internal IP
  AddrOf,      \* the addresses machines have at first
  Endpoints,   \* how many gRPC entrances the panel advertises: numbers 0 .. Endpoints-1
  Reachable,   \* the entrances that lead to the panel
  MaxId,       \* bound: node ids ever handed out
  MaxFaults,   \* bound: crashes, reinstalls, moves, timeouts, broken streams, deletions
  Anon, None

ASSUME EnrollAssumption ==
  /\ MachineIds \subseteq [Machines -> Names \cup {Anon}]
  /\ \A f \in MachineIds : \A m, n \in Machines : f[m] = f[n] /\ f[m] # Anon => m = n
  /\ AddrOf \in [Machines -> Addrs]
  /\ \A m, n \in Machines : AddrOf[m] = AddrOf[n] => m = n
  /\ Endpoints \in Nat \ {0}
  /\ Reachable \subseteq 0 .. Endpoints - 1
  /\ MaxId \in Nat \ {0} /\ MaxFaults \in Nat
  /\ None \notin Machines
  /\ None \notin [mid : Names \cup {Anon}, addr : Addrs]
  /\ None \notin [id : 1 .. MaxId, ok : BOOLEAN]
  /\ Anon \notin Names

VARIABLES
  \* the store
  rows,     \* nodes: machine_id and address of each id, None when there is no such row
  used,     \* the last id AUTOINCREMENT gave out
  members,  \* ids with a row in cluster_nodes
  given,    \* of each id, to whom its row has been given, and whether without a machine-id
  \* the panel
  conns,    \* Hub.conns
  keyed,    \* the panel was started with the bootstrap token the agents have
  dpc, did, \* deleteNode: how far it is, and the id it deletes
  \* the machines
  mid,      \* the machine-id the agent sends, Anon if it sends none
  addr,
  pc,       \* where the agent's main goroutine is
  disk,     \* agent.json: a credential, None (absent or torn)
  cred,     \* the identity in memory
  facts,    \* the address registerLoop collected, once, on entry
  stray,    \* the facts of a register request its client has given up on and the panel may yet serve
  attempt,  \* which entrance is next
  closed,   \* the panel has closed this machine's stream
  faults

store == <<rows, used, members, given>>
delete == <<dpc, did>>
machine == <<mid, addr>>
agent == <<pc, disk, cred, facts, stray, attempt, closed>>
vars == <<store, conns, keyed, delete, machine, agent, faults>>

Ids == 1 .. MaxId
Cred == [id : Ids, ok : BOOLEAN]
Facts == [mid : Names \cup {Anon}, addr : Addrs]
Registration == [of : Machines, anon : BOOLEAN]

TypeOK ==
  /\ rows \in [Ids -> Facts \cup {None}]
  /\ used \in 0 .. MaxId
  /\ members \subseteq Ids
  /\ given \in [Ids -> SUBSET Registration]
  /\ conns \in [Ids -> Machines \cup {None}]
  /\ keyed \in BOOLEAN
  /\ dpc \in {"idle", "checked", "deleted"}
  /\ did \in Ids
  /\ mid \in [Machines -> Names \cup {Anon}]
  /\ addr \in [Machines -> Addrs]
  /\ pc \in [Machines -> {"boot", "register", "await", "save", "dial", "authed", "ready", "up"}]
  /\ disk \in [Machines -> Cred \cup {None}]
  /\ cred \in [Machines -> Cred \cup {None}]
  /\ facts \in [Machines -> Addrs]
  /\ stray \in [Machines -> Facts \cup {None}]
  /\ attempt \in [Machines -> 0 .. Endpoints - 1]
  /\ closed \in [Machines -> BOOLEAN]
  /\ faults \in 0 .. MaxFaults

Init ==
  /\ rows = [i \in Ids |-> None] /\ used = 0 /\ members = {} /\ given = [i \in Ids |-> {}]
  /\ conns = [i \in Ids |-> None]
  /\ keyed = TRUE
  /\ dpc = "idle" /\ did = 1
  /\ mid \in MachineIds
  /\ addr = AddrOf
  /\ pc = [m \in Machines |-> "boot"]
  /\ disk = [m \in Machines |-> None] /\ cred = [m \in Machines |-> None]
  /\ facts = AddrOf
  /\ stray = [m \in Machines |-> None]
  /\ attempt = [m \in Machines |-> 0]
  /\ closed = [m \in Machines |-> FALSE]
  /\ faults = 0

Fault == faults < MaxFaults /\ faults' = faults + 1
GoTo(m, at) == pc' = [pc EXCEPT ![m] = at]
\* The address a machine has here and now is no other machine's.
Free(a) == \A n \in Machines : addr[n] # a

-----------------------------------------------------------------------------
(***************************************************************************)
(* Registration at the panel: RegisterNode, one transaction.               *)
(***************************************************************************)
Rows == {i \in Ids : rows[i] # None}
SameMachine(f) == {i \in Rows : f.mid # Anon /\ rows[i].mid = f.mid}
SameAddr(f) == {i \in Rows : rows[i].addr = f.addr /\ (rows[i].mid = Anon \/ f.mid = Anon)}

MatchByAddr(f) == SameAddr(f)  \* a slip: only hostname and IP
\* machine_id first, then the address; of several rows the first.
Match(f) == IF SameMachine(f) # {} THEN SameMachine(f) ELSE SameAddr(f)

\* Who holds a token of row i holds an old one from now on.
Rotated(held, i) ==
  [m \in Machines |-> IF held[m] # None /\ held[m].id = i THEN [id |-> i, ok |-> FALSE] ELSE held[m]]

First(S) == {i \in S : \A j \in S : i <= j}

NextIdReused == First(Ids \ Rows)  \* a slip: INTEGER PRIMARY KEY without AUTOINCREMENT
NextId == {used + 1}

\* The node a register request with facts f is given.
NodeFor(f) == IF Match(f) # {} THEN First(Match(f)) ELSE NextId \cap Ids

BackfilledNot(row, f) == f  \* a slip: machine_id = ?
\* What is written to a row when facts f come: an empty machine-id leaves the row's alone.
Backfilled(row, f) == [f EXCEPT !.mid = IF f.mid = Anon /\ row # None THEN row.mid ELSE f.mid]

RegisterNode(m, f, i) ==
  /\ rows' = [rows EXCEPT ![i] = Backfilled(@, f)]
  /\ used' = IF i > used THEN i ELSE used
  /\ given' = [given EXCEPT ![i] = @ \cup {[of |-> m, anon |-> f.mid = Anon]}]
  /\ UNCHANGED members

\* The facts m's request was sent with.
Sent(m) == [mid |-> mid[m], addr |-> facts[m]]

\* The handler answers a client that still waits: 200 with the new credential.
Answer(m) ==
  /\ pc[m] = "await" /\ keyed
  /\ \E i \in NodeFor(Sent(m)) :
       /\ RegisterNode(m, Sent(m), i)
       /\ cred' = [Rotated(cred, i) EXCEPT ![m] = [id |-> i, ok |-> TRUE]]
       /\ disk' = Rotated(disk, i)
  /\ GoTo(m, "save")
  /\ UNCHANGED <<conns, keyed, delete, machine, facts, stray, attempt, closed, faults>>

\* 401: registerLoop returns, the process exits and systemd starts it again.
Refuse(m) ==
  /\ pc[m] = "await" /\ ~keyed
  /\ GoTo(m, "boot")
  /\ UNCHANGED <<store, conns, keyed, delete, machine, disk, cred, facts, stray, attempt, closed, faults>>

\* The client gives up after 15 seconds; its request may be on its way still.
TimeOut(m) ==
  /\ pc[m] = "await"
  /\ Fault
  /\ stray' = [stray EXCEPT ![m] = Sent(m)]
  /\ GoTo(m, "register")
  /\ UNCHANGED <<store, conns, keyed, delete, machine, disk, cred, facts, attempt, closed>>

\* The handler serves a request whose client has left.
AnswerNobody(m) ==
  /\ stray[m] # None /\ keyed
  /\ \E i \in NodeFor(stray[m]) :
       /\ RegisterNode(m, stray[m], i)
       /\ cred' = Rotated(cred, i)
       /\ disk' = Rotated(disk, i)
  /\ stray' = [stray EXCEPT ![m] = None]
  /\ UNCHANGED <<conns, keyed, delete, machine, pc, facts, attempt, closed, faults>>

-----------------------------------------------------------------------------
(***************************************************************************)
(* The agent: Run, registerLoop, and the identity file.                    *)
(***************************************************************************)
Boot(m) ==
  /\ pc[m] = "boot"
  /\ cred' = [cred EXCEPT ![m] = disk[m]]
  /\ facts' = [facts EXCEPT ![m] = IF disk[m] = None THEN addr[m] ELSE @]
  /\ attempt' = [attempt EXCEPT ![m] = 0]
  /\ GoTo(m, IF disk[m] = None THEN "register" ELSE "dial")
  /\ UNCHANGED <<store, conns, keyed, delete, machine, disk, stray, closed, faults>>

Register(m) ==
  /\ pc[m] = "register"
  /\ GoTo(m, "await")
  /\ UNCHANGED <<store, conns, keyed, delete, machine, disk, cred, facts, stray, attempt, closed, faults>>

\* saveIdentity; a failed or torn write is logged and leaves no usable file.
Save(m, written) ==
  /\ pc[m] = "save"
  /\ IF written THEN UNCHANGED faults ELSE Fault
  /\ disk' = [disk EXCEPT ![m] = IF written THEN cred[m] ELSE None]
  /\ GoTo(m, "dial")
  /\ UNCHANGED <<store, conns, keyed, delete, machine, cred, facts, stray, attempt, closed>>

RotateNot(m) == UNCHANGED attempt  \* a slip: always the first entrance
RotateOnly(m) == attempt' = [attempt EXCEPT ![m] = @ + 1]  \* a slip: no % len(endpoints)
Rotate(m) == attempt' = [attempt EXCEPT ![m] = (@ + 1) % Endpoints]

\* runSession fails to reach the panel: back off, next entrance.
DialFails(m) ==
  /\ pc[m] = "dial"
  /\ attempt[m] \notin Reachable
  /\ Rotate(m)
  /\ UNCHANGED <<store, conns, keyed, delete, machine, pc, disk, cred, facts, stray, closed, faults>>

Valid(c) == c.ok /\ rows[c.id] # None

\* Connect: authenticate finds the token's row.
Authenticate(m) ==
  /\ pc[m] = "dial"
  /\ attempt[m] \in Reachable
  /\ Valid(cred[m])
  /\ closed' = [closed EXCEPT ![m] = FALSE]
  /\ GoTo(m, "authed")
  /\ UNCHANGED <<store, conns, keyed, delete, machine, disk, cred, facts, stray, attempt, faults>>

\* Unauthenticated: clearIdentity, and registerLoop again with fresh facts.
Unauthorized(m) ==
  /\ pc[m] = "dial"
  /\ attempt[m] \in Reachable
  /\ ~Valid(cred[m])
  /\ Rotate(m)
  /\ disk' = [disk EXCEPT ![m] = None]
  /\ cred' = [cred EXCEPT ![m] = None]
  /\ facts' = [facts EXCEPT ![m] = addr[m]]
  /\ GoTo(m, "register")
  /\ UNCHANGED <<store, conns, keyed, delete, machine, stray, closed, faults>>

\* attach: the node's current stream, whoever has it, is replaced and closed.
Attach(m) ==
  LET i == cred[m].id IN
  /\ pc[m] = "authed"
  /\ closed' = [n \in Machines |-> closed[n] \/ (n = conns[i] /\ n # m)]
  /\ conns' = [conns EXCEPT ![i] = m]
  /\ GoTo(m, "ready")
  /\ UNCHANGED <<store, keyed, delete, machine, disk, cred, facts, stray, attempt, faults>>

\* dispatch of ready: NodeOnline writes the facts of the moment; no effect without a row.
Ready(m) ==
  LET i == cred[m].id IN
  /\ pc[m] = "ready"
  /\ rows' = IF rows[i] = None THEN rows
             ELSE [rows EXCEPT ![i] = Backfilled(@, [mid |-> mid[m], addr |-> addr[m]])]
  /\ GoTo(m, "up")
  /\ UNCHANGED <<used, members, given, conns, keyed, delete, machine, disk, cred, facts, stray,
                 attempt, closed, faults>>

\* detach at the panel, as far as the table goes.
Detached(m) == [i \in Ids |-> IF conns[i] = m THEN None ELSE conns[i]]
HasStream(m) == pc[m] \in {"authed", "ready", "up"}

\* The panel closed the stream: the session ends, back off, next entrance.
StreamClosed(m) ==
  /\ HasStream(m) /\ closed[m]
  /\ Rotate(m)
  /\ conns' = Detached(m)
  /\ GoTo(m, "dial")
  /\ UNCHANGED <<store, keyed, delete, machine, disk, cred, facts, stray, closed, faults>>

StreamBreaks(m) ==
  /\ HasStream(m)
  /\ Fault
  /\ Rotate(m)
  /\ conns' = Detached(m)
  /\ GoTo(m, "dial")
  /\ UNCHANGED <<store, keyed, delete, machine, disk, cred, facts, stray, closed>>

\* The agent's process ends at any point; a request it had sent may still be served.
ProcessEnds(m) ==
  /\ conns' = Detached(m)
  /\ stray' = [stray EXCEPT ![m] = IF pc[m] = "await" THEN Sent(m) ELSE @]
  /\ GoTo(m, "boot")
  /\ UNCHANGED <<store, keyed, delete, addr, disk, cred, facts, attempt, closed>>

Crash(m) == pc[m] # "boot" /\ ProcessEnds(m) /\ Fault /\ UNCHANGED mid

\* An old agent's binary is replaced by one that sends the machine-id.
Upgrade(m, x) ==
  /\ mid[m] = Anon /\ \A n \in Machines : mid[n] # x
  /\ mid' = [mid EXCEPT ![m] = x]
  /\ ProcessEnds(m)
  /\ UNCHANGED faults

\* The machine is reinstalled: agent.json is lost.
Reinstall(m) ==
  /\ pc[m] = "boot"
  /\ disk[m] # None
  /\ Fault
  /\ disk' = [disk EXCEPT ![m] = None]
  /\ UNCHANGED <<store, conns, keyed, delete, machine, pc, cred, facts, stray, attempt, closed>>

\* Another hostname or IP.
Move(m, a) ==
  /\ Free(a)
  /\ Fault
  /\ addr' = [addr EXCEPT ![m] = a]
  /\ UNCHANGED <<store, conns, keyed, delete, mid, agent>>

-----------------------------------------------------------------------------
(***************************************************************************)
(* Operators: cluster membership, deleteNode, restarts of the panel.       *)
(***************************************************************************)

\* A membership is added or taken away; its foreign key wants the row.
JoinCluster(i) ==
  /\ rows[i] # None /\ i \notin members
  /\ Fault
  /\ members' = members \cup {i}
  /\ UNCHANGED <<rows, used, given, conns, keyed, delete, machine, agent>>

LeaveCluster(i) ==
  /\ i \in members
  /\ members' = members \ {i}
  /\ UNCHANGED <<rows, used, given, conns, keyed, delete, machine, agent, faults>>

\* deleteNode: is it in a cluster?
DeleteCheck(i) ==
  /\ dpc = "idle"
  /\ rows[i] # None
  /\ Fault
  /\ did' = i
  /\ dpc' = IF i \in members THEN "idle" ELSE "checked"
  /\ UNCHANGED <<store, conns, keyed, machine, agent>>

\* DELETE, which the foreign key of a membership added meanwhile rejects.
DeleteRow ==
  /\ dpc = "checked"
  /\ IF did \in members
       THEN dpc' = "idle" /\ UNCHANGED rows
       ELSE dpc' = "deleted" /\ rows' = [rows EXCEPT ![did] = None]
  /\ UNCHANGED <<used, members, given, conns, keyed, did, machine, agent, faults>>

\* Kick.
Kick ==
  /\ dpc = "deleted"
  /\ closed' = [m \in Machines |-> closed[m] \/ m = conns[did]]
  /\ dpc' = "idle"
  /\ UNCHANGED <<store, conns, keyed, did, machine, pc, disk, cred, facts, stray, attempt, faults>>

\* The panel restarts, perhaps with another bootstrap token: streams end, calls are lost.
PanelRestart(k) ==
  /\ Fault
  /\ keyed' = k
  /\ conns' = [i \in Ids |-> None]
  /\ closed' = [m \in Machines |-> HasStream(m) \/ closed[m]]
  /\ pc' = [m \in Machines |-> IF pc[m] = "await" THEN "register" ELSE pc[m]]
  /\ stray' = [m \in Machines |-> None]
  /\ dpc' = "idle"
  /\ UNCHANGED <<store, did, machine, disk, cred, facts, attempt>>

-----------------------------------------------------------------------------
AgentStep(m) ==
  \/ Boot(m) \/ Register(m) \/ Save(m, TRUE)
  \/ DialFails(m) \/ Authenticate(m) \/ Unauthorized(m) \/ Attach(m) \/ Ready(m) \/ StreamClosed(m)

PanelStep(m) == Answer(m) \/ Refuse(m)

Trouble(m) ==
  \/ Save(m, FALSE) \/ TimeOut(m) \/ StreamBreaks(m) \/ Crash(m) \/ Reinstall(m)
  \/ \E a \in Addrs : Move(m, a)
  \/ \E x \in Names : Upgrade(m, x)

Deletion == DeleteRow \/ Kick

Operator ==
  \/ \E i \in Ids : JoinCluster(i) \/ LeaveCluster(i) \/ DeleteCheck(i)
  \/ \E k \in BOOLEAN : PanelRestart(k)

Next ==
  \/ \E m \in Machines : AgentStep(m) \/ PanelStep(m) \/ AnswerNobody(m) \/ Trouble(m)
  \/ Deletion \/ Operator

Spec == Init /\ [][Next]_vars

\* The agents' loops, the register handler and deleteNode run.
FairSpec ==
  /\ Spec
  /\ \A m \in Machines : WF_vars(AgentStep(m)) /\ WF_vars(PanelStep(m))
  /\ WF_vars(Deletion)

-----------------------------------------------------------------------------
\* The row of id i has been given, by its address, to another machine than one that sent no
\* machine-id: the panel cannot tell such machines apart, nor them from others.
Lent(i) == \E s, t \in given[i] : s.of # t.of /\ s.anon

\* One row per machine: a machine-id is in one row only, however often its machine is
\* reinstalled, moves, is upgraded, times out while registering, or is deleted and comes back;
\* only a row lent to or from an old agent can be a second one.
OneRowPerMachine ==
  \A i, j \in Rows : rows[i].mid = rows[j].mid /\ rows[i].mid # Anon => i = j \/ Lent(i) \/ Lent(j)

\* A machine serves under its own row, unless that row is lent: no stream of it is taken for
\* another machine's, not even one that outlived its row because deleteNode missed it, and
\* once it has said it is ready its machine-id is in the row.
ServesItsOwnRow ==
  \A m \in Machines :
    LET i == cred[m].id IN
    HasStream(m) /\ i \in Rows /\ ~Lent(i) => rows[i].mid \in {mid[m], IF pc[m] = "up" THEN mid[m] ELSE Anon}

\* A cluster's member always has its row, whatever deleteNode has checked before.
MembersHaveRows == members \subseteq Rows

\* A row that has been told its machine never becomes another's while it exists and is not lent.
RowsKeepTheirMachine ==
  [][\A i \in Rows : rows[i].mid # Anon /\ rows'[i] # None /\ ~Lent(i) => rows'[i].mid = rows[i].mid]_vars

\* In the end every agent is connected, on one stream that is its node's current one: it comes
\* through rotated and revoked tokens, late registrations, lost files, dead entrances, upgrades.
\* Two agents on a lent row may push each other off it for ever.
Known(m) == mid[m] # Anon
Serving(m) == pc[m] = "up" /\ ~closed[m] /\ conns[cred[m].id] = m
AgentsGetIn ==
  <>[](keyed /\ (\A m \in Machines : Known(m)) /\ (\A i \in Rows : ~Lent(i)))
    => <>[](\A m \in Machines : Serving(m))

=============================================================================

-------------------------------- MODULE Hub --------------------------------
(***************************************************************************)
(* The panel's agent hub (internal/panel/agenthub/hub.go): one stream per  *)
(* connected agent, the table of current connections, and the two tables   *)
(* (pending requests, open sessions) that route an agent's answers back to *)
(* the goroutine that asked.  Every step below is what one goroutine does  *)
(* between two points where another may run: a section under Hub.mu, a     *)
(* channel operation, a close of conn.done, a call into the sink, or a     *)
(* write to the node's row.                                                *)
(*                                                                         *)
(* The agent is the environment: it answers any frame it was given, when   *)
(* it likes or never, and the transport may break at any time.             *)
(***************************************************************************)
EXTENDS Naturals, Sequences, FiniteSets

CONSTANTS
  Nodes,      \* node ids
  Conns,      \* streams agents will ever open, one identity per Connect call
  Reqs,       \* calls of Exec / Install, named by the requestId they draw
  Sess,       \* terminals: one OpenSession ... CloseSession each
  NodeOf,     \* node a stream authenticates as
  TargetOf,   \* node a call or a session is for
  QueueCap,   \* capacity of conn.sendCh (64 in newConn)
  Reports,    \* which fact-carrying frames agents send: "ready", "beat"
  NoConn, NoId

Ids == Reqs \cup Sess

ASSUME HubAssumption ==
  /\ NodeOf \in [Conns -> Nodes]
  /\ TargetOf \in [Ids -> Nodes]
  /\ Reqs \cap Sess = {}
  /\ QueueCap \in Nat \ {0}
  /\ Reports \subseteq {"ready", "beat"}
  /\ NoConn \notin Conns
  /\ NoId \notin Ids

VARIABLES
  \* under Hub.mu
  conns,      \* Hub.conns: the current stream of each node
  entry,      \* Hub.pending and Hub.sessions: the stream an id waits on
  \* per stream
  cpc,        \* where the goroutine of Connect is
  old,        \* attach's local: the stream it displaced
  current,    \* detach's local: was this stream still the node's current one
  owed,       \* detach's locals reqs and sess: ids still to be told "offline"
  hand,       \* the id the dispatch in progress has looked up or taken
  greeted,    \* the agent's ready frame has been dispatched
  closed,     \* conn.done is closed
  queue,      \* conn.sendCh
  wpc,        \* the writer goroutine: "run" or "exit"
  \* per call or session
  kpc,        \* where the caller's goroutine is
  kconn,      \* its local c
  kframe,     \* kind of the frame it is sending
  ret,        \* what the call returned
  answer,     \* request.done: the outcome a waiting caller will read
  outcomes,   \* history: how often finish / OnExit was called
  late,       \* history: ids whose onLog / OnData came after their outcome
  \* the agent's side of a stream
  running,    \* ids handed to the agent and not ended by it
  told,       \* ids whose cancel / session_close reached the agent
  \* the store's row of a node
  online      \* nodes.online

connVars == <<cpc, old, current, owed, hand, greeted>>
callVars == <<kpc, kconn, kframe, ret>>
sinkVars == <<answer, outcomes, late>>
agentVars == <<running, told>>
rowVars == <<online>>
vars == <<conns, entry, connVars, closed, queue, wpc, callVars, sinkVars, agentVars, rowVars>>

Frame == [id : Ids, kind : {"open", "input", "stop"}]

CpcStates == {"idle", "authed", "evict", "loop", "data", "end",
              "close", "sweep", "notify", "gone"}
KpcStates == {"idle", "register", "check", "select", "undo", "wait", "open", "done"}

TypeOK ==
  /\ conns \in [Nodes -> Conns \cup {NoConn}]
  /\ entry \in [Ids -> Conns \cup {NoConn}]
  /\ cpc \in [Conns -> CpcStates]
  /\ old \in [Conns -> Conns \cup {NoConn}]
  /\ current \in [Conns -> BOOLEAN]
  /\ owed \in [Conns -> SUBSET Ids]
  /\ hand \in [Conns -> Ids \cup {NoId}]
  /\ greeted \in [Conns -> BOOLEAN]
  /\ closed \in [Conns -> BOOLEAN]
  /\ queue \in [Conns -> Seq(Frame)]
  /\ wpc \in [Conns -> {"run", "exit"}]
  /\ kpc \in [Ids -> KpcStates]
  /\ kconn \in [Ids -> Conns \cup {NoConn}]
  /\ kframe \in [Ids -> {"open", "input", "stop"}]
  /\ ret \in [Ids -> {"none", "agent", "offline", "ctx", "closed"}]
  /\ answer \in [Ids -> {"none", "agent", "offline"}]
  /\ outcomes \in [Ids -> Nat]
  /\ late \in SUBSET Ids
  /\ running \in [Conns -> SUBSET Ids]
  /\ told \in [Conns -> SUBSET Ids]
  /\ online \in [Nodes -> BOOLEAN]

Init ==
  /\ conns = [n \in Nodes |-> NoConn]
  /\ entry = [i \in Ids |-> NoConn]
  /\ cpc = [c \in Conns |-> "idle"]
  /\ old = [c \in Conns |-> NoConn]
  /\ current = [c \in Conns |-> FALSE]
  /\ owed = [c \in Conns |-> {}]
  /\ hand = [c \in Conns |-> NoId]
  /\ greeted = [c \in Conns |-> FALSE]
  /\ closed = [c \in Conns |-> FALSE]
  /\ queue = [c \in Conns |-> <<>>]
  /\ wpc = [c \in Conns |-> "run"]
  /\ kpc = [i \in Ids |-> "idle"]
  /\ kconn = [i \in Ids |-> NoConn]
  /\ kframe = [i \in Ids |-> "open"]
  /\ ret = [i \in Ids |-> "none"]
  /\ answer = [i \in Ids |-> "none"]
  /\ outcomes = [i \in Ids |-> 0]
  /\ late = {}
  /\ running = [c \in Conns |-> {}]
  /\ told = [c \in Conns |-> {}]
  /\ online = [n \in Nodes |-> FALSE]

-----------------------------------------------------------------------------
(***************************************************************************)
(* The goroutine of Connect.                                               *)
(***************************************************************************)
GoTo(c, at) == cpc' = [cpc EXCEPT ![c] = at]
Close(c) == closed' = [closed EXCEPT ![c] = TRUE]

\* The stream belongs to a Connect call that is past attach and not yet back.
Serving(c) == cpc[c] \in {"loop", "data", "end"}

Authenticate(c) ==
  /\ cpc[c] = "idle"
  /\ GoTo(c, "authed")
  /\ UNCHANGED <<conns, entry, old, current, owed, hand, greeted, closed, queue, wpc,
                 callVars, sinkVars, agentVars, rowVars>>

Attach(c) ==
  /\ cpc[c] = "authed"
  /\ old' = [old EXCEPT ![c] = conns[NodeOf[c]]]
  /\ conns' = [conns EXCEPT ![NodeOf[c]] = c]
  /\ GoTo(c, IF conns[NodeOf[c]] = NoConn THEN "loop" ELSE "evict")
  /\ UNCHANGED <<entry, current, owed, hand, greeted, closed, queue, wpc,
                 callVars, sinkVars, agentVars, rowVars>>

\* A plausible slip: replacing the table entry and forgetting the old stream.
EvictNothing(c) ==
  /\ cpc[c] = "evict"
  /\ GoTo(c, "loop")
  /\ UNCHANGED <<conns, entry, old, current, owed, hand, greeted, closed, queue, wpc,
                 callVars, sinkVars, agentVars, rowVars>>

\* Another: telling the displaced stream's callers at once, ahead of its own goroutine.
EvictAndNotify(c) ==
  /\ cpc[c] = "evict"
  /\ Close(old[c])
  /\ GoTo(c, "loop")
  /\ entry' = [i \in Ids |-> IF entry[i] = old[c] THEN NoConn ELSE entry[i]]
  /\ outcomes' = [i \in Ids |-> IF entry[i] = old[c] THEN outcomes[i] + 1 ELSE outcomes[i]]
  /\ answer' = [i \in Ids |-> IF entry[i] = old[c] THEN "offline" ELSE answer[i]]
  /\ UNCHANGED <<conns, old, current, owed, hand, greeted, queue, wpc,
                 callVars, late, agentVars, rowVars>>

\* attach after its unlock: old.close().
Evict(c) ==
  /\ cpc[c] = "evict"
  /\ Close(old[c])
  /\ GoTo(c, "loop")
  /\ UNCHANGED <<conns, entry, old, current, owed, hand, greeted, queue, wpc,
                 callVars, sinkVars, agentVars, rowVars>>

\* UPDATE nodes SET online = 1.  (Enroll models rows that are deleted meanwhile.)
MarkOnline(n) == online' = [online EXCEPT ![n] = TRUE]

\* dispatch of ready, the first frame of a stream: NodeOnline.
RecvReady(c) ==
  /\ "ready" \in Reports
  /\ cpc[c] = "loop"
  /\ ~greeted[c]
  /\ greeted' = [greeted EXCEPT ![c] = TRUE]
  /\ MarkOnline(NodeOf[c])
  /\ UNCHANGED <<conns, entry, cpc, old, current, owed, hand, closed, queue, wpc,
                 callVars, sinkVars, agentVars>>

RecvBeatOnlyLoad(c) ==
  /\ "beat" \in Reports
  /\ cpc[c] = "loop"
  /\ greeted[c]
  /\ UNCHANGED vars

\* dispatch of heartbeat: NodeHeartbeat sets online again.
RecvBeat(c) ==
  /\ "beat" \in Reports
  /\ cpc[c] = "loop"
  /\ greeted[c]
  /\ MarkOnline(NodeOf[c])
  /\ UNCHANGED <<conns, entry, connVars, closed, queue, wpc,
                 callVars, sinkVars, agentVars>>

\* dispatch of log and session_data: look the id up under the lock ...
RecvData(c, i) ==
  /\ cpc[c] = "loop"
  /\ i \in running[c]
  /\ entry[i] # NoConn
  /\ hand' = [hand EXCEPT ![c] = i]
  /\ GoTo(c, "data")
  /\ UNCHANGED <<conns, entry, old, current, owed, greeted, closed, queue, wpc,
                 callVars, sinkVars, agentVars, rowVars>>

\* ... and call onLog / OnData outside it.
DeliverData(c) ==
  /\ cpc[c] = "data"
  /\ late' = IF outcomes[hand[c]] > 0 THEN late \cup {hand[c]} ELSE late
  /\ hand' = [hand EXCEPT ![c] = NoId]
  /\ GoTo(c, "loop")
  /\ UNCHANGED <<conns, entry, old, current, owed, greeted, closed, queue, wpc,
                 callVars, answer, outcomes, agentVars, rowVars>>

\* A plausible slip: looking the entry up (as log frames do) instead of taking it.
RecvEndLooksUp(c, i) ==
  /\ cpc[c] = "loop"
  /\ i \in running[c]
  /\ running' = [running EXCEPT ![c] = @ \ {i}]
  /\ IF entry[i] = NoConn
       THEN UNCHANGED <<hand, cpc>>
       ELSE hand' = [hand EXCEPT ![c] = i] /\ GoTo(c, "end")
  /\ UNCHANGED <<conns, entry, old, current, owed, greeted, closed, queue, wpc,
                 callVars, sinkVars, told, rowVars>>

\* dispatch of result and session_exit: take the entry under the lock; an id no longer
\* in the table (the caller gave up) is ignored.
RecvEnd(c, i) ==
  /\ cpc[c] = "loop"
  /\ i \in running[c]
  /\ running' = [running EXCEPT ![c] = @ \ {i}]
  /\ entry' = [entry EXCEPT ![i] = NoConn]
  /\ IF entry[i] = NoConn
       THEN UNCHANGED <<hand, cpc>>
       ELSE hand' = [hand EXCEPT ![c] = i] /\ GoTo(c, "end")
  /\ UNCHANGED <<conns, old, current, owed, greeted, closed, queue, wpc,
                 callVars, sinkVars, told, rowVars>>

\* request.finish (sync.Once) or SessionSink.OnExit with the outcome o.
Conclude(i, o) ==
  /\ outcomes' = [outcomes EXCEPT ![i] = @ + 1]
  /\ answer' = [answer EXCEPT ![i] = IF @ = "none" THEN o ELSE @]

DeliverEnd(c) ==
  /\ cpc[c] = "end"
  /\ Conclude(hand[c], "agent")
  /\ hand' = [hand EXCEPT ![c] = NoId]
  /\ GoTo(c, "loop")
  /\ UNCHANGED <<conns, entry, old, current, owed, greeted, closed, queue, wpc,
                 callVars, late, agentVars, rowVars>>

\* The select in Connect sees conn.done, or Recv returned an error.
LoopDone(c) ==
  /\ cpc[c] = "loop"
  /\ closed[c]
  /\ GoTo(c, "close")
  /\ UNCHANGED <<conns, entry, old, current, owed, hand, greeted, closed, queue, wpc,
                 callVars, sinkVars, agentVars, rowVars>>

\* A slip: leaving Connect's loop without the deferred detach.
LoopErrorReturns(c) ==
  /\ cpc[c] = "loop"
  /\ GoTo(c, "returned")
  /\ UNCHANGED <<conns, entry, old, current, owed, hand, greeted, closed, queue, wpc,
                 callVars, sinkVars, agentVars, rowVars>>

LoopError(c) ==
  /\ cpc[c] = "loop"
  /\ GoTo(c, "close")
  /\ UNCHANGED <<conns, entry, old, current, owed, hand, greeted, closed, queue, wpc,
                 callVars, sinkVars, agentVars, rowVars>>

\* A slip: sweeping while send still takes frames for the stream.
DetachKeepsOpen(c) ==
  /\ cpc[c] = "close"
  /\ GoTo(c, "sweep")
  /\ UNCHANGED <<conns, entry, old, current, owed, hand, greeted, closed, queue, wpc,
                 callVars, sinkVars, agentVars, rowVars>>

\* First statement of detach.
DetachClose(c) ==
  /\ cpc[c] = "close"
  /\ Close(c)
  /\ GoTo(c, "sweep")
  /\ UNCHANGED <<conns, entry, old, current, owed, hand, greeted, queue, wpc,
                 callVars, sinkVars, agentVars, rowVars>>

\* Slips: sweeping one of the two tables, or sweeping only the current stream's.
WaitsOnCallsOnly(c) == {i \in Reqs : entry[i] = c}
WaitsOnIfCurrent(c) == {i \in Ids : entry[i] = c /\ conns[NodeOf[c]] = c}

WaitsOn(c) == {i \in Ids : entry[i] = c}

\* The locked section of detach: leave the table if still current, and collect every
\* call and session of this stream.
DetachSweep(c) ==
  /\ cpc[c] = "sweep"
  /\ current' = [current EXCEPT ![c] = conns[NodeOf[c]] = c]
  /\ conns' = [conns EXCEPT ![NodeOf[c]] = IF @ = c THEN NoConn ELSE @]
  /\ owed' = [owed EXCEPT ![c] = WaitsOn(c)]
  /\ entry' = [i \in Ids |-> IF i \in WaitsOn(c) THEN NoConn ELSE entry[i]]
  /\ GoTo(c, "notify")
  /\ UNCHANGED <<old, hand, greeted, closed, queue, wpc, callVars, sinkVars, agentVars, rowVars>>

DetachNotify(c, i) ==
  /\ cpc[c] = "notify"
  /\ i \in owed[c]
  /\ owed' = [owed EXCEPT ![c] = @ \ {i}]
  /\ Conclude(i, "offline")
  /\ UNCHANGED <<conns, entry, cpc, old, current, hand, greeted, closed, queue, wpc,
                 callVars, late, agentVars, rowVars>>

\* Last statement of detach: NodeOffline, if this stream was still the current one.
DetachOffline(c) ==
  /\ cpc[c] = "notify"
  /\ owed[c] = {}
  /\ online' = [online EXCEPT ![NodeOf[c]] = @ /\ ~current[c]]
  /\ GoTo(c, "gone")
  /\ UNCHANGED <<conns, entry, old, current, owed, hand, greeted, closed, queue, wpc,
                 callVars, sinkVars, agentVars>>

-----------------------------------------------------------------------------
(***************************************************************************)
(* writeLoop: the only goroutine that calls stream.Send.                   *)
(***************************************************************************)
WriterRuns(c) == wpc[c] = "run" /\ cpc[c] \notin {"idle", "authed", "evict"}

WriterSend(c) ==
  /\ WriterRuns(c)
  /\ cpc[c] # "gone"
  /\ queue[c] # <<>>
  /\ queue' = [queue EXCEPT ![c] = Tail(@)]
  /\ LET f == Head(queue[c]) IN
       /\ running' = [running EXCEPT ![c] = IF f.kind = "open" THEN @ \cup {f.id} ELSE @]
       /\ told' = [told EXCEPT ![c] = IF f.kind = "stop" THEN @ \cup {f.id} ELSE @]
  /\ UNCHANGED <<conns, entry, connVars, closed, wpc, callVars, sinkVars, rowVars>>

WriterFail(c) ==
  /\ WriterRuns(c)
  /\ queue[c] # <<>>
  /\ queue' = [queue EXCEPT ![c] = Tail(@)]
  /\ Close(c)
  /\ wpc' = [wpc EXCEPT ![c] = "exit"]
  /\ UNCHANGED <<conns, entry, connVars, callVars, sinkVars, agentVars, rowVars>>

WriterDone(c) ==
  /\ WriterRuns(c)
  /\ closed[c]
  /\ wpc' = [wpc EXCEPT ![c] = "exit"]
  /\ UNCHANGED <<conns, entry, connVars, closed, queue, callVars, sinkVars,
                 agentVars, rowVars>>

-----------------------------------------------------------------------------
(***************************************************************************)
(* A caller of Exec / Install (request) or of OpenSession.                 *)
(***************************************************************************)
Step(i, at) == kpc' = [kpc EXCEPT ![i] = at]
Returns(i, what) == ret' = [ret EXCEPT ![i] = what]

\* h.conn(nodeID) under the read lock.
Lookup(i) ==
  /\ kpc[i] = "idle"
  /\ kconn' = [kconn EXCEPT ![i] = conns[TargetOf[i]]]
  /\ IF conns[TargetOf[i]] = NoConn
       THEN Step(i, "done") /\ Returns(i, "offline")
       ELSE Step(i, "register") /\ UNCHANGED ret
  /\ UNCHANGED <<conns, entry, connVars, closed, queue, wpc, kframe, sinkVars,
                 agentVars, rowVars>>

\* Register first, send afterwards (hub.go:299).
Register(i) ==
  /\ kpc[i] = "register"
  /\ entry' = [entry EXCEPT ![i] = kconn[i]]
  /\ kframe' = [kframe EXCEPT ![i] = "open"]
  /\ Step(i, "check")
  /\ UNCHANGED <<conns, connVars, closed, queue, wpc, kconn, ret, sinkVars,
                 agentVars, rowVars>>

\* Where the caller goes once conn.send has returned ok.
AfterSend(i, ok) ==
  IF kframe[i] = "stop" THEN "done"
  ELSE IF kframe[i] = "input" THEN "open"
  ELSE IF ~ok THEN "undo"
  ELSE IF i \in Reqs THEN "wait" ELSE "open"

\* conn.send, first select: is the stream already closed?
SendCheck(i) ==
  /\ kpc[i] = "check"
  /\ Step(i, IF closed[kconn[i]] THEN AfterSend(i, FALSE) ELSE "select")
  /\ UNCHANGED <<conns, entry, connVars, closed, queue, wpc, kconn, kframe, ret,
                 sinkVars, agentVars, rowVars>>

\* conn.send, second select: room in the queue, conn.done, or ten seconds without either.
SendEnqueue(i) ==
  /\ kpc[i] = "select"
  /\ Len(queue[kconn[i]]) < QueueCap
  /\ queue' = [queue EXCEPT ![kconn[i]] = Append(@, [id |-> i, kind |-> kframe[i]])]
  /\ Step(i, AfterSend(i, TRUE))
  /\ UNCHANGED <<conns, entry, connVars, closed, wpc, kconn, kframe, ret,
                 sinkVars, agentVars, rowVars>>

SendClosed(i) ==
  /\ kpc[i] = "select"
  /\ closed[kconn[i]]
  /\ Step(i, AfterSend(i, FALSE))
  /\ UNCHANGED <<conns, entry, connVars, closed, queue, wpc, kconn, kframe, ret,
                 sinkVars, agentVars, rowVars>>

SendTimeout(i) ==
  /\ kpc[i] = "select"
  /\ Len(queue[kconn[i]]) = QueueCap
  /\ Close(kconn[i])
  /\ Step(i, AfterSend(i, FALSE))
  /\ UNCHANGED <<conns, entry, connVars, queue, wpc, kconn, kframe, ret,
                 sinkVars, agentVars, rowVars>>

\* send returned false: takeRequest / takeSession, then ErrNodeOffline.
Undo(i) ==
  /\ kpc[i] = "undo"
  /\ entry' = [entry EXCEPT ![i] = NoConn]
  /\ Step(i, "done")
  /\ Returns(i, "offline")
  /\ UNCHANGED <<conns, connVars, closed, queue, wpc, kconn, kframe, sinkVars,
                 agentVars, rowVars>>

\* request's select: the outcome is there.
Return(i) ==
  /\ kpc[i] = "wait"
  /\ answer[i] # "none"
  /\ Step(i, "done")
  /\ Returns(i, answer[i])
  /\ UNCHANGED <<conns, entry, connVars, closed, queue, wpc, kconn, kframe, sinkVars,
                 agentVars, rowVars>>

GiveUpSilently(i, what) ==  \* a slip: the agent is not told
  /\ entry' = [entry EXCEPT ![i] = NoConn]
  /\ Step(i, "done")
  /\ Returns(i, what)
  /\ UNCHANGED <<conns, connVars, closed, queue, wpc, kconn, kframe, sinkVars, agentVars, rowVars>>

\* Take the entry back; if it was still there, tell the agent to stop.
GiveUp(i, what) ==
  /\ entry' = [entry EXCEPT ![i] = NoConn]
  /\ IF entry[i] # NoConn
       THEN Step(i, "check") /\ kframe' = [kframe EXCEPT ![i] = "stop"]
       ELSE Step(i, "done") /\ UNCHANGED kframe
  /\ Returns(i, what)
  /\ UNCHANGED <<conns, connVars, closed, queue, wpc, kconn, sinkVars, agentVars, rowVars>>

\* request's select: ctx is done (task cancelled, HTTP caller gone).
CtxDone(i) == i \in Reqs /\ kpc[i] = "wait" /\ GiveUp(i, "ctx")

\* SessionStdin / SessionResize while the session is in the table.
Input(s) ==
  /\ s \in Sess
  /\ kpc[s] = "open"
  /\ entry[s] # NoConn
  /\ kframe' = [kframe EXCEPT ![s] = "input"]
  /\ Step(s, "check")
  /\ UNCHANGED <<conns, entry, connVars, closed, queue, wpc, kconn, ret, sinkVars,
                 agentVars, rowVars>>

\* CloseSession: the browser left, the sink was told of the exit, or stdin found no session.
CloseSession(s) == s \in Sess /\ kpc[s] = "open" /\ GiveUp(s, "closed")

-----------------------------------------------------------------------------
\* Kick: close a node's stream at an operator's wish.  The stream is looked up under the
\* lock and closed outside it, so it may have been displaced or swept in between.
Kick(c) ==
  /\ cpc[c] \notin {"idle", "authed"}
  /\ ~closed[c]
  /\ Close(c)
  /\ UNCHANGED <<conns, entry, connVars, queue, wpc, callVars, sinkVars, agentVars, rowVars>>

-----------------------------------------------------------------------------
\* What Connect's goroutine does of its own accord once it may.
ConnStep(c) ==
  \/ Attach(c) \/ Evict(c)
  \/ DeliverData(c) \/ DeliverEnd(c)
  \/ DetachClose(c) \/ DetachSweep(c) \/ DetachOffline(c)
  \/ \E i \in Ids : DetachNotify(c, i)

\* What the agent, or the network, does to a stream.
Agent(c) ==
  \/ Authenticate(c) \/ RecvReady(c) \/ RecvBeat(c) \/ LoopError(c)
  \/ \E i \in Ids : RecvData(c, i) \/ RecvEnd(c, i)

Writer(c) == WriterSend(c) \/ WriterFail(c) \/ WriterDone(c)

CallerStep(i) ==
  \/ Register(i) \/ Undo(i) \/ Return(i)
  \/ SendCheck(i) \/ SendEnqueue(i) \/ SendClosed(i) \/ SendTimeout(i)

User(i) == Lookup(i) \/ CtxDone(i) \/ Input(i) \/ CloseSession(i)

Next ==
  \/ \E c \in Conns : ConnStep(c) \/ Agent(c) \/ LoopDone(c) \/ Writer(c) \/ Kick(c)
  \/ \E i \in Ids : CallerStep(i) \/ User(i)

Spec == Init /\ [][Next]_vars

\* Goroutines that can run do run.  Go's select picks among ready cases at random, so a
\* loop that always also has a frame to receive still sees conn.done in the end (SF).
\* Nothing is assumed of agents, of the transport, or of users.
Fairness ==
  /\ \A c \in Conns : WF_vars(ConnStep(c)) /\ SF_vars(LoopDone(c))
  /\ \A i \in Ids : WF_vars(CallerStep(i))
  \* OnExit cancels the terminal's context, its read loop ends and closes the session.
  /\ \A s \in Sess : WF_vars(outcomes[s] > 0 /\ CloseSession(s))

FairSpec == Spec /\ Fairness

-----------------------------------------------------------------------------
(***************************************************************************)
(* What the hub promises its callers.                                      *)
(***************************************************************************)

\* Exec and Install block "to the final state" (hub.go:277), an open terminal until OnExit:
\* once the stream a caller waits on has been torn down, it has its outcome.  A call
\* registered, or a frame queued, while detach runs must not slip between its close and its
\* sweep.
NoAbandonedCaller ==
  \A i \in Ids : kpc[i] \in {"wait", "open"} /\ cpc[kconn[i]] = "gone" => outcomes[i] > 0

\* The tables do not leak: an id is in them only while its caller is still at work, and an
\* entry for a stream that is gone is one its caller is about to take back.
NoLeakedEntry ==
  \A i \in Ids : entry[i] # NoConn =>
    /\ kpc[i] \notin {"idle", "register", "done"}
    /\ cpc[entry[i]] = "gone" => kpc[i] \in {"check", "select", "undo"}

\* finish / OnExit is called at most once per id, whichever of a result frame, a detach, a
\* cancel and a failed send come together.
AtMostOneOutcome == \A i \in Ids : outcomes[i] <= 1

\* No output line or terminal byte follows the outcome of its id.
NoOutputAfterOutcome == late = {}

\* A call that was cancelled, or a terminal that was closed, does not run on unnoticed: the
\* agent's end was already taken, or detach holds it, or the stream is closed (the agent
\* stops sessions then), or the stop frame is queued or delivered.
StopIsNeverLost ==
  \A i \in Ids : kpc[i] = "done" /\ ret[i] \in {"ctx", "closed"} =>
    \/ outcomes[i] > 0
    \/ \E c \in Conns : i \in owed[c] \/ hand[c] = i
    \/ closed[kconn[i]]
    \/ i \in told[kconn[i]]
    \/ \E f \in 1..Len(queue[kconn[i]]) : queue[kconn[i]][f] = [id |-> i, kind |-> "stop"]

\* Of two streams of a node only one stays: a stream that serves and is not the node's
\* current one is closed, or its successor is just about to close it.
OneStreamPerNode ==
  \A c \in Conns : Serving(c) /\ conns[NodeOf[c]] # c =>
    closed[c] \/ \E d \in Conns : old[d] = c /\ cpc[d] = "evict"

\* A waiting call whose stream is closed returns.
HungUpCallReturns ==
  \A r \in Reqs : kpc[r] = "wait" /\ closed[kconn[r]] ~> kpc[r] = "done"

\* A terminal whose stream is closed ends.
HungUpSessionEnds ==
  \A s \in Sess : kpc[s] = "open" /\ closed[kconn[s]] ~> kpc[s] = "done"

\* A node whose stream stays up is in the end shown online for good, provided agents greet
\* and their heartbeat ticker keeps firing: a late NodeOffline of an earlier stream is undone
\* by the next heartbeat.
AgentsReport == SF_vars(\E c \in Conns : RecvReady(c) \/ RecvBeat(c))
Stays(c) == conns[NodeOf[c]] = c /\ Serving(c)
ConnectedIsShownOnline ==
  AgentsReport => \A c \in Conns : <>[]Stays(c) => <>[]online[NodeOf[c]]

=============================================================================

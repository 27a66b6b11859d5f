----------------------------- MODULE HubProofs -----------------------------
(***************************************************************************)
(* Proofs about Hub, for any number of nodes, streams, calls and sessions. *)
(***************************************************************************)
EXTENDS Hub, TLAPS, SequenceTheorems

-----------------------------------------------------------------------------
(***************************************************************************)
(* The inductive invariant.  A stream is closed before it is swept, and an *)
(* id is in exactly one place from the moment its send was accepted until  *)
(* its outcome: in the table for a stream not yet swept, in the hands of   *)
(* the dispatch that took it, or in detach's list.                         *)
(***************************************************************************)

\* The dispatch in progress on stream c has taken id i.
Holds(c, i) == cpc[c] = "end" /\ hand[c] = i

\* The current stream of a node authenticated as that node and has not been swept.
TableInv(n) ==
  conns[n] # NoConn =>
    /\ NodeOf[conns[n]] = n
    /\ cpc[conns[n]] \in {"evict", "loop", "data", "end", "close", "sweep"}

StreamInv(c) ==
  /\ cpc[c] \in {"sweep", "notify"} => closed[c]
  /\ owed[c] # {} => cpc[c] = "notify"
  /\ \A i \in owed[c] : kconn[i] = c /\ outcomes[i] = 0 /\ entry[i] = NoConn
  /\ cpc[c] = "end" => /\ hand[c] \in Ids
                       /\ kconn[hand[c]] = c
                       /\ outcomes[hand[c]] = 0
                       /\ entry[hand[c]] = NoConn
  /\ cpc[c] = "data" => /\ hand[c] \in Ids
                        /\ kconn[hand[c]] = c
                        /\ outcomes[hand[c]] = 0
  /\ \A i \in running[c] : kconn[i] = c
  /\ \A k \in 1..Len(queue[c]) : kconn[queue[c][k].id] = c

\* The caller's send of its opening frame was accepted, or may still be.
Committed(i) ==
  \/ kpc[i] \in {"wait", "open"}
  \/ kpc[i] = "select" /\ kframe[i] \in {"open", "input"}
  \/ kpc[i] = "check" /\ kframe[i] = "input"

Settled(i) ==
  \/ outcomes[i] > 0
  \/ i \in owed[kconn[i]]
  \/ Holds(kconn[i], i)

Tracked(i) == entry[i] = kconn[i] /\ cpc[kconn[i]] \notin {"notify", "gone"}

CallInv(i) ==
  /\ kpc[i] = "idle" => kconn[i] = NoConn
  /\ kpc[i] \notin {"idle", "done"} => kconn[i] # NoConn
  /\ kpc[i] \in {"idle", "register"} => outcomes[i] = 0 /\ entry[i] = NoConn
                                        /\ \A c \in Conns : i \notin owed[c] /\ ~Holds(c, i)
  /\ kconn[i] # NoConn =>
       /\ cpc[kconn[i]] \notin {"idle", "authed"}
       /\ cpc[kconn[i]] = "gone" => closed[kconn[i]]
  /\ entry[i] # NoConn =>
       /\ entry[i] = kconn[i]
       /\ outcomes[i] = 0
       /\ kpc[i] \in {"check", "select", "undo", "wait", "open"}
       /\ kpc[i] \in {"check", "select"} => kframe[i] \in {"open", "input"}
  /\ kpc[i] = "check" /\ kframe[i] = "open" => entry[i] = kconn[i] \/ Settled(i)
  /\ Committed(i) => Tracked(i) \/ Settled(i)
  /\ outcomes[i] \in {0, 1}
  /\ outcomes[i] = 0 <=> answer[i] = "none"
  /\ kpc[i] = "wait" => i \in Reqs

\* A stream that was displaced is closed, or its successor is about to close it.
DisplacedInv(c) ==
  cpc[c] \in {"evict", "loop", "data", "end"} /\ conns[NodeOf[c]] # c =>
    closed[c] \/ \E d \in Conns : old[d] = c /\ cpc[d] = "evict"

HubInv ==
  /\ TypeOK
  /\ \A n \in Nodes : TableInv(n)
  /\ \A c \in Conns : StreamInv(c) /\ DisplacedInv(c)
  /\ \A i \in Ids : CallInv(i)
  /\ late = {}

\* The typing facts StreamInv depends on.
StreamTypes ==
  /\ cpc \in [Conns -> CpcStates] /\ hand \in [Conns -> Ids \cup {NoId}]
  /\ owed \in [Conns -> SUBSET Ids] /\ running \in [Conns -> SUBSET Ids]
  /\ queue \in [Conns -> Seq(Frame)] /\ closed \in [Conns -> BOOLEAN]
  /\ kconn \in [Ids -> Conns \cup {NoConn}] /\ entry \in [Ids -> Conns \cup {NoConn}]
  /\ outcomes \in [Ids -> Nat]

-----------------------------------------------------------------------------
\* Elements of a stream's send queue are frames.
LEMMA QueueElement == ASSUME NEW q \in Seq(Frame), NEW k \in 1..Len(q)
  PROVE  q[k] \in Frame
BY ElementOfSeq

\* What taking the head off a send queue leaves.
LEMMA QueueTail == ASSUME NEW q \in Seq(Frame), q # <<>>
  PROVE  /\ Head(q) \in Frame /\ Head(q) = q[1] /\ Len(q) \in Nat /\ Len(q) > 0
         /\ Tail(q) \in Seq(Frame)
         /\ Len(Tail(q)) = Len(q) - 1
         /\ \A k \in 1..Len(Tail(q)) : Tail(q)[k] = q[k + 1]
<1>1. Len(q) \in Nat /\ Len(q) > 0 /\ Head(q) = q[1]
  BY EmptySeq, LenProperties
<1>2. QED
  BY <1>1, HeadTailProperties

\* All frames of a send queue, the head included, are for ids that wait on its stream.
LEMMA TailStaysOwned == ASSUME StreamTypes, NEW c \in Conns, queue[c] # <<>>, StreamInv(c)
  PROVE  /\ kconn[Head(queue[c]).id] = c
         /\ \A k \in 1..Len(Tail(queue[c])) : kconn[Tail(queue[c])[k].id] = c
<1>1. queue[c] \in Seq(Frame)
  BY DEF StreamTypes
<1>2. /\ Head(queue[c]) = queue[c][1] /\ Len(queue[c]) \in Nat /\ Len(queue[c]) > 0
      /\ Len(Tail(queue[c])) = Len(queue[c]) - 1
      /\ \A k \in 1..Len(Tail(queue[c])) : Tail(queue[c])[k] = queue[c][k + 1]
  BY <1>1, QueueTail
<1>3. \A k \in 1..Len(queue[c]) : kconn[queue[c][k].id] = c
  BY DEF StreamInv
<1>4. \A k \in 1..Len(Tail(queue[c])) : k + 1 \in 1..Len(queue[c])
  BY <1>2
<1>5. QED
  BY <1>2, <1>3, <1>4

\* What queueing one more frame leaves.
LEMMA QueueAppend == ASSUME NEW q \in Seq(Frame), NEW f \in Frame
  PROVE  /\ Append(q, f) \in Seq(Frame) /\ Len(q) \in Nat
         /\ Len(Append(q, f)) = Len(q) + 1
         /\ \A k \in 1..Len(q) : Append(q, f)[k] = q[k]
         /\ Append(q, f)[Len(q) + 1] = f
BY AppendProperties, LenProperties

(* The assumptions on the constants, and the notation of Hub, are used throughout. *)
USE HubAssumption DEF Frame, CpcStates, KpcStates, connVars, callVars, sinkVars, agentVars, rowVars,
    GoTo, Close, Step, Returns, AfterSend, Conclude, WaitsOn, WriterRuns, MarkOnline, GiveUp

-----------------------------------------------------------------------------
(***************************************************************************)
(* One lemma per action: it preserves HubInv.                              *)
(***************************************************************************)

\* authenticate: a stream not yet in any table only moves on, or is refused.
LEMMA AuthenticateInv == ASSUME HubInv, NEW c \in Conns, Authenticate(c) PROVE HubInv'
<1>1. TypeOK'
  BY DEF HubInv, TypeOK, Authenticate
<1>2. ASSUME NEW m \in Nodes PROVE TableInv(m)'
  BY DEF HubInv, TypeOK, TableInv, Authenticate
<1>3. ASSUME NEW d \in Conns PROVE StreamInv(d)'
  <2>1. StreamTypes /\ \A e \in Conns : StreamInv(e)
    BY DEF HubInv, TypeOK, StreamTypes
  <2>2. QED
    BY <2>1 DEF StreamTypes, StreamInv, Authenticate
<1>4. ASSUME NEW d \in Conns PROVE DisplacedInv(d)'
  BY DEF HubInv, TypeOK, TableInv, StreamInv, DisplacedInv, Authenticate
<1>5. ASSUME NEW j \in Ids PROVE CallInv(j)'
  BY DEF HubInv, TypeOK, TableInv, StreamInv, CallInv, Committed, Tracked, Settled, Holds, Authenticate
<1>6. late' = {}
  BY DEF HubInv, StreamInv, Authenticate
<1>7. QED
  BY <1>1, <1>2, <1>3, <1>4, <1>5, <1>6 DEF HubInv

\* attach: the displaced stream gets a successor that is about to close it.
LEMMA AttachInv == ASSUME HubInv, NEW c \in Conns, Attach(c) PROVE HubInv'
<1>1. TypeOK'
  BY DEF HubInv, TypeOK, Attach
<1>2. ASSUME NEW m \in Nodes PROVE TableInv(m)'
  BY DEF HubInv, TypeOK, TableInv, Attach
<1>3. ASSUME NEW d \in Conns PROVE StreamInv(d)'
  <2>1. StreamTypes /\ \A e \in Conns : StreamInv(e)
    BY DEF HubInv, TypeOK, StreamTypes
  <2>2. QED
    BY <2>1 DEF StreamTypes, StreamInv, Attach
<1>4. ASSUME NEW d \in Conns PROVE DisplacedInv(d)'
  BY DEF HubInv, TypeOK, TableInv, StreamInv, DisplacedInv, Attach
<1>5. ASSUME NEW j \in Ids PROVE CallInv(j)'
  BY DEF HubInv, TypeOK, TableInv, StreamInv, CallInv, Committed, Tracked, Settled, Holds, Attach
<1>6. late' = {}
  BY DEF HubInv, StreamInv, Attach
<1>7. QED
  BY <1>1, <1>2, <1>3, <1>4, <1>5, <1>6 DEF HubInv

\* old.close(): the displaced stream is closed before its successor serves.
LEMMA EvictInv == ASSUME HubInv, NEW c \in Conns, Evict(c) PROVE HubInv'
<1>1. TypeOK'
  BY DEF HubInv, TypeOK, Evict
<1>2. ASSUME NEW m \in Nodes PROVE TableInv(m)'
  BY DEF HubInv, TypeOK, TableInv, Evict
<1>3. ASSUME NEW d \in Conns PROVE StreamInv(d)'
  <2>1. StreamTypes /\ \A e \in Conns : StreamInv(e)
    BY DEF HubInv, TypeOK, StreamTypes
  <2>2. QED
    BY <2>1 DEF StreamTypes, StreamInv, Evict
<1>4. ASSUME NEW d \in Conns PROVE DisplacedInv(d)'
  BY DEF HubInv, TypeOK, TableInv, StreamInv, DisplacedInv, Evict
<1>5. ASSUME NEW j \in Ids PROVE CallInv(j)'
  BY DEF HubInv, TypeOK, TableInv, StreamInv, CallInv, Committed, Tracked, Settled, Holds, Evict
<1>6. late' = {}
  BY DEF HubInv, StreamInv, Evict
<1>7. QED
  BY <1>1, <1>2, <1>3, <1>4, <1>5, <1>6 DEF HubInv

\* The ready frame touches only the row of the node.
LEMMA RecvReadyInv == ASSUME HubInv, NEW c \in Conns, RecvReady(c) PROVE HubInv'
<1>1. TypeOK'
  BY DEF HubInv, TypeOK, RecvReady
<1>2. ASSUME NEW m \in Nodes PROVE TableInv(m)'
  BY DEF HubInv, TypeOK, TableInv, RecvReady
<1>3. ASSUME NEW d \in Conns PROVE StreamInv(d)'
  <2>1. StreamTypes /\ \A e \in Conns : StreamInv(e)
    BY DEF HubInv, TypeOK, StreamTypes
  <2>2. QED
    BY <2>1 DEF StreamTypes, StreamInv, RecvReady
<1>4. ASSUME NEW d \in Conns PROVE DisplacedInv(d)'
  BY DEF HubInv, TypeOK, TableInv, StreamInv, DisplacedInv, RecvReady
<1>5. ASSUME NEW j \in Ids PROVE CallInv(j)'
  BY DEF HubInv, TypeOK, TableInv, StreamInv, CallInv, Committed, Tracked, Settled, Holds, RecvReady
<1>6. late' = {}
  BY DEF HubInv, StreamInv, RecvReady
<1>7. QED
  BY <1>1, <1>2, <1>3, <1>4, <1>5, <1>6 DEF HubInv

\* A heartbeat touches only the row of the node.
LEMMA RecvBeatInv == ASSUME HubInv, NEW c \in Conns, RecvBeat(c) PROVE HubInv'
<1>1. TypeOK'
  BY DEF HubInv, TypeOK, RecvBeat
<1>2. ASSUME NEW m \in Nodes PROVE TableInv(m)'
  BY DEF HubInv, TypeOK, TableInv, RecvBeat
<1>3. ASSUME NEW d \in Conns PROVE StreamInv(d)'
  <2>1. StreamTypes /\ \A e \in Conns : StreamInv(e)
    BY DEF HubInv, TypeOK, StreamTypes
  <2>2. QED
    BY <2>1 DEF StreamTypes, StreamInv, RecvBeat
<1>4. ASSUME NEW d \in Conns PROVE DisplacedInv(d)'
  BY DEF HubInv, TypeOK, TableInv, StreamInv, DisplacedInv, RecvBeat
<1>5. ASSUME NEW j \in Ids PROVE CallInv(j)'
  BY DEF HubInv, TypeOK, TableInv, StreamInv, CallInv, Committed, Tracked, Settled, Holds, RecvBeat
<1>6. late' = {}
  BY DEF HubInv, StreamInv, RecvBeat
<1>7. QED
  BY <1>1, <1>2, <1>3, <1>4, <1>5, <1>6 DEF HubInv

\* The output callback: the id it is for has had no outcome yet.
LEMMA DeliverDataInv == ASSUME HubInv, NEW c \in Conns, DeliverData(c) PROVE HubInv'
<1>1. TypeOK'
  <2>1. hand[c] \in Ids
    BY DEF HubInv, StreamInv, DeliverData
  <2>2. cpc \in [Conns -> CpcStates] /\ hand \in [Conns -> Ids \cup {NoId}] /\ late \in SUBSET Ids
    BY DEF HubInv, TypeOK
  <2>3. cpc' \in [Conns -> CpcStates]
    BY <2>1, <2>2 DEF DeliverData
  <2>4. hand' \in [Conns -> Ids \cup {NoId}]
    BY <2>1, <2>2 DEF DeliverData
  <2>5. late' \in SUBSET Ids
    BY <2>1, <2>2 DEF DeliverData
  <2>6. QED
    BY <2>3, <2>4, <2>5 DEF HubInv, TypeOK, DeliverData
<1>2. ASSUME NEW m \in Nodes PROVE TableInv(m)'
  BY DEF HubInv, TypeOK, TableInv, DeliverData
<1>3. ASSUME NEW d \in Conns PROVE StreamInv(d)'
  <2>1. StreamTypes /\ \A e \in Conns : StreamInv(e)
    BY DEF HubInv, TypeOK, StreamTypes
  <2>2. QED
    BY <2>1 DEF StreamTypes, StreamInv, DeliverData
<1>4. ASSUME NEW d \in Conns PROVE DisplacedInv(d)'
  BY DEF HubInv, TypeOK, TableInv, StreamInv, DisplacedInv, DeliverData
<1>5. ASSUME NEW j \in Ids PROVE CallInv(j)'
  BY DEF HubInv, TypeOK, TableInv, StreamInv, CallInv, Committed, Tracked, Settled, Holds, DeliverData
<1>6. late' = {}
  BY DEF HubInv, StreamInv, DeliverData
<1>7. QED
  BY <1>1, <1>2, <1>3, <1>4, <1>5, <1>6 DEF HubInv

\* finish / OnExit after a result frame: the id had no outcome, and has one now.
LEMMA DeliverEndInv == ASSUME HubInv, NEW c \in Conns, DeliverEnd(c) PROVE HubInv'
<1>1. TypeOK'
  <2>1. hand[c] \in Ids
    BY DEF HubInv, StreamInv, DeliverEnd
  <2>2. cpc \in [Conns -> CpcStates] /\ hand \in [Conns -> Ids \cup {NoId}] /\ answer \in [Ids -> {"none", "agent", "offline"}] /\ outcomes \in [Ids -> Nat]
    BY DEF HubInv, TypeOK
  <2>3. cpc' \in [Conns -> CpcStates]
    BY <2>1, <2>2 DEF DeliverEnd
  <2>4. hand' \in [Conns -> Ids \cup {NoId}]
    BY <2>1, <2>2 DEF DeliverEnd
  <2>5. answer' \in [Ids -> {"none", "agent", "offline"}]
    BY <2>1, <2>2 DEF DeliverEnd
  <2>6. outcomes' \in [Ids -> Nat]
    BY <2>1, <2>2 DEF DeliverEnd
  <2>7. QED
    BY <2>3, <2>4, <2>5, <2>6 DEF HubInv, TypeOK, DeliverEnd
<1>2. ASSUME NEW m \in Nodes PROVE TableInv(m)'
  BY DEF HubInv, TypeOK, TableInv, DeliverEnd
<1>3. ASSUME NEW d \in Conns PROVE StreamInv(d)'
  <2>1. StreamTypes /\ \A e \in Conns : StreamInv(e)
    BY DEF HubInv, TypeOK, StreamTypes
  <2>2. QED
    BY <2>1 DEF StreamTypes, StreamInv, DeliverEnd
<1>4. ASSUME NEW d \in Conns PROVE DisplacedInv(d)'
  BY DEF HubInv, TypeOK, TableInv, StreamInv, DisplacedInv, DeliverEnd
<1>5. ASSUME NEW j \in Ids PROVE CallInv(j)'
  BY DEF HubInv, TypeOK, TableInv, StreamInv, CallInv, Committed, Tracked, Settled, Holds, DeliverEnd
<1>6. late' = {}
  BY DEF HubInv, StreamInv, DeliverEnd
<1>7. QED
  BY <1>1, <1>2, <1>3, <1>4, <1>5, <1>6 DEF HubInv

\* The loop leaves on conn.done.
LEMMA LoopDoneInv == ASSUME HubInv, NEW c \in Conns, LoopDone(c) PROVE HubInv'
<1>1. TypeOK'
  BY DEF HubInv, TypeOK, LoopDone
<1>2. ASSUME NEW m \in Nodes PROVE TableInv(m)'
  BY DEF HubInv, TypeOK, TableInv, LoopDone
<1>3. ASSUME NEW d \in Conns PROVE StreamInv(d)'
  <2>1. StreamTypes /\ \A e \in Conns : StreamInv(e)
    BY DEF HubInv, TypeOK, StreamTypes
  <2>2. QED
    BY <2>1 DEF StreamTypes, StreamInv, LoopDone
<1>4. ASSUME NEW d \in Conns PROVE DisplacedInv(d)'
  BY DEF HubInv, TypeOK, TableInv, StreamInv, DisplacedInv, LoopDone
<1>5. ASSUME NEW j \in Ids PROVE CallInv(j)'
  BY DEF HubInv, TypeOK, TableInv, StreamInv, CallInv, Committed, Tracked, Settled, Holds, LoopDone
<1>6. late' = {}
  BY DEF HubInv, StreamInv, LoopDone
<1>7. QED
  BY <1>1, <1>2, <1>3, <1>4, <1>5, <1>6 DEF HubInv

\* The loop leaves on a transport error.
LEMMA LoopErrorInv == ASSUME HubInv, NEW c \in Conns, LoopError(c) PROVE HubInv'
<1>1. TypeOK'
  BY DEF HubInv, TypeOK, LoopError
<1>2. ASSUME NEW m \in Nodes PROVE TableInv(m)'
  BY DEF HubInv, TypeOK, TableInv, LoopError
<1>3. ASSUME NEW d \in Conns PROVE StreamInv(d)'
  <2>1. StreamTypes /\ \A e \in Conns : StreamInv(e)
    BY DEF HubInv, TypeOK, StreamTypes
  <2>2. QED
    BY <2>1 DEF StreamTypes, StreamInv, LoopError
<1>4. ASSUME NEW d \in Conns PROVE DisplacedInv(d)'
  BY DEF HubInv, TypeOK, TableInv, StreamInv, DisplacedInv, LoopError
<1>5. ASSUME NEW j \in Ids PROVE CallInv(j)'
  BY DEF HubInv, TypeOK, TableInv, StreamInv, CallInv, Committed, Tracked, Settled, Holds, LoopError
<1>6. late' = {}
  BY DEF HubInv, StreamInv, LoopError
<1>7. QED
  BY <1>1, <1>2, <1>3, <1>4, <1>5, <1>6 DEF HubInv

\* detach closes the stream before it sweeps.
LEMMA DetachCloseInv == ASSUME HubInv, NEW c \in Conns, DetachClose(c) PROVE HubInv'
<1>1. TypeOK'
  BY DEF HubInv, TypeOK, DetachClose
<1>2. ASSUME NEW m \in Nodes PROVE TableInv(m)'
  BY DEF HubInv, TypeOK, TableInv, DetachClose
<1>3. ASSUME NEW d \in Conns PROVE StreamInv(d)'
  <2>1. StreamTypes /\ \A e \in Conns : StreamInv(e)
    BY DEF HubInv, TypeOK, StreamTypes
  <2>2. QED
    BY <2>1 DEF StreamTypes, StreamInv, DetachClose
<1>4. ASSUME NEW d \in Conns PROVE DisplacedInv(d)'
  BY DEF HubInv, TypeOK, TableInv, StreamInv, DisplacedInv, DetachClose
<1>5. ASSUME NEW j \in Ids PROVE CallInv(j)'
  BY DEF HubInv, TypeOK, TableInv, StreamInv, CallInv, Committed, Tracked, Settled, Holds, DetachClose
<1>6. late' = {}
  BY DEF HubInv, StreamInv, DetachClose
<1>7. QED
  BY <1>1, <1>2, <1>3, <1>4, <1>5, <1>6 DEF HubInv

\* The sweep moves every id of the stream from the tables to detach's list.
LEMMA DetachSweepInv == ASSUME HubInv, NEW c \in Conns, DetachSweep(c) PROVE HubInv'
<1>1. TypeOK'
  BY DEF HubInv, TypeOK, DetachSweep
<1>2. ASSUME NEW m \in Nodes PROVE TableInv(m)'
  BY DEF HubInv, TypeOK, TableInv, DetachSweep
<1>3. ASSUME NEW d \in Conns PROVE StreamInv(d)'
  <2>1. StreamTypes /\ \A e \in Conns : StreamInv(e)
    BY DEF HubInv, TypeOK, StreamTypes
  <2>2. \A j \in Ids : CallInv(j)
    BY DEF HubInv
  <2>3. closed[c] /\ cpc' = [cpc EXCEPT ![c] = "notify"] /\ owed' = [owed EXCEPT ![c] = WaitsOn(c)]
    BY <2>1 DEF StreamInv, DetachSweep, GoTo
  <2>4. \A i \in WaitsOn(c) : kconn[i] = c /\ outcomes[i] = 0 /\ entry'[i] = NoConn
    BY <2>2 DEF CallInv, WaitsOn, DetachSweep
  <2>5. \A i \in Ids : entry[i] = NoConn => entry'[i] = NoConn
    BY DEF DetachSweep
  <2>6. CASE d = c
    BY <2>1, <2>3, <2>4, <2>6 DEF StreamTypes, StreamInv, DetachSweep
  <2>7. CASE d # c
    BY <2>1, <2>3, <2>5, <2>7 DEF StreamTypes, StreamInv, DetachSweep
  <2>8. QED
    BY <2>6, <2>7
<1>4. ASSUME NEW d \in Conns PROVE DisplacedInv(d)'
  BY DEF HubInv, TypeOK, TableInv, StreamInv, DisplacedInv, DetachSweep
<1>5. ASSUME NEW j \in Ids PROVE CallInv(j)'
  BY DEF HubInv, TypeOK, TableInv, StreamInv, CallInv, Committed, Tracked, Settled, Holds, DetachSweep
<1>6. late' = {}
  BY DEF HubInv, StreamInv, DetachSweep
<1>7. QED
  BY <1>1, <1>2, <1>3, <1>4, <1>5, <1>6 DEF HubInv

\* The end of detach: nothing is left in detach's list.
LEMMA DetachOfflineInv == ASSUME HubInv, NEW c \in Conns, DetachOffline(c) PROVE HubInv'
<1>1. TypeOK'
  BY DEF HubInv, TypeOK, DetachOffline
<1>2. ASSUME NEW m \in Nodes PROVE TableInv(m)'
  BY DEF HubInv, TypeOK, TableInv, DetachOffline
<1>3. ASSUME NEW d \in Conns PROVE StreamInv(d)'
  <2>1. StreamTypes /\ \A e \in Conns : StreamInv(e)
    BY DEF HubInv, TypeOK, StreamTypes
  <2>2. QED
    BY <2>1 DEF StreamTypes, StreamInv, DetachOffline
<1>4. ASSUME NEW d \in Conns PROVE DisplacedInv(d)'
  BY DEF HubInv, TypeOK, TableInv, StreamInv, DisplacedInv, DetachOffline
<1>5. ASSUME NEW j \in Ids PROVE CallInv(j)'
  BY DEF HubInv, TypeOK, TableInv, StreamInv, CallInv, Committed, Tracked, Settled, Holds, DetachOffline
<1>6. late' = {}
  BY DEF HubInv, StreamInv, DetachOffline
<1>7. QED
  BY <1>1, <1>2, <1>3, <1>4, <1>5, <1>6 DEF HubInv

\* The writer hands a frame to the agent: the id waits on this very stream.
LEMMA WriterSendInv == ASSUME HubInv, NEW c \in Conns, WriterSend(c) PROVE HubInv'
<1>1. TypeOK'
  <2>1. queue[c] \in Seq(Frame) /\ queue[c] # <<>>
    BY DEF HubInv, TypeOK, WriterSend
  <2>2. Head(queue[c]) \in Frame /\ Tail(queue[c]) \in Seq(Frame)
    BY <2>1, QueueTail
  <2>3. Head(queue[c]).id \in Ids
    BY <2>2
  <2>4. queue \in [Conns -> Seq(Frame)] /\ running \in [Conns -> SUBSET Ids] /\ told \in [Conns -> SUBSET Ids]
    BY DEF HubInv, TypeOK
  <2>5. queue' \in [Conns -> Seq(Frame)]
    BY <2>1, <2>2, <2>3, <2>4 DEF WriterSend
  <2>6. running' \in [Conns -> SUBSET Ids]
    BY <2>1, <2>2, <2>3, <2>4 DEF WriterSend
  <2>7. told' \in [Conns -> SUBSET Ids]
    BY <2>1, <2>2, <2>3, <2>4 DEF WriterSend
  <2>8. QED
    BY <2>5, <2>6, <2>7 DEF HubInv, TypeOK, WriterSend
<1>2. ASSUME NEW m \in Nodes PROVE TableInv(m)'
  BY DEF HubInv, TypeOK, TableInv, WriterSend
<1>3. ASSUME NEW d \in Conns PROVE StreamInv(d)'
  <2>1. StreamTypes /\ StreamInv(c) /\ StreamInv(d)
    BY DEF HubInv, TypeOK, StreamTypes
  <2>2. /\ kconn[Head(queue[c]).id] = c
        /\ \A k \in 1..Len(Tail(queue[c])) : kconn[Tail(queue[c])[k].id] = c
    BY <2>1, TailStaysOwned DEF WriterSend
  <2>3. \A k \in 1..Len(queue'[d]) : kconn[queue'[d][k].id] = d
    BY <2>1, <2>2 DEF StreamTypes, StreamInv, WriterSend
  <2>4. QED
    BY <2>1, <2>2, <2>3 DEF StreamTypes, StreamInv, Holds, WriterSend
<1>4. ASSUME NEW d \in Conns PROVE DisplacedInv(d)'
  BY DEF HubInv, TypeOK, TableInv, StreamInv, DisplacedInv, WriterSend
<1>5. ASSUME NEW j \in Ids PROVE CallInv(j)'
  BY DEF HubInv, TypeOK, TableInv, StreamInv, CallInv, Committed, Tracked, Settled, Holds, WriterSend
<1>6. late' = {}
  BY DEF HubInv, StreamInv, WriterSend
<1>7. QED
  BY <1>1, <1>2, <1>3, <1>4, <1>5, <1>6 DEF HubInv

\* A failed Send closes the stream.
LEMMA WriterFailInv == ASSUME HubInv, NEW c \in Conns, WriterFail(c) PROVE HubInv'
<1>1. TypeOK'
  <2>1. queue[c] \in Seq(Frame) /\ queue[c] # <<>>
    BY DEF HubInv, TypeOK, WriterFail
  <2>2. Tail(queue[c]) \in Seq(Frame)
    BY <2>1, QueueTail
  <2>3. queue \in [Conns -> Seq(Frame)] /\ closed \in [Conns -> BOOLEAN] /\ wpc \in [Conns -> {"run", "exit"}]
    BY DEF HubInv, TypeOK
  <2>4. queue' \in [Conns -> Seq(Frame)]
    BY <2>1, <2>2, <2>3 DEF WriterFail
  <2>5. closed' \in [Conns -> BOOLEAN]
    BY <2>1, <2>2, <2>3 DEF WriterFail
  <2>6. wpc' \in [Conns -> {"run", "exit"}]
    BY <2>1, <2>2, <2>3 DEF WriterFail
  <2>7. QED
    BY <2>4, <2>5, <2>6 DEF HubInv, TypeOK, WriterFail
<1>2. ASSUME NEW m \in Nodes PROVE TableInv(m)'
  BY DEF HubInv, TypeOK, TableInv, WriterFail
<1>3. ASSUME NEW d \in Conns PROVE StreamInv(d)'
  <2>1. StreamTypes /\ StreamInv(c) /\ StreamInv(d)
    BY DEF HubInv, TypeOK, StreamTypes
  <2>2. /\ kconn[Head(queue[c]).id] = c
        /\ \A k \in 1..Len(Tail(queue[c])) : kconn[Tail(queue[c])[k].id] = c
    BY <2>1, TailStaysOwned DEF WriterFail
  <2>3. \A k \in 1..Len(queue'[d]) : kconn[queue'[d][k].id] = d
    BY <2>1, <2>2 DEF StreamTypes, StreamInv, WriterFail
  <2>4. QED
    BY <2>1, <2>2, <2>3 DEF StreamTypes, StreamInv, Holds, WriterFail
<1>4. ASSUME NEW d \in Conns PROVE DisplacedInv(d)'
  BY DEF HubInv, TypeOK, TableInv, StreamInv, DisplacedInv, WriterFail
<1>5. ASSUME NEW j \in Ids PROVE CallInv(j)'
  BY DEF HubInv, TypeOK, TableInv, StreamInv, CallInv, Committed, Tracked, Settled, Holds, WriterFail
<1>6. late' = {}
  BY DEF HubInv, StreamInv, WriterFail
<1>7. QED
  BY <1>1, <1>2, <1>3, <1>4, <1>5, <1>6 DEF HubInv

\* The writer leaves on conn.done.
LEMMA WriterDoneInv == ASSUME HubInv, NEW c \in Conns, WriterDone(c) PROVE HubInv'
<1>1. TypeOK'
  BY DEF HubInv, TypeOK, WriterDone
<1>2. ASSUME NEW m \in Nodes PROVE TableInv(m)'
  BY DEF HubInv, TypeOK, TableInv, WriterDone
<1>3. ASSUME NEW d \in Conns PROVE StreamInv(d)'
  <2>1. StreamTypes /\ \A e \in Conns : StreamInv(e)
    BY DEF HubInv, TypeOK, StreamTypes
  <2>2. QED
    BY <2>1 DEF StreamTypes, StreamInv, WriterDone
<1>4. ASSUME NEW d \in Conns PROVE DisplacedInv(d)'
  BY DEF HubInv, TypeOK, TableInv, StreamInv, DisplacedInv, WriterDone
<1>5. ASSUME NEW j \in Ids PROVE CallInv(j)'
  BY DEF HubInv, TypeOK, TableInv, StreamInv, CallInv, Committed, Tracked, Settled, Holds, WriterDone
<1>6. late' = {}
  BY DEF HubInv, StreamInv, WriterDone
<1>7. QED
  BY <1>1, <1>2, <1>3, <1>4, <1>5, <1>6 DEF HubInv

\* A log or session_data frame is looked up: the id has had no outcome.
LEMMA RecvDataInv == ASSUME HubInv, NEW c \in Conns, NEW i \in Ids, RecvData(c, i) PROVE HubInv'
<1>1. TypeOK'
  BY DEF HubInv, TypeOK, RecvData
<1>2. ASSUME NEW m \in Nodes PROVE TableInv(m)'
  BY DEF HubInv, TypeOK, TableInv, RecvData
<1>3. ASSUME NEW d \in Conns PROVE StreamInv(d)'
  <2>1. StreamTypes /\ StreamInv(c) /\ StreamInv(d) /\ CallInv(i)
    BY DEF HubInv, TypeOK, StreamTypes
  <2>2. kconn[i] = c
    BY <2>1 DEF StreamInv, RecvData
  <2>3. entry[i] # NoConn => outcomes[i] = 0
    BY <2>1 DEF CallInv
  <2>4. QED
    BY <2>1, <2>2, <2>3 DEF StreamTypes, StreamInv, RecvData
<1>4. ASSUME NEW d \in Conns PROVE DisplacedInv(d)'
  BY DEF HubInv, TypeOK, TableInv, StreamInv, DisplacedInv, RecvData
<1>5. ASSUME NEW j \in Ids PROVE CallInv(j)'
  BY DEF HubInv, TypeOK, TableInv, StreamInv, CallInv, Committed, Tracked, Settled, Holds, RecvData
<1>6. late' = {}
  BY DEF HubInv, StreamInv, RecvData
<1>7. QED
  BY <1>1, <1>2, <1>3, <1>4, <1>5, <1>6 DEF HubInv

\* A result or session_exit frame takes the id out of the table, or is ignored.
LEMMA RecvEndInv == ASSUME HubInv, NEW c \in Conns, NEW i \in Ids, RecvEnd(c, i) PROVE HubInv'
<1>1. TypeOK'
  <2>1. entry \in [Ids -> Conns \cup {NoConn}] /\ cpc \in [Conns -> CpcStates] /\ hand \in [Conns -> Ids \cup {NoId}] /\ running \in [Conns -> SUBSET Ids]
    BY DEF HubInv, TypeOK
  <2>2. entry' \in [Ids -> Conns \cup {NoConn}]
    BY <2>1 DEF RecvEnd
  <2>3. cpc' \in [Conns -> CpcStates]
    BY <2>1 DEF RecvEnd
  <2>4. hand' \in [Conns -> Ids \cup {NoId}]
    BY <2>1 DEF RecvEnd
  <2>5. running' \in [Conns -> SUBSET Ids]
    BY <2>1 DEF RecvEnd
  <2>6. QED
    BY <2>2, <2>3, <2>4, <2>5 DEF HubInv, TypeOK, RecvEnd
<1>2. ASSUME NEW m \in Nodes PROVE TableInv(m)'
  BY DEF HubInv, TypeOK, TableInv, RecvEnd
<1>3. ASSUME NEW d \in Conns PROVE StreamInv(d)'
  <2>1. StreamTypes /\ StreamInv(c) /\ StreamInv(d) /\ CallInv(i)
    BY DEF HubInv, TypeOK, StreamTypes
  <2>2. kconn[i] = c
    BY <2>1 DEF StreamInv, RecvEnd
  <2>3. entry[i] # NoConn => outcomes[i] = 0
    BY <2>1 DEF CallInv
  <2>4. QED
    BY <2>1, <2>2, <2>3 DEF StreamTypes, StreamInv, RecvEnd
<1>4. ASSUME NEW d \in Conns PROVE DisplacedInv(d)'
  BY DEF HubInv, TypeOK, TableInv, StreamInv, DisplacedInv, RecvEnd
<1>5. ASSUME NEW j \in Ids PROVE CallInv(j)'
  <2>1. StreamTypes /\ StreamInv(c) /\ CallInv(i) /\ CallInv(j) /\ kpc \in [Ids -> KpcStates]
    BY DEF HubInv, TypeOK, StreamTypes
  <2>2. kconn[i] = c /\ cpc[c] = "loop"
    BY <2>1 DEF StreamInv, RecvEnd
  <2>3. entry[i] # NoConn => entry[i] = c /\ outcomes[i] = 0
    BY <2>1, <2>2 DEF CallInv
  <2>4. CASE j = i
    BY <2>1, <2>2, <2>3, <2>4 DEF StreamTypes, CallInv, Committed, Tracked, Settled, Holds, RecvEnd
  <2>5. CASE j # i
    <3>1. entry'[j] = entry[j] /\ \A d \in Conns : Holds(d, j) => Holds(d, j)'
      BY <2>1, <2>2, <2>5 DEF StreamTypes, Holds, RecvEnd
    <3>2. \A d \in Conns : /\ cpc'[d] # cpc[d] => cpc[d] = "loop" /\ cpc'[d] = "end"
                           /\ Holds(d, j)' => Holds(d, j)
      BY <2>1, <2>2, <2>5 DEF StreamTypes, Holds, RecvEnd
    <3>3. kconn[j] # NoConn /\ Tracked(j) => Tracked(j)'
      BY <2>1, <2>2, <3>1, <3>2 DEF StreamTypes, Tracked, RecvEnd
    <3>4. kconn[j] # NoConn /\ Settled(j) => Settled(j)'
      BY <2>1, <3>1 DEF StreamTypes, Settled, RecvEnd
    <3>5. kconn[j] # NoConn => /\ cpc[kconn[j]] \notin {"idle", "authed"} => cpc'[kconn[j]] \notin {"idle", "authed"}
                               /\ cpc'[kconn[j]] = "gone" => cpc[kconn[j]] = "gone"
      BY <2>1, <3>2 DEF StreamTypes
    <3>6. (Committed(j)' <=> Committed(j)) /\ (Committed(j) => kconn[j] # NoConn)
      BY <2>1 DEF Committed, CallInv, RecvEnd
    <3>7. UNCHANGED <<kpc, kconn, kframe, outcomes, answer, owed, closed>>
      BY DEF RecvEnd
    <3>8. QED
      BY <2>1, <3>1, <3>2, <3>3, <3>4, <3>5, <3>6, <3>7 DEF CallInv
  <2>6. QED
    BY <2>4, <2>5
<1>6. late' = {}
  BY DEF HubInv, StreamInv, RecvEnd
<1>7. QED
  BY <1>1, <1>2, <1>3, <1>4, <1>5, <1>6 DEF HubInv

\* detach tells one id of its list that the node is offline, its first outcome.
LEMMA DetachNotifyInv == ASSUME HubInv, NEW c \in Conns, NEW i \in Ids, DetachNotify(c, i) PROVE HubInv'
<1>1. TypeOK'
  <2>1. owed \in [Conns -> SUBSET Ids] /\ answer \in [Ids -> {"none", "agent", "offline"}] /\ outcomes \in [Ids -> Nat]
    BY DEF HubInv, TypeOK
  <2>2. owed' \in [Conns -> SUBSET Ids]
    BY <2>1 DEF DetachNotify
  <2>3. answer' \in [Ids -> {"none", "agent", "offline"}]
    BY <2>1 DEF DetachNotify
  <2>4. outcomes' \in [Ids -> Nat]
    BY <2>1 DEF DetachNotify
  <2>5. QED
    BY <2>2, <2>3, <2>4 DEF HubInv, TypeOK, DetachNotify
<1>2. ASSUME NEW m \in Nodes PROVE TableInv(m)'
  BY DEF HubInv, TypeOK, TableInv, DetachNotify
<1>3. ASSUME NEW d \in Conns PROVE StreamInv(d)'
  <2>1. StreamTypes /\ \A e \in Conns : StreamInv(e)
    BY DEF HubInv, TypeOK, StreamTypes
  <2>2. QED
    BY <2>1 DEF StreamTypes, StreamInv, DetachNotify
<1>4. ASSUME NEW d \in Conns PROVE DisplacedInv(d)'
  BY DEF HubInv, TypeOK, TableInv, StreamInv, DisplacedInv, DetachNotify
<1>5. ASSUME NEW j \in Ids PROVE CallInv(j)'
  BY DEF HubInv, TypeOK, TableInv, StreamInv, CallInv, Committed, Tracked, Settled, Holds, DetachNotify
<1>6. late' = {}
  BY DEF HubInv, StreamInv, DetachNotify
<1>7. QED
  BY <1>1, <1>2, <1>3, <1>4, <1>5, <1>6 DEF HubInv

\* A caller reads the table: the stream it gets has not been swept.
LEMMA LookupInv == ASSUME HubInv, NEW i \in Ids, Lookup(i) PROVE HubInv'
<1>1. TypeOK'
  <2>1. conns[TargetOf[i]] \in Conns \cup {NoConn}
    BY DEF HubInv, TypeOK
  <2>2. kpc \in [Ids -> KpcStates] /\ kconn \in [Ids -> Conns \cup {NoConn}] /\ ret \in [Ids -> {"none", "agent", "offline", "ctx", "closed"}]
    BY DEF HubInv, TypeOK
  <2>3. kpc' \in [Ids -> KpcStates]
    BY <2>1, <2>2 DEF Lookup
  <2>4. kconn' \in [Ids -> Conns \cup {NoConn}]
    BY <2>1, <2>2 DEF Lookup
  <2>5. ret' \in [Ids -> {"none", "agent", "offline", "ctx", "closed"}]
    BY <2>1, <2>2 DEF Lookup
  <2>6. QED
    BY <2>3, <2>4, <2>5 DEF HubInv, TypeOK, Lookup
<1>2. ASSUME NEW m \in Nodes PROVE TableInv(m)'
  BY DEF HubInv, TypeOK, TableInv, Lookup
<1>3. ASSUME NEW d \in Conns PROVE StreamInv(d)'
  <2>1. StreamTypes /\ StreamInv(d) /\ CallInv(i)
    BY DEF HubInv, TypeOK, StreamTypes
  <2>2. /\ kconn[i] = NoConn
        /\ \A j \in Ids \ {i} : kconn'[j] = kconn[j]
        /\ UNCHANGED <<cpc, closed, owed, hand, running, queue, outcomes, entry>>
    BY <2>1 DEF StreamTypes, CallInv, Lookup
  <2>3. \A j \in Ids : kconn[j] = d => kconn'[j] = d
    BY <2>2
  <2>4. \A k \in 1..Len(queue[d]) : queue[d][k].id \in Ids
    <3>1. queue[d] \in Seq(Frame)
      BY <2>1 DEF StreamTypes
    <3>2. QED
      BY <3>1, QueueElement
  <2>5. QED
    BY <2>1, <2>2, <2>3, <2>4 DEF StreamTypes, StreamInv
<1>4. ASSUME NEW d \in Conns PROVE DisplacedInv(d)'
  BY DEF HubInv, TypeOK, TableInv, StreamInv, DisplacedInv, Lookup
<1>5. ASSUME NEW j \in Ids PROVE CallInv(j)'
  <2>1. CASE j # i
    BY <2>1 DEF HubInv, TypeOK, CallInv, Committed, Tracked, Settled, Holds, Lookup
  <2>2. CASE j = i
    <3>1. /\ TargetOf[i] \in Nodes
          /\ TableInv(TargetOf[i]) /\ CallInv(i)
          /\ \A d \in Conns : StreamInv(d)
          /\ conns[TargetOf[i]] \in Conns \cup {NoConn}
          /\ kpc \in [Ids -> KpcStates] /\ kconn \in [Ids -> Conns \cup {NoConn}]
      BY DEF HubInv, TypeOK
    <3>2. /\ kconn'[i] = conns[TargetOf[i]]
          /\ kpc'[i] = IF conns[TargetOf[i]] = NoConn THEN "done" ELSE "register"
          /\ UNCHANGED <<cpc, closed, owed, hand, outcomes, entry, answer>>
          /\ kpc[i] = "idle"
      BY <3>1 DEF Lookup
    <3>3. QED
      BY <2>2, <3>1, <3>2 DEF TableInv, StreamInv, CallInv, Committed, Tracked, Settled, Holds
  <2>3. QED
    BY <2>1, <2>2
<1>6. late' = {}
  BY DEF HubInv, StreamInv, Lookup
<1>7. QED
  BY <1>1, <1>2, <1>3, <1>4, <1>5, <1>6 DEF HubInv

\* A caller registers, perhaps on a stream swept meanwhile.
LEMMA RegisterInv == ASSUME HubInv, NEW i \in Ids, Register(i) PROVE HubInv'
<1>1. TypeOK'
  BY DEF HubInv, TypeOK, Register
<1>2. ASSUME NEW m \in Nodes PROVE TableInv(m)'
  BY DEF HubInv, TypeOK, TableInv, Register
<1>3. ASSUME NEW d \in Conns PROVE StreamInv(d)'
  <2>1. StreamTypes /\ \A e \in Conns : StreamInv(e)
    BY DEF HubInv, TypeOK, StreamTypes
  <2>2. CallInv(i)
    BY DEF HubInv
  <2>3. QED
    BY <2>1, <2>2 DEF StreamTypes, StreamInv, CallInv, Holds, Register
<1>4. ASSUME NEW d \in Conns PROVE DisplacedInv(d)'
  BY DEF HubInv, TypeOK, TableInv, StreamInv, DisplacedInv, Register
<1>5. ASSUME NEW j \in Ids PROVE CallInv(j)'
  BY DEF HubInv, TypeOK, TableInv, StreamInv, CallInv, Committed, Tracked, Settled, Holds, Register
<1>6. late' = {}
  BY DEF HubInv, StreamInv, Register
<1>7. QED
  BY <1>1, <1>2, <1>3, <1>4, <1>5, <1>6 DEF HubInv

\* A stream found open in send has not been swept, so a registered id is tracked.
LEMMA SendCheckInv == ASSUME HubInv, NEW i \in Ids, SendCheck(i) PROVE HubInv'
<1>1. TypeOK'
  BY DEF HubInv, TypeOK, SendCheck
<1>2. ASSUME NEW m \in Nodes PROVE TableInv(m)'
  BY DEF HubInv, TypeOK, TableInv, SendCheck
<1>3. ASSUME NEW d \in Conns PROVE StreamInv(d)'
  <2>1. StreamTypes /\ \A e \in Conns : StreamInv(e)
    BY DEF HubInv, TypeOK, StreamTypes
  <2>2. QED
    BY <2>1 DEF StreamTypes, StreamInv, SendCheck
<1>4. ASSUME NEW d \in Conns PROVE DisplacedInv(d)'
  BY DEF HubInv, TypeOK, TableInv, StreamInv, DisplacedInv, SendCheck
<1>5. ASSUME NEW j \in Ids PROVE CallInv(j)'
  BY DEF HubInv, TypeOK, TableInv, StreamInv, CallInv, Committed, Tracked, Settled, Holds, SendCheck
<1>6. late' = {}
  BY DEF HubInv, StreamInv, SendCheck
<1>7. QED
  BY <1>1, <1>2, <1>3, <1>4, <1>5, <1>6 DEF HubInv

\* A frame is queued for the stream the id waits on.
LEMMA SendEnqueueInv == ASSUME HubInv, NEW i \in Ids, SendEnqueue(i) PROVE HubInv'
<1>1. TypeOK'
  <2>1. [id |-> i, kind |-> kframe[i]] \in Frame
    BY DEF HubInv, TypeOK
  <2>2. kconn[i] \in Conns => queue[kconn[i]] \in Seq(Frame)
    BY DEF HubInv, TypeOK
  <2>3. kconn[i] \in Conns => Append(queue[kconn[i]], [id |-> i, kind |-> kframe[i]]) \in Seq(Frame)
    BY <2>1, <2>2, QueueAppend
  <2>4. queue \in [Conns -> Seq(Frame)] /\ kpc \in [Ids -> KpcStates]
    BY DEF HubInv, TypeOK
  <2>5. queue' \in [Conns -> Seq(Frame)]
    BY <2>1, <2>2, <2>3, <2>4 DEF SendEnqueue
  <2>6. kpc' \in [Ids -> KpcStates]
    BY <2>1, <2>2, <2>3, <2>4 DEF SendEnqueue
  <2>7. QED
    BY <2>5, <2>6 DEF HubInv, TypeOK, SendEnqueue
<1>2. ASSUME NEW m \in Nodes PROVE TableInv(m)'
  BY DEF HubInv, TypeOK, TableInv, SendEnqueue
<1>3. ASSUME NEW d \in Conns PROVE StreamInv(d)'
  <2>1. StreamTypes /\ \A e \in Conns : StreamInv(e)
    BY DEF HubInv, TypeOK, StreamTypes
  <2>2. CallInv(i)
    BY DEF HubInv
  <2>3. QED
    BY <2>1, <2>2, QueueAppend DEF StreamTypes, StreamInv, CallInv, Holds, SendEnqueue
<1>4. ASSUME NEW d \in Conns PROVE DisplacedInv(d)'
  BY DEF HubInv, TypeOK, TableInv, StreamInv, DisplacedInv, SendEnqueue
<1>5. ASSUME NEW j \in Ids PROVE CallInv(j)'
  BY DEF HubInv, TypeOK, TableInv, StreamInv, CallInv, Committed, Tracked, Settled, Holds, SendEnqueue
<1>6. late' = {}
  BY DEF HubInv, StreamInv, SendEnqueue
<1>7. QED
  BY <1>1, <1>2, <1>3, <1>4, <1>5, <1>6 DEF HubInv

\* send sees conn.done.
LEMMA SendClosedInv == ASSUME HubInv, NEW i \in Ids, SendClosed(i) PROVE HubInv'
<1>1. TypeOK'
  BY DEF HubInv, TypeOK, SendClosed
<1>2. ASSUME NEW m \in Nodes PROVE TableInv(m)'
  BY DEF HubInv, TypeOK, TableInv, SendClosed
<1>3. ASSUME NEW d \in Conns PROVE StreamInv(d)'
  <2>1. StreamTypes /\ \A e \in Conns : StreamInv(e)
    BY DEF HubInv, TypeOK, StreamTypes
  <2>2. QED
    BY <2>1 DEF StreamTypes, StreamInv, SendClosed
<1>4. ASSUME NEW d \in Conns PROVE DisplacedInv(d)'
  BY DEF HubInv, TypeOK, TableInv, StreamInv, DisplacedInv, SendClosed
<1>5. ASSUME NEW j \in Ids PROVE CallInv(j)'
  BY DEF HubInv, TypeOK, TableInv, StreamInv, CallInv, Committed, Tracked, Settled, Holds, SendClosed
<1>6. late' = {}
  BY DEF HubInv, StreamInv, SendClosed
<1>7. QED
  BY <1>1, <1>2, <1>3, <1>4, <1>5, <1>6 DEF HubInv

\* send gives up after ten seconds and closes the stream.
LEMMA SendTimeoutInv == ASSUME HubInv, NEW i \in Ids, SendTimeout(i) PROVE HubInv'
<1>1. TypeOK'
  BY DEF HubInv, TypeOK, SendTimeout
<1>2. ASSUME NEW m \in Nodes PROVE TableInv(m)'
  BY DEF HubInv, TypeOK, TableInv, SendTimeout
<1>3. ASSUME NEW d \in Conns PROVE StreamInv(d)'
  <2>1. StreamTypes /\ \A e \in Conns : StreamInv(e)
    BY DEF HubInv, TypeOK, StreamTypes
  <2>2. QED
    BY <2>1 DEF StreamTypes, StreamInv, SendTimeout
<1>4. ASSUME NEW d \in Conns PROVE DisplacedInv(d)'
  BY DEF HubInv, TypeOK, TableInv, StreamInv, DisplacedInv, SendTimeout
<1>5. ASSUME NEW j \in Ids PROVE CallInv(j)'
  BY DEF HubInv, TypeOK, TableInv, StreamInv, CallInv, Committed, Tracked, Settled, Holds, SendTimeout
<1>6. late' = {}
  BY DEF HubInv, StreamInv, SendTimeout
<1>7. QED
  BY <1>1, <1>2, <1>3, <1>4, <1>5, <1>6 DEF HubInv

\* The caller takes its entry back and returns ErrNodeOffline.
LEMMA UndoInv == ASSUME HubInv, NEW i \in Ids, Undo(i) PROVE HubInv'
<1>1. TypeOK'
  BY DEF HubInv, TypeOK, Undo
<1>2. ASSUME NEW m \in Nodes PROVE TableInv(m)'
  BY DEF HubInv, TypeOK, TableInv, Undo
<1>3. ASSUME NEW d \in Conns PROVE StreamInv(d)'
  <2>1. StreamTypes /\ \A e \in Conns : StreamInv(e)
    BY DEF HubInv, TypeOK, StreamTypes
  <2>2. QED
    BY <2>1 DEF StreamTypes, StreamInv, Undo
<1>4. ASSUME NEW d \in Conns PROVE DisplacedInv(d)'
  BY DEF HubInv, TypeOK, TableInv, StreamInv, DisplacedInv, Undo
<1>5. ASSUME NEW j \in Ids PROVE CallInv(j)'
  BY DEF HubInv, TypeOK, TableInv, StreamInv, CallInv, Committed, Tracked, Settled, Holds, Undo
<1>6. late' = {}
  BY DEF HubInv, StreamInv, Undo
<1>7. QED
  BY <1>1, <1>2, <1>3, <1>4, <1>5, <1>6 DEF HubInv

\* The caller returns the outcome.
LEMMA ReturnInv == ASSUME HubInv, NEW i \in Ids, Return(i) PROVE HubInv'
<1>1. TypeOK'
  BY DEF HubInv, TypeOK, Return
<1>2. ASSUME NEW m \in Nodes PROVE TableInv(m)'
  BY DEF HubInv, TypeOK, TableInv, Return
<1>3. ASSUME NEW d \in Conns PROVE StreamInv(d)'
  <2>1. StreamTypes /\ \A e \in Conns : StreamInv(e)
    BY DEF HubInv, TypeOK, StreamTypes
  <2>2. QED
    BY <2>1 DEF StreamTypes, StreamInv, Return
<1>4. ASSUME NEW d \in Conns PROVE DisplacedInv(d)'
  BY DEF HubInv, TypeOK, TableInv, StreamInv, DisplacedInv, Return
<1>5. ASSUME NEW j \in Ids PROVE CallInv(j)'
  BY DEF HubInv, TypeOK, TableInv, StreamInv, CallInv, Committed, Tracked, Settled, Holds, Return
<1>6. late' = {}
  BY DEF HubInv, StreamInv, Return
<1>7. QED
  BY <1>1, <1>2, <1>3, <1>4, <1>5, <1>6 DEF HubInv

\* A cancelled caller takes its entry, if it is still there.
LEMMA CtxDoneInv == ASSUME HubInv, NEW i \in Ids, CtxDone(i) PROVE HubInv'
<1>1. TypeOK'
  <2>1. entry \in [Ids -> Conns \cup {NoConn}] /\ kpc \in [Ids -> KpcStates] /\ kframe \in [Ids -> {"open", "input", "stop"}] /\ ret \in [Ids -> {"none", "agent", "offline", "ctx", "closed"}]
    BY DEF HubInv, TypeOK
  <2>2. entry' \in [Ids -> Conns \cup {NoConn}]
    BY <2>1 DEF CtxDone
  <2>3. kpc' \in [Ids -> KpcStates]
    BY <2>1 DEF CtxDone
  <2>4. kframe' \in [Ids -> {"open", "input", "stop"}]
    BY <2>1 DEF CtxDone
  <2>5. ret' \in [Ids -> {"none", "agent", "offline", "ctx", "closed"}]
    BY <2>1 DEF CtxDone
  <2>6. QED
    BY <2>2, <2>3, <2>4, <2>5 DEF HubInv, TypeOK, CtxDone
<1>2. ASSUME NEW m \in Nodes PROVE TableInv(m)'
  BY DEF HubInv, TypeOK, TableInv, CtxDone
<1>3. ASSUME NEW d \in Conns PROVE StreamInv(d)'
  <2>1. StreamTypes /\ \A e \in Conns : StreamInv(e)
    BY DEF HubInv, TypeOK, StreamTypes
  <2>2. QED
    BY <2>1 DEF StreamTypes, StreamInv, CtxDone
<1>4. ASSUME NEW d \in Conns PROVE DisplacedInv(d)'
  BY DEF HubInv, TypeOK, TableInv, StreamInv, DisplacedInv, CtxDone
<1>5. ASSUME NEW j \in Ids PROVE CallInv(j)'
  BY DEF HubInv, TypeOK, TableInv, StreamInv, CallInv, Committed, Tracked, Settled, Holds, Ids, CtxDone
<1>6. late' = {}
  BY DEF HubInv, StreamInv, CtxDone
<1>7. QED
  BY <1>1, <1>2, <1>3, <1>4, <1>5, <1>6 DEF HubInv

\* SessionStdin and SessionResize send for a session still in the table.
LEMMA InputInv == ASSUME HubInv, NEW i \in Ids, Input(i) PROVE HubInv'
<1>1. TypeOK'
  BY DEF HubInv, TypeOK, Input
<1>2. ASSUME NEW m \in Nodes PROVE TableInv(m)'
  BY DEF HubInv, TypeOK, TableInv, Input
<1>3. ASSUME NEW d \in Conns PROVE StreamInv(d)'
  <2>1. StreamTypes /\ \A e \in Conns : StreamInv(e)
    BY DEF HubInv, TypeOK, StreamTypes
  <2>2. QED
    BY <2>1 DEF StreamTypes, StreamInv, Input
<1>4. ASSUME NEW d \in Conns PROVE DisplacedInv(d)'
  BY DEF HubInv, TypeOK, TableInv, StreamInv, DisplacedInv, Input
<1>5. ASSUME NEW j \in Ids PROVE CallInv(j)'
  BY DEF HubInv, TypeOK, TableInv, StreamInv, CallInv, Committed, Tracked, Settled, Holds, Ids, Input
<1>6. late' = {}
  BY DEF HubInv, StreamInv, Input
<1>7. QED
  BY <1>1, <1>2, <1>3, <1>4, <1>5, <1>6 DEF HubInv

\* CloseSession takes the entry, if it is still there.
LEMMA CloseSessionInv == ASSUME HubInv, NEW i \in Ids, CloseSession(i) PROVE HubInv'
<1>1. TypeOK'
  <2>1. entry \in [Ids -> Conns \cup {NoConn}] /\ kpc \in [Ids -> KpcStates] /\ kframe \in [Ids -> {"open", "input", "stop"}] /\ ret \in [Ids -> {"none", "agent", "offline", "ctx", "closed"}]
    BY DEF HubInv, TypeOK
  <2>2. entry' \in [Ids -> Conns \cup {NoConn}]
    BY <2>1 DEF CloseSession
  <2>3. kpc' \in [Ids -> KpcStates]
    BY <2>1 DEF CloseSession
  <2>4. kframe' \in [Ids -> {"open", "input", "stop"}]
    BY <2>1 DEF CloseSession
  <2>5. ret' \in [Ids -> {"none", "agent", "offline", "ctx", "closed"}]
    BY <2>1 DEF CloseSession
  <2>6. QED
    BY <2>2, <2>3, <2>4, <2>5 DEF HubInv, TypeOK, CloseSession
<1>2. ASSUME NEW m \in Nodes PROVE TableInv(m)'
  BY DEF HubInv, TypeOK, TableInv, CloseSession
<1>3. ASSUME NEW d \in Conns PROVE StreamInv(d)'
  <2>1. StreamTypes /\ \A e \in Conns : StreamInv(e)
    BY DEF HubInv, TypeOK, StreamTypes
  <2>2. QED
    BY <2>1 DEF StreamTypes, StreamInv, CloseSession
<1>4. ASSUME NEW d \in Conns PROVE DisplacedInv(d)'
  BY DEF HubInv, TypeOK, TableInv, StreamInv, DisplacedInv, CloseSession
<1>5. ASSUME NEW j \in Ids PROVE CallInv(j)'
  BY DEF HubInv, TypeOK, TableInv, StreamInv, CallInv, Committed, Tracked, Settled, Holds, Ids, CloseSession
<1>6. late' = {}
  BY DEF HubInv, StreamInv, CloseSession
<1>7. QED
  BY <1>1, <1>2, <1>3, <1>4, <1>5, <1>6 DEF HubInv

\* Kick closes a stream.
LEMMA KickInv == ASSUME HubInv, NEW c \in Conns, Kick(c) PROVE HubInv'
<1>1. TypeOK'
  BY DEF HubInv, TypeOK, Kick
<1>2. ASSUME NEW m \in Nodes PROVE TableInv(m)'
  BY DEF HubInv, TypeOK, TableInv, Kick
<1>3. ASSUME NEW d \in Conns PROVE StreamInv(d)'
  <2>1. StreamTypes /\ \A e \in Conns : StreamInv(e)
    BY DEF HubInv, TypeOK, StreamTypes
  <2>2. QED
    BY <2>1 DEF StreamTypes, StreamInv, Kick
<1>4. ASSUME NEW d \in Conns PROVE DisplacedInv(d)'
  BY DEF HubInv, TypeOK, TableInv, StreamInv, DisplacedInv, Kick
<1>5. ASSUME NEW j \in Ids PROVE CallInv(j)'
  BY DEF HubInv, TypeOK, TableInv, StreamInv, CallInv, Committed, Tracked, Settled, Holds, Kick
<1>6. late' = {}
  BY DEF HubInv, StreamInv, Kick
<1>7. QED
  BY <1>1, <1>2, <1>3, <1>4, <1>5, <1>6 DEF HubInv

-----------------------------------------------------------------------------
\* A hub that has just been built satisfies the invariant.
LEMMA InitInv == Init => HubInv
<1> SUFFICES ASSUME Init PROVE HubInv
  OBVIOUS
<1>1. TypeOK
  BY DEF Init, TypeOK
<1>2. \A n \in Nodes : TableInv(n)
  BY DEF Init, TableInv
<1>3. \A c \in Conns : StreamInv(c) /\ DisplacedInv(c)
  BY DEF Init, StreamInv, DisplacedInv, Holds
<1>4. \A i \in Ids : CallInv(i)
  BY DEF Init, CallInv, Committed, Settled, Tracked, Holds
<1>5. QED
  BY <1>1, <1>2, <1>3, <1>4 DEF Init, HubInv

\* A step that changes nothing preserves the invariant.
LEMMA StutterInv == HubInv /\ UNCHANGED vars => HubInv'
<1> SUFFICES ASSUME HubInv, UNCHANGED vars PROVE HubInv'
  OBVIOUS
<1>1. TypeOK'
  BY DEF HubInv, TypeOK, vars
<1>2. \A n \in Nodes : TableInv(n)'
  BY DEF HubInv, TableInv, vars
<1>3. \A c \in Conns : StreamInv(c)' /\ DisplacedInv(c)'
  BY DEF HubInv, StreamInv, DisplacedInv, Holds, vars
<1>4. \A i \in Ids : CallInv(i)'
  BY DEF HubInv, CallInv, Committed, Settled, Tracked, Holds, vars
<1>5. QED
  BY <1>1, <1>2, <1>3, <1>4 DEF HubInv, vars

\* Every step of the hub, its callers, agents and operators preserves the invariant.
LEMMA StepInv == HubInv /\ [Next]_vars => HubInv'
<1> SUFFICES ASSUME HubInv, [Next]_vars PROVE HubInv'
  OBVIOUS
<1>1. ASSUME NEW c \in Conns, ConnStep(c) PROVE HubInv'
  BY <1>1, AttachInv, EvictInv, DeliverDataInv, DeliverEndInv, DetachCloseInv, DetachSweepInv,
     DetachOfflineInv, DetachNotifyInv DEF ConnStep
<1>2. ASSUME NEW c \in Conns, Agent(c) PROVE HubInv'
  BY <1>2, AuthenticateInv, RecvReadyInv, RecvBeatInv, LoopErrorInv, RecvDataInv, RecvEndInv DEF Agent
<1>3. ASSUME NEW c \in Conns, Writer(c) PROVE HubInv'
  BY <1>3, WriterSendInv, WriterFailInv, WriterDoneInv DEF Writer
<1>4. ASSUME NEW i \in Ids, CallerStep(i) PROVE HubInv'
  BY <1>4, RegisterInv, UndoInv, ReturnInv, SendCheckInv, SendEnqueueInv, SendClosedInv,
     SendTimeoutInv DEF CallerStep
<1>5. ASSUME NEW i \in Ids, User(i) PROVE HubInv'
  BY <1>5, LookupInv, CtxDoneInv, InputInv, CloseSessionInv DEF User
<1>6. QED
  BY <1>1, <1>2, <1>3, <1>4, <1>5, LoopDoneInv, KickInv, StutterInv DEF Next

-----------------------------------------------------------------------------
\* The inductive invariant holds in every reachable state.
THEOREM HubInvariant == Spec => []HubInv
BY InitInv, StepInv, PTL DEF Spec

\* Every variable of the hub keeps its type.
THEOREM TypeCorrect == Spec => []TypeOK
<1>1. HubInv => TypeOK
  BY DEF HubInv
<1>2. QED
  BY <1>1, HubInvariant, PTL

\* A call that waits, or a terminal that is open, on a stream whose Connect has returned has its
\* outcome: whatever send, dispatch, cancel and detach do in between, none is forgotten.
THEOREM CallsAreNeverAbandoned == Spec => []NoAbandonedCaller
<1>1. ASSUME HubInv, NEW i \in Ids, kpc[i] \in {"wait", "open"}, cpc[kconn[i]] = "gone"
      PROVE  outcomes[i] > 0
  <2>1. kconn[i] \in Conns /\ Committed(i) /\ CallInv(i) /\ StreamInv(kconn[i])
    BY <1>1 DEF HubInv, TypeOK, CallInv, Committed
  <2>2. ~Tracked(i)
    BY <1>1 DEF Tracked
  <2>3. i \notin owed[kconn[i]] /\ ~Holds(kconn[i], i)
    BY <1>1, <2>1 DEF StreamInv, Holds
  <2>4. QED
    BY <2>1, <2>2, <2>3 DEF CallInv, Settled
<1>2. HubInv => NoAbandonedCaller
  BY <1>1 DEF NoAbandonedCaller
<1>3. QED
  BY <1>2, HubInvariant, PTL

\* Hub.pending and Hub.sessions hold no id whose caller has returned, and none for a stream that
\* is gone except while its caller is about to take it back.
THEOREM NoLeaks == Spec => []NoLeakedEntry
<1>1. HubInv => NoLeakedEntry
  <2> SUFFICES ASSUME HubInv, NEW i \in Ids, entry[i] # NoConn
               PROVE  /\ kpc[i] \notin {"idle", "register", "done"}
                      /\ cpc[entry[i]] = "gone" => kpc[i] \in {"check", "select", "undo"}
    BY DEF NoLeakedEntry
  <2>1. CallInv(i) /\ kconn[i] \in Conns /\ StreamInv(kconn[i])
    BY DEF HubInv, TypeOK, CallInv
  <2>2. kpc[i] \in {"wait", "open"} /\ cpc[kconn[i]] = "gone" => Settled(i)
    BY <2>1 DEF CallInv, Committed, Tracked
  <2>3. QED
    BY <2>1, <2>2 DEF CallInv, StreamInv, Settled, Holds
<1>2. QED
  BY <1>1, HubInvariant, PTL

\* finish and OnExit are called at most once per id.
THEOREM OutcomesAreUnique == Spec => []AtMostOneOutcome
<1>1. HubInv => AtMostOneOutcome
  BY DEF HubInv, CallInv, AtMostOneOutcome
<1>2. QED
  BY <1>1, HubInvariant, PTL

\* No output line and no terminal byte is passed on after the outcome of its id.
THEOREM OutputPrecedesOutcome == Spec => []NoOutputAfterOutcome
<1>1. HubInv => NoOutputAfterOutcome
  BY DEF HubInv, NoOutputAfterOutcome
<1>2. QED
  BY <1>1, HubInvariant, PTL

\* A stream that serves a node and is not the node's current one is closed or about to be.
THEOREM StreamsAreUnique == Spec => []OneStreamPerNode
<1>1. HubInv => OneStreamPerNode
  BY DEF HubInv, DisplacedInv, OneStreamPerNode, Serving
<1>2. QED
  BY <1>1, HubInvariant, PTL

-----------------------------------------------------------------------------
(***************************************************************************)
(* A call that was given up stays stopped.  Which of the six forms this    *)
(* takes changes on the way: a queued stop frame is delivered or its       *)
(* stream closes, an id in detach's hands gets its outcome.                *)
(***************************************************************************)
Queued(i) == \E k \in 1..Len(queue[kconn[i]]) : queue[kconn[i]][k] = [id |-> i, kind |-> "stop"]

Stopped(i) == Settled(i) \/ closed[kconn[i]] \/ i \in told[kconn[i]] \/ Queued(i)

GivenUp(i) == kpc[i] = "done" /\ ret[i] \in {"ctx", "closed"}

StopInv(i) == GivenUp(i) => kconn[i] # NoConn /\ Stopped(i)

\* The typing facts that Stopped depends on.
StopTypes ==
  /\ cpc \in [Conns -> CpcStates] /\ hand \in [Conns -> Ids \cup {NoId}]
  /\ owed \in [Conns -> SUBSET Ids] /\ told \in [Conns -> SUBSET Ids]
  /\ queue \in [Conns -> Seq(Frame)] /\ closed \in [Conns -> BOOLEAN]
  /\ kconn \in [Ids -> Conns \cup {NoConn}] /\ outcomes \in [Ids -> Nat]

\* A step that leaves the caller of i alone need only keep Stopped(i).
LEMMA StopKept ==
  ASSUME StopTypes, NEW i \in Ids, StopInv(i),
         kpc'[i] = kpc[i], ret'[i] = ret[i], kconn'[i] = kconn[i],
         kconn[i] \in Conns /\ Stopped(i) => Stopped(i)'
  PROVE  StopInv(i)'
BY DEF StopInv, GivenUp, StopTypes

\* A stream's goroutine and the operator's kick: an id leaves detach's list and dispatch's
\* hands only with its outcome, and no stream is reopened.
LEMMA StreamKeepsStops ==
  ASSUME HubInv, NEW i \in Ids, StopInv(i), NEW c \in Conns,
         ConnStep(c) \/ Agent(c) \/ LoopDone(c) \/ Kick(c)
  PROVE  StopInv(i)'
<1>1. StopTypes /\ StreamInv(c)
  BY DEF HubInv, TypeOK, StopTypes
<1> USE DEF Stopped, Settled, Holds, Queued, StopTypes
<1>2. kpc' = kpc /\ ret' = ret /\ kconn' = kconn
  BY DEF ConnStep, Agent, LoopDone, Kick, Attach, Evict, DeliverData, DeliverEnd, DetachClose, DetachSweep,
         DetachOffline, DetachNotify, Authenticate, RecvReady, RecvBeat, LoopError, RecvData, RecvEnd
<1>3. CASE Attach(c)
  BY <1>1, <1>3, StopKept DEF Attach
<1>4. CASE Evict(c)
  BY <1>1, <1>4, StopKept DEF Evict
<1>5. CASE DeliverData(c)
  BY <1>1, <1>5, StopKept DEF DeliverData
<1>6. CASE DeliverEnd(c)
  <2>1. outcomes' = [outcomes EXCEPT ![hand[c]] = @ + 1]
    BY <1>6 DEF DeliverEnd
  <2>2. outcomes'[i] \in Nat /\ (outcomes[i] > 0 => outcomes'[i] > 0) /\ (hand[c] = i => outcomes'[i] > 0)
    BY <1>1, <2>1
  <2>3. \A d \in Conns : Holds(d, i) => d = c \/ Holds(d, i)'
    BY <1>1, <1>6 DEF DeliverEnd
  <2>4. owed' = owed /\ closed' = closed /\ told' = told /\ queue' = queue
    BY <1>6 DEF DeliverEnd
  <2>5. kconn[i] \in Conns /\ Stopped(i) => Stopped(i)'
    BY <1>2, <2>2, <2>3, <2>4
  <2>6. QED
    BY <1>1, <1>2, <2>5, StopKept
<1>7. CASE DetachClose(c)
  BY <1>1, <1>7, StopKept DEF DetachClose
<1>8. CASE DetachSweep(c)
  BY <1>1, <1>8, StopKept DEF DetachSweep, StreamInv
<1>9. CASE DetachOffline(c)
  BY <1>1, <1>9, StopKept DEF DetachOffline
<1>10. ASSUME NEW j \in Ids, DetachNotify(c, j) PROVE StopInv(i)'
  <2>1. outcomes' = [outcomes EXCEPT ![j] = @ + 1] /\ owed' = [owed EXCEPT ![c] = @ \ {j}]
    BY <1>10 DEF DetachNotify
  <2>2. outcomes'[i] \in Nat /\ (outcomes[i] > 0 => outcomes'[i] > 0) /\ (i = j => outcomes'[i] > 0)
    BY <1>1, <2>1
  <2>3. i # j => \A d \in Conns : i \in owed[d] => i \in owed'[d]
    BY <1>1, <2>1
  <2>4. cpc' = cpc /\ hand' = hand /\ closed' = closed /\ told' = told /\ queue' = queue
    BY <1>10 DEF DetachNotify
  <2>5. kconn[i] \in Conns /\ Stopped(i) => Stopped(i)'
    BY <1>2, <2>2, <2>3, <2>4
  <2>6. QED
    BY <1>1, <1>2, <2>5, StopKept
<1>11. CASE Authenticate(c) \/ RecvReady(c) \/ RecvBeat(c) \/ LoopError(c) \/ LoopDone(c) \/ Kick(c)
  BY <1>1, <1>11, StopKept DEF Authenticate, RecvReady, RecvBeat, LoopError, LoopDone, Kick
<1>12. ASSUME NEW j \in Ids, RecvData(c, j) PROVE StopInv(i)'
  BY <1>1, <1>12, StopKept DEF RecvData
<1>13. ASSUME NEW j \in Ids, RecvEnd(c, j) PROVE StopInv(i)'
  BY <1>1, <1>13, StopKept DEF RecvEnd
<1>14. QED
  BY <1>3, <1>4, <1>5, <1>6, <1>7, <1>8, <1>9, <1>10, <1>11, <1>12, <1>13 DEF ConnStep, Agent

\* The writer takes a stop frame off the queue only to deliver it, or to close the stream.
LEMMA WriterKeepsStops ==
  ASSUME HubInv, NEW i \in Ids, StopInv(i), NEW c \in Conns, Writer(c)
  PROVE  StopInv(i)'
<1>1. StopTypes
  BY DEF HubInv, TypeOK, StopTypes
<1> USE DEF Stopped, Settled, Holds, Queued
<1>2. CASE WriterSend(c)
  <2>1. /\ kpc' = kpc /\ ret' = ret /\ kconn' = kconn
    BY <1>2 DEF WriterSend
  <2> DEFINE q == queue[c]
  <2>2. q \in Seq(Frame) /\ q # <<>>
    BY <1>1, <1>2 DEF WriterSend, StopTypes
  <2>3. /\ Head(q) = q[1] /\ Len(q) \in Nat /\ Len(Tail(q)) = Len(q) - 1
        /\ \A k \in 1..Len(Tail(q)) : Tail(q)[k] = q[k + 1]
    BY <2>2, QueueTail
  <2>4. ASSUME kconn[i] = c, Queued(i) PROVE i \in told'[c] \/ Queued(i)'
    <3>1. PICK k \in 1..Len(q) : q[k] = [id |-> i, kind |-> "stop"]
      BY <2>4
    <3>2. CASE k = 1
      BY <1>1, <1>2, <2>3, <3>1, <3>2 DEF WriterSend, StopTypes
    <3>3. CASE k # 1
      <4>1. k - 1 \in 1..Len(Tail(q)) /\ Tail(q)[k - 1] = [id |-> i, kind |-> "stop"]
        BY <2>3, <3>1, <3>3
      <4>2. queue'[c] = Tail(q) /\ kconn'[i] = c
        BY <1>1, <1>2, <2>1, <2>4 DEF WriterSend, StopTypes
      <4>3. QED
        BY <4>1, <4>2
    <3>4. QED
      BY <3>2, <3>3
  <2>5. kconn[i] \in Conns /\ Stopped(i) => Stopped(i)'
    <3>1. CASE Queued(i) /\ kconn[i] = c
      BY <2>1, <2>4, <3>1
    <3>2. CASE Queued(i) /\ kconn[i] # c
      BY <1>1, <1>2, <2>1, <3>2 DEF WriterSend, StopTypes
    <3>3. CASE ~Queued(i)
      BY <1>1, <1>2, <2>1, <3>3 DEF WriterSend, StopTypes
    <3>4. QED
      BY <3>1, <3>2, <3>3
  <2>6. QED
    BY <1>1, <2>1, <2>5, StopKept
<1>3. CASE WriterFail(c)
  BY <1>1, <1>3, StopKept DEF WriterFail, StopTypes
<1>4. CASE WriterDone(c)
  BY <1>1, <1>4, StopKept DEF WriterDone, StopTypes
<1>5. QED
  BY <1>2, <1>3, <1>4 DEF Writer

\* A caller, its own call and any other: giving up leaves the call settled or goes on to send
\* the stop frame, and that send ends with the frame queued or the stream closed.
LEMMA CallerKeepsStops ==
  ASSUME HubInv, NEW i \in Ids, StopInv(i), NEW j \in Ids, CallerStep(j) \/ User(j)
  PROVE  StopInv(i)'
<1>1. StopTypes /\ CallInv(i) /\ CallInv(j)
  BY DEF HubInv, TypeOK, StopTypes
<1>2. /\ kpc \in [Ids -> KpcStates] /\ ret \in [Ids -> {"none", "agent", "offline", "ctx", "closed"}]
      /\ kframe \in [Ids -> {"open", "input", "stop"}] /\ entry \in [Ids -> Conns \cup {NoConn}]
      /\ answer \in [Ids -> {"none", "agent", "offline"}]
  BY DEF HubInv, TypeOK
<1> USE DEF Stopped, Settled, Holds, Queued
<1>3. CASE SendEnqueue(j)
  <2>1. kconn[j] \in Conns
    BY <1>1, <1>3 DEF SendEnqueue, CallInv, StopTypes
  <2> DEFINE q == queue[kconn[j]]
             f == [id |-> j, kind |-> kframe[j]]
  <2>2. q \in Seq(Frame) /\ f \in Frame
    BY <1>1, <1>2, <2>1 DEF StopTypes
  <2>3. /\ Len(q) \in Nat /\ Len(Append(q, f)) = Len(q) + 1
        /\ \A k \in 1..Len(q) : Append(q, f)[k] = q[k]
        /\ Append(q, f)[Len(q) + 1] = f
    BY <2>2, QueueAppend
  <2>4. queue'[kconn[j]] = Append(q, f) /\ \A c \in Conns \ {kconn[j]} : queue'[c] = queue[c]
    BY <1>1, <1>3, <2>1 DEF SendEnqueue, StopTypes
  <2>5. /\ closed' = closed /\ told' = told /\ kconn' = kconn /\ ret' = ret /\ outcomes' = outcomes
        /\ owed' = owed /\ hand' = hand /\ cpc' = cpc
    BY <1>3 DEF SendEnqueue
  <2>6. CASE i = j /\ GivenUp(i)'
    <3>1. kframe[j] = "stop"
      BY <1>2, <1>3, <2>6 DEF SendEnqueue, GivenUp
    <3>2. Len(q) + 1 \in 1..Len(queue'[kconn'[i]])
          /\ queue'[kconn'[i]][Len(q) + 1] = [id |-> i, kind |-> "stop"]
      BY <2>3, <2>4, <2>5, <2>6, <3>1
    <3>3. Queued(i)'
      BY <3>2
    <3>4. QED
      BY <2>1, <2>5, <2>6, <3>3 DEF StopInv
  <2>7. CASE i # j
    <3>1. kpc'[i] = kpc[i]
      BY <1>2, <1>3, <2>7 DEF SendEnqueue
    <3>2. kconn[i] \in Conns /\ Queued(i) => Queued(i)'
      <4>1. CASE kconn[i] = kconn[j]
        BY <2>3, <2>4, <2>5, <4>1
      <4>2. CASE kconn[i] \in Conns \ {kconn[j]}
        BY <2>4, <2>5, <4>2
      <4>3. QED
        BY <4>1, <4>2
    <3>3. QED
      BY <1>1, <2>5, <3>1, <3>2, StopKept
  <2>8. QED
    BY <2>6, <2>7 DEF StopInv
<1>4. CASE i # j /\ ~SendEnqueue(j)
  <2>1. /\ cpc' = cpc /\ hand' = hand /\ owed' = owed /\ told' = told /\ queue' = queue /\ outcomes' = outcomes
        /\ kpc'[i] = kpc[i] /\ ret'[i] = ret[i] /\ kconn'[i] = kconn[i]
    BY <1>1, <1>2, <1>4 DEF CallerStep, User, Register, Undo, Return, SendCheck, SendClosed, SendTimeout, Lookup,
       CtxDone, Input, CloseSession, StopTypes
  <2>2. closed' = closed \/ closed' = [closed EXCEPT ![kconn[j]] = TRUE]
    BY <1>4 DEF CallerStep, User, Register, Undo, Return, SendCheck, SendClosed, SendTimeout, Lookup,
       CtxDone, Input, CloseSession
  <2>3. QED
    BY <1>1, <2>1, <2>2, StopKept DEF StopTypes
<1>5. CASE i = j /\ (CtxDone(j) \/ CloseSession(j))
  <2>1. kconn[i] \in Conns /\ Committed(i)
    BY <1>1, <1>5 DEF CtxDone, CloseSession, CallInv, Committed, StopTypes
  <2>2. GivenUp(i)' => entry[i] = NoConn
    BY <1>2, <1>5 DEF CtxDone, CloseSession, GivenUp
  <2>3. entry[i] = NoConn => Settled(i)
    BY <1>1, <2>1 DEF CallInv, Tracked
  <2>4. Settled(i) => Settled(i)' /\ kconn'[i] # NoConn
    BY <1>5, <2>1 DEF CtxDone, CloseSession
  <2>5. QED
    BY <2>2, <2>3, <2>4 DEF StopInv
<1>6. CASE i = j /\ (SendCheck(j) \/ SendClosed(j) \/ SendTimeout(j))
  <2>1. kconn[i] \in Conns
    BY <1>1, <1>6 DEF SendCheck, SendClosed, SendTimeout, CallInv, StopTypes
  <2>2. kpc'[i] = "done" => closed'[kconn[i]] /\ kconn' = kconn
    BY <1>1, <1>2, <1>6, <2>1 DEF SendCheck, SendClosed, SendTimeout, StopTypes
  <2>3. QED
    BY <2>1, <2>2 DEF StopInv, GivenUp
<1>7. CASE i = j /\ (Register(j) \/ Undo(j) \/ Return(j) \/ Lookup(j) \/ Input(j))
  <2>1. ~GivenUp(i)'
    BY <1>2, <1>7 DEF Register, Undo, Return, Lookup, Input, GivenUp
  <2>2. QED
    BY <2>1 DEF StopInv
<1>8. QED
  BY <1>3, <1>4, <1>5, <1>6, <1>7 DEF CallerStep, User

\* A call that was cancelled or a terminal that was closed is stopped: it has its outcome or is
\* about to, or its stream is closed, or the stop frame is queued or delivered.
THEOREM StopsAreNeverLost == Spec => []StopIsNeverLost
<1> DEFINE Stops == \A i \in Ids : StopInv(i)
<1>1. Init => Stops
  BY DEF Init, StopInv, GivenUp
<1>2. HubInv /\ Stops /\ [Next]_vars => Stops'
  <2> SUFFICES ASSUME HubInv, Stops, [Next]_vars, NEW i \in Ids PROVE StopInv(i)'
    OBVIOUS
  <2>1. CASE UNCHANGED vars
    BY <2>1 DEF StopInv, GivenUp, Stopped, Settled, Holds, Queued, vars
  <2>2. CASE Next
    BY <2>2, StreamKeepsStops, WriterKeepsStops, CallerKeepsStops DEF Next
  <2>3. QED
    BY <2>1, <2>2
<1>3. HubInv /\ Stops => StopIsNeverLost
  <2> SUFFICES ASSUME HubInv, Stops, NEW i \in Ids, GivenUp(i)
               PROVE  \/ outcomes[i] > 0
                      \/ \E c \in Conns : i \in owed[c] \/ hand[c] = i
                      \/ closed[kconn[i]]
                      \/ i \in told[kconn[i]]
                      \/ Queued(i)
    BY DEF StopIsNeverLost, GivenUp, Queued
  <2>1. Stopped(i) /\ kconn[i] \in Conns
    BY DEF StopInv, HubInv, TypeOK
  <2>2. QED
    BY <2>1 DEF Stopped, Settled, Holds
<1>4. QED
  <2> HIDE DEF Stops
  <2>1. QED
    BY <1>1, <1>2, <1>3, HubInvariant, PTL DEF Spec

=============================================================================

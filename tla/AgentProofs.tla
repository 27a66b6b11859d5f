---------------------------- MODULE AgentProofs ----------------------------
(***************************************************************************)
(* Proofs about AgentSession, for any number of scripts, terminals and     *)
(* streams and any capacity of the queues: the types, that the session     *)
(* implements AgentWork, and that a closed terminal leaves no process.     *)
(***************************************************************************)
EXTENDS AgentSession, TLAPS, SequenceTheorems

-----------------------------------------------------------------------------
(* The inductive invariant. *)

\* What runs on the machine is what the exec loop of the current session is at, and there is
\* no exec loop while the agent dials: wg.Wait is what keeps two sessions apart.
JobInv ==
  /\ rpc = "push" => rhand \in Jobs
  /\ rpc = "spawn" => rhand \in Terms
  /\ xpc \in {"begin", "work", "log", "result"} => xhand \in Jobs
  /\ working = IF xpc \in {"work", "log"} THEN {xhand} ELSE {}
  /\ rpc = "dial" => xpc = "exit"

\* A terminal the panel opened on this stream and that still runs is in the table, unless the
\* reader is just about to store it; one whose pump has seen its end does not run.
TermInv(t) ==
  /\ t \in given => home[t] = gen
  /\ t \in given /\ t \in alive => t \in table \/ (rpc = "spawn" /\ rhand = t)
  /\ pump[t] = "none" /\ t \in alive => rpc = "spawn" /\ rhand = t
  /\ pump[t] \in {"exit", "over"} => t \notin alive

AgentInv ==
  /\ TypeOK
  /\ JobInv
  /\ \A t \in Terms : TermInv(t)
  /\ ClosedTerminalIsDead

-----------------------------------------------------------------------------
(* The assumptions on the constants, and the notation of AgentSession, are used throughout. *)
USE AgentAssumption DEF Ids, RpcStates, WpcStates, XpcStates, PumpStates, readVars, sendVars,
    jobVars, panelVars, termVars, Read, Work, Pumps, Stop, Found, done, Sent, SentOn,
    CloseBegin, CloseEnd, CloseAgain

\* What handing a frame to the exec loop, when there is room, leaves in execCh.
LEMMA RoomForOne ==
  ASSUME TypeOK, NEW i \in Jobs, Len(execCh) < ExecCap
  PROVE  Append(execCh, i) \in Seq(Jobs) /\ Len(Append(execCh, i)) <= ExecCap
<1>1. execCh \in Seq(Jobs) /\ Len(execCh) \in Nat
  BY LenProperties DEF TypeOK
<1>2. Append(execCh, i) \in Seq(Jobs) /\ Len(Append(execCh, i)) = Len(execCh) + 1
  BY <1>1, AppendProperties
<1>3. QED
  BY <1>1, <1>2

\* What taking a frame from execCh leaves.
LEMMA TakenFrame ==
  ASSUME TypeOK, execCh # <<>>
  PROVE  Head(execCh) \in Jobs /\ Tail(execCh) \in Seq(Jobs) /\ Len(Tail(execCh)) <= ExecCap
<1>1. execCh \in Seq(Jobs) /\ Len(execCh) \in Nat /\ Len(execCh) <= ExecCap
  BY LenProperties DEF TypeOK
<1>2. Head(execCh) \in Jobs /\ Tail(execCh) \in Seq(Jobs) /\ Len(Tail(execCh)) = Len(execCh) - 1
  BY <1>1, HeadTailProperties
<1>3. QED
  BY <1>1, <1>2

-----------------------------------------------------------------------------
(* Every action preserves the invariant. *)

\* A new session starts with nothing given, and the terminals of the last one are not its own.
LEMMA DialInv == ASSUME AgentInv, Dial PROVE AgentInv'
<1>1. TypeOK'
  BY DEF AgentInv, TypeOK, JobInv, Dial
<1>2. JobInv'
  BY DEF AgentInv, TypeOK, JobInv, Dial
<1>3. \A u \in Terms : TermInv(u)'
  BY DEF AgentInv, TypeOK, TermInv, Dial
<1>4. ClosedTerminalIsDead'
  BY DEF AgentInv, TypeOK, TermInv, ClosedTerminalIsDead, Dial
<1>5. QED
  BY <1>1, <1>2, <1>3, <1>4 DEF AgentInv

\* The loop dials again with no script at work, for the exec loop has returned.
LEMMA WaitInv == ASSUME AgentInv, Wait PROVE AgentInv'
<1>1. TypeOK'
  BY DEF AgentInv, TypeOK, JobInv, Wait
<1>2. JobInv'
  BY DEF AgentInv, TypeOK, JobInv, Wait
<1>3. \A u \in Terms : TermInv(u)'
  BY DEF AgentInv, TypeOK, TermInv, Wait
<1>4. ClosedTerminalIsDead'
  BY DEF AgentInv, TypeOK, TermInv, ClosedTerminalIsDead, Wait
<1>5. QED
  BY <1>1, <1>2, <1>3, <1>4 DEF AgentInv

\* The process is killed with everything that runs under it.
LEMMA RestartInv == ASSUME AgentInv, Restart PROVE AgentInv'
<1>1. TypeOK'
  BY DEF AgentInv, TypeOK, JobInv, Restart
<1>2. JobInv'
  BY DEF AgentInv, TypeOK, JobInv, Restart
<1>3. \A u \in Terms : TermInv(u)'
  BY DEF AgentInv, TypeOK, TermInv, Restart
<1>4. ClosedTerminalIsDead'
  BY DEF AgentInv, TypeOK, TermInv, ClosedTerminalIsDead, Restart
<1>5. QED
  BY <1>1, <1>2, <1>3, <1>4 DEF AgentInv

\* readLoop's deferred close stops terminals and opens none.
LEMMA ReaderClosesInv == ASSUME AgentInv, ReaderCloses PROVE AgentInv'
<1>1. TypeOK'
  BY DEF AgentInv, TypeOK, JobInv, ReaderCloses
<1>2. JobInv'
  BY DEF AgentInv, TypeOK, JobInv, ReaderCloses
<1>3. \A u \in Terms : TermInv(u)'
  BY DEF AgentInv, TypeOK, TermInv, ReaderCloses
<1>4. ClosedTerminalIsDead'
  BY DEF AgentInv, TypeOK, TermInv, ClosedTerminalIsDead, ReaderCloses
<1>5. QED
  BY <1>1, <1>2, <1>3, <1>4 DEF AgentInv

\* So does the close of a writer whose Send failed.
LEMMA WriterClosesInv == ASSUME AgentInv, WriterCloses PROVE AgentInv'
<1>1. TypeOK'
  BY DEF AgentInv, TypeOK, JobInv, WriterCloses
<1>2. JobInv'
  BY DEF AgentInv, TypeOK, JobInv, WriterCloses
<1>3. \A u \in Terms : TermInv(u)'
  BY DEF AgentInv, TypeOK, TermInv, WriterCloses
<1>4. ClosedTerminalIsDead'
  BY DEF AgentInv, TypeOK, TermInv, ClosedTerminalIsDead, WriterCloses
<1>5. QED
  BY <1>1, <1>2, <1>3, <1>4 DEF AgentInv

\* A failed Recv changes the reader only.
LEMMA RecvErrInv == ASSUME AgentInv, RecvErr PROVE AgentInv'
<1>1. TypeOK'
  BY DEF AgentInv, TypeOK, JobInv, RecvErr
<1>2. JobInv'
  BY DEF AgentInv, TypeOK, JobInv, RecvErr
<1>3. \A u \in Terms : TermInv(u)'
  BY DEF AgentInv, TypeOK, TermInv, RecvErr
<1>4. ClosedTerminalIsDead'
  BY DEF AgentInv, TypeOK, TermInv, ClosedTerminalIsDead, RecvErr
<1>5. QED
  BY <1>1, <1>2, <1>3, <1>4 DEF AgentInv

\* A frame handed to the exec loop, or dropped with the session, leaves the machine as it is.
LEMMA PushInv == ASSUME AgentInv, Push PROVE AgentInv'
<1>1. TypeOK'
  <2>1. rhand \in Jobs
    BY DEF AgentInv, JobInv, Push
  <2>2. CASE Len(execCh) < ExecCap /\ execCh' = Append(execCh, rhand) /\ Read("recv", NoId)
    <3>1. execCh' \in Seq(Jobs) /\ Len(execCh') <= ExecCap
      BY <2>1, <2>2, RoomForOne DEF AgentInv
    <3>2. QED
      BY <2>2, <3>1 DEF AgentInv, TypeOK, Push
  <2>3. CASE done /\ UNCHANGED execCh /\ Read("close", NoId)
    BY <2>3 DEF AgentInv, TypeOK, Push
  <2>4. QED
    BY <2>2, <2>3 DEF Push
<1>2. JobInv'
  BY DEF AgentInv, TypeOK, JobInv, Push
<1>3. \A u \in Terms : TermInv(u)'
  BY DEF AgentInv, TypeOK, TermInv, Push
<1>4. ClosedTerminalIsDead'
  BY DEF AgentInv, TypeOK, TermInv, ClosedTerminalIsDead, Push
<1>5. QED
  BY <1>1, <1>2, <1>3, <1>4 DEF AgentInv

\* The terminal just started enters the table and gets its pump.
LEMMA StoreInv == ASSUME AgentInv, Store PROVE AgentInv'
<1>1. TypeOK'
  BY DEF AgentInv, TypeOK, JobInv, Store
<1>2. JobInv'
  BY DEF AgentInv, TypeOK, JobInv, Store
<1>3. \A u \in Terms : TermInv(u)'
  BY DEF AgentInv, TypeOK, TermInv, Store
<1>4. ClosedTerminalIsDead'
  BY DEF AgentInv, TypeOK, TermInv, ClosedTerminalIsDead, Store
<1>5. QED
  BY <1>1, <1>2, <1>3, <1>4 DEF AgentInv

\* The notice that a terminal did not start touches the queue only.
LEMMA TellInv == ASSUME AgentInv, Tell PROVE AgentInv'
<1>1. TypeOK'
  BY DEF AgentInv, TypeOK, JobInv, Tell
<1>2. JobInv'
  BY DEF AgentInv, TypeOK, JobInv, Tell
<1>3. \A u \in Terms : TermInv(u)'
  BY DEF AgentInv, TypeOK, TermInv, Tell
<1>4. ClosedTerminalIsDead'
  BY DEF AgentInv, TypeOK, TermInv, ClosedTerminalIsDead, Tell
<1>5. QED
  BY <1>1, <1>2, <1>3, <1>4 DEF AgentInv

\* A write to a terminal touches the reader only.
LEMMA StdinDoneInv == ASSUME AgentInv, StdinDone PROVE AgentInv'
<1>1. TypeOK'
  BY DEF AgentInv, TypeOK, JobInv, StdinDone
<1>2. JobInv'
  BY DEF AgentInv, TypeOK, JobInv, StdinDone
<1>3. \A u \in Terms : TermInv(u)'
  BY DEF AgentInv, TypeOK, TermInv, StdinDone
<1>4. ClosedTerminalIsDead'
  BY DEF AgentInv, TypeOK, TermInv, ClosedTerminalIsDead, StdinDone
<1>5. QED
  BY <1>1, <1>2, <1>3, <1>4 DEF AgentInv

\* A frame leaves.
LEMMA WSendInv == ASSUME AgentInv, WSend PROVE AgentInv'
<1>1. TypeOK'
  BY DEF AgentInv, TypeOK, JobInv, WSend
<1>2. JobInv'
  BY DEF AgentInv, TypeOK, JobInv, WSend
<1>3. \A u \in Terms : TermInv(u)'
  BY DEF AgentInv, TypeOK, TermInv, WSend
<1>4. ClosedTerminalIsDead'
  BY DEF AgentInv, TypeOK, TermInv, ClosedTerminalIsDead, WSend
<1>5. QED
  BY <1>1, <1>2, <1>3, <1>4 DEF AgentInv

\* A frame does not leave.
LEMMA WFailInv == ASSUME AgentInv, WFail PROVE AgentInv'
<1>1. TypeOK'
  BY DEF AgentInv, TypeOK, JobInv, WFail
<1>2. JobInv'
  BY DEF AgentInv, TypeOK, JobInv, WFail
<1>3. \A u \in Terms : TermInv(u)'
  BY DEF AgentInv, TypeOK, TermInv, WFail
<1>4. ClosedTerminalIsDead'
  BY DEF AgentInv, TypeOK, TermInv, ClosedTerminalIsDead, WFail
<1>5. QED
  BY <1>1, <1>2, <1>3, <1>4 DEF AgentInv

\* The ticker fires.
LEMMA WBeatInv == ASSUME AgentInv, WBeat PROVE AgentInv'
<1>1. TypeOK'
  BY DEF AgentInv, TypeOK, JobInv, WBeat
<1>2. JobInv'
  BY DEF AgentInv, TypeOK, JobInv, WBeat
<1>3. \A u \in Terms : TermInv(u)'
  BY DEF AgentInv, TypeOK, TermInv, WBeat
<1>4. ClosedTerminalIsDead'
  BY DEF AgentInv, TypeOK, TermInv, ClosedTerminalIsDead, WBeat
<1>5. QED
  BY <1>1, <1>2, <1>3, <1>4 DEF AgentInv

\* The heartbeat is queued, or dropped with the session.
LEMMA WBeatSentInv == ASSUME AgentInv, WBeatSent PROVE AgentInv'
<1>1. TypeOK'
  BY DEF AgentInv, TypeOK, JobInv, WBeatSent
<1>2. JobInv'
  BY DEF AgentInv, TypeOK, JobInv, WBeatSent
<1>3. \A u \in Terms : TermInv(u)'
  BY DEF AgentInv, TypeOK, TermInv, WBeatSent
<1>4. ClosedTerminalIsDead'
  BY DEF AgentInv, TypeOK, TermInv, ClosedTerminalIsDead, WBeatSent
<1>5. QED
  BY <1>1, <1>2, <1>3, <1>4 DEF AgentInv

\* The writer sees done.
LEMMA WDoneInv == ASSUME AgentInv, WDone PROVE AgentInv'
<1>1. TypeOK'
  BY DEF AgentInv, TypeOK, JobInv, WDone
<1>2. JobInv'
  BY DEF AgentInv, TypeOK, JobInv, WDone
<1>3. \A u \in Terms : TermInv(u)'
  BY DEF AgentInv, TypeOK, TermInv, WDone
<1>4. ClosedTerminalIsDead'
  BY DEF AgentInv, TypeOK, TermInv, ClosedTerminalIsDead, WDone
<1>5. QED
  BY <1>1, <1>2, <1>3, <1>4 DEF AgentInv

\* The exec loop takes a frame and has started nothing yet.
LEMMA XTakeInv == ASSUME AgentInv, XTake PROVE AgentInv'
<1>1. TypeOK'
  <2>1. Head(execCh) \in Jobs /\ Tail(execCh) \in Seq(Jobs) /\ Len(Tail(execCh)) <= ExecCap
    BY TakenFrame DEF AgentInv, XTake
  <2>2. QED
    BY <2>1 DEF AgentInv, TypeOK, XTake
<1>2. JobInv'
  <2>1. Head(execCh) \in Jobs
    BY TakenFrame DEF AgentInv, XTake
  <2>2. QED
    BY <2>1 DEF AgentInv, TypeOK, JobInv, XTake
<1>3. \A u \in Terms : TermInv(u)'
  BY DEF AgentInv, TypeOK, TermInv, XTake
<1>4. ClosedTerminalIsDead'
  BY DEF AgentInv, TypeOK, TermInv, ClosedTerminalIsDead, XTake
<1>5. QED
  BY <1>1, <1>2, <1>3, <1>4 DEF AgentInv

\* A script starts on a machine that runs none, or a remembered result is fetched.
LEMMA XBeginInv == ASSUME AgentInv, XBegin PROVE AgentInv'
<1>1. TypeOK'
  BY DEF AgentInv, TypeOK, JobInv, XBegin
<1>2. JobInv'
  BY DEF AgentInv, TypeOK, JobInv, XBegin
<1>3. \A u \in Terms : TermInv(u)'
  BY DEF AgentInv, TypeOK, TermInv, XBegin
<1>4. ClosedTerminalIsDead'
  BY DEF AgentInv, TypeOK, TermInv, ClosedTerminalIsDead, XBegin
<1>5. QED
  BY <1>1, <1>2, <1>3, <1>4 DEF AgentInv

\* A line of output is scanned; the script goes on.
LEMMA XLogInv == ASSUME AgentInv, XLog PROVE AgentInv'
<1>1. TypeOK'
  BY DEF AgentInv, TypeOK, JobInv, XLog
<1>2. JobInv'
  BY DEF AgentInv, TypeOK, JobInv, XLog
<1>3. \A u \in Terms : TermInv(u)'
  BY DEF AgentInv, TypeOK, TermInv, XLog
<1>4. ClosedTerminalIsDead'
  BY DEF AgentInv, TypeOK, TermInv, ClosedTerminalIsDead, XLog
<1>5. QED
  BY <1>1, <1>2, <1>3, <1>4 DEF AgentInv

\* The line is queued; the script goes on.
LEMMA XLogSentInv == ASSUME AgentInv, XLogSent PROVE AgentInv'
<1>1. TypeOK'
  BY DEF AgentInv, TypeOK, JobInv, XLogSent
<1>2. JobInv'
  BY DEF AgentInv, TypeOK, JobInv, XLogSent
<1>3. \A u \in Terms : TermInv(u)'
  BY DEF AgentInv, TypeOK, TermInv, XLogSent
<1>4. ClosedTerminalIsDead'
  BY DEF AgentInv, TypeOK, TermInv, ClosedTerminalIsDead, XLogSent
<1>5. QED
  BY <1>1, <1>2, <1>3, <1>4 DEF AgentInv

\* The script ends and its result is remembered.
LEMMA XEndInv == ASSUME AgentInv, XEnd PROVE AgentInv'
<1>1. TypeOK'
  BY DEF AgentInv, TypeOK, JobInv, XEnd
<1>2. JobInv'
  BY DEF AgentInv, TypeOK, JobInv, XEnd
<1>3. \A u \in Terms : TermInv(u)'
  BY DEF AgentInv, TypeOK, TermInv, XEnd
<1>4. ClosedTerminalIsDead'
  BY DEF AgentInv, TypeOK, TermInv, ClosedTerminalIsDead, XEnd
<1>5. QED
  BY <1>1, <1>2, <1>3, <1>4 DEF AgentInv

\* The result is queued; the exec loop is free.
LEMMA XResultInv == ASSUME AgentInv, XResult PROVE AgentInv'
<1>1. TypeOK'
  BY DEF AgentInv, TypeOK, JobInv, XResult
<1>2. JobInv'
  BY DEF AgentInv, TypeOK, JobInv, XResult
<1>3. \A u \in Terms : TermInv(u)'
  BY DEF AgentInv, TypeOK, TermInv, XResult
<1>4. ClosedTerminalIsDead'
  BY DEF AgentInv, TypeOK, TermInv, ClosedTerminalIsDead, XResult
<1>5. QED
  BY <1>1, <1>2, <1>3, <1>4 DEF AgentInv

\* The exec loop sees done while it runs nothing.
LEMMA XDoneInv == ASSUME AgentInv, XDone PROVE AgentInv'
<1>1. TypeOK'
  BY DEF AgentInv, TypeOK, JobInv, XDone
<1>2. JobInv'
  BY DEF AgentInv, TypeOK, JobInv, XDone
<1>3. \A u \in Terms : TermInv(u)'
  BY DEF AgentInv, TypeOK, TermInv, XDone
<1>4. ClosedTerminalIsDead'
  BY DEF AgentInv, TypeOK, TermInv, ClosedTerminalIsDead, XDone
<1>5. QED
  BY <1>1, <1>2, <1>3, <1>4 DEF AgentInv

\* A script is received; the reader holds it.
LEMMA RecvExecInv == ASSUME AgentInv, NEW i \in Jobs, RecvExec(i) PROVE AgentInv'
<1>1. TypeOK'
  BY DEF AgentInv, TypeOK, JobInv, RecvExec
<1>2. JobInv'
  BY DEF AgentInv, TypeOK, JobInv, RecvExec
<1>3. \A u \in Terms : TermInv(u)'
  BY DEF AgentInv, TypeOK, TermInv, RecvExec
<1>4. ClosedTerminalIsDead'
  BY DEF AgentInv, TypeOK, TermInv, ClosedTerminalIsDead, RecvExec
<1>5. QED
  BY <1>1, <1>2, <1>3, <1>4 DEF AgentInv

\* A cancel concerns scripts, not terminals.
LEMMA RecvCancelInv == ASSUME AgentInv, NEW i \in Jobs, RecvCancel(i) PROVE AgentInv'
<1>1. TypeOK'
  BY DEF AgentInv, TypeOK, JobInv, RecvCancel
<1>2. JobInv'
  BY DEF AgentInv, TypeOK, JobInv, RecvCancel
<1>3. \A u \in Terms : TermInv(u)'
  BY DEF AgentInv, TypeOK, TermInv, RecvCancel
<1>4. ClosedTerminalIsDead'
  BY DEF AgentInv, TypeOK, TermInv, ClosedTerminalIsDead, RecvCancel
<1>5. QED
  BY <1>1, <1>2, <1>3, <1>4 DEF AgentInv

\* An old result is dropped; what runs is not affected.
LEMMA ForgetInv == ASSUME AgentInv, NEW i \in Jobs, Forget(i) PROVE AgentInv'
<1>1. TypeOK'
  BY DEF AgentInv, TypeOK, JobInv, Forget
<1>2. JobInv'
  BY DEF AgentInv, TypeOK, JobInv, Forget
<1>3. \A u \in Terms : TermInv(u)'
  BY DEF AgentInv, TypeOK, TermInv, Forget
<1>4. ClosedTerminalIsDead'
  BY DEF AgentInv, TypeOK, TermInv, ClosedTerminalIsDead, Forget
<1>5. QED
  BY <1>1, <1>2, <1>3, <1>4 DEF AgentInv

\* A terminal is started, in the reader's hands until it is stored, or is over at once.
LEMMA RecvOpenInv == ASSUME AgentInv, NEW t \in Terms, RecvOpen(t) PROVE AgentInv'
<1>1. TypeOK'
  BY DEF AgentInv, TypeOK, JobInv, RecvOpen
<1>2. JobInv'
  BY DEF AgentInv, TypeOK, JobInv, RecvOpen
<1>3. \A u \in Terms : TermInv(u)'
  BY DEF AgentInv, TypeOK, TermInv, RecvOpen
<1>4. ClosedTerminalIsDead'
  BY DEF AgentInv, TypeOK, TermInv, ClosedTerminalIsDead, RecvOpen
<1>5. QED
  BY <1>1, <1>2, <1>3, <1>4 DEF AgentInv

\* Keys are received for a terminal in the table.
LEMMA RecvStdinInv == ASSUME AgentInv, NEW t \in Terms, RecvStdin(t) PROVE AgentInv'
<1>1. TypeOK'
  BY DEF AgentInv, TypeOK, JobInv, RecvStdin
<1>2. JobInv'
  BY DEF AgentInv, TypeOK, JobInv, RecvStdin
<1>3. \A u \in Terms : TermInv(u)'
  BY DEF AgentInv, TypeOK, TermInv, RecvStdin
<1>4. ClosedTerminalIsDead'
  BY DEF AgentInv, TypeOK, TermInv, ClosedTerminalIsDead, RecvStdin
<1>5. QED
  BY <1>1, <1>2, <1>3, <1>4 DEF AgentInv

\* A close finds every terminal that still runs: the reader has stored it before it reads on.
LEMMA RecvCloseInv == ASSUME AgentInv, NEW t \in Terms, RecvClose(t) PROVE AgentInv'
<1>1. TypeOK'
  BY DEF AgentInv, TypeOK, JobInv, RecvClose
<1>2. JobInv'
  BY DEF AgentInv, TypeOK, JobInv, RecvClose
<1>3. \A u \in Terms : TermInv(u)'
  BY DEF AgentInv, TypeOK, TermInv, RecvClose
<1>4. ClosedTerminalIsDead'
  BY DEF AgentInv, TypeOK, TermInv, ClosedTerminalIsDead, RecvClose
<1>5. QED
  BY <1>1, <1>2, <1>3, <1>4 DEF AgentInv

\* A program ends.
LEMMA TermEndsInv == ASSUME AgentInv, NEW t \in Terms, TermEnds(t) PROVE AgentInv'
<1>1. TypeOK'
  BY DEF AgentInv, TypeOK, JobInv, TermEnds
<1>2. JobInv'
  BY DEF AgentInv, TypeOK, JobInv, TermEnds
<1>3. \A u \in Terms : TermInv(u)'
  BY DEF AgentInv, TypeOK, TermInv, TermEnds
<1>4. ClosedTerminalIsDead'
  BY DEF AgentInv, TypeOK, TermInv, ClosedTerminalIsDead, TermEnds
<1>5. QED
  BY <1>1, <1>2, <1>3, <1>4 DEF AgentInv

\* A pump reads output of a program that runs.
LEMMA PReadInv == ASSUME AgentInv, NEW t \in Terms, PRead(t) PROVE AgentInv'
<1>1. TypeOK'
  BY DEF AgentInv, TypeOK, JobInv, PRead
<1>2. JobInv'
  BY DEF AgentInv, TypeOK, JobInv, PRead
<1>3. \A u \in Terms : TermInv(u)'
  BY DEF AgentInv, TypeOK, TermInv, PRead
<1>4. ClosedTerminalIsDead'
  BY DEF AgentInv, TypeOK, TermInv, ClosedTerminalIsDead, PRead
<1>5. QED
  BY <1>1, <1>2, <1>3, <1>4 DEF AgentInv

\* A pump queues output.
LEMMA PDataInv == ASSUME AgentInv, NEW t \in Terms, PData(t) PROVE AgentInv'
<1>1. TypeOK'
  BY DEF AgentInv, TypeOK, JobInv, PData
<1>2. JobInv'
  BY DEF AgentInv, TypeOK, JobInv, PData
<1>3. \A u \in Terms : TermInv(u)'
  BY DEF AgentInv, TypeOK, TermInv, PData
<1>4. ClosedTerminalIsDead'
  BY DEF AgentInv, TypeOK, TermInv, ClosedTerminalIsDead, PData
<1>5. QED
  BY <1>1, <1>2, <1>3, <1>4 DEF AgentInv

\* The output ends, perhaps before the program: the terminal stays in the table.
LEMMA PEofInv == ASSUME AgentInv, NEW t \in Terms, PEof(t) PROVE AgentInv'
<1>1. TypeOK'
  BY DEF AgentInv, TypeOK, JobInv, PEof
<1>2. JobInv'
  BY DEF AgentInv, TypeOK, JobInv, PEof
<1>3. \A u \in Terms : TermInv(u)'
  BY DEF AgentInv, TypeOK, TermInv, PEof
<1>4. ClosedTerminalIsDead'
  BY DEF AgentInv, TypeOK, TermInv, ClosedTerminalIsDead, PEof
<1>5. QED
  BY <1>1, <1>2, <1>3, <1>4 DEF AgentInv

\* A pump has waited for the program.
LEMMA PWaitInv == ASSUME AgentInv, NEW t \in Terms, PWait(t) PROVE AgentInv'
<1>1. TypeOK'
  BY DEF AgentInv, TypeOK, JobInv, PWait
<1>2. JobInv'
  BY DEF AgentInv, TypeOK, JobInv, PWait
<1>3. \A u \in Terms : TermInv(u)'
  BY DEF AgentInv, TypeOK, TermInv, PWait
<1>4. ClosedTerminalIsDead'
  BY DEF AgentInv, TypeOK, TermInv, ClosedTerminalIsDead, PWait
<1>5. QED
  BY <1>1, <1>2, <1>3, <1>4 DEF AgentInv

\* A terminal leaves the table once its program is dead.
LEMMA PExitInv == ASSUME AgentInv, NEW t \in Terms, PExit(t) PROVE AgentInv'
<1>1. TypeOK'
  BY DEF AgentInv, TypeOK, JobInv, PExit
<1>2. JobInv'
  BY DEF AgentInv, TypeOK, JobInv, PExit
<1>3. \A u \in Terms : TermInv(u)'
  BY DEF AgentInv, TypeOK, TermInv, PExit
<1>4. ClosedTerminalIsDead'
  BY DEF AgentInv, TypeOK, TermInv, ClosedTerminalIsDead, PExit
<1>5. QED
  BY <1>1, <1>2, <1>3, <1>4 DEF AgentInv

\* A stutter preserves it.
LEMMA StutterInv == ASSUME AgentInv, UNCHANGED vars PROVE AgentInv'
BY DEF AgentInv, TypeOK, JobInv, TermInv, ClosedTerminalIsDead, vars

-----------------------------------------------------------------------------
\* The agent starts with nothing running and no terminal.
LEMMA InitInv == Init => AgentInv
<1> SUFFICES ASSUME Init PROVE AgentInv
  OBVIOUS
<1>1. execCh \in Seq(Jobs) /\ Len(execCh) <= ExecCap
  BY EmptySeq DEF Init
<1>2. TypeOK
  BY <1>1 DEF Init, TypeOK
<1>3. JobInv /\ (\A t \in Terms : TermInv(t)) /\ ClosedTerminalIsDead
  BY DEF Init, JobInv, TermInv, ClosedTerminalIsDead
<1>4. QED
  BY <1>2, <1>3 DEF AgentInv

\* Every step of the agent, of the panel and of the programs preserves the invariant.
LEMMA StepInv == AgentInv /\ [Next]_vars => AgentInv'
<1> SUFFICES ASSUME AgentInv, [Next]_vars PROVE AgentInv'
  OBVIOUS
<1>1. CASE Panel
  BY <1>1, RecvExecInv, RecvCancelInv, RecvOpenInv, RecvStdinInv, RecvCloseInv DEF Panel
<1>2. CASE Programs
  BY <1>2, XLogInv, XEndInv, StdinDoneInv, TermEndsInv, PReadInv, PEofInv DEF Programs
<1>3. CASE Reader
  BY <1>3, PushInv, StoreInv, TellInv, ReaderClosesInv, WaitInv DEF Reader
<1>4. CASE Writer
  BY <1>4, WSendInv, WFailInv, WBeatSentInv, WriterClosesInv DEF Writer
<1>5. CASE ExecLoop
  BY <1>5, XTakeInv, XBeginInv, XLogSentInv, XResultInv, XDoneInv DEF ExecLoop
<1>6. CASE \E t \in Terms : Pump(t)
  BY <1>6, PDataInv, PWaitInv, PExitInv, PEofInv DEF Pump
<1>7. QED
  BY <1>1, <1>2, <1>3, <1>4, <1>5, <1>6, DialInv, RestartInv, RecvErrInv, WBeatInv, WDoneInv,
     ForgetInv, StutterInv DEF Next

-----------------------------------------------------------------------------
\* The inductive invariant holds in every reachable state.
THEOREM AgentInvariant == Spec => []AgentInv
BY InitInv, StepInv, PTL DEF Spec

\* Every variable of the agent's session keeps its type.
THEOREM AgentTypeCorrect == Spec => []TypeOK
<1>1. AgentInv => TypeOK
  BY DEF AgentInv
<1>2. QED
  BY <1>1, AgentInvariant, PTL

\* The process of a terminal the panel closed is dead, whatever its pump was doing.
THEOREM ClosedTerminalsAreDead == Spec => []ClosedTerminalIsDead
<1>1. AgentInv => ClosedTerminalIsDead
  BY DEF AgentInv
<1>2. QED
  BY <1>1, AgentInvariant, PTL

-----------------------------------------------------------------------------
(* The session implements AgentWork.  Only the exec loop, idempotentStore and the death of *)
(* the process touch what AgentWork sees; every other step is a stutter of it.             *)

\* A script starts on an idle machine, and not if its result is remembered.
LEMMA BeginMaps == ASSUME AgentInv, XBegin PROVE [Abs!Next]_<<working, cached>>
<1>1. CASE xhand \in cached
  BY <1>1 DEF XBegin
<1>2. CASE xhand \notin cached
  <2>1. xhand \in Jobs /\ working = {}
    BY DEF XBegin, AgentInv, JobInv
  <2>2. Abs!Begin(xhand)
    BY <1>2, <2>1 DEF XBegin, Abs!Begin
  <2>3. QED
    BY <2>1, <2>2 DEF Abs!Next
<1>3. QED
  BY <1>1, <1>2

\* A script that ends is the one that runs.
LEMMA EndMaps == ASSUME AgentInv, XEnd PROVE [Abs!Next]_<<working, cached>>
<1>1. xhand \in Jobs /\ xhand \in working
  BY DEF XEnd, AgentInv, JobInv
<1>2. Abs!End(xhand)
  BY <1>1 DEF XEnd, Abs!End
<1>3. QED
  BY <1>1, <1>2 DEF Abs!Next

\* The other steps that change what AgentWork sees.
LEMMA LossMaps ==
  ASSUME Restart \/ \E i \in Jobs : Forget(i)
  PROVE  [Abs!Next]_<<working, cached>>
<1>1. CASE Restart
  BY <1>1 DEF Restart, Abs!Die, Abs!Next
<1>2. CASE \E i \in Jobs : Forget(i)
  BY <1>2 DEF Forget, Abs!Forget, Abs!Next
<1>3. QED
  BY <1>1, <1>2

\* A step of the session is a step of AgentWork or a stutter of it.
LEMMA StepMaps == AgentInv /\ [Next]_vars => [Abs!Next]_<<working, cached>>
<1> SUFFICES ASSUME AgentInv, [Next]_vars PROVE [Abs!Next]_<<working, cached>>
  OBVIOUS
<1>1. CASE Panel
  BY <1>1 DEF Panel, RecvExec, RecvCancel, RecvOpen, RecvStdin, RecvClose
<1>2. CASE Programs
  BY <1>2, EndMaps DEF Programs, XLog, StdinDone, TermEnds, PRead, PEof
<1>3. CASE Reader
  BY <1>3 DEF Reader, Push, Store, Tell, ReaderCloses, Wait
<1>4. CASE Writer
  BY <1>4 DEF Writer, WSend, WFail, WBeatSent, WriterCloses
<1>5. CASE ExecLoop
  BY <1>5, BeginMaps DEF ExecLoop, XTake, XLogSent, XResult, XDone
<1>6. CASE \E t \in Terms : Pump(t)
  BY <1>6 DEF Pump, PData, PWait, PExit, PEof
<1>7. CASE Dial \/ RecvErr \/ WBeat \/ WDone \/ UNCHANGED vars
  BY <1>7 DEF Dial, RecvErr, WBeat, WDone, vars
<1>8. QED
  BY <1>1, <1>2, <1>3, <1>4, <1>5, <1>6, <1>7, LossMaps DEF Next

\* The agent runs one script or install at a time and never one whose result it remembers,
\* across lost connections and restarts: the session implements AgentWork.
THEOREM AgentRefinesWork == Spec => OneScriptAtATime
<1>1. Init => Abs!Init
  BY DEF Init, Abs!Init
<1>2. QED
  BY <1>1, StepMaps, AgentInvariant, PTL DEF Spec, Abs!Spec, OneScriptAtATime

=============================================================================

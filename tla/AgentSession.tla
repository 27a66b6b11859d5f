---------------------------- MODULE AgentSession ----------------------------
(***************************************************************************)
(* The node agent's side of a stream (internal/agent/conn.go, stream.go,   *)
(* exec.go, idempotent.go): the goroutines of a session -- the reader that *)
(* is also runSession, the only writer, the exec loop -- the pump of every *)
(* terminal, and the loop of agent.go that dials again once a session is   *)
(* over.  A step is what one goroutine does between two channel operations,*)
(* accesses of a sync.Map, or calls that block.                            *)
(*                                                                         *)
(* The panel is the environment: it sends the frames Hub.tla lets it send, *)
(* reads what it is sent or does not, and the stream may break at any time.*)
(* Frames are not kept, only how many wait in sendCh.                      *)
(***************************************************************************)
EXTENDS Naturals, Sequences

CONSTANTS
  Jobs,     \* request ids of exec and install frames
  Terms,    \* request ids of terminals
  NoId,
  SendCap,  \* capacity of session.sendCh (64)
  ExecCap,  \* capacity of session.execCh (execQueueDepth)
  MaxGen,   \* bound: streams opened in a behaviour
  Events    \* what may happen: "beat", "again", "forget", "restart"

Ids == Jobs \cup Terms

ASSUME AgentAssumption ==
  /\ Jobs \cap Terms = {}
  /\ NoId \notin Ids
  /\ SendCap \in Nat \ {0}
  /\ ExecCap \in Nat \ {0}
  /\ MaxGen \in Nat
  /\ Events \subseteq {"beat", "again", "forget", "restart"}

VARIABLES
  gen,      \* streams opened so far; a session is named by its number
  rpc,      \* the reader
  rhand,    \* the id of the frame it is working on
  once,     \* session.once: "free", "busy", or "over" with done closed
  wpc,      \* the writer
  backlog,  \* length of sendCh
  xpc,      \* the exec loop
  xhand,    \* the id it is working on
  execCh,   \* execCh
  cancels,  \* ids in session.cancels
  killed,   \* ids whose context was cancelled
  given,    \* ids the panel sent on this stream
  asked,    \* ids it then asked to cancel or to close
  answered, \* ids whose result was queued, or dropped as the session was over
  working,  \* scripts and installs running on the machine
  cached,   \* idempotentStore.done
  table,    \* ids in session.sessions, of whatever session
  home,     \* the session a terminal was opened on
  pump,     \* the terminal's pump
  alive     \* terminals whose process runs

readVars == <<rpc, rhand>>
sendVars == <<wpc, backlog>>
jobVars == <<xpc, xhand, cancels, killed, working, cached>>
panelVars == <<given, asked, answered>>
termVars == <<table, home, pump, alive>>
vars == <<gen, readVars, once, sendVars, execCh, jobVars, panelVars, termVars>>

RpcStates == {"dial", "recv", "push", "spawn", "tell", "stdin", "close", "closing", "wait"}
WpcStates == {"run", "beat", "close", "closing", "exit"}
XpcStates == {"idle", "begin", "work", "log", "result", "exit"}
PumpStates == {"none", "read", "data", "wait", "exit", "over"}

TypeOK ==
  /\ gen \in 0 .. MaxGen
  /\ rpc \in RpcStates /\ rhand \in Ids \cup {NoId}
  /\ once \in {"free", "busy", "over"}
  /\ wpc \in WpcStates /\ backlog \in 0 .. SendCap
  /\ xpc \in XpcStates /\ xhand \in Jobs \cup {NoId}
  /\ execCh \in Seq(Jobs) /\ Len(execCh) <= ExecCap
  /\ cancels \subseteq Jobs /\ killed \subseteq Jobs
  /\ given \subseteq Ids /\ asked \subseteq given /\ answered \subseteq Jobs
  /\ working \subseteq Jobs /\ cached \subseteq Jobs
  /\ table \subseteq Terms /\ alive \subseteq Terms
  /\ home \in [Terms -> 0 .. MaxGen]
  /\ pump \in [Terms -> PumpStates]

Init ==
  /\ gen = 0
  /\ rpc = "dial" /\ rhand = NoId
  /\ once = "over"
  /\ wpc = "exit" /\ backlog = 0
  /\ xpc = "exit" /\ xhand = NoId /\ execCh = <<>> /\ cancels = {} /\ killed = {}
  /\ given = {} /\ asked = {} /\ answered = {}
  /\ working = {} /\ cached = {}
  /\ table = {} /\ alive = {}
  /\ home = [t \in Terms |-> 0]
  /\ pump = [t \in Terms |-> "none"]

-----------------------------------------------------------------------------
(* Shared by the goroutines. *)

done == once = "over"

\* Slips: an unbounded queue; a send that does not look at done.
SentAlways == backlog' = backlog + 1
SentOrBlocked == backlog < SendCap /\ backlog' = backlog + 1

\* session.send: select between room in the queue and done.
Sent ==
  \/ backlog < SendCap /\ backlog' = backlog + 1
  \/ done /\ UNCHANGED backlog

\* The same from a goroutine of session g, whose queue is gone with it.
SentOn(g) == IF g = gen THEN Sent ELSE UNCHANGED backlog

\* lookupSession: the reader of this session finds its own terminals only.
Found(t) == t \in table /\ home[t] = gen

\* streamSession.stop of every terminal in ts.
Stop(ts) == alive' = alive \ ts

Read(pc, i) == rpc' = pc /\ rhand' = i

-----------------------------------------------------------------------------
(* runSession, and the loop of agent.go around it. *)

\* A stream is opened and its first frame queued; a dial that fails changes nothing.
Dial ==
  /\ rpc = "dial" /\ gen < MaxGen
  /\ gen' = gen + 1
  /\ Read("recv", NoId)
  /\ once' = "free"
  /\ wpc' = "run" /\ backlog' = 1
  /\ xpc' = "idle" /\ xhand' = NoId /\ execCh' = <<>> /\ cancels' = {} /\ killed' = {}
  /\ given' = {} /\ asked' = {} /\ answered' = {}
  /\ UNCHANGED <<working, cached, termVars>>

\* A slip: the next session does not wait for the script of this one.
WaitForWriter ==
  /\ rpc = "wait" /\ wpc = "exit"
  /\ Read("dial", NoId)
  /\ UNCHANGED <<gen, once, sendVars, execCh, jobVars, panelVars, termVars>>

\* wg.Wait: the session is over when the writer and the exec loop have returned.
Wait ==
  /\ rpc = "wait" /\ wpc = "exit" /\ xpc = "exit"
  /\ Read("dial", NoId)
  /\ UNCHANGED <<gen, once, sendVars, execCh, jobVars, panelVars, termVars>>

\* The process is killed, and its unit's control group with it.
Restart ==
  /\ "restart" \in Events
  /\ Read("dial", NoId)
  /\ once' = "over"
  /\ wpc' = "exit" /\ backlog' = 0
  /\ xpc' = "exit" /\ xhand' = NoId /\ execCh' = <<>> /\ cancels' = {} /\ killed' = {}
  /\ given' = {} /\ asked' = {} /\ answered' = {}
  /\ working' = {} /\ cached' = {}
  /\ table' = {} /\ alive' = {}
  /\ pump' = [t \in Terms |-> IF pump[t] = "none" /\ rhand # t THEN "none" ELSE "over"]
  /\ UNCHANGED <<gen, home>>

-----------------------------------------------------------------------------
(* close: the first caller stops the terminals, closes done and cancels the stream's *)
(* context; a second one waits for it.                                              *)

CloseBegin ==
  /\ once = "free" /\ once' = "busy"
  /\ Stop({t \in Terms : Found(t)})

CloseEnd == once = "busy" /\ once' = "over" /\ UNCHANGED alive

CloseAgain == done /\ UNCHANGED <<once, alive>>

ReaderCloses ==
  /\ \/ rpc = "close" /\ CloseBegin /\ rpc' = "closing"
     \/ rpc = "closing" /\ CloseEnd /\ rpc' = "wait"
     \/ rpc = "close" /\ CloseAgain /\ rpc' = "wait"
  /\ UNCHANGED <<gen, rhand, sendVars, execCh, jobVars, panelVars, table, home, pump>>

WriterCloses ==
  /\ \/ wpc = "close" /\ CloseBegin /\ wpc' = "closing"
     \/ wpc = "closing" /\ CloseEnd /\ wpc' = "exit"
     \/ wpc = "close" /\ CloseAgain /\ wpc' = "exit"
  /\ UNCHANGED <<gen, readVars, backlog, execCh, jobVars, panelVars, table, home, pump>>

-----------------------------------------------------------------------------
(* readLoop *)

\* Recv fails: the stream broke, or close cancelled its context.
RecvErr ==
  /\ rpc = "recv" /\ Read("close", NoId)
  /\ UNCHANGED <<gen, once, sendVars, execCh, jobVars, panelVars, termVars>>

\* The panel draws a new id for every call; "again" adds the repeated delivery that
\* idempotentStore is there for.
RecvExec(i) ==
  /\ rpc = "recv"
  /\ i \notin given
  /\ "again" \in Events \/ i \notin cached
  /\ given' = given \cup {i}
  /\ Read("push", i)
  /\ UNCHANGED <<gen, once, sendVars, execCh, jobVars, asked, answered, termVars>>

\* A slip: a full execCh drops the frame so as not to block the reader.
PushOrDrop ==
  /\ rpc = "push"
  /\ execCh' = IF Len(execCh) < ExecCap THEN Append(execCh, rhand) ELSE execCh
  /\ Read("recv", NoId)
  /\ UNCHANGED <<gen, once, sendVars, jobVars, panelVars, termVars>>

Push ==
  /\ rpc = "push"
  /\ \/ Len(execCh) < ExecCap /\ execCh' = Append(execCh, rhand) /\ Read("recv", NoId)
     \/ done /\ UNCHANGED execCh /\ Read("close", NoId)
  /\ UNCHANGED <<gen, once, sendVars, jobVars, panelVars, termVars>>

RecvCancel(i) ==
  /\ rpc = "recv"
  /\ i \in given \ asked
  /\ asked' = asked \cup {i}
  /\ killed' = killed \cup ({i} \cap cancels)
  /\ UNCHANGED <<gen, readVars, once, sendVars, execCh, xpc, xhand, cancels, working, cached,
                 given, answered, termVars>>

\* startStreamSession: the process starts, or the panel is told that it did not.
RecvOpen(t) ==
  /\ rpc = "recv"
  /\ t \notin given /\ pump[t] = "none"
  /\ given' = given \cup {t}
  /\ home' = [home EXCEPT ![t] = gen]
  /\ \/ Read("spawn", t) /\ alive' = alive \cup {t} /\ UNCHANGED pump
     \/ Read("tell", t) /\ UNCHANGED alive /\ pump' = [pump EXCEPT ![t] = "over"]
  /\ UNCHANGED <<gen, once, sendVars, execCh, jobVars, asked, answered, table>>

Store ==
  /\ rpc = "spawn"
  /\ table' = table \cup {rhand}
  /\ pump' = [pump EXCEPT ![rhand] = "read"]
  /\ Read("recv", NoId)
  /\ UNCHANGED <<gen, once, sendVars, execCh, jobVars, panelVars, home, alive>>

Tell ==
  /\ rpc = "tell" /\ Sent
  /\ Read("recv", NoId)
  /\ UNCHANGED <<gen, once, wpc, execCh, jobVars, panelVars, termVars>>

\* Keys typed in a terminal; a frame for a terminal that is gone, and a resize, change nothing.
RecvStdin(t) ==
  /\ rpc = "recv"
  /\ Found(t) /\ t \notin asked
  /\ Read("stdin", t)
  /\ UNCHANGED <<gen, once, sendVars, execCh, jobVars, panelVars, termVars>>

\* The write returns when the program reads, or with an error once it is dead.
StdinDone ==
  /\ rpc = "stdin" /\ Read("recv", NoId)
  /\ UNCHANGED <<gen, once, sendVars, execCh, jobVars, panelVars, termVars>>

RecvClose(t) ==
  /\ rpc = "recv"
  /\ t \in given \ asked
  /\ asked' = asked \cup {t}
  /\ Stop({t} \cap {u \in Terms : Found(u)})
  /\ UNCHANGED <<gen, readVars, once, sendVars, execCh, jobVars, given, answered,
                 table, home, pump>>

-----------------------------------------------------------------------------
(* writeLoop *)

WSend ==
  /\ wpc = "run" /\ backlog > 0 /\ ~done
  /\ backlog' = backlog - 1
  /\ UNCHANGED <<gen, readVars, once, wpc, execCh, jobVars, panelVars, termVars>>

WFail ==
  /\ wpc = "run" /\ backlog > 0
  /\ backlog' = backlog - 1
  /\ wpc' = "close"
  /\ UNCHANGED <<gen, readVars, once, execCh, jobVars, panelVars, termVars>>

WBeat ==
  /\ "beat" \in Events
  /\ wpc = "run" /\ wpc' = "beat"
  /\ UNCHANGED <<gen, readVars, once, backlog, execCh, jobVars, panelVars, termVars>>

\* The heartbeat goes through the queue that only this goroutine empties.
WBeatSent ==
  /\ wpc = "beat" /\ Sent /\ wpc' = "run"
  /\ UNCHANGED <<gen, readVars, once, execCh, jobVars, panelVars, termVars>>

WDone ==
  /\ wpc = "run" /\ done /\ wpc' = "exit"
  /\ UNCHANGED <<gen, readVars, once, backlog, execCh, jobVars, panelVars, termVars>>

-----------------------------------------------------------------------------
(* execLoop *)

Work(pc) == xpc' = pc /\ UNCHANGED xhand

XTake ==
  /\ xpc = "idle" /\ execCh # <<>>
  /\ xpc' = "begin" /\ xhand' = Head(execCh)
  /\ execCh' = Tail(execCh)
  /\ UNCHANGED <<gen, readVars, once, sendVars, cancels, killed, working, cached,
                 panelVars, termVars>>

\* handleExec, handleInstall: a remembered result is sent at once, else the script starts.
XBegin ==
  /\ xpc = "begin"
  /\ \/ xhand \in cached /\ Work("result") /\ UNCHANGED <<cancels, working>>
     \/ /\ xhand \notin cached /\ Work("work")
        /\ cancels' = cancels \cup {xhand}
        /\ working' = working \cup {xhand}
  /\ UNCHANGED <<gen, readVars, once, sendVars, execCh, killed, cached, panelVars, termVars>>

\* A line of output is scanned; the scanner blocks in send.
XLog ==
  /\ xpc = "work" /\ Work("log")
  /\ UNCHANGED <<gen, readVars, once, sendVars, execCh, cancels, killed, working, cached,
                 panelVars, termVars>>

XLogSent ==
  /\ xpc = "log" /\ Sent /\ Work("work")
  /\ UNCHANGED <<gen, readVars, once, wpc, execCh, cancels, killed, working, cached,
                 panelVars, termVars>>

\* The script ends, by itself, at its time limit or killed, and its result is remembered.
XEnd ==
  /\ xpc = "work" /\ Work("result")
  /\ working' = working \ {xhand}
  /\ cached' = cached \cup {xhand}
  /\ UNCHANGED <<gen, readVars, once, sendVars, execCh, cancels, killed, panelVars, termVars>>

XResult ==
  /\ xpc = "result" /\ Sent
  /\ answered' = answered \cup {xhand}
  /\ cancels' = cancels \ {xhand} /\ killed' = killed \ {xhand}
  /\ xpc' = "idle" /\ xhand' = NoId
  /\ UNCHANGED <<gen, readVars, once, wpc, execCh, working, cached, given, asked, termVars>>

\* With done closed the select may still take what is queued before it returns.
XDone ==
  /\ xpc = "idle" /\ done /\ xpc' = "exit"
  /\ UNCHANGED <<gen, readVars, once, sendVars, execCh, xhand, cancels, killed, working, cached,
                 panelVars, termVars>>

\* idempotentStore: a result older than its time to live is dropped.
Forget(i) ==
  /\ "forget" \in Events
  /\ i \in cached /\ cached' = cached \ {i}
  /\ UNCHANGED <<gen, readVars, once, sendVars, execCh, xpc, xhand, cancels, killed, working,
                 panelVars, termVars>>

-----------------------------------------------------------------------------
(* A terminal's program and its pump. *)

Pumps(t, from, to) == pump[t] = from /\ pump' = [pump EXCEPT ![t] = to]

\* The program exits, or has run for streamMaxLifetime.
TermEnds(t) ==
  /\ t \in alive
  /\ Stop({t})
  /\ UNCHANGED <<gen, readVars, once, sendVars, execCh, jobVars, panelVars, table, home, pump>>

PRead(t) ==
  /\ t \in alive /\ Pumps(t, "read", "data")
  /\ UNCHANGED <<gen, readVars, once, sendVars, execCh, jobVars, panelVars, table, home, alive>>

PData(t) ==
  /\ Pumps(t, "data", "read") /\ SentOn(home[t])
  /\ UNCHANGED <<gen, readVars, once, wpc, execCh, jobVars, panelVars, table, home, alive>>

\* A slip: a terminal is forgotten with its output.
PEofForgets(t) ==
  /\ Pumps(t, "read", "wait")
  /\ table' = table \ {t}
  /\ UNCHANGED <<gen, readVars, once, sendVars, execCh, jobVars, panelVars, home, alive>>

\* The output ends with the program, or before it when the program closes it.
PEof(t) ==
  /\ Pumps(t, "read", "wait")
  /\ UNCHANGED <<gen, readVars, once, sendVars, execCh, jobVars, panelVars, table, home, alive>>

PWait(t) ==
  /\ t \notin alive /\ Pumps(t, "wait", "exit")
  /\ UNCHANGED <<gen, readVars, once, sendVars, execCh, jobVars, panelVars, table, home, alive>>

PExit(t) ==
  /\ Pumps(t, "exit", "over") /\ SentOn(home[t])
  /\ table' = table \ {t}
  /\ UNCHANGED <<gen, readVars, once, wpc, execCh, jobVars, panelVars, home, alive>>

-----------------------------------------------------------------------------

Reader == Push \/ Store \/ Tell \/ ReaderCloses \/ Wait
Writer == WSend \/ WFail \/ WBeatSent \/ WriterCloses
ExecLoop == XTake \/ XBegin \/ XLogSent \/ XResult \/ XDone
Pump(t) == PData(t) \/ PWait(t) \/ PExit(t) \/ (t \notin alive /\ PEof(t))

Panel ==
  \/ \E i \in Jobs : RecvExec(i) \/ RecvCancel(i)
  \/ \E t \in Terms : RecvOpen(t) \/ RecvStdin(t) \/ RecvClose(t)

Programs ==
  \/ XLog \/ XEnd \/ StdinDone
  \/ \E t \in Terms : TermEnds(t) \/ PRead(t) \/ PEof(t)

Next ==
  \/ Dial \/ Restart \/ RecvErr \/ Panel \/ Programs
  \/ Reader \/ Writer \/ WBeat \/ WDone \/ ExecLoop
  \/ \E i \in Jobs : Forget(i)
  \/ \E t \in Terms : Pump(t)

Spec == Init /\ [][Next]_vars

\* Goroutines run, select is fair and blocked senders are served in turn (hence SF); a sent
\* frame leaves or breaks the stream; a cancelled stream fails its Recv.  Nothing is assumed
\* of the panel or of the programs.
Fairness ==
  /\ SF_vars(Reader) /\ SF_vars(ExecLoop)
  /\ WF_vars(Writer) /\ SF_vars(WDone)
  /\ SF_vars(done /\ RecvErr)
  /\ \A t \in Terms : SF_vars(Pump(t))

FairSpec == Spec /\ Fairness

-----------------------------------------------------------------------------
(* Properties. *)

\* Seen from outside, the agent runs one script or install at a time and never runs again an
\* id whose result it remembers, even when the stream breaks under a running script and the
\* panel sends the next one over a new stream (runSession's wg.Wait, idempotentStore).
Abs == INSTANCE AgentWork WITH Jobs <- Jobs, working <- working, cached <- cached
OneScriptAtATime == Abs!Spec

\* A terminal the panel closed leaves no process on the node, whatever its pump was doing
\* and even if the program had closed its output long before (stream.go, pump and stop).
ClosedTerminalIsDead == asked \cap alive = {}

\* A full send queue is drained, or the session ends: send's comment takes blocking on a full
\* queue for back-pressure.
FullQueueDrains == backlog = SendCap /\ ~done ~> backlog < SendCap \/ done

\* What a property assumes of the node's programs: scripts end, and a terminal reads what is
\* typed.  (A terminal stored after close went over the table is not stopped: one that does
\* not read can hold the reader, and the next connection, until it exits.)
ScriptsEnd == SF_vars(XEnd)
TerminalsRead == WF_vars(StdinDone)

\* Heartbeats come when the queue has room; FullQueueDrains is about the others.
TicksFindRoom == [](wpc = "beat" => done \/ backlog < SendCap)

\* Once its stream is closed the agent dials again, whatever its goroutines were blocked on:
\* a full queue, a full execCh, the input of a terminal (send, close and wg.Wait).
Reconnects == ScriptsEnd /\ TerminalsRead => (done ~> rpc = "dial")

\* A script or install that was accepted is answered, or its stream is closed: neither the
\* bounded queues nor the order of the selects loses it.
GivenIsAnswered ==
  ScriptsEnd /\ TicksFindRoom => \A i \in Jobs : i \in given ~> i \in answered \/ done

=============================================================================

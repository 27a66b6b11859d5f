# A TLA+ model of starport-panel

starport-panel manages bare machines from one panel process. On every machine runs
starport-agent, which dials the panel over a bidirectional gRPC stream; over that stream the panel
sends scripts, built-in Kubernetes installs and terminals, and over the same stream come log lines
and results. On top of it the panel keeps clusters and their members in SQLite and changes them by
asynchronous tasks.

This directory holds TLA+ modules for the parts of that program where goroutines, streams and
requests meet, the configurations TLC checks them under, and proofs for TLAPS. `PROJECT.json` maps
every definition to the lines it models and lists components, runs, hazards and findings.

## 1. Inventory

| component | state | operations | who talks to it | hard behaviour |
|---|---|---|---|---|
| agent hub and registration (`panel/agenthub/`) | `conns`, `pending`, `sessions`; per stream `sendCh`, `done` | `Connect` (attach, dispatch loop, detach), `request` (Exec, Install), `OpenSession`, `SessionStdin`, `CloseSession`, `Kick`; `RegisterHandler` | agents by streams and by the register call; tasks, terminals and the HTTP API by calls | streams of one node displace each other; result, cancel and disconnect race for one entry; bounded queue with timeout; late registrations |
| cluster service (`panel/cluster`) | rows `clusters`, `cluster_nodes` | `Create`, `AddNode`, `RemoveNode`, `Delete`, callbacks of their tasks | HTTP handlers; task runner; hub | check-then-act over several statements, callbacks much later, restart in between |
| task runner (`panel/task`) and task rows | `running` map, rows `tasks`, `task_logs` | `Start`, `run`, `Cancel`, `FailRunningTasks` | cluster service, API, hub | cancel against result, restart |
| agent session (`agent/conn.go`, `idempotent.go`) | `sendCh`, `execCh`, `cancels`, `sessions`, `done`; results by request id | reader, writer, exec loop, `close` | the panel by the stream; the executor; terminals | three goroutines and N pumps on one bounded queue; stream breaks under a running script |
| agent terminals (`agent/stream.go`) | process, pty, registration | open, stdin, resize, close, pump | agent session | the program, the pump and the panel end it in any order |
| agent executor (`agent/exec.go`) | mutex, one process group | `Run`, `scanLines` | exec loop | output blocked by back-pressure, over-long lines |
| agent main loop (`agent/agent.go`, `register.go`, `state.go`) | identity in memory and in `agent.json`, attempt | `Run`, `registerLoop`, `saveIdentity` | panel by the register call; session | torn file, rejected token, dead entrance, request served after its client gave up |
| installer (`installer/`) | files, packages and services of the machine | `Run`: steps with `Skip` and `Run`; `capture` | exec loop; kubeadm, apt, systemd | what a run leaves that is cut short, and what the next one skips because of it |
| kube client (`panel/kube`, `api_kube.go`) | cached clients by kubeconfig, their discovery caches | entry, Forget, Apply, DeleteManifest, single calls, streams | HTTP API; apiserver | a cache that outlives what it was built from |
| helm client (`panel/helm`, `api_helm.go`) | cached indexes; rows `helm_repos` | fetchIndex, Refresh, Forget, Install | HTTP API; chart repositories | overlapping downloads |
| tokens, audit, auth | rows | issue, revoke, check; a row after every write | HTTP API | shutdown between a write and its row |
| web terminal, resize queue | websocket, bounded queue | read, write, resize | browser, hub | browser leaves in the middle |
| start and shutdown (`panel/server.go`) | - | start-up recovery, `http.Shutdown`, `GracefulStop` | all | restart between two writes; streams that never end |
| task log drawer (`web/src/components/TaskLogDrawer.tsx`) | last sequence number | polls `taskLogs` | HTTP API, task runner | when to stop |

What makes them correct:

* hub: a caller gets exactly one outcome, and soon after its stream is gone; a stop is never
  forgotten; the tables do not grow; one stream per node.
* registration: one row per machine, and a machine is never served under another's; agents get in.
* clusters: a busy member has a task behind it; a machine is in one cluster; one first master; a
  reset never hits a machine in use; an install settles its cluster.
* tasks: cancelled ones end; who follows a log sees all of it.
* agent: one script at a time, none twice; a closed terminal leaves no process; every accepted
  script is answered or its stream closed; the agent always comes back.
* installer: a run works with what is its own and whole; one that reports success has made the machine
  what was asked, for good; one that is cancelled ends; one can be run again safely.
* API: no stale kubeconfig, discovery or chart index is used where the code has means to know better;
  writes are in the audit log; the panel stops when told.

The code's hazards, each with its line and with the properties that watch it or the reason why none
does, are in `PROJECT.json` under `hazards`.

## 2. Modules

| module | models | composed of |
|---|---|---|
| `Hub` | `agenthub/hub.go`, the callers in `terminal.go` and `runner.go` as far as they use it, `nodes.online` | - |
| `HubProofs` | theorems about `Hub` | `Hub` |
| `Cluster` | `cluster/`, `task/runner.go`, the store's statements they issue, start-up recovery | the agent as a FIFO of scripts per node |
| `ClusterProofs` | theorems about `Cluster` | `Cluster` |
| `ApartProofs` | a theorem about `Cluster` when requests for the same thing do not overlap | `ClusterProofs` |
| `AgentWork` | what the agent promises of scripts, abstractly | - |
| `AgentSession` | `agent/conn.go`, `stream.go`, `exec.go`, `idempotent.go`, the dial loop | refines `AgentWork` |
| `AgentProofs` | theorems about `AgentSession` | `AgentSession`, `AgentWork` |
| `Enroll` | `agent/agent.go`, `register.go`, `state.go`, `agenthub/register.go`, `store/nodes.go`, `deleteNode` | both sides of registration; streams as in `Hub`, coarser |
| `EnrollProofs` | theorems about `Enroll` | `Enroll` |
| `Install` | `installer/`, `resetScript`, with kubeadm, apt and systemd as environment | - |
| `InstallProofs` | theorems about `Install` | `Install` |
| `Api` | `api_kube.go`, `api_helm.go`, `kube/`, `helm/`, `audit.go`, `taskLogs`, shutdown in `server.go` | handlers, caches, rows and the process together |
| `ApiProofs` | theorems about `Api` | `Api` |
| `MCHub`, `MCCluster`, `MCAgent`, `MCEnroll`, `MCInstall`, `MCApi` | the instances TLC checks | the above |

### Hub

A step is what one goroutine does between two points where another may run: a section under
`Hub.mu`, a channel operation, closing `conn.done`, a call of a sink, a write of the node's row.

* `conns`, `entry` are the maps under `Hub.mu`; `entry[i]` is the stream an id waits on, for
  `pending` and `sessions` alike.
* `cpc[c]` follows the goroutine of `Connect`: *authed*, *evict* (attach put the stream in the table
  and has yet to close the one it displaced), *loop*, *data* / *end* (a frame has been looked up and
  is being delivered outside the lock), *close*, *sweep*, *notify*, *gone* (detach).
* `wpc`, `queue`, `closed` are the writer, `sendCh` and `done`.
* `kpc[i]` follows the caller: *register*, *check* / *select* (the two halves of `send`), *undo*,
  *wait* or *open*, *stop* and so on. Its context may end at any time (`CtxDone`); a terminal's owner
  may type (`Input`) and leaves by `CloseSession`. `Kick` comes from outside, at any time.
* `answer`, `outcomes`, `late` record what the caller was told, `running` and `told` what the agent
  has. `late` counts output after an outcome that was delivered (a result, an exit, a lost stream). A
  caller whose own context ended returns by itself, and a line that was looked up before may still
  reach its `onLog` after that; `Api` models what becomes of such a line.
* The agent is the environment: it answers any frame it was given, at any time or never; the
  transport breaks when it likes.

### Cluster

* `cstat`, `endpoint`, `member`, `tstat` are columns of the store; `task` and `tpc` the goroutines of
  `Runner.run` and what they run; `call` the HTTP handlers that are under way, with what they have
  read so far.
* Every statement of the store is one step, so that two handlers, or a handler and a callback,
  interleave between any two of them. An UPDATE of a row that is gone does nothing; an INSERT whose
  foreign keys name a cluster or a node that is gone is refused (`JoinTable`, `enrolled`).
* A task cannot be started when its row cannot be written (`StartFails`): the member is put back.
  Other statements of the store are assumed to succeed while their context lives.
* A node is a FIFO of scripts it works off one by one and whose outcome is free (`Work`), and an
  online flag. That it is one by one is what `AgentSession` shows.
* `Events` names what may happen in a run: requests that hang up, forced deletes, nodes that go
  offline or are deleted, cancels, tasks refused. `MaxTasks` and `MaxRestarts` bound tasks and
  restarts. A machine whose node was deleted registers again under a new id (`Enroll`), which is
  another node here and is not followed.

### AgentSession

* `rpc` is the reader, which is also `runSession` and the loop around it (*dial* ... *wait*); `wpc`
  the writer; `xpc` the exec loop; `pump[t]` the pump of a terminal.
* `backlog` is the length of `sendCh`: no property depends on what a waiting frame says. `execCh`,
  `cancels`, `table` (`session.sessions`) and `cached` (`idempotentStore.done`) are the code's.
* `once` is `sync.Once` of `close`: *busy* while the first caller stops the terminals, *over* with
  `done` closed and the stream's context cancelled. A second caller waits for it.
* `working`, `alive` are the processes on the machine. `given`, `asked`, `answered` is what the panel
  sent and was sent on this stream.
* `Restart` is a kill of the process; the systemd unit's control group takes the scripts with it.
* An install request without a specification is refused before anything happens; the panel always
  sends one, so it is left out. A window resize changes nothing that is modelled.

### AgentWork

`Begin`, `End`, `Forget`, `Die`: one script at a time, none whose result is remembered.
`AgentSession!OneScriptAtATime` is this specification under the identity mapping of `working` and
`cached`.

### Enroll

* A credential is the node id it was issued for and whether the token is still the row's
  (`Rotated` makes the others' old). Hostname and IP are one address, since RegisterNode compares
  them together. An old agent sends no machine-id (`mid` is `Anon`) until it is upgraded (`Upgrade`:
  the binary is replaced and the service restarted); one that has read its machine-id goes on reading
  it. A `/etc/machine-id` that cannot be read at one time and can at another is left out.
* `given[i]` is history: to whom the row of an id has been given, and whether without a machine-id.
  `Lent(i)` says that an agent without one was given a row by its address that another machine has or
  had. Such rows are what section 6 says of them, and the properties except them.
* `pc[m]` is the agent's main goroutine: *boot*, *register*, *await* (a request is out), *save*,
  *dial*, *authed* (authenticate has found the row, attach is to come), *ready*, *up*.
* `stray[m]` is a request whose client has given up: the handler may serve it at any later time, with
  the facts `registerLoop` collected on entry. `disk[m]` is `agent.json`, `None` also when torn.
* `deleteNode` is three steps (`DeleteCheck`, `DeleteRow` with the foreign key of memberships, `Kick`),
  `PanelRestart` may bring another bootstrap token, which the agents' does not match.
* `MaxFaults` counts what goes wrong: timeouts, broken streams, crashes, reinstallations, moves,
  memberships added, deletions, panel restarts.

### Install

* A run is `todo`, the steps ahead, and `at`, the place in the current one: between two places the
  code makes one change that something else can see. `Commands` are the places where a process of
  the system runs; there a cancel kills it (`CommandKilled`), it fails (`CommandFails`), or ends.
* A file is what a probe or a program can tell of it. `exe[b]` is absent, *part* or *plain* (copied
  in part or whole, not executable yet), *partx* (half overwritten, but executable still) or *good*;
  `bundle` is whose bundle and whether it is whole; `cconf` against `crun` is the configuration
  written against the one the running containerd has read; `node` how far kubeadm got.
* `Skip(step)` is the step's probe, read from that state, so that what a run skips after another was
  cut short is the code's own decision.
* The panel sends installs (`Start`), cancels and resets (`Reset`, the script of `remove.go`); agents
  die, machines reboot. `broken` and `unreset` remember where runs were cut short and whether a
  machine was given something else without a reset; only properties read them.

### Api

* Goroutines serve requests; `req[r]` holds what the handler has in its locals, `at` where it is.
  Everything a handler shares with others is one step: a statement of the store, a section under
  `kube.Client.mu` or `helm.Client.mu`, an access to the discovery cache, an answer from outside.
* A kind of request stands for the handlers that share their steps: *view* and *change* (`Look`,
  `Change`) for the ones that make a single call, *follow* and *exec* for log and exec streams,
  *release* for uninstall and rollback. `Menus` is a set of sets of kinds; a behaviour has the
  requests of one of them, chosen so that those that share state meet.
* `client` is the cached entry with the content it was built from, `disc` the discovery caches ever
  made, `retired` the last content whose replacement has been answered.
* `index` is the cached index of a repository, `published` the version the repository serves,
  `floor` what an answered refresh has promised. A refresh promises only if no older download is
  about to be stored (`Settled`).
* A task's log is `lines`; `job` is where its goroutine is. The hub looks a line's request up
  (`LookUpLine`, `held`) and calls `onLog` outside its lock (`StoreLine`), so that a request that was
  cancelled, or lost its stream to another, can return, and its task be finished, in between
  (`astray`).
* The apiserver may leave a group out of what it answers, or not answer at all (`Views`,
  `MappingFails`): `Apply` treats that as a kind it does not find, as the code does.
* The drawer's `polling` is *on*, *ended* (stopped after a page that was not full) or *cut* (stopped
  after a full one).
* Shutdown: `Stop`, then `Drained` or `DrainTimeout`, then `Exit` when the streams open at
  `GracefulStop` have ended. `avoid`, `least`, `had`, `shared`, `lost` and `did` of a request are
  history.
* Facts of the world that nobody in the menu would see do not change (`Noticed`).

## 3. Runs

Passing:

| run | instance | what it shows |
|---|---|---|
| `HubCall` | one node, two streams, a call and a terminal, a queue of one; 1.3 million states | the hub's type invariant and five safety properties |
| `HubLive` | the same, one call or one terminal in a behaviour (`MCHub!OneStory`) | hung-up calls return, hung-up terminals end; a node that stays connected and reports is shown online |
| `ClusterRaces` | one member, two requests at once, three tasks, force, offline, a node deleted, tasks refused, one restart; 640 thousand states | no member is stuck before the restart |
| `ClusterLive` | one cluster, two machines, one request at a time, three tasks, hang-ups and cancels; 170 thousand states | late resets spare ready members, cancelled tasks end, installs settle |
| `AgentSession` | two scripts in one order, or a script and a terminal (`MCAgent!OneStory`); two streams, queues of one, heartbeats, repeated delivery, results forgotten, kills; 53 thousand states | refinement of `AgentWork`; a closed terminal is dead; the agent dials again; accepted scripts are answered or the stream is closed |
| `Enroll` | two machines, with a machine-id both or one, three addresses, four ids, two faults and an upgrade, a dead and a live entrance; 460 thousand states | one row per machine, streams serve their row, rows keep their machine (up to lent rows), agents get in |
| `Install` | one machine found in any of the states `Found` allows, five specs of two clusters, three faults; 670 thousand states | what is installed from and with is whole, a machine that was reset becomes what is asked, success outlasts a reboot, cancelled runs end |
| `Api` | two goroutines, three requests, six menus, a page of two lines, four lines, one new index; 380 thousand states | caches are as fresh as promised, followers see all, writes are audited, the panel stops |

Disagreements between the code and what its documents or comments say:

| run | property | in short |
|---|---|---|
| `ClusterOverlap` | `ARuleIsKept` | two overlapping AddNode requests put one machine in two clusters (docs/api.md:173) and start two first masters (:172); the run finds a state with both |
| `ClusterRestart` | `BusyHasTask` | a restart fails tasks but leaves their members busy for ever |
| `AgentBeat` | `FullQueueDrains` | the writer waits for room in the queue it alone empties |
| `InstallRerun` | `RerunIsSafe` | an install cut short in kubeadm and run again skips it and reports success (docs/agent-features.md:57) |

The bounds, and why they are enough:

* two streams per node are the fewest that displace each other; a third would be displaced by the
  same steps. One call and one terminal share a stream and therefore its queue and its clean-up;
  calls do not otherwise see each other. A queue of one is full as soon as anything waits.
* in `ClusterRaces` two requests and three tasks for one member are enough for one to be decided by
  what another has changed meanwhile, and for a task to outlive both. Hang-ups and cancels are left to
  `ClusterLive`; `MembersAreSettled` covers them with any overlap. In `ClusterLive` two machines let
  one drain for the other, and three tasks let a removal's reset run into a later install. Its nodes
  stay online and no machine is retired; `ReadyMembersAreSpared` covers both. `ClusterOverlap` needs two clusters,
  machines and requests. A restart twice finds what a restart once left.
* with an exec queue of one, two scripts are enough for a running one and a waiting one, and for a
  reader blocked on the queue. Two streams are enough for a script to outlive the first.
  `OneStory` holds back only the panel: which of two like scripts comes first, and a second script
  next to a terminal. Fairness assumes nothing of the panel, so no step that must happen is lost.
* two machines and three addresses let one take the address the other has left; four ids let a
  machine be deleted and come back while the other is new; two faults combine a late registration
  with a deletion, a move or a crash, and upgrades are not counted as faults. The safety properties
  are proved for any bounds as well.
* the five specs have both modes, all roles, VIP and addons, a bundle with a sum and one without,
  and one that preflight refuses. Three faults cut two runs short and reboot, or reset, afterwards;
  one fault and one retry are
  all that `InstallRerun` needs.
* three requests are one that changes what is shared between two steps of another, and one that
  comes afterwards; two goroutines run two at a time. A kubeconfig replaced twice is replaced once
  and once more. Four lines are two pages, or one and a line on its way and the last one.

`CHECK_DEADLOCK` is off where the model may really stop: every call has returned, every stream is
gone, the bound on tasks or streams is reached.

## 4. Fairness

* Hub: goroutines run (weak fairness of each goroutine's next step). Nothing is assumed of agents,
  users or the transport, except in `ConnectedIsShownOnline`, whose premise `AgentsReport` says that
  a connected agent goes on reporting, as its ticker does.
* Cluster: the handlers' and the tasks' goroutines run. `InstallSettles` has the premise
  `ScriptsEnd` and is about installs that have their task (section 6 says which paths leave a cluster
  installing before); `CancelledTaskEnds` has none, since a cancelled task does not wait for the agent.
* AgentSession: goroutines run; a `select` with two ready cases takes each of them sooner or later,
  and Go serves blocked senders in turn, hence strong fairness of the steps that wait for room; a
  frame that is sent leaves or breaks the stream (keepalive); a cancelled stream fails its `Recv`.
  Nothing is assumed of the panel or of programs; properties that need it say so (`ScriptsEnd`,
  `TerminalsRead`). `TicksFindRoom` excludes the self-deadlock that `AgentBeat` exhibits, which would
  otherwise violate `GivenIsAnswered`.
* Enroll: the agents' main loops, the register handler and `deleteNode` go on. Faults are bounded, so
  there are finitely many; `AgentsGetIn` has the premises that in the end the bootstrap token is
  right, every machine sends a machine-id and no row is lent (section 6 says why).
* Install: the agent's goroutine goes on and a killed command ends; a command need not end by itself,
  which is why `CancelledRunEnds` says something.
* Api: handlers go on; a call to the outside ends or times out (`withTimeout`, 15 s and the like);
  `http.Shutdown` returns at the latest after its ten seconds; nothing ends a stream to a browser or
  an agent's, so `StopEnds` has the premise that the agents leave.

## 5. Proofs

`HubProofs` proves for any number of nodes, streams, calls and terminals, and any queue capacity,
from `HubAssumption` alone (the ids are disjoint, the capacity is positive):

| theorem | statement |
|---|---|
| `HubInvariant` | `Spec => []HubInv` |
| `TypeCorrect` | `Spec => []TypeOK` |
| `CallsAreNeverAbandoned` | `Spec => []NoAbandonedCaller` |
| `NoLeaks` | `Spec => []NoLeakedEntry` |
| `OutcomesAreUnique` | `Spec => []AtMostOneOutcome` |
| `OutputPrecedesOutcome` | `Spec => []NoOutputAfterOutcome` |
| `StreamsAreUnique` | `Spec => []OneStreamPerNode` |
| `StopsAreNeverLost` | `Spec => []StopIsNeverLost` |

None of these is inductive by itself. `HubInv` adds to the types what a goroutine relies on between
its steps:

* `TableInv`: an entry of the tables belongs to a caller that waits on exactly that stream and has
  not been told anything; the current stream of a node is one that has attached and not swept.
* `StreamInv`: what a stream's goroutine holds in its locals (the id in hand, the ids detach still
  owes a notice) is no longer in the tables and belongs to it alone; frames in its queue are of
  callers that chose it.
* `CallInv`: a caller that waits and has not been told anything has its entry in the table, or is in
  the hand or among the owed of a stream still at work. This is why nobody is abandoned: the id
  moves from the table to a hand to an outcome and is never in two places or in none.
* `DisplacedInv`: a stream that is served but no longer current is closed or about to be closed by
  the one that displaced it.

There is one lemma per action, then `StepInv` and `HubInvariant`; the properties follow from
`HubInv` without induction, but for `StopIsNeverLost`: it needs `StopInv` besides, which says where
the stop of a caller that gave up is (about to be sent, in a queue, told, or unnecessary because the
stream closes or the outcome is known), and which is inductive on top of `HubInv`. TLC checked each
property and part of the invariant before it was proved.

`ClusterProofs` proves for any number of clusters, nodes, callers, tasks and restarts, from
`ClusterAssumption` alone:

| theorem | statement |
|---|---|
| `TypeInvariant` | `Spec => []TypeInv` |
| `TypeCorrect` | `Spec => []TypeOK` |
| `StuckInvariant` | `UndoIsWritten => (Spec => []StuckInv)` |
| `MembersAreSettled` | `UndoIsWritten => (Spec => []BusyUntilRestart)` |

* `TypeInv` adds to `TypeOK` what the closures of a task and the locals of a handler are known to
  hold at each place (`TaskInv`, `Fits`): the plan of a task is one install, or at most a drain and a
  reset; only a first master's AddNode writes the cluster.
* `StuckInv` names who will settle a busy row: before a restart, a member that is installing or
  being removed has a task that has not run its callback yet, or a handler that is about to start
  one (`BehindMember`). The order of the code makes this inductive: the row is marked before the task
  is started, and callbacks run after the task's end whatever that was. No client need stay, no node
  need be online or even exist, and tasks may be refused.
* `UndoIsWritten` says that `Events` does not hold both "refuse" and "hangup". When `tasks.Start`
  fails, AddNode and RemoveNode put the row back under the request's context, without a look at the
  error (`service.go:310`, `remove.go:111`); if the client has left by then, the row stays busy
  (section 6).
* Of a cluster that is installing nothing like this holds: section 6 lists the paths that leave one
  behind. `InstallSettles` is therefore about installs that have their task. After a restart nothing
  of it holds; `ClusterRestart` shows why.

`ApartProofs` proves one theorem more about the same module, under a hypothesis on which requests
overlap:

| theorem | statement |
|---|---|
| `ReadyMembersAreSpared` | `"force" \notin Events => (Spec /\ []CallsApart => []ResetSparesReady)` |

`CallsApart` says that AddNode and RemoveNode in flight are for different machines, and that a
cluster being deleted has no other request. The handlers check and write in separate statements
without a lock, and `ClusterOverlap` shows what overlap costs. The hypothesis is about requests only:
tasks of earlier requests run on into later ones, agents answer late or never, nodes go offline and
are deleted, tasks are refused, operators cancel, clients hang up, the panel restarts, and requests
for other machines and clusters overlap freely. With a single request at a time, as in `ClusterLive`,
the hypothesis holds. The theorem leaves out the forced delete, for which it is false even then: such a
Delete starts the resets in the background and drops the cluster, so that a machine may be added
again, and be ready, before its reset is sent.

* `RowsInv`: a machine has rows in one cluster, and an AddNode past its membership check has found
  no other.
* `ResetInv`: a task that will write a member's row finds it in the status its handler left
  (`Expected`), there is one such task per machine, the scripts queued for a ready machine hold no
  reset, and those before an install under way none that comes after it (`InstallClear`).

`AgentProofs` proves for any number of scripts, terminals and streams and any capacity of the two
queues, from `AgentAssumption` (script and terminal ids are disjoint, capacities are positive):

| theorem | statement |
|---|---|
| `AgentInvariant` | `Spec => []AgentInv` |
| `AgentTypeCorrect` | `Spec => []TypeOK` |
| `ClosedTerminalsAreDead` | `Spec => []ClosedTerminalIsDead` |
| `AgentRefinesWork` | `Spec => OneScriptAtATime`, that is `Spec => Abs!Spec` |

`AgentInv` adds to the types:

* `JobInv`: a script runs exactly while the current exec loop is inside it, and the exec loop has
  returned before the agent dials. Without the wait for the exec loop in `wg.Wait` the second half
  fails, and a new session would start a script next to the one left over.
* `TermInv`: a terminal opened on this stream that still runs is in the table, or the reader has
  just started it and stores it before it reads another frame; one that is past `cmd.Wait` does not
  run. Hence a close finds every terminal it has to stop.

`StepMaps` maps `XBegin` to `Begin`, `XEnd` to `End`, `Forget` to `Forget` and `Restart` to `Die`;
every other step leaves `working` and `cached` alone. TLC checked `AgentInv` on the instance of
`AgentSession.cfg` first.

`EnrollProofs` proves for any number of machines, addresses, entrances and faults, from
`EnrollAssumption` (machine-ids and first addresses differ from machine to machine; the markers are
distinct):

| theorem | statement |
|---|---|
| `EnrollInvariant` | `Spec => []EnrollInv` |
| `EnrollTypeCorrect` | `Spec => []TypeOK` |
| `RowsAreUnique` | `Spec => []OneRowPerMachine` |
| `StreamsServeTheirRow` | `Spec => []ServesItsOwnRow` |
| `MembersKeepRows` | `Spec => []MembersHaveRows` |
| `RowsStayWithTheirMachine` | `Spec => RowsKeepTheirMachine` |

The theorems include upgrades of agents that had no machine-id, and except lent rows (section 6) where
the properties do. `EnrollInv` has these parts:

* `Distinct`: no two machines send one machine-id, through all upgrades.
* `StoreInv`: ids that are in use have been handed out, so a new id is nobody's (AUTOINCREMENT
  guarantees it and a reused id would break it). A machine-id in a row is some machine's and, unless
  the row is lent, that of everybody the row was given to; an agent that sent one when it was given
  its row has left it there (`RowInv`).
* `AgentInv`: a credential in memory or in the file names a row that was given to its holder; if that
  row has no machine-id while the agent has read one, the panel has not been told it anywhere
  (`Belongs`, `Untold`), so that the backfill of `ready` cannot make a second row of one machine. After
  `ready` the row has one (`Told`). A registration left behind by a timeout carries the facts of its
  sender.

The lemma `Chosen` says which row RegisterNode picks: the machine's own, one at its address that has
no machine-id, a new one, or, for an agent without a machine-id, any at its address, which is then lent.

`ApiProofs` proves for any number of requests, repositories, manifests, versions and lines, any menus
and any size of a page, from `ApiAssumption` (manifests have documents, a page has a line, the marker
is distinct):

| theorem | statement |
|---|---|
| `ApiInvariant` | `Spec => []ApiInv` |
| `ApiTypeCorrect` | `Spec => []TypeOK` |
| `NoRetiredConfig` | `Spec => []RetiredConfigUnused` |
| `UnknownIsUnknown` | `Spec => []UnknownKindIsUnknown` |
| `IndexIsFresh` | `Spec => []FreshAfterRefresh` |
| `NothingMissed` | `Spec => []FollowerMissesNothing` |
| `AllAudited` | `Spec => []WritesAreAudited` |

`ApiInv` says of every request what its handler can rely on at its place (`ReqOK`), and of what is
shared what makes that last:

* `ConfigOK`, `ConfigShared`: the row holds the last content stored, and it has not retired; what a
  request is about to retire is older than the row. So what is read from the row is newer than
  anything that had retired when the request came, and `entry` builds or takes a client of just that.
* `DiscOK`: a discovery cache that Apply has emptied is still empty when Apply looks again, unless a
  request that shares it has used it; then the second look copies what the apiserver serves now,
  unless that answer was lost.
* `IndexOK`, `IndexShared`: no cached index and no download that is about to be stored is older than
  what a refresh has promised. A download that is under way is why a promise needs `Settled`.
* `LogOK`, `LogShared`: a final status that was read is final, so the lines read after it are all that
  were stored before it. A line is still in the hub's hand after that only if it went astray, and then
  it is one.
* `Placed`, `Waited`: a change that is not audited is one of a write that is still at its handler or
  at the audit row, and those are what Shutdown waits for.

The lemmas `Quiet`, `KubeMoved`, `HelmMoved` and `ShareMoved` say what a step owes the other
requests, by what it changes; there is one lemma per action or group of like actions.

`InstallProofs` proves for any specs, any number of faults and any history of interrupted runs, from
`InstallAssumption` (specs are well formed, the markers are distinct):

| theorem | statement |
|---|---|
| `MachineInvariant` | `Spec => []IInv` |
| `TypeCorrect` | `Spec => []TypeOK` |
| `BundlesAreOwn` | `Spec => []BundleIsThisRuns` |
| `KubeadmIsEquipped` | `Spec => []KubeadmHasItsTools` |
| `SuccessIsOfThisCluster` | `Spec => []OkIsOfThisCluster` |
| `SuccessSurvives` | `Spec => []OkSurvivesReboot` |

What a run may count on is what the steps behind it have done, or what their probes took for it. So
plans come first: steps have a `Rank`, every plan is in its order and leaves out no step it needs
(`PlanShape`), and hence a needed step of a lower rank than the current one is behind (`Behind`).
`IInv` has one part for each thing that outlives a run:

* `Control`, `Passed`: the place belongs to the current step, and every needed step that is not ahead
  is `Done`. `Done(x)` is the weakest fact that both the step and its probe leave, which is
  where the exceptions of the properties come from.
* `BundleInv`: what is unpacked was compared with its sum and is of this run's spec.
* `BinInv`: the binaries are copied in one order, so that a later one was never begun before the
  earlier were whole. It is what makes a half copy over a whole binary harmless (below).
* `UnitInv`: the patched configuration, the one that runs, and the units enabled agree, except at
  the places between them or where a run was cut short there.
* `NodeInv`: what kubeadm and kube-vip left is of the last spec, unless the machine was moved without
  a reset.

`SuccessIsOfThisCluster` says what the probe for a kubelet.conf is worth: the machine is a member of
this cluster in this role, and what a first master captured came from an API server that is up. It
does not say that the member is complete, because it need not be: `InstallRerun` exhibits that.

TLC checked the parts of `IInv` on the instance of `Install.cfg`, and on smaller ones with five
faults. `KubeadmHasItsTools` was false as first written, without the exception for half copies, and
the attempt to prove it showed how: it takes four faults, of which one or two move the machine to a
cluster of the other mode, and the run has three. TLC finds it with four and with the two specs
alone. Section 6 describes it.

With that every safety property of the passing runs has a theorem. Only model-checked is all liveness
(fairness and ENABLED are beyond TLAPS): `HungUpCallReturns`, `HungUpSessionEnds`,
`ConnectedIsShownOnline`, `CancelledTaskEnds`, `InstallSettles`, `Reconnects`, `GivenIsAnswered`,
`AgentsGetIn`, `CancelledRunEnds`, `StopEnds`. No theorem needs induction over data.

## 6. What the code does not guarantee

Met while modelling and true of the model. Four of them are the runs of section 3 that end in a
violation; the others contradict no sentence of the documents, or are the exceptions that properties
name:

Hub and registration:

* A heartbeat being written while its stream is taken down can leave a node shown online without a
  stream. `deleteNode` can miss a stream that has authenticated and attaches after `Kick`; it stays
  connected without a row (`ServesItsOwnRow` says it is never taken for another machine's).
* A machine without a machine-id matches any row of its address (`OR ? = ''`, `store/nodes.go:59`), so
  an old agent at a reused address is given the row of another machine (`Lent`). While both are
  there, each rotates the other's token, and neither need stay connected; hence the premise of
  `AgentsGetIn`. When the old agent is then upgraded (the path that nodes.go:45 and
  `TestRegisterDedupByMachineID` are for) it is authenticated under that row, and its `ready` writes its
  own machine-id there (`nodes.go:103`): the row's members, tasks and terminals go to another machine,
  and that machine-id may be in two rows. `OneRowPerMachine`, `ServesItsOwnRow` and `RowsKeepTheirMachine`
  except lent rows for this reason. Deleting the row and registering again ends it.
* Two machines cloned with one machine-id do the same; the model has distinct ones. A machine-id that
  cannot be read at one time and can at another may also give a machine two rows: `machine_id` has no
  unique index. The model has agents that never send one and then, upgraded, always do.
* `registerLoop` collects facts once: a machine that is moved while it retries registers under its
  old address until the first `ready`.

Cluster and tasks:

* A retry of the first master on another machine keeps the entrance that the failed attempt derived
  (`service.go:278`), although docs/api.md:171 says the first master's own address is filled in.
* Two overlapping AddNode requests can put one machine in two clusters or start two first masters
  (`ClusterOverlap`).
* AddNode marks the cluster installing before it writes the member and starts the task. It leaves the
  cluster so, with no task behind it, when the client hangs up in between, when the node was deleted
  meanwhile (the foreign key refuses the member, `service.go:300`), or when `tasks.Start` fails
  (`service.go:309` puts back the member but not the cluster). Hence `InstallSettles` starts from the task.
* When `tasks.Start` fails and the client has left, the member stays installing or removing as well:
  the write that puts it back fails with the request's context (`UndoIsWritten`).
* After a restart a member that was busy stays so: adding it again answers NODE_ALREADY_MEMBER, removing
  it or deleting its cluster MEMBER_BUSY (`ClusterRestart`).
* RemoveNode reads the cluster before the member: if the first master's install finishes between the
  two reads, the only control plane of a ready cluster is removed, which `LAST_MASTER` (remove.go:42)
  is to prevent.
* A forced Delete stops at a busy member with resets already under way, and a late reset can reach a
  machine that joined again; it is the only single request after which that happens
  (`ReadyMembersAreSpared`).

Agent:

* A cancel for a script that still waits in `execCh` finds nothing in `cancels` and is dropped
  (`conn.go:145`); the script runs later although its task is shown cancelled, against
  docs/api.md:187 and agent.proto:74.
* A terminal that starts while `close` walks the table is never stopped (`conn.go:312` intends it);
  if it does not read its input it can even hold the reader and so the next connection, hence
  `TerminalsRead`.
* After `done` is closed the exec loop may still begin a queued script; its result is dropped.

Installer (docs/agent-features.md:57 calls running it again safe, 重跑安全):

* kubeadm that was interrupted after `kubelet.conf` is skipped by the next run, which reports success
  of a node that is not a complete member (`InstallRerun`, with a joining master); for a first master
  `capture` fails unless its API server is up. A `kube-vip.yaml` half written is skipped as well.
* In bundle mode a retry after containerd was started cannot succeed: `artifacts` has no probe and
  overwrites `/usr/local/bin/containerd`, which the kernel refuses while it runs (text file busy).
  The model has this refusal, and no property says that a retry succeeds.
* A run that ends between containerd's edit and its restart leaves the old configuration running and
  the next run satisfied (`KubeadmHasItsTools`); one that ends before the units are enabled leaves
  them disabled, and `os_prep` is skipped on a machine prepared by hand even if nothing is persistent
  (`OkSurvivesReboot`).
* `installBinary` truncates an executable in place and leaves its mode (`artifacts.go:163`). Cut short
  over an older whole `kubeadm`, it leaves half a one that the next probe (`binExists`) accepts. A
  run in bundle mode alone is saved by the order of the copies: the last one is still missing, so
  they are all made again. If the machine is installed in a cluster of online mode before or
  after, packages complete the set, the step is skipped, and the half copy in `/usr/local/bin` is found before the
  whole one in `/usr/bin` (`KubeadmHasItsTools` names it).
* A machine that was removed without a reset (`remove.go:93`, it was offline) and is given another
  role or cluster is reported ok though it is still the old member.
* `capture` follows the steps without a look at the context: a cancel there is reported as a failure
  of a command, and a cancel after the last command has ended is reported as cancelled although
  kubeadm has finished. `output` (cmd.go:72) sets no process group.

Requests:

* A line of output that the hub has looked up when its request is cancelled, or its stream displaced,
  is stored after the task's final status (`hub.go:241-244`, `runner.go:70-72`). docs/api.md:186 lets a
  client stop at a final status, so nobody who follows need see it; `FollowerMissesNothing` allows this
  one line.
* `Apply` answers any error of the second RESTMapping, a timeout included, as an unknown kind
  (`apply.go:61-66`).
* The drawer stops at the first answer with a final status even if its page was full: more than 1000
  lines that came since the last poll are cut off (`polling = "cut"`).
* A request that began before a kubeconfig was replaced, or a cluster deleted, may put the old client
  back into the cache after `Forget`; later requests do not use it, since its content no longer
  fits, but for a deleted cluster nobody removes it. Replacing the kubeconfig of a cluster that is
  being deleted answers 204 (an UPDATE of no row).
* An older index that was under way overwrites a refreshed one when both were being downloaded, for
  ten minutes; `cacheKey` leaves out the password. The discovery cache never expires: a kind whose
  definition was removed is found until something empties it, and `DeleteManifest` does not.
* `Apply` and `DeleteManifest` leave the documents before a failing one applied or deleted.
* The reader of `k8sPodExec` can stay in a write to its pipe after the exec has ended
  (`api_kube.go:427`). A Helm installation is bound to its request: the browser that leaves ends it.
* `GracefulStop` waits for agents that do not leave; a handler that outlives the ten seconds of
  `http.Shutdown` may lose its audit row, against docs/build.md:46.

## 7. Not modelled, and the plan

Order of further work, most important first:

1. `PanelAgent`: Hub's streams and AgentSession's queue together, for results that are lost with a
   stream, cancels, and the upgrade's restart; one abstract specification of a remote call (asked at
   most once, told the truth).
2. `OutputDrain`: the two `scanLines` on an over-long line; `ResizeQueue`.

Left out for good: generated protocol code, the web pages but the log drawer, the install and release
scripts but the agent's unit, text of scripts and manifests, what client-go, the helm SDK, kubeadm
and apt do inside, request parsing and formatting, lists and other reads that share nothing, tokens
(one row, one statement), the import of a cluster (one INSERT after a probe), the text of the upgrade script (what an upgrade
changes for the panel is `Enroll!Upgrade`).

## 8. Running it

    tlc -config HubCall.cfg MCHub          # likewise the other runs: cfg and module as in PROJECT.json
    tlapm HubProofs.tla
    tlapm AgentProofs.tla
    tlapm EnrollProofs.tla
    tlapm ApiProofs.tla
    tlapm ClusterProofs.tla
    tlapm ApartProofs.tla
    tlapm InstallProofs.tla

-------------------------------- MODULE Api --------------------------------
(***************************************************************************)
(* The requests of the panel's HTTP API that work on a cluster from        *)
(* outside (api_kube.go, api_helm.go, the kubeconfig calls and taskLogs of *)
(* api.go), and what they share in the panel process: the kubeconfig row,  *)
(* the cached apiserver clients with their discovery caches (kube.go), the *)
(* rows of Helm repositories and the cached indexes (helm.go), the log of  *)
(* a task, the audit log around every write (audit.go), and the shutdown   *)
(* that waits for them (server.go Run).                                    *)
(*                                                                         *)
(* There is one imported cluster and one repository name in it; the        *)
(* contents of its kubeconfig are numbered as they are stored.  The        *)
(* apiserver, the chart repository and client-go are external.  Any call   *)
(* to them may fail, by its timeout or because the caller hung up.         *)
(***************************************************************************)
EXTENDS Naturals, Sequences

CONSTANTS
  Reqs,          \* goroutines that serve requests
  Menus,         \* sets of kinds of requests; a behaviour has the requests of one of them
  Manifests,     \* the YAML documents of an apply, each "plain" or "custom"
  Urls,          \* of chart repositories
  Page,          \* lines a call of taskLogs returns at most (1000)
  MaxRequests, MaxPublished, MaxLines,  \* bounds
  None

Kinds == {"view", "change", "kinds", "apply", "undo", "follow", "exec", "install", "release",
          "update", "drop", "search", "refresh", "add", "remove", "logs"}

ASSUME ApiAssumption ==
  /\ Menus \subseteq SUBSET Kinds
  /\ Manifests \subseteq Seq({"plain", "custom"}) \ {<<>>}
  /\ Page \in Nat \ {0}
  /\ MaxRequests \in Nat /\ MaxPublished \in Nat /\ MaxLines \in Nat
  /\ None \notin Urls \cup [v : Nat, old : BOOLEAN] \cup [of : Nat, disc : Nat]

VARIABLES
  menu, came,      \* the kinds of this behaviour; requests so far
  req,             \* what each goroutine is at, see Request
  stage,           \* of the process: "up", "draining" HTTP, "graceful" stop of gRPC, "exited"
  timedOut,        \* shutdownCtx ended before the requests did
  agents,          \* agents' streams are open since GracefulStop
  kubeconfig,      \* content of the cluster's row; 0: there is no row
  stored, retired, \* contents stored so far; those up to retired were replaced, and that is answered
  client,          \* Client.cache: the content it was built from and its discovery cache
  disc,            \* discovery caches: "empty", or whether they know the custom kind
  served,          \* the apiserver serves the custom kind
  repo,            \* url of the repository's row
  index,           \* Client.indexes
  published,       \* version of the index the repository serves
  floor,           \* the version a refresh that was answered has promised
  lines, finished, \* the task's log, and whether its row has a final status
  job,             \* the task's goroutine: its Fn "runs", has returned an "error", has "ended"
  held,            \* a line of its request was looked up by the hub and is not stored yet
  astray,          \* the request was cut short under such a line
  seen,            \* TaskLogDrawer: the lines it shows
  polling          \* and whether it goes on: "on", "ended", or "cut" after a full page

process == <<stage, timedOut, agents>>
kube == <<kubeconfig, stored, retired, client, disc, served>>
helm == <<repo, index, published, floor>>
drawer == <<seen, polling>>
work == <<job, held, astray>>
tasklog == <<lines, finished, work, drawer>>
vars == <<menu, came, req, process, kube, helm, tasklog>>

\* POST, PUT and DELETE requests
Writes == {"change", "apply", "undo", "install", "release", "update", "drop", "refresh", "add", "remove"}
ByKubeconfig == {"view", "change", "kinds", "apply", "undo", "follow", "exec", "install", "release"}

\* Places where something outside the panel is waited for.
Calls == {"call", "discover", "patch", "probe", "download", "chart", "helm"}
Places == Calls \cup {"idle", "kubeconfig", "entry", "map", "invalidate", "remap", "unknown", "stream", "check",
                      "write", "delete", "forget", "repo", "index", "store", "answer", "show",
                      "cluster", "insert", "remove", "forgetindex", "task", "lines", "audit"}

Request ==
  [kind : Kinds \cup {None}, at : Places,
   did : BOOLEAN,                  \* it has changed something, and that is not in the audit log yet
   avoid : Nat,                    \* retired when it came
   kc : Nat, used : Nat,           \* kubeconfig it read; content its client was built from
   disc : Nat,                     \* its client's discovery cache
   maps : {"none", "without", "with"},  \* its mapper's copy of that cache
   docs : Seq({"plain", "custom"}),     \* documents ahead
   had : BOOLEAN, shared : BOOLEAN,     \* custom kind served when it emptied the cache; used by others
   lost : BOOLEAN,                      \* discovery failed it, in whole or in part
   url : Urls \cup {None},
   least : [Urls -> Nat], got : Nat,    \* version promised when it came; version it has
   over : BOOLEAN]                      \* the task row it read has a final status

Idle ==
  [kind |-> None, at |-> "idle", did |-> FALSE, avoid |-> 0, kc |-> 0, used |-> 0, disc |-> 0,
   maps |-> "none", docs |-> <<>>, had |-> FALSE, shared |-> FALSE, lost |-> FALSE, url |-> None,
   least |-> [u \in Urls |-> 0], got |-> 0, over |-> FALSE]

TypeOK ==
  /\ menu \in Menus /\ came \in 0..MaxRequests
  /\ req \in [Reqs -> Request]
  /\ stage \in {"up", "draining", "graceful", "exited"}
  /\ timedOut \in BOOLEAN /\ agents \in BOOLEAN
  /\ kubeconfig \in Nat /\ stored \in Nat /\ retired \in Nat
  /\ client \in [of : Nat, disc : 1..Len(disc)] \cup {None}
  /\ disc \in Seq({"empty", "without", "with"}) /\ served \in BOOLEAN
  /\ repo \in Urls \cup {None}
  /\ index \in [Urls -> [v : Nat, old : BOOLEAN] \cup {None}]
  /\ published \in 0..MaxPublished /\ floor \in [Urls -> 0..MaxPublished]
  /\ lines \in 0..MaxLines /\ finished \in BOOLEAN
  /\ job \in {"runs", "error", "ended"} /\ held \in BOOLEAN /\ astray \in BOOLEAN
  /\ seen \in 0..MaxLines /\ polling \in {"on", "ended", "cut"}

Init ==
  /\ menu \in Menus /\ came = 0
  /\ req = [r \in Reqs |-> Idle]
  /\ stage = "up" /\ timedOut = FALSE /\ agents = FALSE
  /\ kubeconfig = 1 /\ stored = 1 /\ retired = 0
  /\ client = None /\ disc = <<>> /\ served = FALSE
  /\ repo \in Urls /\ index = [u \in Urls |-> None]
  /\ published = 0 /\ floor = [u \in Urls |-> 0]
  /\ lines = 0 /\ finished = FALSE /\ job = "runs" /\ held = FALSE /\ astray = FALSE
  /\ seen = 0 /\ polling = "on"

-----------------------------------------------------------------------------
(* The life of a request. *)

Up == stage # "exited"
At(r, place) == Up /\ req[r].at = place
Is(r, kind) == req[r].kind = kind

\* What becomes of a request: it goes on at a place, or its handler has returned; audit appends
\* a row after the handler of a write.
GoOn(q, place) == [q EXCEPT !.at = place]
Returned(q) ==
  IF q.kind \in Writes THEN [Idle EXCEPT !.kind = q.kind, !.did = q.did, !.at = "audit"] ELSE Idle
Set(r, q) == req' = [req EXCEPT ![r] = q]

First(kind) ==
  CASE kind \in ByKubeconfig -> "kubeconfig"
    [] kind = "update" -> "probe"
    [] kind = "drop" -> "check"
    [] kind \in {"search", "refresh", "remove"} -> "repo"
    [] kind = "add" -> "cluster"
    [] kind = "logs" -> "task"

\* The drawer polls again when it has the answer, and no longer when it has stopped.
Polls(kind) == kind = "logs" => polling = "on" /\ \A q \in Reqs : ~Is(q, "logs")

\* A request comes; its token is good (auth.go).
Arrive(r, kind, url, docs) ==
  /\ stage = "up" /\ req[r].at = "idle" /\ came < MaxRequests /\ Polls(kind)
  /\ (url # None) = (kind = "add")
  /\ (docs # <<>>) = (kind \in {"apply", "undo"})
  /\ came' = came + 1
  /\ Set(r, [Idle EXCEPT !.kind = kind, !.at = First(kind), !.avoid = retired, !.url = url, !.docs = docs,
                         !.least = IF kind = "refresh" THEN [u \in Urls |-> published] ELSE floor])
  /\ UNCHANGED <<menu, process, kube, helm, tasklog>>

\* A call to the outside fails: the handler answers an error.  A change may have been made
\* all the same.
Fail(r) ==
  /\ Up /\ req[r].at \in Calls
  /\ \E d \in {FALSE, req[r].at \in {"call", "patch", "helm"} /\ req[r].kind \in Writes} :
       Set(r, Returned([req[r] EXCEPT !.did = @ \/ d]))
  /\ UNCHANGED <<menu, came, process, kube, helm, tasklog>>

Audit(r) ==
  /\ At(r, "audit")
  /\ Set(r, Idle)
  /\ UNCHANGED <<menu, came, process, kube, helm, tasklog>>

-----------------------------------------------------------------------------
(* Calls to the cluster's apiserver. *)

\* kubeconfigFor, Service.Kubeconfig
ReadKubeconfig(r) ==
  /\ At(r, "kubeconfig")
  /\ LET q == [req[r] EXCEPT !.kc = kubeconfig] IN
     Set(r, IF kubeconfig = 0 THEN Returned(req[r])
            ELSE IF Is(r, "install") THEN GoOn([q EXCEPT !.used = kubeconfig], "repo")
            ELSE IF Is(r, "release") THEN GoOn([q EXCEPT !.used = kubeconfig], "helm")
            ELSE GoOn(q, "entry"))
  /\ UNCHANGED <<menu, came, process, kube, helm, tasklog>>

\* entry takes the cached client only if it was built from the same content.
FitsAny(cached, content) == cached # None
Fits(cached, content) == cached # None /\ cached.of = content

Use(kind) ==
  CASE kind \in {"view", "change"} -> "call"
    [] kind = "kinds" -> "discover"
    [] kind \in {"apply", "undo"} -> "map"
    [] kind \in {"follow", "exec"} -> "stream"

EntryWithoutCache(r) ==
  /\ At(r, "entry")
  /\ client' = [of |-> req[r].kc, disc |-> Len(disc) + 1]
  /\ Set(r, GoOn([req[r] EXCEPT !.used = req[r].kc, !.disc = Len(disc) + 1], Use(req[r].kind)))
  /\ UNCHANGED <<menu, came, process, kubeconfig, stored, retired, disc, served, helm, tasklog>>
\* Client.entry: a new client has a discovery cache of its own.
Entry(r) ==
  /\ At(r, "entry")
  /\ LET fits == Fits(client, req[r].kc)
         c == IF fits THEN client ELSE [of |-> req[r].kc, disc |-> Len(disc) + 1] IN
     /\ client' = c
     /\ disc' = IF fits THEN disc ELSE Append(disc, "empty")
     /\ Set(r, GoOn([req[r] EXCEPT !.used = c.of, !.disc = c.disc], Use(req[r].kind)))
  /\ UNCHANGED <<menu, came, process, kubeconfig, stored, retired, served, helm, tasklog>>

\* One call: the handlers that list and get, and those that cordon, scale, restart, expose, delete.
Look(r) ==
  /\ At(r, "call") /\ Is(r, "view")
  /\ Set(r, Returned(req[r]))
  /\ UNCHANGED <<menu, came, process, kube, helm, tasklog>>
Change(r) ==
  /\ At(r, "call") /\ Is(r, "change")
  /\ Set(r, Returned([req[r] EXCEPT !.did = TRUE]))
  /\ UNCHANGED <<menu, came, process, kube, helm, tasklog>>

\* logs -f and exec end when the container does or the browser leaves.
EndStream(r) ==
  /\ At(r, "stream")
  /\ Set(r, Returned(req[r]))
  /\ UNCHANGED <<menu, came, process, kube, helm, tasklog>>

\* memory.NewMemCacheClient: filled when it is asked and empty, and never by itself again.  When
\* the apiserver answers for some API groups only, what is missing looks like what is not served.
View == IF served THEN "with" ELSE "without"
Views == {View, "without"}
Filled(d, view) == IF disc[d] = "empty" THEN view ELSE disc[d]
\* The others with the same client learn that this one has used the cache.
Share(r, q) ==
  req' = [p \in Reqs |-> IF p = r THEN q
                         ELSE [req[p] EXCEPT !.shared = @ \/ req[p].disc = req[r].disc]]

ResourceKinds(r) ==
  /\ At(r, "discover")
  /\ \E view \in Views : disc' = [disc EXCEPT ![req[r].disc] = Filled(req[r].disc, view)]
  /\ Share(r, Returned(req[r]))
  /\ UNCHANGED <<menu, came, process, kubeconfig, stored, retired, client, served, helm, tasklog>>

Known(doc, maps) == doc = "plain" \/ maps = "with"

\* DeferredDiscoveryRESTMapper.RESTMapping: its first use copies the cache.  When it does not
\* find the kind, it looks again with a new copy only if the cache has been emptied since.
Mapping(r, view, missed) ==
  LET q == req[r]
      d == q.disc
      first == q.maps = "none"
      copy == IF first THEN Filled(d, view) ELSE q.maps
      again == ~Known(Head(q.docs), copy) /\ ~first /\ disc[d] = "empty"
      maps == IF again THEN view ELSE copy
      asks == (first \/ again) /\ disc[d] = "empty"
      x == [q EXCEPT !.maps = maps, !.lost = @ \/ (asks /\ view # View)] IN
  /\ disc' = [disc EXCEPT ![d] = IF first \/ again THEN Filled(d, view) ELSE @]
  /\ Share(r, GoOn(x, IF Known(Head(q.docs), maps) THEN "patch" ELSE missed))

\* The mapping of the next document.  On any error Apply empties the cache and maps once more;
\* DeleteManifest does not, and a second error is final, whatever it was.
Missed(r) == IF At(r, "map") /\ Is(r, "apply") THEN "invalidate" ELSE "unknown"

MapDocument(r) ==
  /\ At(r, "map")
  /\ \E view \in Views : Mapping(r, view, Missed(r))
  /\ UNCHANGED <<menu, came, process, kubeconfig, stored, retired, client, served, helm, tasklog>>

EmptiedNot(d) == disc
Emptied(d) == [disc EXCEPT ![d] = "empty"]

Invalidate(r) ==
  /\ At(r, "invalidate")
  /\ disc' = Emptied(req[r].disc)
  /\ Set(r, GoOn([req[r] EXCEPT !.had = served, !.shared = FALSE, !.lost = FALSE], "remap"))
  /\ UNCHANGED <<menu, came, process, kubeconfig, stored, retired, client, served, helm, tasklog>>

MapAgain(r) ==
  /\ At(r, "remap")
  /\ \E view \in Views : Mapping(r, view, Missed(r))
  /\ UNCHANGED <<menu, came, process, kubeconfig, stored, retired, client, served, helm, tasklog>>

\* The apiserver, which the mapper has to ask, does not answer: nothing is copied or cached.
Asks(q) == disc[q.disc] = "empty" /\ (q.maps = "none" \/ ~Known(Head(q.docs), q.maps))
MappingFails(r) ==
  /\ At(r, "map") \/ At(r, "remap")
  /\ Asks(req[r])
  /\ Set(r, GoOn([req[r] EXCEPT !.maps = "none", !.lost = TRUE], Missed(r)))
  /\ UNCHANGED <<menu, came, process, kube, helm, tasklog>>

\* "unknown resource", with the mapper's error behind it
UnknownKind(r) ==
  /\ At(r, "unknown")
  /\ Set(r, Returned(req[r]))
  /\ UNCHANGED <<menu, came, process, kube, helm, tasklog>>

\* The server-side apply, or the delete, of one document; those before stay as they are when a
\* later one fails.
Patch(r) ==
  /\ At(r, "patch")
  /\ LET q == [req[r] EXCEPT !.did = TRUE, !.docs = Tail(@)] IN
     Set(r, IF q.docs = <<>> THEN Returned(q) ELSE GoOn(q, "map"))
  /\ UNCHANGED <<menu, came, process, kube, helm, tasklog>>

-----------------------------------------------------------------------------
(* Changing the kubeconfig, deleting the cluster. *)

\* kube.Probe connects with the new kubeconfig, before anything is stored.
Probe(r) ==
  /\ At(r, "probe")
  /\ Set(r, GoOn(req[r], "check"))
  /\ UNCHANGED <<menu, came, process, kube, helm, tasklog>>

\* GetCluster, of UpdateKubeconfig and of Delete
Check(r) ==
  /\ At(r, "check")
  /\ Set(r, IF kubeconfig = 0 THEN Returned(req[r])
            ELSE GoOn(req[r], IF Is(r, "update") THEN "write" ELSE "delete"))
  /\ UNCHANGED <<menu, came, process, kube, helm, tasklog>>

\* SetKubeconfig: an UPDATE that finds no row is no error.
WriteKubeconfig(r) ==
  /\ At(r, "write")
  /\ Set(r, GoOn([req[r] EXCEPT !.kc = kubeconfig, !.did = kubeconfig # 0], "forget"))
  /\ stored' = IF kubeconfig = 0 THEN stored ELSE stored + 1
  /\ kubeconfig' = IF kubeconfig = 0 THEN 0 ELSE stored + 1
  /\ UNCHANGED <<menu, came, process, retired, client, disc, served, helm, tasklog>>

\* DeleteCluster; the rows of its repositories go with it (schema.sql).
DeleteCluster(r) ==
  /\ At(r, "delete")
  /\ Set(r, IF kubeconfig = 0 THEN Returned(req[r])
            ELSE GoOn([req[r] EXCEPT !.kc = kubeconfig, !.did = TRUE], "forget"))
  /\ kubeconfig' = 0 /\ repo' = None
  /\ UNCHANGED <<menu, came, process, stored, retired, client, disc, served, index, published, floor, tasklog>>

\* Client.Forget, and the answer: from now on the content that was replaced has retired.
Forget(r) ==
  /\ At(r, "forget")
  /\ client' = None
  /\ retired' = IF req[r].kc > retired THEN req[r].kc ELSE retired
  /\ Set(r, Returned(req[r]))
  /\ UNCHANGED <<menu, came, process, kubeconfig, stored, disc, served, helm, tasklog>>

-----------------------------------------------------------------------------
(* Helm repositories and releases. *)

ForcedAdd(kind) == kind = "add"
Forced(kind) == kind \in {"refresh", "add"}

\* ListHelmRepos, GetHelmRepo
ReadRepo(r) ==
  /\ At(r, "repo")
  /\ Set(r, IF repo = None THEN Returned(req[r])
            ELSE GoOn([req[r] EXCEPT !.url = repo], IF Is(r, "remove") THEN "remove" ELSE "index"))
  /\ UNCHANGED <<menu, came, process, kube, helm, tasklog>>

\* helmAddRepo asks for the cluster, then fetches the index of the url it was given.
ReadCluster(r) ==
  /\ At(r, "cluster")
  /\ Set(r, IF kubeconfig = 0 THEN Returned(req[r]) ELSE GoOn(req[r], "index"))
  /\ UNCHANGED <<menu, came, process, kube, helm, tasklog>>

After(kind) ==
  CASE kind = "search" -> "show" [] kind = "refresh" -> "answer"
    [] kind = "add" -> "insert" [] kind = "install" -> "chart"

\* fetchIndex: from the cache while the entry is younger than ten minutes, unless forced.
LookUp(r) ==
  /\ At(r, "index")
  /\ LET e == index[req[r].url]
         fresh == e # None /\ ~e.old /\ ~Forced(req[r].kind) IN
     Set(r, IF fresh THEN GoOn([req[r] EXCEPT !.got = e.v], After(req[r].kind))
            ELSE GoOn(req[r], "download"))
  /\ UNCHANGED <<menu, came, process, kube, helm, tasklog>>

\* Get: the repository serves its present index ...
Download(r) ==
  /\ At(r, "download")
  /\ Set(r, GoOn([req[r] EXCEPT !.got = published], "store"))
  /\ UNCHANGED <<menu, came, process, kube, helm, tasklog>>

\* ... which is parsed, and stored whatever others have stored meanwhile.
StoreIndex(r) ==
  /\ At(r, "store")
  /\ index' = [index EXCEPT ![req[r].url] = [v |-> req[r].got, old |-> FALSE]]
  /\ Set(r, GoOn(req[r], After(req[r].kind)))
  /\ UNCHANGED <<menu, came, process, kube, repo, published, floor, tasklog>>

\* Search answers with the charts of the index.
Show(r) ==
  /\ At(r, "show")
  /\ Set(r, Returned(req[r]))
  /\ UNCHANGED <<menu, came, process, kube, helm, tasklog>>

\* The entry of url is as new as v, and no older download is about to replace it.
Settled(url, v) ==
  /\ index[url] # None /\ index[url].v >= v
  /\ \A q \in Reqs : req[q].at = "store" /\ req[q].url = url => req[q].got >= v

\* helmRefreshRepo answers.
Refreshed(r) ==
  /\ At(r, "answer")
  /\ LET u == req[r].url
         v == req[r].least[u] IN
     floor' = IF Settled(u, v) /\ v > floor[u] THEN [floor EXCEPT ![u] = v] ELSE floor
  /\ Set(r, Returned(req[r]))
  /\ UNCHANGED <<menu, came, process, kube, repo, index, published, tasklog>>

\* AddHelmRepo: the name is unique in the cluster, and the cluster must be there.
InsertRepo(r) ==
  /\ At(r, "insert")
  /\ LET ok == repo = None /\ kubeconfig # 0 IN
     /\ repo' = IF ok THEN req[r].url ELSE repo
     /\ Set(r, Returned([req[r] EXCEPT !.did = ok]))
  /\ UNCHANGED <<menu, came, process, kube, index, published, floor, tasklog>>

\* DeleteHelmRepo goes by the name, Forget by the url read before.
RemoveRepo(r) ==
  /\ At(r, "remove")
  /\ repo' = None
  /\ Set(r, IF repo = None THEN Returned(req[r]) ELSE GoOn([req[r] EXCEPT !.did = TRUE], "forgetindex"))
  /\ UNCHANGED <<menu, came, process, kube, index, published, floor, tasklog>>

ForgetIndex(r) ==
  /\ At(r, "forgetindex")
  /\ index' = [index EXCEPT ![req[r].url] = None]
  /\ Set(r, Returned(req[r]))
  /\ UNCHANGED <<menu, came, process, kube, repo, published, floor, tasklog>>

\* loadChart downloads the package that the index names ...
LoadChart(r) ==
  /\ At(r, "chart")
  /\ Set(r, GoOn(req[r], "helm"))
  /\ UNCHANGED <<menu, came, process, kube, helm, tasklog>>

\* ... and Helm's own client, built from the kubeconfig that was read first, installs it.
Deploy(r) ==
  /\ At(r, "helm") /\ Is(r, "install")
  /\ Set(r, Returned([req[r] EXCEPT !.did = TRUE]))
  /\ UNCHANGED <<menu, came, process, kube, helm, tasklog>>
\* Uninstall and Rollback need no chart.
Undeploy(r) ==
  /\ At(r, "helm") /\ Is(r, "release")
  /\ Set(r, Returned([req[r] EXCEPT !.did = TRUE]))
  /\ UNCHANGED <<menu, came, process, kube, helm, tasklog>>

-----------------------------------------------------------------------------
(* The log of a task, and the drawer that shows it. *)

\* taskLogs reads the row of the task first.
ReadTask(r) ==
  /\ At(r, "task")
  /\ Set(r, GoOn([req[r] EXCEPT !.over = finished], "lines"))
  /\ UNCHANGED <<menu, came, process, kube, helm, tasklog>>

\* TaskLogs, and what TaskLogDrawer makes of the answer: it polls on while the status is running,
\* and stops after the first answer with another, were its page full or not.
ReadLines(r) ==
  /\ At(r, "lines")
  /\ LET page == IF lines - seen > Page THEN Page ELSE lines - seen IN
     /\ seen' = seen + page
     /\ polling' = IF ~req[r].over THEN "on" ELSE IF page < Page THEN "ended" ELSE "cut"
  /\ Set(r, Idle)
  /\ UNCHANGED <<menu, came, process, kube, helm, lines, finished, work>>

-----------------------------------------------------------------------------
(* The process, and the world outside. *)

\* SIGTERM: http.Shutdown stops listening and waits for the requests, ten seconds at most;
\* a connection that was upgraded to a WebSocket is not waited for.
Stop ==
  /\ stage = "up" /\ stage' = "draining"
  /\ UNCHANGED <<menu, came, req, timedOut, agents, kube, helm, tasklog>>

WaitsForHandler(q) == q.at \notin {"idle", "audit"} /\ q.kind # "exec"
Waits(q) == q.at # "idle" /\ q.kind # "exec"

\* The streams that are open when GracefulStop is called.
Graceful == stage' = "graceful" /\ agents' \in BOOLEAN

Drained ==
  /\ stage = "draining" /\ \A r \in Reqs : ~Waits(req[r])
  /\ Graceful
  /\ UNCHANGED <<menu, came, req, timedOut, kube, helm, tasklog>>

DrainForever == UNCHANGED vars
DrainTimeout ==
  /\ stage = "draining"
  /\ Graceful /\ timedOut' = TRUE
  /\ UNCHANGED <<menu, came, req, kube, helm, tasklog>>

\* GracefulStop returns when the last agent's stream has ended; then the store is closed and
\* the process ends, with whatever it is still at.
Exit ==
  /\ stage = "graceful" /\ ~agents
  /\ stage' = "exited"
  /\ UNCHANGED <<menu, came, req, timedOut, agents, kube, helm, tasklog>>

AgentLeaves ==
  /\ agents /\ agents' = FALSE
  /\ UNCHANGED <<menu, came, req, stage, timedOut, kube, helm, tasklog>>

\* What nothing in the behaviour's menu would notice does not happen.
Noticed(kinds) == menu \cap kinds # {}

\* Someone installs the definition of the custom kind, and the apiserver serves it from now on.
Serve ==
  /\ Noticed({"apply", "undo"}) /\ ~served /\ served' = TRUE
  /\ UNCHANGED <<menu, came, req, process, kubeconfig, stored, retired, client, disc, helm, tasklog>>

Publish ==
  /\ Noticed({"search", "install"}) /\ published < MaxPublished /\ published' = published + 1
  /\ UNCHANGED <<menu, came, req, process, kube, repo, index, floor, tasklog>>

\* Ten minutes since the download.
Age(u) ==
  /\ Noticed({"search", "install"}) /\ index[u] # None /\ ~index[u].old
  /\ index' = [index EXCEPT ![u].old = TRUE]
  /\ UNCHANGED <<menu, came, req, process, kube, repo, published, floor, tasklog>>

\* The task (runner.go run).  Room is left for the lines that are still to come when its Fn ends.
Logs == Up /\ Noticed({"logs"})
RoomForMore == lines + 3 <= MaxLines
OneMore == lines < MaxLines /\ lines' = lines + 1
Elsewhere == UNCHANGED <<menu, came, req, process, kube, helm, drawer>>

\* Its Fn writes a line,
AppendLine ==
  /\ Logs /\ job = "runs" /\ RoomForMore /\ OneMore
  /\ Elsewhere /\ UNCHANGED <<finished, work>>

LookUpLineAnyway ==  \* a slip: the hub keeps the entry of a request that has ended
  /\ Logs /\ ~held /\ RoomForMore /\ held' = TRUE
  /\ Elsewhere /\ UNCHANGED <<lines, finished, job, astray>>
\* or its agent does: the hub looks the request up under its lock,
LookUpLine ==
  /\ Logs /\ job = "runs" /\ ~held /\ RoomForMore /\ held' = TRUE
  /\ Elsewhere /\ UNCHANGED <<lines, finished, job, astray>>

\* and calls onLog, which stores the line, when it has let the lock go.
StoreLine ==
  /\ Logs /\ held /\ held' = FALSE /\ OneMore
  /\ Elsewhere /\ UNCHANGED <<finished, job, astray>>

\* The request's result comes behind its lines on the same stream; a request cancelled, or given
\* up with its stream by another goroutine, is not waited for by the stream's reader.
FnReturns ==
  /\ Logs /\ job = "runs" /\ job' \in {"error", "ended"}
  /\ astray' = held
  /\ Elsewhere /\ UNCHANGED <<lines, finished, held>>

\* An error, and being cancelled is one, is a line of the log,
LastLine ==
  /\ Logs /\ job = "error" /\ job' = "ended" /\ OneMore
  /\ Elsewhere /\ UNCHANGED <<finished, held, astray>>

\* and the final status comes last.
FinishTask ==
  /\ Logs /\ job = "ended" /\ ~finished /\ finished' = TRUE
  /\ Elsewhere /\ UNCHANGED <<lines, work>>

TaskStep == AppendLine \/ LookUpLine \/ StoreLine \/ FnReturns \/ LastLine \/ FinishTask

KubeStep(r) ==
  \/ ReadKubeconfig(r) \/ Entry(r) \/ Look(r) \/ Change(r) \/ ResourceKinds(r) \/ MapDocument(r) \/ Invalidate(r)
  \/ MapAgain(r) \/ MappingFails(r) \/ UnknownKind(r) \/ Patch(r)
  \/ Probe(r) \/ Check(r) \/ WriteKubeconfig(r) \/ DeleteCluster(r) \/ Forget(r)
HelmStep(r) ==
  \/ ReadRepo(r) \/ ReadCluster(r) \/ LookUp(r) \/ Download(r) \/ StoreIndex(r) \/ Show(r) \/ Refreshed(r)
  \/ InsertRepo(r) \/ RemoveRepo(r) \/ ForgetIndex(r) \/ LoadChart(r) \/ Deploy(r) \/ Undeploy(r)
Step(r) == KubeStep(r) \/ HelmStep(r) \/ ReadTask(r) \/ ReadLines(r) \/ Fail(r) \/ Audit(r)

World == AgentLeaves \/ Serve \/ Publish \/ (\E u \in Urls : Age(u)) \/ TaskStep

Next ==
  \/ \E r \in Reqs, kind \in menu, url \in Urls \cup {None}, docs \in Manifests \cup {<<>>} :
       Arrive(r, kind, url, docs)
  \/ \E r \in Reqs : Step(r) \/ EndStream(r)
  \/ Stop \/ Drained \/ DrainTimeout \/ Exit
  \/ World

Spec == Init /\ [][Next]_vars

\* Handlers go on, calls to the outside have timeouts, and http.Shutdown and GracefulStop
\* return; nothing ends a stream to a browser, or an agent's.
FairSpec ==
  /\ Spec
  /\ \A r \in Reqs : WF_vars(Step(r))
  /\ WF_vars(Drained \/ DrainTimeout) /\ WF_vars(Exit)

-----------------------------------------------------------------------------
(* Properties. *)

\* A call that comes after a kubeconfig was replaced (PUT kubeconfig answered) does not use the
\* old one, although calls that began before may put its client back into the cache.
RetiredConfigUnused == \A r \in Reqs : req[r].used # 0 => req[r].used > req[r].avoid

\* Apply calls a kind unknown only if the apiserver did not serve it when Apply emptied the
\* discovery cache.  Exceptions: another request has filled the cache since, or the second
\* discovery failed too (any error of the mapper's is answered as an unknown kind, apply.go:65).
UnknownKindIsUnknown ==
  \A r \in Reqs : At(r, "unknown") /\ Is(r, "apply") => ~req[r].had \/ req[r].shared \/ req[r].lost

\* A refresh answers when it has an index at least as new as the repository's was when it came;
\* charts are searched and installed from one at least as new as the last refresh, answered
\* before the request came, has promised.
FreshAfterRefresh ==
  \A r \in Reqs : req[r].at \in {"answer", "show", "chart"} => req[r].got >= req[r].least[req[r].url]

\* A log drawer that has stopped after a page that was not full shows the whole log of a task
\* that has ended, but for the one line that the hub may have had in its hands when the request
\* was cancelled or its stream displaced (hub.go:241-244; it is stored after the final status).
\* (After a full page the drawer may have missed the rest: README.)
Strays == IF astray THEN 1 ELSE 0
FollowerMissesNothing == polling = "ended" => finished /\ lines <= seen + Strays

\* Every write is in the audit log (docs/build.md:46) when the process ends by a shutdown whose
\* ten seconds were enough.
WritesAreAudited == stage = "exited" /\ ~timedOut => \A r \in Reqs : ~req[r].did

\* A panel that is told to stop does stop, if the agents leave it for good.
StopEnds == <>[](~agents) => (stage = "draining" ~> stage = "exited")

=============================================================================

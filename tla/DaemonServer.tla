----------------------------- MODULE DaemonServer -----------------------------
(***************************************************************************)
(* The daemon: DaemonServer (rpytest-daemon/src/server.rs), its map of     *)
(* RepoContexts (context.rs) and the storage tree they share (storage.rs), *)
(* with the REQ/REP sockets its clients reach it through.                  *)
(*                                                                         *)
(* A socket thread receives a request, hands it to the one processing      *)
(* thread and waits for the answer before it receives another, so requests *)
(* are served one at a time; what interleaves with them are the clients,   *)
(* whose receive gives up after 30 s, the files of the repositories, the   *)
(* flush thread of the storage, and the death of the process.              *)
(* Clients here ask anything in any order; Watch restricts them to what    *)
(* one command does.                                                       *)
(***************************************************************************)
EXTENDS Naturals, Sequences, FiniteSets

CONSTANTS
    Clients,      \* the processes that talk to the daemon
    Keys,         \* context ids: the hash of repository, python and mode
    Repos,
    RepoOf,       \* the repository of a context id
    Tests,        \* node ids, relative to their repository
    Asks,         \* the requests clients make
    Backlog,      \* bound: requests of one client the daemon has not received
    Faults,       \* whether storage, collector and executors may fail
    None          \* no context, no hash, no request, no answer, no job

Request ==
         [kind: {"init", "list", "inventory"}, key: Keys]
    \cup [kind: {"collect"}, key: Keys, force: BOOLEAN]
    \cup [kind: {"run"}, key: Keys, nodes: SUBSET Tests]
    \cup [kind: {"shutdown"}, keys: {{k} : k \in Keys} \cup {Keys}]
    \cup [kind: {"ping"}]

Answer ==
         [kind: {"error", "collected", "complete", "ack", "pong"}]
    \cup [kind: {"ready"}, hash: (SUBSET Tests) \cup {None}]
    \cup [kind: {"tests"}, nodes: SUBSET Tests]
    \cup [kind: {"data"}, hash: (SUBSET Tests) \cup {None}, nodes: SUBSET Tests]

\* A RepoContext; the hash, of the sorted node ids, stands for their set.
Context == [inv: SUBSET Tests, hash: (SUBSET Tests) \cup {None}]

\* A request on its way, live while its client waits for the answer.
Msg == [req: Request, live: BOOLEAN]
Job == [client: Clients, msg: Msg]

\* A request under way as RequestService sees it.
Work == [req: Request, by: Clients \cup {None}]

ASSUME ServerAssumption ==
    /\ RepoOf \in [Keys -> Repos]
    /\ Asks \subseteq Request
    /\ Backlog \in Nat \ {0}
    /\ Faults \in BOOLEAN
    /\ None \notin Clients
    /\ \A x \in Request \cup Answer \cup Context \cup Job \cup Work : x # None

VARIABLES
    daemon,    \* what the processing thread does, or "down"
    job,       \* the message it works on while that takes time
    contexts,  \* DaemonServer::contexts: inventory and inventory_hash
    storage,   \* the inventory tree, one for all repositories
    flushed,   \* what of it is on disk
    disk,      \* the tests in the files of each repository
    inbox,     \* messages of a client the daemon has not received
    asked,     \* the request a client waits for
    answer     \* the answer that reached it

server == <<daemon, job, contexts>>
pipes  == <<inbox, asked, answer>>
vars   == <<daemon, job, contexts, storage, flushed, disk, inbox, asked, answer>>

Init ==
    /\ daemon = "idle"
    /\ job = None
    /\ contexts = [k \in Keys |-> None]
    /\ storage = {} /\ flushed = {}
    /\ disk \in [Repos -> SUBSET Tests]
    /\ inbox = [c \in Clients |-> <<>>]
    /\ asked = [c \in Clients |-> None]
    /\ answer = [c \in Clients |-> None]

-----------------------------------------------------------------------------
(* The sockets *)

\* DaemonClient::send, the first half; with no daemon the message waits in
\* the client's own socket.
Send(c, r) ==
    /\ asked[c] = None
    /\ Len(inbox[c]) < Backlog
    /\ asked' = [asked EXCEPT ![c] = r]
    /\ inbox' = IF daemon = "down" THEN inbox
                ELSE [inbox EXCEPT ![c] = Append(@, [req |-> r, live |-> TRUE])]
    /\ UNCHANGED answer

\* ... and the second: the answer is read.
Take(c) ==
    /\ answer[c] # None
    /\ answer' = [answer EXCEPT ![c] = None]
    /\ asked' = [asked EXCEPT ![c] = None]
    /\ UNCHANGED inbox

\* The socket forgets the request a receive timed out on: what the daemon
\* answers to it later is thrown away.
Forget(c) ==
    IF job # None /\ job.client = c THEN [job EXCEPT !.msg.live = FALSE] ELSE job

Stale(messages) == [i \in DOMAIN messages |-> [messages[i] EXCEPT !.live = FALSE]]

\* Mutant: the socket does not know which request an answer is for.
GiveUpUnforgotten(c) ==
    /\ asked[c] # None /\ answer[c] = None
    /\ daemon # "idle"
    /\ asked' = [asked EXCEPT ![c] = None]
    /\ UNCHANGED <<server, inbox, answer>>

\* RecvTimeout: 30 s go by only while the daemon is busy, stuck or gone.
GiveUp(c) ==
    /\ asked[c] # None /\ answer[c] = None
    /\ daemon # "idle"
    /\ asked' = [asked EXCEPT ![c] = None]
    /\ inbox' = [inbox EXCEPT ![c] = Stale(@)]
    /\ job' = Forget(c)
    /\ UNCHANGED <<daemon, contexts, answer>>

\* The client's process exits and its pipe closes.
HangUp(c) ==
    /\ asked' = [asked EXCEPT ![c] = None]
    /\ answer' = [answer EXCEPT ![c] = None]
    /\ inbox' = [inbox EXCEPT ![c] = <<>>]
    /\ job' = Forget(c)
    /\ UNCHANGED <<daemon, contexts>>

-----------------------------------------------------------------------------
(* Requests: process_request *)

\* The message the socket thread hands over, of the given kind.
Receive(c, kind) ==
    /\ daemon = "idle"
    /\ inbox[c] # <<>>
    /\ Head(inbox[c]).req.kind = kind
    /\ inbox' = [inbox EXCEPT ![c] = Tail(@)]
    /\ UNCHANGED <<asked, flushed, disk>>

Message(c) == Head(inbox[c])

Reply(c, msg, a) ==
    answer' = IF msg.live THEN [answer EXCEPT ![c] = a] ELSE answer

Error == [kind |-> "error"]

NewContext == [inv |-> {}, hash |-> None]

InitContext(c) ==
    LET k == Message(c).req.key IN
    /\ Receive(c, "init")
    /\ contexts' = IF contexts[k] = None THEN [contexts EXCEPT ![k] = NewContext] ELSE contexts
    /\ Reply(c, Message(c), [kind |-> "ready", hash |-> contexts'[k].hash])
    /\ UNCHANGED <<daemon, job, storage>>

\* No executor for the requested mode.
InitFails(c) ==
    /\ Faults
    /\ Receive(c, "init")
    /\ contexts[Message(c).req.key] = None
    /\ Reply(c, Message(c), Error)
    /\ UNCHANGED <<server, storage>>

\* Every request that names a context the map does not hold.
NoSuchContext(c) ==
    /\ \E kind \in {"collect", "run", "list", "inventory"} : Receive(c, kind)
    /\ contexts[Message(c).req.key] = None
    /\ Reply(c, Message(c), Error)
    /\ UNCHANGED <<server, storage>>

\* What a request that takes time leaves to its later steps.
Begin(c, doing) ==
    /\ daemon' = doing
    /\ job' = [client |-> c, msg |-> Message(c)]

\* Mutant: the cached inventory is used whenever there is one.
CollectCachedAlways(c) ==
    LET k == Message(c).req.key IN
    /\ Receive(c, "collect")
    /\ contexts[k] # None
    /\ storage # {}
    /\ contexts' = [contexts EXCEPT ![k].inv = @ \cup storage]
    /\ Begin(c, "stuck")
    /\ UNCHANGED <<storage, answer>>

\* collect(false) with a cached inventory: it holds the mutex of the
\* inventory when it calls compute_hash, which locks it again.
CollectCached(c) ==
    LET k == Message(c).req.key IN
    /\ Receive(c, "collect")
    /\ contexts[k] # None
    /\ ~Message(c).req.force /\ storage # {}
    /\ contexts' = [contexts EXCEPT ![k].inv = @ \cup storage]
    /\ Begin(c, "stuck")
    /\ UNCHANGED <<storage, answer>>

Collects(c) ==
    /\ Receive(c, "collect")
    /\ contexts[Message(c).req.key] # None
    /\ Message(c).req.force \/ storage = {}

\* The cached inventory cannot be read, or the collector fails.
CollectFails(c) ==
    /\ Faults
    /\ Receive(c, "collect")
    /\ contexts[Message(c).req.key] # None
    /\ Reply(c, Message(c), Error)
    /\ UNCHANGED <<server, storage>>

\* The native collection, merged into the inventory; then clear_inventory.
CollectBegin(c) ==
    LET k == Message(c).req.key IN
    /\ Collects(c)
    /\ contexts' = [contexts EXCEPT ![k].inv = @ \cup disk[RepoOf[k]]]
    /\ storage' = {}
    /\ Begin(c, "collecting")
    /\ UNCHANGED answer

\* clear_inventory fails: the request ends after the inventory was changed.
CollectNotCleared(c) ==
    LET k == Message(c).req.key IN
    /\ Faults
    /\ Collects(c)
    /\ contexts' = [contexts EXCEPT ![k].inv = @ \cup disk[RepoOf[k]]]
    /\ Reply(c, Message(c), Error)
    /\ UNCHANGED <<daemon, job, storage>>

Done(a) ==
    /\ daemon' = "idle"
    /\ job' = None
    /\ Reply(job.client, job.msg, a)
    /\ UNCHANGED <<flushed, disk, inbox, asked>>

\* Mutant: the hash is left as it was.
CollectSaveUnhashed ==
    /\ daemon = "collecting"
    /\ storage' = contexts[job.msg.req.key].inv
    /\ UNCHANGED contexts
    /\ Done([kind |-> "collected"])

\* save_test_nodes_batch, then compute_hash.
CollectSave ==
    LET k == job.msg.req.key IN
    /\ daemon = "collecting"
    /\ storage' = contexts[k].inv
    /\ contexts' = [contexts EXCEPT ![k].hash = contexts[k].inv]
    /\ Done([kind |-> "collected"])

CollectNotSaved ==
    /\ daemon = "collecting"
    /\ Faults
    /\ Done(Error)
    /\ UNCHANGED <<contexts, storage>>

RunBegin(c) ==
    /\ Receive(c, "run")
    /\ contexts[Message(c).req.key] # None
    /\ Begin(c, "running")
    /\ UNCHANGED <<contexts, storage, answer>>

RunEnd ==
    /\ daemon = "running"
    /\ Done([kind |-> "complete"])
    /\ UNCHANGED <<contexts, storage>>

\* save_state fails: the tests ran, their summary is lost.
RunNotSaved ==
    /\ daemon = "running"
    /\ Faults
    /\ Done(Error)
    /\ UNCHANGED <<contexts, storage>>

List(c) ==
    LET k == Message(c).req.key IN
    /\ Receive(c, "list")
    /\ contexts[k] # None
    /\ Reply(c, Message(c), [kind |-> "tests", nodes |-> contexts[k].inv])
    /\ UNCHANGED <<server, storage>>

GetInventory(c) ==
    LET k == Message(c).req.key IN
    /\ Receive(c, "inventory")
    /\ contexts[k] # None
    /\ Reply(c, Message(c),
             [kind |-> "data", hash |-> contexts[k].hash, nodes |-> contexts[k].inv])
    /\ UNCHANGED <<server, storage>>

Shutdown(c) ==
    /\ Receive(c, "shutdown")
    /\ contexts' = [k \in Keys |->
                      IF k \in Message(c).req.keys THEN None ELSE contexts[k]]
    /\ Reply(c, Message(c), [kind |-> "ack"])
    /\ UNCHANGED <<daemon, job, storage>>

Ping(c) ==
    /\ Receive(c, "ping")
    /\ Reply(c, Message(c), [kind |-> "pong"])
    /\ UNCHANGED <<server, storage>>

Serve(c) ==
    \/ InitContext(c) \/ InitFails(c) \/ NoSuchContext(c)
    \/ CollectCached(c) \/ CollectFails(c) \/ CollectBegin(c) \/ CollectNotCleared(c)
    \/ RunBegin(c)
    \/ List(c) \/ GetInventory(c) \/ Shutdown(c) \/ Ping(c)

Finish == CollectSave \/ CollectNotSaved \/ RunEnd \/ RunNotSaved

-----------------------------------------------------------------------------
(* The process and its surroundings *)

\* sled's flush thread, every five seconds.
Flush ==
    /\ daemon # "down"
    /\ flushed' = storage
    /\ UNCHANGED <<server, storage, disk, pipes>>

\* SIGINT, SIGKILL or a reboot: contexts and unflushed writes are gone.
Kill ==
    /\ daemon # "down"
    /\ daemon' = "down"
    /\ job' = None
    /\ contexts' = [k \in Keys |-> None]
    /\ storage' = flushed
    /\ inbox' = [c \in Clients |-> <<>>]
    /\ UNCHANGED <<flushed, disk, asked, answer>>

\* Mutant: a request is sent again although its answer has arrived.
StartResends ==
    /\ daemon = "down"
    /\ daemon' = "idle"
    /\ inbox' = [c \in Clients |->
                   IF asked[c] # None THEN << [req |-> asked[c], live |-> TRUE] >> ELSE <<>>]
    /\ UNCHANGED <<job, contexts, storage, flushed, disk, asked, answer>>

\* Some client spawns a daemon; the sockets reconnect and send again what
\* was never answered.
Start ==
    /\ daemon = "down"
    /\ daemon' = "idle"
    /\ inbox' = [c \in Clients |->
                   IF asked[c] # None /\ answer[c] = None
                   THEN << [req |-> asked[c], live |-> TRUE] >> ELSE <<>>]
    /\ UNCHANGED <<job, contexts, storage, flushed, disk, asked, answer>>

\* Somebody edits a test file.
Edit(repo, t) ==
    /\ disk' = [disk EXCEPT ![repo] = IF t \in @ THEN @ \ {t} ELSE @ \cup {t}]
    /\ UNCHANGED <<server, storage, flushed, pipes>>

Client(c) ==
    /\ \/ \E r \in Asks : Send(c, r) /\ UNCHANGED server
       \/ Take(c) /\ UNCHANGED server
       \/ GiveUp(c)
       \/ HangUp(c)
    /\ UNCHANGED <<storage, flushed, disk>>

Next ==
    \/ \E c \in Clients : Client(c) \/ Serve(c)
    \/ Finish
    \/ Flush \/ Kill \/ Start
    \/ \E repo \in Repos, t \in Tests : Edit(repo, t)

Spec == Init /\ [][Next]_vars

\* The threads run, a run of the tests ends, and the reply socket takes the
\* pipes that have a message in turn.  Nobody must give up, die or restart.
Fairness ==
    /\ \A c \in Clients : SF_vars(Serve(c))
    /\ WF_vars(Finish)

FairSpec == Spec /\ Fairness
-----------------------------------------------------------------------------
(* Properties *)

TypeOK ==
    /\ daemon \in {"idle", "collecting", "running", "stuck", "down"}
    /\ job \in Job \cup {None}
    /\ contexts \in [Keys -> Context \cup {None}]
    /\ storage \subseteq Tests /\ flushed \subseteq Tests
    /\ disk \in [Repos -> SUBSET Tests]
    /\ inbox \in [Clients -> Seq(Msg)]
    /\ asked \in [Clients -> Request \cup {None}]
    /\ answer \in [Clients -> Answer \cup {None}]

Present(k) == contexts[k] # None

\* The context a request in progress works on.
Working(k) == daemon \in {"collecting", "stuck"} /\ job.msg.req.key = k

(* The inventory_hash of a context, which GetInventory hands out for cache
   validation next to the nodes, is the hash of exactly those nodes unless
   the context has never collected, in which case it has none of either. *)
HashDescribesInventory ==
    \A k \in Keys : Present(k) /\ ~Working(k) =>
        \/ contexts[k].hash = contexts[k].inv
        \/ contexts[k].hash = None /\ contexts[k].inv = {}

FitsRequest(kind) ==
    CASE kind = "init" -> {"ready", "error"}
      [] kind = "collect" -> {"collected", "error"}
      [] kind = "run" -> {"complete", "error"}
      [] kind = "list" -> {"tests", "error"}
      [] kind = "inventory" -> {"data", "error"}
      [] kind = "shutdown" -> {"ack"}
      [] kind = "ping" -> {"pong"}

(* The answer a client reads is one to the request it waits for, also when
   it gave up on an earlier request that the daemon answered afterwards. *)
AnswersFitRequests ==
    \A c \in Clients : answer[c] # None =>
        asked[c] # None /\ answer[c].kind \in FitsRequest(asked[c].kind)

(* A request is served once: of the messages of a client, queued or in
   progress, at most one is the request it waits for, and none once the
   answer has reached it. *)
LiveIn(c) == {i \in DOMAIN inbox[c] : inbox[c][i].live}
JobOf(c) == job # None /\ job.client = c /\ job.msg.live

ServedOnce ==
    \A c \in Clients :
        /\ \A i \in LiveIn(c) : /\ asked[c] = inbox[c][i].req /\ answer[c] = None
                                /\ i = Len(inbox[c])
                                /\ ~JobOf(c)
        /\ JobOf(c) => asked[c] = job.msg.req /\ answer[c] = None

\* The processing thread has a message exactly while it is at work on one,
\* of the kind it works on, for a context that no Shutdown can remove.
JobFits ==
    /\ job = None <=> daemon \in {"idle", "down"}
    /\ daemon \in {"collecting", "stuck"} =>
          /\ job.msg.req.kind = "collect"
          /\ Present(job.msg.req.key)
    /\ daemon = "running" => job.msg.req.kind = "run"
    /\ daemon = "down" => \A c \in Clients : inbox[c] = <<>>

\* Of the messages of a client, the requests it has given up on: only the
\* last one can be live.
Left(messages) ==
    [i \in 1 .. IF \E m \in DOMAIN messages : messages[m].live
                THEN Len(messages) - 1 ELSE Len(messages) |-> messages[i].req]

Current ==
    IF job = None THEN None
    ELSE [req |-> job.msg.req, by |-> IF job.msg.live THEN job.client ELSE None]

Service == INSTANCE RequestService WITH
    left <- [c \in Clients |-> Left(inbox[c])],
    current <- Current

(* The daemon implements the service its clients rely on: requests take      *)
(* effect one at a time, in each client's order, on the contexts alone; an   *)
(* answer is given once, from the contexts of that moment, to a client that  *)
(* still waits for that very request, whatever was given up on, hung up on,  *)
(* or sent again to a new daemon (server.rs:115-390).                        *)
ServiceSpec == Service!Spec

(* The inductive invariant of the proofs. *)
IndInv ==
    /\ TypeOK
    /\ JobFits
    /\ ServedOnce
    /\ AnswersFitRequests
    /\ Faults \/ HashDescribesInventory

(* Nobody waits for ever: a request the daemon has is answered, or its
   client stops waiting, or the daemon dies. *)
Served ==
    \A c \in Clients :
        (asked[c] # None /\ daemon # "down") ~> (answer[c] # None \/ asked[c] = None \/ daemon = "down")
=============================================================================

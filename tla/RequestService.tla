---------------------------- MODULE RequestService ----------------------------
(***************************************************************************)
(* What the daemon promises its clients, with no socket, thread, file or   *)
(* storage in sight: requests are carried out one at a time, those of a    *)
(* client in their order, each from what the daemon holds at that moment;  *)
(* an answer goes to whoever still waits for that request, and what a      *)
(* client has given up on may be carried out all the same, for nobody.     *)
(***************************************************************************)
EXTENDS Sequences

CONSTANTS Clients, Keys, Tests, Asks, Faults, None

VARIABLES contexts,  \* what the daemon holds
          asked,     \* the request a client waits for
          answer,    \* its answer, until it is read
          left,      \* requests a client gave up on, to be carried out yet
          current    \* a request that takes time, and for whom it is

vars == <<contexts, asked, answer, left, current>>

Init ==
    /\ contexts = [k \in Keys |-> None]
    /\ asked = [c \in Clients |-> None]
    /\ answer = [c \in Clients |-> None]
    /\ left = [c \in Clients |-> <<>>]
    /\ current = None

-----------------------------------------------------------------------------
(* Clients *)

Ask(c) ==
    /\ asked[c] = None
    /\ \E r \in Asks : asked' = [asked EXCEPT ![c] = r]
    /\ UNCHANGED <<contexts, answer, left, current>>

Read(c) ==
    /\ answer[c] # None
    /\ asked' = [asked EXCEPT ![c] = None]
    /\ answer' = [answer EXCEPT ![c] = None]
    /\ UNCHANGED <<contexts, left, current>>

For(c) == current # None /\ current.by = c

ForNobody == current' = [current EXCEPT !.by = None]

\* The request is under way, or among those that are left, or it is lost
\* because there is no daemon to carry it out.
GiveUp(c) ==
    /\ asked[c] # None /\ answer[c] = None
    /\ asked' = [asked EXCEPT ![c] = None]
    /\ \/ For(c) /\ ForNobody /\ UNCHANGED left
       \/ ~For(c) /\ left' = [left EXCEPT ![c] = Append(@, asked[c])] /\ UNCHANGED current
       \/ ~For(c) /\ UNCHANGED <<left, current>>
    /\ UNCHANGED <<contexts, answer>>

\* A client that is gone leaves nothing but a request that is under way.
HangUp(c) ==
    /\ asked' = [asked EXCEPT ![c] = None]
    /\ answer' = [answer EXCEPT ![c] = None]
    /\ left' = [left EXCEPT ![c] = <<>>]
    /\ IF For(c) THEN ForNobody ELSE UNCHANGED current
    /\ UNCHANGED contexts

-----------------------------------------------------------------------------
(* Requests *)

\* The next request of c: first what it gave up on, for nobody, then what it
\* waits for.
Turn(c, r, by) ==
    \/ by = None /\ left[c] # <<>> /\ r = Head(left[c]) /\ left' = [left EXCEPT ![c] = Tail(@)]
    \/ by = c /\ left[c] = <<>> /\ r = asked[c] /\ answer[c] = None /\ UNCHANGED left

Tell(by, a) == answer' = IF by = None THEN answer ELSE [answer EXCEPT ![by] = a]

Error == [kind |-> "error"]

\* A collection adds the tests it finds and removes none.
Grow(k) == \E found \in SUBSET Tests : contexts' = [contexts EXCEPT ![k].inv = @ \cup found]

Refuse(r, by) ==
    /\ \/ r.kind \in {"collect", "run", "list", "inventory"} /\ contexts[r.key] = None
       \/ r.kind = "init" /\ contexts[r.key] = None /\ Faults
       \/ r.kind = "collect" /\ Faults
    /\ UNCHANGED contexts
    /\ Tell(by, Error)

FailHalfway(r, by) ==
    /\ r.kind = "collect" /\ contexts[r.key] # None /\ Faults
    /\ Grow(r.key)
    /\ Tell(by, Error)

Create(r, by) ==
    /\ r.kind = "init"
    /\ contexts' = IF contexts[r.key] = None
                   THEN [contexts EXCEPT ![r.key] = [inv |-> {}, hash |-> None]] ELSE contexts
    /\ Tell(by, [kind |-> "ready", hash |-> contexts'[r.key].hash])

Show(r, by) ==
    /\ r.kind \in {"list", "inventory"} /\ contexts[r.key] # None
    /\ UNCHANGED contexts
    /\ Tell(by, IF r.kind = "list"
                THEN [kind |-> "tests", nodes |-> contexts[r.key].inv]
                ELSE [kind |-> "data", hash |-> contexts[r.key].hash,
                                       nodes |-> contexts[r.key].inv])

Drop(r, by) ==
    /\ r.kind = "shutdown"
    /\ contexts' = [k \in Keys |-> IF k \in r.keys THEN None ELSE contexts[k]]
    /\ Tell(by, [kind |-> "ack"])

Pong(r, by) ==
    /\ r.kind = "ping"
    /\ UNCHANGED contexts
    /\ Tell(by, [kind |-> "pong"])

AtOnce(r, by) ==
    /\ \/ Refuse(r, by) \/ FailHalfway(r, by) \/ Create(r, by)
       \/ Show(r, by) \/ Drop(r, by) \/ Pong(r, by)
    /\ UNCHANGED current

Begin(r, by) ==
    /\ r.kind \in {"collect", "run"} /\ contexts[r.key] # None
    /\ IF r.kind = "collect" THEN Grow(r.key) ELSE UNCHANGED contexts
    /\ current' = [req |-> r, by |-> by]
    /\ UNCHANGED answer

CarryOut(c) ==
    /\ current = None
    /\ \E r \in Asks, by \in {c, None} : Turn(c, r, by) /\ (AtOnce(r, by) \/ Begin(r, by))
    /\ UNCHANGED asked

\* With a collection that succeeds the hash is that of what was found.
Finish ==
    /\ current # None
    /\ current' = None
    /\ \/ /\ current.req.kind = "collect"
          /\ contexts' = [contexts EXCEPT ![current.req.key].hash = contexts[current.req.key].inv]
          /\ Tell(current.by, [kind |-> "collected"])
       \/ /\ current.req.kind = "run"
          /\ UNCHANGED contexts
          /\ Tell(current.by, [kind |-> "complete"])
       \/ /\ Faults
          /\ UNCHANGED contexts
          /\ Tell(current.by, Error)
    /\ UNCHANGED <<asked, left>>

-----------------------------------------------------------------------------

\* The daemon dies and with it what it held; who waits waits for the next one.
Die ==
    /\ contexts' = [k \in Keys |-> None]
    /\ left' = [c \in Clients |-> <<>>]
    /\ current' = None
    /\ UNCHANGED <<asked, answer>>

Next ==
    \/ \E c \in Clients : Ask(c) \/ Read(c) \/ GiveUp(c) \/ HangUp(c) \/ CarryOut(c)
    \/ Finish
    \/ Die

Spec == Init /\ [][Next]_vars
=============================================================================

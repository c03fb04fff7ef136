------------------------------ MODULE DaemonProofs ------------------------------
(***************************************************************************)
(* The inductive invariants of DaemonServer and of Watch, which extends it *)
(* by a client, and what follows from them, for every set of clients,      *)
(* contexts, repositories, tests, files and imports.                       *)
(*                                                                         *)
(* A message is received, answered at once or after some work, or it goes  *)
(* stale; ReplyStep, BeginStep and DoneStep say once what these do to the  *)
(* sockets, and the lemma of each request adds what it does to contexts.   *)
(***************************************************************************)
EXTENDS Watch, TLAPS

Doing == {"idle", "collecting", "running", "stuck", "down"}

\* The part of TypeOK about the sockets, and the part about the contexts.
PipesOK ==
    /\ inbox \in [Clients -> Seq(Msg)]
    /\ asked \in [Clients -> Request \cup {None}]
    /\ answer \in [Clients -> Answer \cup {None}]

DataOK ==
    /\ contexts \in [Keys -> Context \cup {None}]
    /\ storage \subseteq Tests /\ flushed \subseteq Tests
    /\ disk \in [Repos -> SUBSET Tests]

Wire == PipesOK /\ ServedOnce /\ AnswersFitRequests

-----------------------------------------------------------------------------
(* Requests and answers *)

\* A request that names a context names one of the daemon's.
LEMMA RequestFields ==
    ASSUME NEW r \in Request
    PROVE  /\ r.kind \in {"init", "list", "inventory", "collect", "run", "shutdown", "ping"}
           /\ r.kind \in {"init", "list", "inventory", "collect", "run"} => r.key \in Keys
           /\ r.kind = "collect" => r.force \in BOOLEAN
           /\ r.kind = "shutdown" => r.keys \subseteq Keys
BY DEF Request

\* The answers of process_request are answers, and none of them is None.
LEMMA Answers ==
    ASSUME NEW k \in {"error", "collected", "complete", "ack", "pong"},
           NEW h \in (SUBSET Tests) \cup {None}, NEW n \in SUBSET Tests
    PROVE  /\ [kind |-> k] \in Answer
           /\ [kind |-> "ready", hash |-> h] \in Answer
           /\ [kind |-> "tests", nodes |-> n] \in Answer
           /\ [kind |-> "data", hash |-> h, nodes |-> n] \in Answer
BY DEF Answer

LEMMA NotNone ==
    /\ None \notin Request /\ None \notin Answer /\ None \notin Context /\ None \notin Job
BY ServerAssumption

\* What stays in a queue when its head is taken.
LEMMA Taken ==
    ASSUME NEW s \in Seq(Msg), s # <<>>
    PROVE  /\ Head(s) \in Msg /\ Head(s) = s[1]
           /\ Tail(s) \in Seq(Msg)
           /\ Len(Tail(s)) = Len(s) - 1 /\ Len(s) \in Nat \ {0}
           /\ DOMAIN s = 1..Len(s) /\ DOMAIN Tail(s) = 1..(Len(s) - 1)
           /\ \A i \in DOMAIN Tail(s) : Tail(s)[i] = s[i + 1]
OBVIOUS

\* The message a daemon receives.
LEMMA Received ==
    ASSUME PipesOK, NEW c \in Clients, NEW kind, Receive(c, kind)
    PROVE  /\ Message(c) \in Msg /\ Message(c).req \in Request
           /\ Message(c).live \in BOOLEAN
           /\ Message(c).req.kind = kind
           /\ Message(c) = inbox[c][1] /\ 1 \in DOMAIN inbox[c]
<1>1. inbox[c] \in Seq(Msg) /\ inbox[c] # <<>> /\ Message(c) = Head(inbox[c])
      /\ Message(c).req.kind = kind
  BY DEF PipesOK, Receive, Message
<1>2. /\ Head(inbox[c]) \in Msg /\ Head(inbox[c]) = inbox[c][1]
      /\ DOMAIN inbox[c] = 1..Len(inbox[c]) /\ Len(inbox[c]) \in Nat \ {0}
  BY <1>1, Taken
<1> QED
  BY <1>1, <1>2 DEF Msg

\* A message taken from the queue and answered: the other messages of its
\* client are stale if it is the live one.
LEMMA ReplyStep ==
    ASSUME Wire, NEW c \in Clients, NEW kind, Receive(c, kind), NEW a \in Answer,
           Reply(c, Message(c), a), a.kind \in FitsRequest(kind),
           job = None, job' = None
    PROVE  Wire'
<1>1. /\ inbox[c] \in Seq(Msg) /\ inbox[c] # <<>>
      /\ inbox' = [inbox EXCEPT ![c] = Tail(@)]
      /\ asked' = asked
      /\ answer' = IF Message(c).live THEN [answer EXCEPT ![c] = a] ELSE answer
  BY DEF Wire, PipesOK, Receive, Reply
<1>2. /\ Message(c) = inbox[c][1] /\ 1 \in DOMAIN inbox[c] /\ Message(c).req.kind = kind
      /\ Message(c).live \in BOOLEAN
  BY Received DEF Wire
<1>3. PipesOK'
  BY <1>1, <1>2, Taken DEF Wire, PipesOK
<1>4. /\ LiveIn(c)' = {i \in DOMAIN Tail(inbox[c]) : inbox[c][i + 1].live}
      /\ \A d \in Clients \ {c} : LiveIn(d)' = LiveIn(d) /\ inbox'[d] = inbox[d]
  BY <1>1, Taken DEF LiveIn, Wire, PipesOK
<1>5. Message(c).live => asked[c] = Message(c).req /\ Len(inbox[c]) = 1 /\ answer[c] = None
  <2> SUFFICES ASSUME Message(c).live
              PROVE  asked[c] = Message(c).req /\ Len(inbox[c]) = 1 /\ answer[c] = None
    OBVIOUS
  <2>1. 1 \in LiveIn(c)
    BY <1>2 DEF LiveIn
  <2>2. asked[c] = inbox[c][1].req /\ answer[c] = None /\ 1 = Len(inbox[c])
    BY <2>1 DEF Wire, ServedOnce
  <2> QED
    BY <1>2, <2>2
<1>6. ServedOnce'
  <2>1. \A d \in Clients : ~JobOf(d)'
    BY DEF JobOf
  <2>2. ASSUME NEW d \in Clients, NEW i \in LiveIn(d)'
        PROVE  asked[d] = inbox'[d][i].req /\ answer'[d] = None /\ i = Len(inbox'[d])
    <3>1. CASE d # c
      BY <1>1, <1>4, <3>1 DEF Wire, ServedOnce, PipesOK
    <3>2. CASE d = c
      <4>1. i + 1 \in LiveIn(c) /\ inbox'[c][i] = inbox[c][i + 1] /\ i \in Nat
            /\ Len(inbox'[c]) = Len(inbox[c]) - 1 /\ Len(inbox[c]) >= i + 1 /\ i >= 1
        BY <1>1, <1>4, <3>2, Taken DEF LiveIn, Wire, PipesOK
      <4>2. ~Message(c).live
        BY <1>1, <1>5, <4>1
      <4>3. answer' = answer
        BY <1>1, <4>2
      <4>4. asked[c] = inbox[c][i + 1].req /\ answer[c] = None /\ i + 1 = Len(inbox[c])
        BY <4>1 DEF Wire, ServedOnce
      <4> QED
        BY <3>2, <4>1, <4>3, <4>4
    <3> QED
      BY <3>1, <3>2
  <2> QED
    BY <1>1, <2>1, <2>2 DEF ServedOnce
<1>7. AnswersFitRequests'
  <2>1. asked[c] \in Request \cup {None} /\ None \notin Request /\ Message(c).req \in Request
    BY <1>1, Received, NotNone DEF Wire, PipesOK
  <2> QED
    BY <1>1, <1>2, <1>5, <2>1 DEF Wire, AnswersFitRequests, PipesOK
<1> QED
  BY <1>3, <1>6, <1>7 DEF Wire

\* A message taken from the queue and handed to a job.
LEMMA BeginStep ==
    ASSUME Wire, NEW c \in Clients, NEW kind, Receive(c, kind), job = None,
           job' = [client |-> c, msg |-> Message(c)], answer' = answer
    PROVE  Wire'
<1>1. /\ inbox[c] \in Seq(Msg) /\ inbox[c] # <<>>
      /\ inbox' = [inbox EXCEPT ![c] = Tail(@)]
      /\ asked' = asked
  BY DEF Wire, PipesOK, Receive
<1>2. Message(c) = inbox[c][1] /\ 1 \in DOMAIN inbox[c] /\ Message(c).live \in BOOLEAN
  BY Received DEF Wire
<1>3. PipesOK'
  BY <1>1, <1>2, Taken DEF Wire, PipesOK
<1>4. /\ LiveIn(c)' = {i \in DOMAIN Tail(inbox[c]) : inbox[c][i + 1].live}
      /\ \A d \in Clients \ {c} : LiveIn(d)' = LiveIn(d) /\ inbox'[d] = inbox[d] /\ ~JobOf(d)'
      /\ JobOf(c)' => Message(c).live
  BY <1>1, Taken DEF LiveIn, Wire, PipesOK, JobOf
<1>5. Message(c).live => asked[c] = Message(c).req /\ Len(inbox[c]) = 1 /\ answer[c] = None
  <2> SUFFICES ASSUME Message(c).live
              PROVE  asked[c] = Message(c).req /\ Len(inbox[c]) = 1 /\ answer[c] = None
    OBVIOUS
  <2>1. 1 \in LiveIn(c)
    BY <1>2 DEF LiveIn
  <2>2. asked[c] = inbox[c][1].req /\ answer[c] = None /\ 1 = Len(inbox[c])
    BY <2>1 DEF Wire, ServedOnce
  <2> QED
    BY <1>2, <2>2
<1>6. ServedOnce'
  <2>2. ASSUME NEW d \in Clients, NEW i \in LiveIn(d)'
        PROVE  asked[d] = inbox'[d][i].req /\ answer[d] = None /\ i = Len(inbox'[d]) /\ ~JobOf(d)'
    <3>1. CASE d # c
      BY <1>1, <1>4, <3>1 DEF Wire, ServedOnce, PipesOK
    <3>2. CASE d = c
      <4>1. i + 1 \in LiveIn(c) /\ inbox'[c][i] = inbox[c][i + 1] /\ i \in Nat
            /\ Len(inbox'[c]) = Len(inbox[c]) - 1 /\ Len(inbox[c]) >= i + 1 /\ i >= 1
        BY <1>1, <1>4, <3>2, Taken DEF LiveIn, Wire, PipesOK
      <4>2. ~Message(c).live
        BY <1>1, <1>5, <4>1
      <4>4. asked[c] = inbox[c][i + 1].req /\ answer[c] = None /\ i + 1 = Len(inbox[c])
        BY <4>1 DEF Wire, ServedOnce
      <4> QED
        BY <1>4, <3>2, <4>1, <4>2, <4>4
    <3> QED
      BY <3>1, <3>2
  <2>3. ASSUME NEW d \in Clients, JobOf(d)'
        PROVE  asked[d] = job'.msg.req /\ answer[d] = None
    BY <1>4, <1>5, <2>3
  <2> QED
    BY <1>1, <2>2, <2>3 DEF ServedOnce
<1>7. AnswersFitRequests'
  BY <1>1 DEF Wire, AnswersFitRequests
<1> QED
  BY <1>3, <1>6, <1>7 DEF Wire

\* A job that ends.
LEMMA DoneStep ==
    ASSUME Wire, job \in Job, NEW a \in Answer, Done(a),
           a.kind \in FitsRequest(job.msg.req.kind)
    PROVE  Wire'
<1> DEFINE c == job.client
<1>1. /\ c \in Clients /\ inbox' = inbox /\ asked' = asked /\ job' = None
      /\ job.msg.live \in BOOLEAN /\ job # None /\ job.msg.req \in Request
      /\ answer' = IF job.msg.live THEN [answer EXCEPT ![c] = a] ELSE answer
  BY NotNone DEF Done, Reply, Job, Msg
<1>2. PipesOK'
  BY <1>1 DEF Wire, PipesOK
<1>3. job.msg.live => asked[c] = job.msg.req /\ LiveIn(c) = {}
  BY <1>1 DEF Wire, ServedOnce, JobOf
<1>4. \A d \in Clients : ~JobOf(d)' /\ LiveIn(d)' = LiveIn(d)
  BY <1>1 DEF JobOf, LiveIn
<1>5. \A d \in Clients : LiveIn(d) # {} => answer'[d] = answer[d]
  BY <1>1, <1>3 DEF Wire, PipesOK
<1>6. ServedOnce'
  BY <1>1, <1>4, <1>5 DEF Wire, ServedOnce
<1>7. AnswersFitRequests'
  BY <1>1, <1>3, NotNone DEF Wire, AnswersFitRequests, PipesOK
<1> QED
  BY <1>2, <1>6, <1>7 DEF Wire
-----------------------------------------------------------------------------
(* The clients *)

LEMMA SendStep ==
    ASSUME Wire, job \in Job \cup {None}, NEW c \in Clients, NEW r \in Request,
           Send(c, r), UNCHANGED server
    PROVE  Wire'
<1>1. /\ asked[c] = None /\ asked' = [asked EXCEPT ![c] = r] /\ answer' = answer /\ job' = job
      /\ inbox[c] \in Seq(Msg) /\ r # None
      /\ \/ inbox' = inbox
         \/ inbox' = [inbox EXCEPT ![c] = Append(@, [req |-> r, live |-> TRUE])]
  BY NotNone DEF Send, server, Wire, PipesOK
<1> DEFINE m == [req |-> r, live |-> TRUE]
<1>2. m \in Msg
  BY DEF Msg
<1>3. PipesOK'
  <2>1. Append(inbox[c], m) \in Seq(Msg)
    BY <1>1, <1>2
  <2>2. inbox' \in [Clients -> Seq(Msg)]
    BY <1>1, <2>1 DEF Wire, PipesOK
  <2>3. asked' \in [Clients -> Request \cup {None}] /\ answer' \in [Clients -> Answer \cup {None}]
    BY <1>1 DEF Wire, PipesOK
  <2> QED
    BY <2>2, <2>3 DEF PipesOK
<1>4. answer[c] = None
  BY <1>1 DEF Wire, AnswersFitRequests
<1>5. LiveIn(c) = {} /\ ~JobOf(c)
  <2>1. ASSUME NEW i \in LiveIn(c) PROVE FALSE
    <3>1. i \in DOMAIN inbox[c] /\ inbox[c][i] \in Msg /\ asked[c] = inbox[c][i].req
      BY <1>1, <2>1 DEF LiveIn, Wire, ServedOnce
    <3> QED
      BY <1>1, <3>1, NotNone DEF Msg
  <2>2. ASSUME JobOf(c) PROVE FALSE
    <3>1. asked[c] = job.msg.req /\ job \in Job
      BY <2>2 DEF Wire, ServedOnce, JobOf
    <3>2. job.msg.req \in Request
      BY <3>1 DEF Job, Msg
    <3> QED
      BY <1>1, <3>1, <3>2, NotNone
  <2> QED
    BY <2>1, <2>2
<1>6. \A d \in Clients : JobOf(d)' <=> JobOf(d)
  BY <1>1 DEF JobOf
<1>7. \A d \in Clients \ {c} : LiveIn(d)' = LiveIn(d) /\ inbox'[d] = inbox[d]
  BY <1>1 DEF LiveIn, Wire, PipesOK
<1>8. ASSUME NEW i \in LiveIn(c)'
      PROVE  inbox'[c][i].req = r /\ i = Len(inbox'[c])
  <2>1. CASE inbox' = inbox
    BY <1>5, <1>8, <2>1 DEF LiveIn
  <2>2. CASE inbox' = [inbox EXCEPT ![c] = Append(@, m)]
    <3>1. inbox'[c] = Append(inbox[c], m)
      BY <2>2 DEF Wire, PipesOK
    <3>2. /\ Len(inbox'[c]) = Len(inbox[c]) + 1 /\ Len(inbox[c]) \in Nat
          /\ DOMAIN inbox'[c] = 1..(Len(inbox[c]) + 1) /\ DOMAIN inbox[c] = 1..Len(inbox[c])
          /\ \A j \in DOMAIN inbox[c] : inbox'[c][j] = inbox[c][j]
          /\ inbox'[c][Len(inbox[c]) + 1] = m
      BY <1>1, <1>2, <3>1
    <3>3. i \in DOMAIN inbox'[c] /\ inbox'[c][i].live
      BY <1>8 DEF LiveIn
    <3>4. i \notin DOMAIN inbox[c]
      BY <1>5, <3>2, <3>3 DEF LiveIn
    <3> QED
      BY <3>2, <3>3, <3>4
  <2> QED
    BY <1>1, <2>1, <2>2
<1>9. ServedOnce'
  BY <1>1, <1>4, <1>5, <1>6, <1>7, <1>8 DEF Wire, ServedOnce, PipesOK
<1>10. AnswersFitRequests'
  BY <1>1, <1>4 DEF Wire, AnswersFitRequests, PipesOK
<1> QED
  BY <1>3, <1>9, <1>10 DEF Wire

LEMMA TakeStep ==
    ASSUME Wire, NEW c \in Clients, Take(c), UNCHANGED server
    PROVE  Wire'
<1>1. /\ answer[c] # None /\ inbox' = inbox /\ job' = job
      /\ answer' = [answer EXCEPT ![c] = None] /\ asked' = [asked EXCEPT ![c] = None]
  BY DEF Take, server
<1>2. LiveIn(c) = {} /\ ~JobOf(c)
  BY <1>1 DEF Wire, ServedOnce
<1>3. \A d \in Clients : LiveIn(d)' = LiveIn(d) /\ (JobOf(d)' <=> JobOf(d))
  BY <1>1 DEF LiveIn, JobOf
<1>4. PipesOK'
  BY <1>1 DEF Wire, PipesOK
<1>5. ServedOnce'
  BY <1>1, <1>2, <1>3 DEF Wire, ServedOnce, PipesOK
<1>6. AnswersFitRequests'
  BY <1>1 DEF Wire, AnswersFitRequests, PipesOK
<1> QED
  BY <1>4, <1>5, <1>6 DEF Wire

\* What goes stale is no longer live, and nothing else changes.
LEMMA StaleStep ==
    ASSUME NEW s \in Seq(Msg)
    PROVE  /\ Stale(s) \in Seq(Msg) /\ Len(Stale(s)) = Len(s)
           /\ \A i \in DOMAIN Stale(s) : ~Stale(s)[i].live
<1>1. Len(s) \in Nat /\ DOMAIN s = 1..Len(s) /\ \A i \in 1..Len(s) : s[i] \in Msg
  OBVIOUS
<1>2. /\ Stale(s) = [i \in 1..Len(s) |-> [s[i] EXCEPT !.live = FALSE]]
      /\ \A i \in 1..Len(s) : [s[i] EXCEPT !.live = FALSE] \in Msg
                             /\ ~[s[i] EXCEPT !.live = FALSE].live
  BY <1>1 DEF Stale, Msg
<1>3. Stale(s) \in Seq(Msg) /\ DOMAIN Stale(s) = 1..Len(s)
  BY <1>1, <1>2
<1>4. Len(Stale(s)) = Len(s)
  BY <1>1, <1>3
<1> QED
  BY <1>2, <1>3, <1>4

LEMMA ForgetStep ==
    ASSUME job \in Job \cup {None}, NEW c \in Clients, job' = Forget(c)
    PROVE  /\ job' \in Job \cup {None}
           /\ job' = None <=> job = None
           /\ job # None => job'.client = job.client /\ job'.msg.req = job.msg.req
           /\ ~JobOf(c)'
           /\ \A d \in Clients \ {c} : JobOf(d)' <=> JobOf(d)
<1>1. CASE job # None /\ job.client = c
  <2>1. job' = [job EXCEPT !.msg.live = FALSE] /\ job \in Job
    BY <1>1 DEF Forget
  <2>2. /\ job' \in Job /\ job'.client = c /\ job'.msg.req = job.msg.req /\ ~job'.msg.live
    BY <1>1, <2>1 DEF Job, Msg
  <2> QED
    BY <1>1, <2>1, <2>2, NotNone DEF JobOf
<1>2. CASE ~(job # None /\ job.client = c)
  BY <1>2 DEF Forget, JobOf
<1> QED
  BY <1>1, <1>2

LEMMA GiveUpStep ==
    ASSUME Wire, job \in Job \cup {None}, NEW c \in Clients, GiveUp(c)
    PROVE  Wire'
<1>1. /\ answer[c] = None /\ answer' = answer
      /\ inbox' = [inbox EXCEPT ![c] = Stale(@)] /\ asked' = [asked EXCEPT ![c] = None]
      /\ job' = Forget(c) /\ inbox[c] \in Seq(Msg)
  BY DEF GiveUp, Wire, PipesOK
<1>2. /\ ~JobOf(c)' /\ \A d \in Clients \ {c} : JobOf(d)' <=> JobOf(d)
      /\ job # None => job'.msg.req = job.msg.req
  BY <1>1, ForgetStep
<1>3. LiveIn(c)' = {} /\ \A d \in Clients \ {c} : LiveIn(d)' = LiveIn(d)
  BY <1>1, StaleStep DEF LiveIn, Wire, PipesOK
<1>4. PipesOK'
  BY <1>1, StaleStep DEF Wire, PipesOK
<1>5. ServedOnce'
  BY <1>1, <1>2, <1>3 DEF Wire, ServedOnce, PipesOK, JobOf
<1>6. AnswersFitRequests'
  BY <1>1 DEF Wire, AnswersFitRequests, PipesOK
<1> QED
  BY <1>4, <1>5, <1>6 DEF Wire

LEMMA HangUpStep ==
    ASSUME Wire, job \in Job \cup {None}, NEW c \in Clients, HangUp(c)
    PROVE  Wire'
<1>1. /\ answer' = [answer EXCEPT ![c] = None]
      /\ inbox' = [inbox EXCEPT ![c] = <<>>] /\ asked' = [asked EXCEPT ![c] = None]
      /\ job' = Forget(c)
  BY DEF HangUp
<1>2. /\ ~JobOf(c)' /\ \A d \in Clients \ {c} : JobOf(d)' <=> JobOf(d)
      /\ job # None => job'.msg.req = job.msg.req
  BY <1>1, ForgetStep
<1>3. LiveIn(c)' = {} /\ \A d \in Clients \ {c} : LiveIn(d)' = LiveIn(d)
  BY <1>1 DEF LiveIn, Wire, PipesOK
<1>4. PipesOK'
  BY <1>1 DEF Wire, PipesOK
<1>5. ServedOnce'
  BY <1>1, <1>2, <1>3 DEF Wire, ServedOnce, PipesOK, JobOf
<1>6. AnswersFitRequests'
  BY <1>1 DEF Wire, AnswersFitRequests, PipesOK
<1> QED
  BY <1>4, <1>5, <1>6 DEF Wire

-----------------------------------------------------------------------------
(* The process *)

LEMMA KillStep ==
    ASSUME Wire, Kill
    PROVE  Wire'
<1>1. /\ inbox' = [c \in Clients |-> <<>>] /\ asked' = asked /\ answer' = answer /\ job' = None
  BY DEF Kill
<1>2. \A d \in Clients : LiveIn(d)' = {} /\ ~JobOf(d)'
  BY <1>1 DEF LiveIn, JobOf
<1>3. PipesOK'
  BY <1>1 DEF Wire, PipesOK
<1> QED
  BY <1>1, <1>2, <1>3 DEF Wire, ServedOnce, AnswersFitRequests

LEMMA StartStep ==
    ASSUME Wire, job = None, Start
    PROVE  Wire'
<1>1. /\ inbox' = [c \in Clients |->
                     IF asked[c] # None /\ answer[c] = None
                     THEN << [req |-> asked[c], live |-> TRUE] >> ELSE <<>>]
      /\ asked' = asked /\ answer' = answer /\ job' = None
  BY DEF Start
<1>2. PipesOK'
  <2>1. ASSUME NEW c \in Clients, asked[c] # None
        PROVE  << [req |-> asked[c], live |-> TRUE] >> \in Seq(Msg)
    BY <2>1 DEF Wire, PipesOK, Msg
  <2> QED
    BY <1>1, <2>1 DEF Wire, PipesOK
<1>3. \A d \in Clients : ~JobOf(d)'
  BY <1>1 DEF JobOf
<1>4. ASSUME NEW d \in Clients, NEW i \in LiveIn(d)'
      PROVE  asked[d] = inbox'[d][i].req /\ answer[d] = None /\ i = Len(inbox'[d])
  BY <1>1, <1>4 DEF LiveIn
<1> QED
  BY <1>1, <1>2, <1>3, <1>4 DEF Wire, ServedOnce, AnswersFitRequests
-----------------------------------------------------------------------------
(* The contexts *)

\* A hash of what the inventory holds, or neither of them.
Described(k) == \/ contexts[k].hash = contexts[k].inv
                \/ contexts[k].hash = None /\ contexts[k].inv = {}

\* The processing thread is idle or down: no context is being worked on.
LEMMA DescribedWhenIdle ==
    ASSUME daemon \in {"idle", "running", "down"}
    PROVE  HashDescribesInventory <=> \A k \in Keys : Present(k) => Described(k)
BY DEF HashDescribesInventory, Working, Described

LEMMA InitialStep == Init => IndInv
<1> SUFFICES ASSUME Init PROVE IndInv
  OBVIOUS
<1>1. TypeOK
  BY ServerAssumption DEF Init, TypeOK
<1>2. JobFits
  BY DEF Init, JobFits
<1>3. ServedOnce
  BY DEF Init, ServedOnce, LiveIn, JobOf
<1>4. AnswersFitRequests /\ HashDescribesInventory
  BY DEF Init, AnswersFitRequests, HashDescribesInventory, Present
<1> QED
  BY <1>1, <1>2, <1>3, <1>4 DEF IndInv

\* IndInv, by the parts the lemmas below keep apart.
Parts ==
    /\ Wire /\ DataOK
    /\ daemon \in Doing /\ job \in Job \cup {None}
    /\ JobFits
    /\ Faults \/ HashDescribesInventory

LEMMA InParts == IndInv <=> Parts
BY DEF IndInv, Parts, Wire, PipesOK, DataOK, Doing, TypeOK

LEMMA InPartsNext == IndInv' <=> Parts'
BY DEF IndInv, Parts, Wire, PipesOK, DataOK, Doing, TypeOK

\* A request received while the thread is idle is of the kind of its action.
LEMMA Request_ ==
    ASSUME Parts, NEW c \in Clients, NEW kind, Receive(c, kind)
    PROVE  /\ Message(c) \in Msg /\ Message(c).req \in Request /\ Message(c).req.kind = kind
           /\ daemon = "idle" /\ job = None
           /\ flushed' = flushed /\ disk' = disk
           /\ kind \in {"init", "list", "inventory", "collect", "run"} => Message(c).req.key \in Keys
           /\ kind = "collect" => Message(c).req.force \in BOOLEAN
BY Received, RequestFields DEF Parts, Wire, Receive, JobFits

\* A request that is answered at once.
LEMMA AtOnce ==
    ASSUME Parts, NEW c \in Clients, NEW kind, Receive(c, kind), NEW a \in Answer,
           Reply(c, Message(c), a), a.kind \in FitsRequest(kind),
           UNCHANGED <<daemon, job>>, DataOK',
           Faults \/ HashDescribesInventory'
    PROVE  Parts'
<1>1. job = None /\ daemon = "idle"
  BY Request_
<1>2. Wire'
  BY <1>1, ReplyStep DEF Parts
<1> QED
  BY <1>1, <1>2 DEF Parts, JobFits

\* A request that begins a job.
LEMMA Begun ==
    ASSUME Parts, NEW c \in Clients, NEW kind, Receive(c, kind), NEW doing, Begin(c, doing),
           \/ doing \in {"collecting", "stuck"} /\ kind = "collect"
           \/ doing = "running" /\ kind = "run",
           answer' = answer, DataOK', contexts'[Message(c).req.key] # None,
           Faults \/ HashDescribesInventory'
    PROVE  Parts'
<1>1. /\ job = None /\ Message(c) \in Msg /\ Message(c).req.kind = kind
      /\ daemon' = doing /\ job' = [client |-> c, msg |-> Message(c)]
  BY Request_ DEF Begin
<1>2. Wire'
  BY <1>1, BeginStep DEF Parts
<1>3. job' \in Job /\ job' # None
  BY <1>1, NotNone DEF Job
<1>4. JobFits'
  BY <1>1, <1>3 DEF JobFits, Present
<1> QED
  BY <1>1, <1>2, <1>3, <1>4 DEF Parts, Doing

\* A job that ends.
LEMMA Ended ==
    ASSUME Parts, NEW a \in Answer, job # None, Done(a),
           a.kind \in FitsRequest(job.msg.req.kind), DataOK',
           Faults \/ HashDescribesInventory'
    PROVE  Parts'
<1>1. Wire'
  BY DoneStep DEF Parts
<1> QED
  BY <1>1 DEF Parts, Done, JobFits, Doing
-----------------------------------------------------------------------------
(* One lemma for each request *)

LEMMA ContextFields ==
    ASSUME Parts, NEW k \in Keys, contexts[k] # None
    PROVE  contexts[k] \in Context /\ contexts[k].inv \in SUBSET Tests
           /\ contexts[k].hash \in (SUBSET Tests) \cup {None}
BY DEF Parts, DataOK, Context

LEMMA InitContextStep ==
    ASSUME Parts, NEW c \in Clients, InitContext(c)
    PROVE  Parts'
<1> DEFINE k == Message(c).req.key
           a == [kind |-> "ready", hash |-> contexts'[k].hash]
<1>1. /\ Receive(c, "init") /\ Reply(c, Message(c), a)
      /\ contexts' = IF contexts[k] = None THEN [contexts EXCEPT ![k] = NewContext] ELSE contexts
      /\ UNCHANGED <<daemon, job, storage>>
  BY DEF InitContext
<1>2. k \in Keys /\ daemon = "idle" /\ flushed' = flushed /\ disk' = disk
  BY <1>1, Request_
<1>3. NewContext \in Context
  <2>1. {} \in SUBSET Tests /\ None \in (SUBSET Tests) \cup {None}
    OBVIOUS
  <2> QED
    BY <2>1 DEF NewContext, Context
<1>4. contexts' \in [Keys -> Context \cup {None}] /\ contexts'[k] \in Context
  BY <1>1, <1>2, <1>3, ContextFields DEF Parts, DataOK
<1>5. DataOK'
  BY <1>1, <1>2, <1>4 DEF Parts, DataOK
<1>6. a \in Answer
  BY <1>4, Answers DEF Context
<1>7. Faults \/ HashDescribesInventory'
  <2>1. CASE contexts[k] = None
    BY <1>1, <1>2, <2>1 DEF Parts, DataOK, HashDescribesInventory, Present, Working, NewContext
  <2>2. CASE contexts[k] # None
    BY <1>1, <1>2, <2>2 DEF Parts, HashDescribesInventory, Present, Working
  <2> QED
    BY <2>1, <2>2
<1>8. a.kind \in FitsRequest("init")
  BY DEF FitsRequest
<1> QED
  BY <1>1, <1>5, <1>6, <1>7, <1>8, AtOnce

\* A request that is answered at once and changes no context.
LEMMA Unchanging ==
    ASSUME Parts, NEW c \in Clients, NEW kind, Receive(c, kind), NEW a \in Answer,
           Reply(c, Message(c), a), a.kind \in FitsRequest(kind),
           UNCHANGED <<server, storage>>
    PROVE  Parts'
<1>1. daemon = "idle" /\ flushed' = flushed /\ disk' = disk
  BY Request_
<1>2. DataOK' /\ (Faults \/ HashDescribesInventory')
  BY <1>1 DEF Parts, DataOK, HashDescribesInventory, Present, Working, server
<1> QED
  BY <1>2, AtOnce DEF server

LEMMA ErrorFits ==
    ASSUME NEW kind \in {"init", "collect", "run", "list", "inventory"}
    PROVE  Error \in Answer /\ Error.kind \in FitsRequest(kind)
BY Answers DEF Error, FitsRequest

LEMMA RefusedStep ==
    ASSUME Parts, NEW c \in Clients, InitFails(c) \/ NoSuchContext(c) \/ CollectFails(c)
    PROVE  Parts'
<1>1. /\ \E kind \in {"init", "collect", "run", "list", "inventory"} : Receive(c, kind)
      /\ Reply(c, Message(c), Error) /\ UNCHANGED <<server, storage>>
  BY DEF InitFails, NoSuchContext, CollectFails
<1> QED
  BY <1>1, ErrorFits, Unchanging

LEMMA ListStep ==
    ASSUME Parts, NEW c \in Clients, List(c)
    PROVE  Parts'
<1> DEFINE k == Message(c).req.key
           a == [kind |-> "tests", nodes |-> contexts[k].inv]
<1>1. /\ Receive(c, "list") /\ contexts[k] # None /\ Reply(c, Message(c), a)
      /\ UNCHANGED <<server, storage>>
  BY DEF List
<1>2. k \in Keys
  BY <1>1, Request_
<1>3. a \in Answer
  BY <1>1, <1>2, ContextFields, Answers
<1>4. a.kind \in FitsRequest("list")
  BY DEF FitsRequest
<1> QED
  BY <1>1, <1>3, <1>4, Unchanging

LEMMA GetInventoryStep ==
    ASSUME Parts, NEW c \in Clients, GetInventory(c)
    PROVE  Parts'
<1> DEFINE k == Message(c).req.key
           a == [kind |-> "data", hash |-> contexts[k].hash, nodes |-> contexts[k].inv]
<1>1. /\ Receive(c, "inventory") /\ contexts[k] # None /\ Reply(c, Message(c), a)
      /\ UNCHANGED <<server, storage>>
  BY DEF GetInventory
<1>2. k \in Keys
  BY <1>1, Request_
<1>3. a \in Answer
  BY <1>1, <1>2, ContextFields, Answers
<1>4. a.kind \in FitsRequest("inventory")
  BY DEF FitsRequest
<1> QED
  BY <1>1, <1>3, <1>4, Unchanging

LEMMA PingStep ==
    ASSUME Parts, NEW c \in Clients, Ping(c)
    PROVE  Parts'
<1>1. [kind |-> "pong"] \in Answer /\ [kind |-> "pong"].kind \in FitsRequest("ping")
  BY Answers DEF FitsRequest
<1> QED
  BY <1>1, Unchanging DEF Ping

LEMMA ShutdownStep ==
    ASSUME Parts, NEW c \in Clients, Shutdown(c)
    PROVE  Parts'
<1> DEFINE a == [kind |-> "ack"]
<1>1. /\ Receive(c, "shutdown") /\ Reply(c, Message(c), a) /\ UNCHANGED <<daemon, job, storage>>
      /\ contexts' = [k \in Keys |-> IF k \in Message(c).req.keys THEN None ELSE contexts[k]]
  BY DEF Shutdown
<1>2. daemon = "idle" /\ flushed' = flushed /\ disk' = disk
  BY <1>1, Request_
<1>3. DataOK'
  BY <1>1, <1>2 DEF Parts, DataOK
<1>4. Faults \/ HashDescribesInventory'
  BY <1>1, <1>2 DEF Parts, HashDescribesInventory, Present, Working
<1>5. a \in Answer /\ a.kind \in FitsRequest("shutdown")
  BY Answers DEF FitsRequest
<1> QED
  BY <1>1, <1>3, <1>4, <1>5, AtOnce

\* What collect(false) and collect(true) do before the thread goes on.
LEMMA Merged ==
    ASSUME Parts, NEW k \in Keys, contexts[k] # None, NEW found \in SUBSET Tests,
           contexts' = [contexts EXCEPT ![k].inv = @ \cup found]
    PROVE  /\ contexts' \in [Keys -> Context \cup {None}]
           /\ contexts'[k] \in Context
           /\ \A j \in Keys \ {k} : contexts'[j] = contexts[j]
<1>1. [contexts[k] EXCEPT !.inv = @ \cup found] \in Context
  BY ContextFields DEF Context
<1> QED
  BY <1>1 DEF Parts, DataOK

LEMMA CollectCachedStep ==
    ASSUME Parts, NEW c \in Clients, CollectCached(c)
    PROVE  Parts'
<1> DEFINE k == Message(c).req.key
<1>1. /\ Receive(c, "collect") /\ contexts[k] # None
      /\ contexts' = [contexts EXCEPT ![k].inv = @ \cup storage]
      /\ Begin(c, "stuck") /\ UNCHANGED <<storage, answer>>
  BY DEF CollectCached
<1>2. k \in Keys /\ daemon = "idle" /\ flushed' = flushed /\ disk' = disk
  BY <1>1, Request_
<1>3. /\ contexts' \in [Keys -> Context \cup {None}] /\ contexts'[k] \in Context
      /\ \A j \in Keys \ {k} : contexts'[j] = contexts[j]
  BY <1>1, <1>2, Merged DEF Parts, DataOK
<1>4. DataOK' /\ contexts'[k] # None
  BY <1>1, <1>2, <1>3, NotNone DEF Parts, DataOK
<1>5. Faults \/ HashDescribesInventory'
  BY <1>1, <1>2, <1>3 DEF Parts, HashDescribesInventory, Present, Working, Begin
<1> QED
  BY <1>1, <1>4, <1>5, Begun

LEMMA CollectBeginStep ==
    ASSUME Parts, NEW c \in Clients, CollectBegin(c)
    PROVE  Parts'
<1> DEFINE k == Message(c).req.key
<1>1. /\ Receive(c, "collect") /\ contexts[k] # None
      /\ contexts' = [contexts EXCEPT ![k].inv = @ \cup disk[RepoOf[k]]]
      /\ storage' = {}
      /\ Begin(c, "collecting") /\ answer' = answer
  BY DEF CollectBegin, Collects
<1>2. k \in Keys /\ daemon = "idle" /\ flushed' = flushed /\ disk' = disk
  BY <1>1, Request_
<1>3. disk[RepoOf[k]] \in SUBSET Tests
  BY <1>2, ServerAssumption DEF Parts, DataOK
<1>4. /\ contexts' \in [Keys -> Context \cup {None}] /\ contexts'[k] \in Context
      /\ \A j \in Keys \ {k} : contexts'[j] = contexts[j]
  BY <1>1, <1>2, <1>3, Merged
<1>5. DataOK' /\ contexts'[k] # None
  BY <1>1, <1>2, <1>4, NotNone DEF Parts, DataOK
<1>6. Faults \/ HashDescribesInventory'
  BY <1>1, <1>2, <1>4 DEF Parts, HashDescribesInventory, Present, Working, Begin
<1> QED
  BY <1>1, <1>5, <1>6, Begun

LEMMA CollectNotClearedStep ==
    ASSUME Parts, NEW c \in Clients, CollectNotCleared(c)
    PROVE  Parts'
<1> DEFINE k == Message(c).req.key
<1>1. /\ Faults /\ Receive(c, "collect") /\ contexts[k] # None
      /\ contexts' = [contexts EXCEPT ![k].inv = @ \cup disk[RepoOf[k]]]
      /\ Reply(c, Message(c), Error) /\ UNCHANGED <<daemon, job, storage>>
  BY DEF CollectNotCleared, Collects
<1>2. k \in Keys /\ flushed' = flushed /\ disk' = disk
  BY <1>1, Request_
<1>3. disk[RepoOf[k]] \in SUBSET Tests
  BY <1>2, ServerAssumption DEF Parts, DataOK
<1>4. contexts' \in [Keys -> Context \cup {None}]
  BY <1>1, <1>2, <1>3, Merged
<1>5. DataOK'
  BY <1>1, <1>2, <1>4 DEF Parts, DataOK
<1> QED
  BY <1>1, <1>5, ErrorFits, AtOnce

LEMMA RunBeginStep ==
    ASSUME Parts, NEW c \in Clients, RunBegin(c)
    PROVE  Parts'
<1>1. /\ Receive(c, "run") /\ contexts[Message(c).req.key] # None
      /\ Begin(c, "running") /\ UNCHANGED <<contexts, storage, answer>>
  BY DEF RunBegin
<1>2. daemon = "idle" /\ flushed' = flushed /\ disk' = disk
  BY <1>1, Request_
<1>3. DataOK'
  BY <1>1, <1>2 DEF Parts, DataOK
<1>4. Faults \/ HashDescribesInventory'
  BY <1>1, <1>2 DEF Parts, HashDescribesInventory, Present, Working, Begin
<1> QED
  BY <1>1, <1>3, <1>4, Begun

-----------------------------------------------------------------------------
(* The ends of jobs *)

LEMMA CollectSaveStep ==
    ASSUME Parts, CollectSave
    PROVE  Parts'
<1> DEFINE k == job.msg.req.key
           a == [kind |-> "collected"]
<1>1. /\ daemon = "collecting" /\ storage' = contexts[k].inv /\ Done(a)
      /\ contexts' = [contexts EXCEPT ![k].hash = contexts[k].inv]
      /\ flushed' = flushed /\ disk' = disk /\ daemon' = "idle"
  BY DEF CollectSave, Done
<1>2. /\ job # None /\ job \in Job /\ job.msg.req.kind = "collect" /\ contexts[k] # None
  BY <1>1 DEF Parts, JobFits, Present
<1>3. k \in Keys
  BY <1>2, RequestFields DEF Job, Msg
<1>4. contexts[k] \in Context /\ contexts[k].inv \in SUBSET Tests
  BY <1>2, <1>3, ContextFields
<1>5. [contexts[k] EXCEPT !.hash = contexts[k].inv] \in Context
  BY <1>4 DEF Context
<1>6. DataOK'
  BY <1>1, <1>3, <1>4, <1>5 DEF Parts, DataOK
<1>7. Faults \/ HashDescribesInventory'
  <2>1. contexts'[k].hash = contexts'[k].inv
    BY <1>1, <1>3, <1>4 DEF Parts, DataOK, Context
  <2>2. \A j \in Keys \ {k} : contexts'[j] = contexts[j] /\ ~Working(j)
    BY <1>1, <1>3 DEF Parts, DataOK, Working
  <2> QED
    BY <1>1, <2>1, <2>2 DEF Parts, HashDescribesInventory, Present, Working
<1>8. a \in Answer /\ a.kind \in FitsRequest(job.msg.req.kind)
  BY <1>2, Answers DEF FitsRequest
<1> QED
  BY <1>1, <1>2, <1>6, <1>7, <1>8, Ended

LEMMA CollectNotSavedStep ==
    ASSUME Parts, CollectNotSaved
    PROVE  Parts'
<1>1. /\ daemon = "collecting" /\ Faults /\ Done(Error) /\ UNCHANGED <<contexts, storage>>
      /\ flushed' = flushed /\ disk' = disk
  BY DEF CollectNotSaved, Done
<1>2. job # None /\ job.msg.req.kind = "collect"
  BY <1>1 DEF Parts, JobFits
<1>3. DataOK'
  BY <1>1 DEF Parts, DataOK
<1> QED
  BY <1>1, <1>2, <1>3, ErrorFits, Ended

LEMMA RunOverStep ==
    ASSUME Parts, RunEnd \/ RunNotSaved
    PROVE  Parts'
<1>1. PICK a \in {[kind |-> "complete"], Error} :
        /\ daemon = "running" /\ Done(a) /\ UNCHANGED <<contexts, storage>>
        /\ flushed' = flushed /\ disk' = disk /\ daemon' = "idle"
  BY DEF RunEnd, RunNotSaved, Done
<1>2. job # None /\ job.msg.req.kind = "run"
  BY <1>1 DEF Parts, JobFits
<1>3. DataOK'
  BY <1>1 DEF Parts, DataOK
<1>4. Faults \/ HashDescribesInventory'
  BY <1>1 DEF Parts, HashDescribesInventory, Present, Working
<1>5. a \in Answer /\ a.kind \in FitsRequest(job.msg.req.kind)
  <2>1. CASE a = [kind |-> "complete"]
    BY <1>2, <2>1, Answers DEF FitsRequest
  <2>2. CASE a = Error
    BY <1>2, <2>2, ErrorFits
  <2> QED
    BY <1>1, <2>1, <2>2
<1> QED
  BY <1>1, <1>2, <1>3, <1>4, <1>5, Ended
-----------------------------------------------------------------------------
(* Every step *)

LEMMA ServeStep ==
    ASSUME Parts, NEW c \in Clients, Serve(c)
    PROVE  Parts'
BY InitContextStep, RefusedStep, CollectCachedStep, CollectBeginStep, CollectNotClearedStep,
   RunBeginStep, ListStep, GetInventoryStep, ShutdownStep, PingStep
   DEF Serve

LEMMA FinishStep ==
    ASSUME Parts, Finish
    PROVE  Parts'
BY CollectSaveStep, CollectNotSavedStep, RunOverStep DEF Finish

LEMMA ClientStep ==
    ASSUME Parts, NEW c \in Clients, Client(c)
    PROVE  Parts'
<1>1. UNCHANGED <<storage, flushed, disk>> /\ job \in Job \cup {None} /\ Wire
  BY DEF Client, Parts
<1>2. CASE \E r \in Asks : Send(c, r) /\ UNCHANGED server
  <2>1. PICK r \in Request : Send(c, r) /\ UNCHANGED server
    BY <1>2, ServerAssumption
  <2>2. Wire'
    BY <1>1, <2>1, SendStep
  <2>3. daemon # "down" \/ inbox' = inbox
    BY <2>1 DEF Send
  <2> QED
    BY <1>1, <2>1, <2>2, <2>3
    DEF Parts, DataOK, JobFits, Present, HashDescribesInventory, Working, server
<1>3. CASE Take(c) /\ UNCHANGED server
  <2>1. Wire' /\ inbox' = inbox
    BY <1>1, <1>3, TakeStep DEF Take
  <2> QED
    BY <1>1, <1>3, <2>1
    DEF Parts, DataOK, JobFits, Present, HashDescribesInventory, Working, server
<1>4. CASE GiveUp(c) \/ HangUp(c)
  <2>1. Wire'
    BY <1>1, <1>4, GiveUpStep, HangUpStep
  <2>2. /\ job' = Forget(c) /\ daemon' = daemon /\ contexts' = contexts
        /\ \E q \in {<<>>, Stale(inbox[c])} : inbox' = [inbox EXCEPT ![c] = q]
    BY <1>4 DEF GiveUp, HangUp
  <2>3. /\ job' \in Job \cup {None} /\ (job' = None <=> job = None)
        /\ job # None => job'.msg.req = job.msg.req
    BY <1>1, <2>2, ForgetStep
  <2>4. inbox[c] = <<>> => Stale(inbox[c]) = <<>>
    BY DEF Stale
  <2>5. JobFits'
    <3>1. daemon = "down" => \A d \in Clients : inbox'[d] = <<>>
      BY <1>1, <2>2, <2>4 DEF Parts, JobFits, Wire, PipesOK
    <3> QED
      BY <2>2, <2>3, <3>1 DEF Parts, JobFits, Present
  <2>6. Faults \/ HashDescribesInventory'
    BY <2>2, <2>3 DEF Parts, JobFits, HashDescribesInventory, Present, Working
  <2>7. DataOK'
    BY <1>1, <2>2 DEF Parts, DataOK
  <2> QED
    BY <2>1, <2>2, <2>3, <2>5, <2>6, <2>7 DEF Parts
<1> QED
  BY <1>2, <1>3, <1>4 DEF Client

LEMMA ProcessStep ==
    ASSUME Parts, Flush \/ Kill \/ Start \/ \E repo \in Repos, t \in Tests : Edit(repo, t)
    PROVE  Parts'
<1>1. CASE Flush
  <2>1. /\ UNCHANGED <<server, storage, disk, pipes>> /\ flushed' = storage
    BY <1>1 DEF Flush
  <2>2. Wire'
    BY <2>1 DEF Parts, Wire, PipesOK, ServedOnce, AnswersFitRequests, LiveIn, JobOf, server, pipes
  <2> QED
    BY <2>1, <2>2
    DEF Parts, DataOK, JobFits, Present, HashDescribesInventory, Working, server, pipes
<1>2. CASE Kill
  <2>1. Wire'
    BY <1>2, KillStep DEF Parts
  <2> QED
    BY <1>2, <2>1 DEF Kill, Parts, DataOK, Doing, JobFits, Present, HashDescribesInventory
<1>3. CASE Start
  <2>1. job = None /\ daemon = "down" /\ daemon' = "idle"
        /\ UNCHANGED <<job, contexts, storage, flushed, disk>>
    BY <1>3 DEF Start, Parts, JobFits
  <2>2. Wire'
    BY <1>3, <2>1, StartStep DEF Parts
  <2> QED
    BY <2>1, <2>2 DEF Parts, DataOK, Doing, JobFits, Present, HashDescribesInventory, Working
<1>4. ASSUME NEW repo \in Repos, NEW t \in Tests, Edit(repo, t)
      PROVE  Parts'
  <2>1. /\ UNCHANGED <<server, storage, flushed, pipes>>
        /\ disk' = [disk EXCEPT ![repo] = IF t \in @ THEN @ \ {t} ELSE @ \cup {t}]
    BY <1>4 DEF Edit
  <2>2. disk' \in [Repos -> SUBSET Tests]
    BY <2>1 DEF Parts, DataOK
  <2>3. Wire'
    BY <2>1 DEF Parts, Wire, PipesOK, ServedOnce, AnswersFitRequests, LiveIn, JobOf, server, pipes
  <2> QED
    BY <2>1, <2>2, <2>3
    DEF Parts, DataOK, JobFits, Present, HashDescribesInventory, Working, server, pipes
<1> QED
  BY <1>1, <1>2, <1>3, <1>4

LEMMA StutterStep ==
    ASSUME Parts, UNCHANGED vars
    PROVE  Parts'
BY DEF vars, Parts, Wire, PipesOK, DataOK, JobFits, Present, ServedOnce, AnswersFitRequests,
       LiveIn, JobOf, HashDescribesInventory, Working

LEMMA InductiveStep == IndInv /\ [Next]_vars => IndInv'
<1> SUFFICES ASSUME Parts, [Next]_vars PROVE Parts'
  BY InParts, InPartsNext
<1>1. CASE \E c \in Clients : Client(c) \/ Serve(c)
  BY <1>1, ClientStep, ServeStep
<1>2. CASE Finish
  BY <1>2, FinishStep
<1>3. CASE Flush \/ Kill \/ Start \/ \E repo \in Repos, t \in Tests : Edit(repo, t)
  BY <1>3, ProcessStep
<1>4. CASE UNCHANGED vars
  BY <1>4, StutterStep
<1> QED
  BY <1>1, <1>2, <1>3, <1>4 DEF Next

-----------------------------------------------------------------------------

(* The inductive invariant: what the daemon works on is a message of the kind
   it works on, live only for the client that waits for it. *)
THEOREM Invariance == Spec => []IndInv
<1> QED
  BY InitialStep, InductiveStep, PTL DEF Spec

(* Type correctness of daemon, contexts, storage and sockets. *)
THEOREM TypeCorrect == Spec => []TypeOK
<1>1. IndInv => TypeOK
  BY DEF IndInv
<1> QED
  BY <1>1, Invariance, PTL

(* However clients give up, exit and ask again, and the daemon dies and comes
   back, no request is in two places that could both be answered. *)
THEOREM RequestsServedOnce == Spec => []ServedOnce
<1>1. IndInv => ServedOnce
  BY DEF IndInv
<1> QED
  BY <1>1, Invariance, PTL

(* The answer a client reads belongs to the request it waits for. *)
THEOREM AnswersPaired == Spec => []AnswersFitRequests
<1>1. IndInv => AnswersFitRequests
  BY DEF IndInv
<1> QED
  BY <1>1, Invariance, PTL

(* Unless storage fails in the middle of a collection, the inventory_hash a
   context hands out is the hash of the nodes it hands out with it. *)
THEOREM HashTrue == Spec => [](Faults \/ HashDescribesInventory)
<1>1. IndInv => (Faults \/ HashDescribesInventory)
  BY DEF IndInv
<1> QED
  BY <1>1, Invariance, PTL

-----------------------------------------------------------------------------
(***************************************************************************)
(* The daemon implements RequestService.  Left(inbox[c]) is what c gave up *)
(* on; with ServedOnce its only live message is the last one, so the       *)
(* service takes turns as the daemon does.  AskedInv adds to the inductive *)
(* invariant that nothing is carried out that no client asks.              *)
(***************************************************************************)

Lefts == [c \in Clients |-> Left(inbox[c])]

AskedInv ==
    /\ \A c \in Clients : asked[c] # None => asked[c] \in Asks
    /\ \A c \in Clients : \A i \in DOMAIN inbox[c] : inbox[c][i].req \in Asks
    /\ job # None => job.msg.req \in Asks

\* For whom a message is carried out.
By(c) == IF Message(c).live THEN c ELSE None

LEMMA Requests ==
    ASSUME NEW s \in Seq(Msg)
    PROVE  \A i \in 1..Len(s) : s[i].req \in Request
<1>1. \A i \in 1..Len(s) : s[i] \in Msg
  OBVIOUS
<1>2. \A m \in Msg : m.req \in Request
  BY DEF Msg
<1> QED
  BY <1>1, <1>2

LEMMA LeftLength ==
    ASSUME NEW s \in Seq(Msg)
    PROVE  /\ (\A m \in DOMAIN s : ~s[m].live) => Left(s) = [i \in 1..Len(s) |-> s[i].req]
           /\ (\E m \in DOMAIN s : s[m].live) => Left(s) = [i \in 1..(Len(s) - 1) |-> s[i].req]
BY DEF Left

\* No message, or a single one that is live.
LEMMA NothingLeft ==
    ASSUME NEW s \in Seq(Msg), \/ Len(s) = 0
                               \/ Len(s) = 1 /\ s[1].live
    PROVE  Left(s) = <<>>
<1>1. CASE Len(s) = 0
  <2>1. \A m \in DOMAIN s : ~s[m].live
    <3>1. DOMAIN s = 1..Len(s)
      OBVIOUS
    <3> QED
      BY <1>1, <3>1
  <2>2. Left(s) = [i \in 1..0 |-> s[i].req]
    BY <1>1, <2>1, LeftLength
  <2> QED
    BY <2>2
<1>2. CASE Len(s) = 1 /\ s[1].live
  <2>1. Left(s) = [i \in 1..(1 - 1) |-> s[i].req]
    BY <1>2, LeftLength
  <2> QED
    BY <2>1
<1> QED
  BY <1>1, <1>2

\* A message sent leaves nothing more to be carried out for nobody.
LEMMA LeftBySending ==
    ASSUME NEW s \in Seq(Msg), \A m \in DOMAIN s : ~s[m].live,
           NEW msg \in Msg, msg.live
    PROVE  Left(Append(s, msg)) = Left(s)
<1> DEFINE t == Append(s, msg)
<1>1. /\ t \in Seq(Msg) /\ Len(t) = Len(s) + 1 /\ Len(s) \in Nat
      /\ \A i \in 1..Len(s) : t[i] = s[i]
      /\ t[Len(s) + 1] = msg /\ Len(s) + 1 \in DOMAIN t
  OBVIOUS
<1> HIDE DEF t
<1>2. Left(t) = [i \in 1..(Len(t) - 1) |-> t[i].req]
  BY <1>1, LeftLength
<1>3. Len(t) - 1 = Len(s)
  BY <1>1
<1>4. Left(s) = [i \in 1..Len(s) |-> s[i].req]
  BY LeftLength
<1>5. Left(t) = Left(s)
  BY <1>1, <1>2, <1>3, <1>4
<1> QED
  BY <1>5 DEF t

\* What goes stale is left: the live message, if there is one.
LEMMA LeftByGivingUp ==
    ASSUME NEW s \in Seq(Msg), \A m \in DOMAIN s : s[m].live => m = Len(s)
    PROVE  /\ (\A m \in DOMAIN s : ~s[m].live) => Left(Stale(s)) = Left(s)
           /\ (\E m \in DOMAIN s : s[m].live) =>
                 Left(Stale(s)) = Append(Left(s), s[Len(s)].req) /\ s[Len(s)].live
                                                                /\ Len(s) \in DOMAIN s
<1>1. /\ Stale(s) \in Seq(Msg) /\ Len(Stale(s)) = Len(s)
      /\ \A m \in DOMAIN Stale(s) : ~Stale(s)[m].live
  BY StaleStep
<1>2. Left(Stale(s)) = [i \in 1..Len(s) |-> Stale(s)[i].req]
  BY <1>1, LeftLength
<1>3. \A i \in 1..Len(s) : Stale(s)[i].req = s[i].req
  BY DEF Stale, Msg
<1>4. Left(Stale(s)) = [i \in 1..Len(s) |-> s[i].req]
  BY <1>2, <1>3
<1>5. CASE \A m \in DOMAIN s : ~s[m].live
  BY <1>4, <1>5, LeftLength
<1>6. CASE \E m \in DOMAIN s : s[m].live
  <2>1. Len(s) \in Nat /\ Len(s) \in DOMAIN s /\ s[Len(s)].live
    BY <1>6
  <2>2. PICK n \in Nat : n + 1 = Len(s) /\ \A i \in 1..(n + 1) : s[i].req \in Request
    <3>1. Len(s) - 1 \in Nat /\ (Len(s) - 1) + 1 = Len(s)
      BY <2>1
    <3>2. \A i \in 1..Len(s) : s[i].req \in Request
      BY Requests
    <3> QED
      BY <3>1, <3>2
  <2>3. Left(s) = [i \in 1..n |-> s[i].req]
    <3>1. Len(s) - 1 = n
      BY <2>2
    <3> QED
      BY <1>6, <3>1, LeftLength
  <2>4. Left(s) \in Seq(Request) /\ Len(Left(s)) = n
    BY <2>2, <2>3
  <2>5. Append(Left(s), s[n + 1].req) = [i \in 1..(n + 1) |-> s[i].req]
    BY <2>2, <2>3, <2>4
  <2> QED
    BY <1>4, <1>6, <2>1, <2>2, <2>5
<1> QED
  BY <1>5, <1>6

\* A stale message that is received is the next of those that are left.
LEMMA LeftByReceiving ==
    ASSUME NEW s \in Seq(Msg), s # <<>>, ~s[1].live
    PROVE  /\ Left(s) # <<>> /\ Head(Left(s)) = s[1].req
           /\ Left(Tail(s)) = Tail(Left(s))
<1>1. PICK n \in Nat : /\ n = Len(s) /\ n > 0 /\ DOMAIN s = 1..n
                       /\ Tail(s) \in Seq(Msg) /\ Len(Tail(s)) = n - 1
                       /\ \A i \in 1..(n - 1) : Tail(s)[i] = s[i + 1]
                       /\ \A i \in 1..n : s[i].req \in Request
  <2>1. PICK n \in Nat : n = Len(s)
    OBVIOUS
  <2>2. n > 0 /\ DOMAIN s = 1..n /\ Tail(s) \in Seq(Msg) /\ Len(Tail(s)) = n - 1
    BY <2>1, Taken
  <2>3. \A i \in 1..(n - 1) : Tail(s)[i] = s[i + 1]
    BY <2>1, Taken
  <2>4. \A i \in 1..n : s[i].req \in Request
    BY <2>1, Requests
  <2> QED
    BY <2>1, <2>2, <2>3, <2>4
<1>2. PICK k \in Nat :
        /\ k > 0
        /\ Left(s) = [i \in 1..k |-> s[i].req]
        /\ Left(Tail(s)) = [i \in 1..(k - 1) |-> Tail(s)[i].req]
        /\ k <= n
  <2>1. CASE \A m \in DOMAIN s : ~s[m].live
    <3>1. \A m \in DOMAIN Tail(s) : ~Tail(s)[m].live
      BY <1>1, <2>1
    <3>2. Left(Tail(s)) = [i \in 1..(n - 1) |-> Tail(s)[i].req]
      BY <1>1, <3>1, LeftLength
    <3>3. Left(s) = [i \in 1..n |-> s[i].req]
      BY <1>1, <2>1, LeftLength
    <3> QED
      BY <1>1, <3>2, <3>3
  <2>2. CASE \E m \in DOMAIN s : s[m].live
    <3>1. PICK m \in 1..n : s[m].live
      BY <1>1, <2>2
    <3>2. m - 1 \in DOMAIN Tail(s) /\ (m - 1) + 1 = m /\ m - 1 \in 1..(n - 1) /\ n > 1
      BY <1>1, <3>1
    <3>3. Tail(s)[m - 1].live
      BY <1>1, <3>1, <3>2
    <3>4. Left(Tail(s)) = [i \in 1..((n - 1) - 1) |-> Tail(s)[i].req]
      BY <1>1, <3>2, <3>3, LeftLength
    <3>5. Left(s) = [i \in 1..(n - 1) |-> s[i].req]
      BY <1>1, <2>2, LeftLength
    <3>6. n - 1 \in Nat /\ n - 1 > 0 /\ n - 1 <= n
      BY <1>1, <3>2
    <3> QED
      BY <3>4, <3>5, <3>6
  <2> QED
    BY <2>1, <2>2
<1>3. Left(s) \in Seq(Request) /\ Len(Left(s)) = k /\ Left(s)[1] = s[1].req
  BY <1>1, <1>2
<1>4. Left(s) # <<>> /\ Head(Left(s)) = s[1].req
  BY <1>2, <1>3
<1>5. Tail(Left(s)) = [i \in 1..(k - 1) |-> Left(s)[i + 1]]
  BY <1>2, <1>3
<1>6. \A i \in 1..(k - 1) : Left(s)[i + 1] = Tail(s)[i].req
  BY <1>1, <1>2
<1> QED
  BY <1>2, <1>4, <1>5, <1>6

\* A queue that changes.
LEMMA LeftsMove ==
    ASSUME PipesOK, NEW c \in Clients, NEW q, inbox' = [inbox EXCEPT ![c] = q]
    PROVE  Lefts' = [Lefts EXCEPT ![c] = Left(q)] /\ Lefts[c] = Left(inbox[c])
<1>1. \A d \in Clients : inbox'[d] = IF d = c THEN q ELSE inbox[d]
  BY DEF PipesOK
<1>2. Lefts' = [d \in Clients |-> IF d = c THEN Left(q) ELSE Left(inbox[d])]
  BY <1>1 DEF Lefts
<1> QED
  BY <1>2 DEF Lefts

-----------------------------------------------------------------------------
(* One lemma for each step, and for each what becomes of AskedInv *)

\* Steps that move no request keep AskedInv and change nothing of the service.
LEMMA NothingAsked ==
    ASSUME AskedInv, UNCHANGED <<inbox, asked, job>>
    PROVE  AskedInv'
BY DEF AskedInv

\* A queue that loses messages, and what is asked at most forgotten.
LEMMA AskedShrinks ==
    ASSUME PipesOK, AskedInv, NEW c \in Clients, NEW q \in Seq(Msg),
           inbox' = [inbox EXCEPT ![c] = q],
           \A i \in DOMAIN q : \E j \in DOMAIN inbox[c] : q[i].req = inbox[c][j].req,
           \A d \in Clients : asked'[d] = asked[d] \/ asked'[d] = None,
           job' # None => \/ job # None /\ job'.msg.req = job.msg.req
                          \/ \E j \in DOMAIN inbox[c] : job'.msg.req = inbox[c][j].req
    PROVE  AskedInv'
<1>1. \A d \in Clients : inbox'[d] = IF d = c THEN q ELSE inbox[d]
  BY DEF PipesOK
<1>2. \A d \in Clients : \A i \in DOMAIN inbox'[d] : inbox'[d][i].req \in Asks
  BY <1>1 DEF AskedInv
<1>3. \A d \in Clients : asked'[d] # None => asked'[d] \in Asks
  BY DEF AskedInv
<1>4. job' # None => job'.msg.req \in Asks
  BY DEF AskedInv
<1> QED
  BY <1>2, <1>3, <1>4 DEF AskedInv

LEMMA AsksStep ==
    ASSUME Parts, AskedInv, NEW c \in Clients, NEW r \in Asks, Send(c, r), UNCHANGED server
    PROVE  AskedInv' /\ Service!Ask(c)
<1> DEFINE msg == [req |-> r, live |-> TRUE]
<1>1. /\ asked[c] = None /\ asked' = [asked EXCEPT ![c] = r] /\ answer' = answer /\ job' = job
      /\ contexts' = contexts /\ inbox[c] \in Seq(Msg) /\ r \in Request /\ PipesOK
      /\ \/ inbox' = inbox
         \/ inbox' = [inbox EXCEPT ![c] = Append(@, msg)]
  BY ServerAssumption DEF Send, server, Parts, Wire, PipesOK
<1>2. msg \in Msg /\ msg.live /\ msg.req = r
  BY <1>1 DEF Msg
<1> HIDE DEF msg
<1>3. \A m \in DOMAIN inbox[c] : ~inbox[c][m].live
  <2> SUFFICES ASSUME NEW m \in DOMAIN inbox[c], inbox[c][m].live PROVE FALSE
    OBVIOUS
  <2>1. inbox[c][m].req = None
    BY <1>1 DEF Parts, Wire, ServedOnce, LiveIn
  <2>2. inbox[c][m].req \in Request
    BY <1>1, Requests
  <2> QED
    BY <2>1, <2>2, NotNone
<1>4. Lefts' = Lefts
  <2>1. CASE inbox' = inbox
    BY <2>1 DEF Lefts
  <2>2. CASE inbox' = [inbox EXCEPT ![c] = Append(@, msg)]
    <3>1. inbox' = [inbox EXCEPT ![c] = Append(inbox[c], msg)]
      BY <2>2
    <3>2. /\ Lefts' = [Lefts EXCEPT ![c] = Left(Append(inbox[c], msg))]
          /\ Lefts[c] = Left(inbox[c])
      BY <1>1, <3>1, LeftsMove
    <3>3. Left(Append(inbox[c], msg)) = Left(inbox[c])
      BY <1>1, <1>2, <1>3, LeftBySending
    <3> QED
      BY <3>2, <3>3 DEF Lefts
  <2> QED
    BY <1>1, <2>1, <2>2
<1>5. \A d \in Clients : \A i \in DOMAIN inbox'[d] : inbox'[d][i].req \in Asks
  <2>1. CASE inbox' = inbox
    BY <2>1 DEF AskedInv
  <2>2. CASE inbox' = [inbox EXCEPT ![c] = Append(@, msg)]
    <3>1. \A d \in Clients : inbox'[d] = IF d = c THEN Append(inbox[c], msg) ELSE inbox[d]
      BY <1>1, <2>2 DEF PipesOK
    <3>2. \A i \in DOMAIN Append(inbox[c], msg) :
             \/ i \in DOMAIN inbox[c] /\ Append(inbox[c], msg)[i] = inbox[c][i]
             \/ Append(inbox[c], msg)[i] = msg
      BY <1>1
    <3> QED
      BY <1>2, <3>1, <3>2 DEF AskedInv
  <2> QED
    BY <1>1, <2>1, <2>2
<1>6. AskedInv'
  BY <1>1, <1>5 DEF AskedInv, PipesOK
<1>7. Current' = Current
  BY <1>1 DEF Current
<1> QED
  BY <1>1, <1>4, <1>6, <1>7 DEF Service!Ask, Lefts

LEMMA ReadStep ==
    ASSUME Parts, AskedInv, NEW c \in Clients, Take(c), UNCHANGED server
    PROVE  AskedInv' /\ Service!Read(c)
<1>1. /\ answer[c] # None /\ inbox' = inbox /\ job' = job /\ contexts' = contexts
      /\ answer' = [answer EXCEPT ![c] = None] /\ asked' = [asked EXCEPT ![c] = None]
  BY DEF Take, server
<1>2. AskedInv'
  BY <1>1 DEF AskedInv, Parts, Wire, PipesOK
<1>3. Lefts' = Lefts /\ Current' = Current
  BY <1>1 DEF Lefts, Current
<1> QED
  BY <1>1, <1>2, <1>3 DEF Service!Read, Lefts

\* The daemon works on something exactly if the service does.
LEMMA Working_ ==
    ASSUME Parts
    PROVE  Current = None <=> job = None
<1>1. CASE job # None
  <2>1. job \in Job /\ job.client \in Clients /\ job.msg.req \in Request /\ job.msg.live \in BOOLEAN
    BY <1>1 DEF Parts, Job, Msg
  <2>2. Current \in Work
    BY <1>1, <2>1 DEF Current, Work
  <2> QED
    BY <1>1, <2>2, ServerAssumption
<1>2. CASE job = None
  BY <1>2 DEF Current
<1> QED
  BY <1>1, <1>2

\* What the daemon works on is for the client whose job is live.
LEMMA ForWhom ==
    ASSUME Parts, NEW c \in Clients
    PROVE  Service!For(c) <=> JobOf(c)
<1>1. CASE job = None
  BY <1>1 DEF Service!For, Current, JobOf
<1>2. CASE job # None
  <2>1. Current = [req |-> job.msg.req, by |-> IF job.msg.live THEN job.client ELSE None]
    BY <1>2 DEF Current
  <2>2. Current # None /\ Current.by = IF job.msg.live THEN job.client ELSE None
    BY <1>2, <2>1, Working_
  <2>3. c # None
    BY ServerAssumption
  <2> QED
    BY <1>2, <2>2, <2>3 DEF Service!For, JobOf
<1> QED
  BY <1>1, <1>2

LEMMA ForgetCurrent ==
    ASSUME Parts, NEW c \in Clients, job' = Forget(c)
    PROVE  /\ Service!For(c) => Service!ForNobody
           /\ ~Service!For(c) => Current' = Current
<1>1. CASE JobOf(c)
  <2>1. job # None /\ job \in Job /\ job.client = c /\ job.msg.live
    BY <1>1 DEF JobOf, Parts
  <2>2. job' = [job EXCEPT !.msg.live = FALSE]
    BY <2>1 DEF Forget
  <2>3. job' \in Job /\ job'.msg.req = job.msg.req /\ ~job'.msg.live
    BY <2>1, <2>2 DEF Job, Msg
  <2>4. job' # None
    BY <2>3, NotNone
  <2>5. Current = [req |-> job.msg.req, by |-> c]
    BY <2>1 DEF Current
  <2>6. Current' = [req |-> job.msg.req, by |-> None]
    BY <2>3, <2>4 DEF Current
  <2>7. Service!ForNobody
    BY <2>5, <2>6 DEF Service!ForNobody
  <2> QED
    BY <1>1, <2>7, ForWhom
<1>2. CASE ~JobOf(c)
  <2>1. CASE job # None /\ job.client = c
    <3>1. ~job.msg.live /\ job \in Job /\ job' = [job EXCEPT !.msg.live = FALSE]
      BY <1>2, <2>1 DEF JobOf, Parts, Forget
    <3>2. job' \in Job /\ job'.msg.req = job.msg.req /\ ~job'.msg.live
      BY <3>1 DEF Job, Msg
    <3> QED
      BY <1>2, <2>1, <3>1, <3>2, ForWhom, NotNone DEF Current
  <2>2. CASE ~(job # None /\ job.client = c)
    BY <1>2, <2>2, ForWhom DEF Forget, Current
  <2> QED
    BY <2>1, <2>2
<1> QED
  BY <1>1, <1>2

LEMMA GivesUpStep ==
    ASSUME Parts, AskedInv, NEW c \in Clients, GiveUp(c)
    PROVE  AskedInv' /\ Service!GiveUp(c)
<1>1. /\ asked[c] # None /\ answer[c] = None /\ answer' = answer /\ contexts' = contexts
      /\ inbox' = [inbox EXCEPT ![c] = Stale(inbox[c])] /\ asked' = [asked EXCEPT ![c] = None]
      /\ job' = Forget(c) /\ inbox[c] \in Seq(Msg) /\ PipesOK
  BY DEF GiveUp, Parts, Wire, PipesOK
<1>2. /\ \A m \in DOMAIN inbox[c] : inbox[c][m].live => m = Len(inbox[c])
      /\ \A m \in DOMAIN inbox[c] :
            inbox[c][m].live => asked[c] = inbox[c][m].req /\ ~JobOf(c)
  BY DEF Parts, Wire, ServedOnce, LiveIn
<1>3. Stale(inbox[c]) \in Seq(Msg)
  BY <1>1, StaleStep
<1>4. AskedInv'
  <2>1. \A i \in DOMAIN Stale(inbox[c]) :
           i \in DOMAIN inbox[c] /\ Stale(inbox[c])[i].req = inbox[c][i].req
    <3>1. \A i \in DOMAIN inbox[c] : inbox[c][i] \in Msg
      BY <1>1
    <3> QED
      BY <3>1 DEF Stale, Msg
  <2>2. \A d \in Clients : asked'[d] = asked[d] \/ asked'[d] = None
    BY <1>1 DEF PipesOK
  <2>3. job' # None => job # None /\ job'.msg.req = job.msg.req
    BY <1>1, ForgetStep DEF Parts
  <2> QED
    BY <1>1, <1>3, <2>1, <2>2, <2>3, AskedShrinks
<1>5. /\ Lefts' = [Lefts EXCEPT ![c] = Left(Stale(inbox[c]))]
      /\ Lefts[c] = Left(inbox[c])
  BY <1>1, LeftsMove
<1>6. /\ (\A m \in DOMAIN inbox[c] : ~inbox[c][m].live) => Lefts' = Lefts
      /\ (\E m \in DOMAIN inbox[c] : inbox[c][m].live) =>
            /\ Lefts' = [Lefts EXCEPT ![c] = Append(@, asked[c])]
            /\ ~JobOf(c)
  <2>1. CASE \A m \in DOMAIN inbox[c] : ~inbox[c][m].live
    <3>1. Left(Stale(inbox[c])) = Left(inbox[c])
      BY <1>1, <1>2, <2>1, LeftByGivingUp
    <3> QED
      BY <1>5, <2>1, <3>1 DEF Lefts
  <2>2. CASE \E m \in DOMAIN inbox[c] : inbox[c][m].live
    <3>1. /\ Left(Stale(inbox[c])) = Append(Left(inbox[c]), inbox[c][Len(inbox[c])].req)
          /\ inbox[c][Len(inbox[c])].live /\ Len(inbox[c]) \in DOMAIN inbox[c]
      BY <1>1, <1>2, <2>2, LeftByGivingUp
    <3>2. asked[c] = inbox[c][Len(inbox[c])].req /\ ~JobOf(c)
      BY <1>2, <3>1
    <3> QED
      BY <1>5, <2>2, <3>1, <3>2
  <2> QED
    BY <2>1, <2>2
<1>7. /\ Service!For(c) <=> JobOf(c)
      /\ Service!For(c) => Service!ForNobody
      /\ ~Service!For(c) => Current' = Current
  BY <1>1, ForWhom, ForgetCurrent
<1>8. \/ Service!For(c) /\ Service!ForNobody /\ Lefts' = Lefts
      \/ ~Service!For(c) /\ Lefts' = [Lefts EXCEPT ![c] = Append(@, asked[c])]
                         /\ Current' = Current
      \/ ~Service!For(c) /\ Lefts' = Lefts /\ Current' = Current
  BY <1>6, <1>7
<1> QED
  BY <1>1, <1>4, <1>8 DEF Service!GiveUp, Lefts

LEMMA HangsUpStep ==
    ASSUME Parts, AskedInv, NEW c \in Clients, HangUp(c)
    PROVE  AskedInv' /\ Service!HangUp(c)
<1>1. /\ answer' = [answer EXCEPT ![c] = None] /\ contexts' = contexts
      /\ inbox' = [inbox EXCEPT ![c] = <<>>] /\ asked' = [asked EXCEPT ![c] = None]
      /\ job' = Forget(c) /\ PipesOK
  BY DEF HangUp, Parts, Wire
<1>2. AskedInv'
  <2>1. \A d \in Clients : asked'[d] = asked[d] \/ asked'[d] = None
    BY <1>1 DEF PipesOK
  <2>2. job' # None => job # None /\ job'.msg.req = job.msg.req
    BY <1>1, ForgetStep DEF Parts
  <2>3. <<>> \in Seq(Msg) /\ DOMAIN <<>> = {}
    OBVIOUS
  <2> QED
    BY <1>1, <2>1, <2>2, <2>3, AskedShrinks
<1>3. Lefts' = [Lefts EXCEPT ![c] = <<>>]
  <2>1. <<>> \in Seq(Msg) /\ Len(<<>>) = 0
    OBVIOUS
  <2>2. Left(<<>>) = <<>>
    BY <2>1, NothingLeft
  <2> QED
    BY <1>1, <2>2, LeftsMove
<1>4. IF Service!For(c) THEN Service!ForNobody ELSE Current' = Current
  BY <1>1, ForgetCurrent
<1> QED
  BY <1>1, <1>2, <1>3, <1>4 DEF Service!HangUp, Lefts

\* A message received is carried out, at once or from now on.
LEMMA CarryOutStep ==
    ASSUME Parts, AskedInv, NEW c \in Clients, NEW kind, Receive(c, kind),
           \/ UNCHANGED job
           \/ job' = [client |-> c, msg |-> Message(c)],
           \/ Service!AtOnce(Message(c).req, By(c))
           \/ Service!Begin(Message(c).req, By(c))
    PROVE  AskedInv' /\ Service!CarryOut(c)
<1>1. /\ inbox[c] \in Seq(Msg) /\ inbox[c] # <<>> /\ asked' = asked /\ PipesOK
      /\ inbox' = [inbox EXCEPT ![c] = Tail(inbox[c])]
      /\ Message(c) = inbox[c][1] /\ 1 \in DOMAIN inbox[c] /\ Message(c) \in Msg /\ job = None
  BY Received, Request_ DEF Parts, Wire, PipesOK, Receive
<1>2. /\ Tail(inbox[c]) \in Seq(Msg)
      /\ \A i \in DOMAIN Tail(inbox[c]) :
            i + 1 \in DOMAIN inbox[c] /\ Tail(inbox[c])[i] = inbox[c][i + 1]
      /\ Len(Tail(inbox[c])) = Len(inbox[c]) - 1
  BY <1>1, Taken
<1>3. AskedInv'
  <2>1. job' # None => job'.msg.req = inbox[c][1].req
    BY <1>1
  <2> QED
    BY <1>1, <1>2, <2>1, AskedShrinks
<1>4. Message(c).req \in Asks /\ By(c) \in {c, None} /\ Current = None
  BY <1>1, Working_ DEF AskedInv, By
<1>5. /\ Lefts' = [Lefts EXCEPT ![c] = Left(Tail(inbox[c]))]
      /\ Lefts[c] = Left(inbox[c])
  BY <1>1, LeftsMove
<1>6. \/ /\ By(c) = None /\ Lefts[c] # <<>> /\ Message(c).req = Head(Lefts[c])
         /\ Lefts' = [Lefts EXCEPT ![c] = Tail(@)]
      \/ /\ By(c) = c /\ Lefts[c] = <<>> /\ Message(c).req = asked[c] /\ answer[c] = None
         /\ Lefts' = Lefts
  <2>1. CASE ~Message(c).live
    <3>1. /\ Left(inbox[c]) # <<>> /\ Head(Left(inbox[c])) = inbox[c][1].req
          /\ Left(Tail(inbox[c])) = Tail(Left(inbox[c]))
      BY <1>1, <2>1, LeftByReceiving
    <3> QED
      BY <1>1, <1>5, <2>1, <3>1 DEF By
  <2>2. CASE Message(c).live
    <3>1. 1 \in LiveIn(c)
      BY <1>1, <2>2 DEF LiveIn
    <3>2. asked[c] = inbox[c][1].req /\ answer[c] = None /\ 1 = Len(inbox[c])
      BY <3>1 DEF Parts, Wire, ServedOnce
    <3>3. Left(inbox[c]) = <<>>
      BY <1>1, <2>2, <3>2, NothingLeft
    <3>4. Len(Tail(inbox[c])) = 0
      BY <1>2, <3>2
    <3>5. Left(Tail(inbox[c])) = <<>>
      BY <1>2, <3>4, NothingLeft
    <3> QED
      BY <1>1, <1>5, <2>2, <3>2, <3>3, <3>5 DEF By, Lefts
  <2> QED
    BY <2>1, <2>2
<1>7. Service!Turn(c, Message(c).req, By(c))
  BY <1>6 DEF Service!Turn, Lefts
<1> QED
  BY <1>1, <1>3, <1>4, <1>7 DEF Service!CarryOut

\* The answer reaches the client the request is carried out for.
LEMMA TellStep ==
    ASSUME NEW c \in Clients, NEW a, Reply(c, Message(c), a)
    PROVE  Service!Tell(By(c), a)
BY ServerAssumption DEF Reply, Service!Tell, By

LEMMA AnsweredAtOnce ==
    ASSUME Parts, AskedInv, NEW c \in Clients,
           \/ InitContext(c) \/ InitFails(c) \/ NoSuchContext(c) \/ CollectFails(c)
           \/ CollectNotCleared(c)
           \/ List(c) \/ GetInventory(c) \/ Shutdown(c) \/ Ping(c)
    PROVE  AskedInv' /\ Service!CarryOut(c)
<1> DEFINE r == Message(c).req
<1>1. ASSUME NEW kind, Receive(c, kind), job' = job,
             \/ Service!Refuse(r, By(c)) \/ Service!FailHalfway(r, By(c))
             \/ Service!Create(r, By(c)) \/ Service!Show(r, By(c))
             \/ Service!Drop(r, By(c)) \/ Service!Pong(r, By(c))
      PROVE  AskedInv' /\ Service!CarryOut(c)
  <2>1. Current' = Current
    BY <1>1 DEF Current
  <2>2. Service!AtOnce(r, By(c))
    BY <1>1, <2>1 DEF Service!AtOnce
  <2> QED
    BY <1>1, <2>2, CarryOutStep
<1>2. CASE InitContext(c)
  <2>1. /\ Receive(c, "init") /\ job' = job /\ r.kind = "init"
        /\ contexts' = IF contexts[r.key] = None
                       THEN [contexts EXCEPT ![r.key] = [inv |-> {}, hash |-> None]] ELSE contexts
        /\ Service!Tell(By(c), [kind |-> "ready", hash |-> contexts'[r.key].hash])
    BY <1>2, TellStep DEF InitContext, Receive, Message, NewContext
  <2> QED
    BY <1>1, <2>1 DEF Service!Create
<1>3. CASE InitFails(c)
  <2>1. /\ Receive(c, "init") /\ job' = job /\ r.kind = "init" /\ Faults /\ contexts[r.key] = None
        /\ contexts' = contexts /\ Service!Tell(By(c), [kind |-> "error"])
    BY <1>3, TellStep DEF InitFails, Receive, Message, Error, server
  <2> QED
    BY <1>1, <2>1 DEF Service!Refuse, Service!Error
<1>4. CASE NoSuchContext(c)
  <2>1. PICK kind \in {"collect", "run", "list", "inventory"} : Receive(c, kind)
    BY <1>4 DEF NoSuchContext
  <2>2. /\ job' = job /\ r.kind = kind /\ contexts[r.key] = None
        /\ contexts' = contexts /\ Service!Tell(By(c), [kind |-> "error"])
    BY <1>4, <2>1, TellStep DEF NoSuchContext, Receive, Message, Error, server
  <2> QED
    BY <1>1, <2>1, <2>2 DEF Service!Refuse, Service!Error
<1>5. CASE CollectFails(c)
  <2>1. /\ Receive(c, "collect") /\ job' = job /\ r.kind = "collect" /\ Faults
        /\ contexts' = contexts /\ Service!Tell(By(c), [kind |-> "error"])
    BY <1>5, TellStep DEF CollectFails, Receive, Message, Error, server
  <2> QED
    BY <1>1, <2>1 DEF Service!Refuse, Service!Error
<1>6. CASE CollectNotCleared(c)
  <2>1. /\ Receive(c, "collect") /\ job' = job /\ r.kind = "collect" /\ Faults
        /\ contexts[r.key] # None
        /\ contexts' = [contexts EXCEPT ![r.key].inv = @ \cup disk[RepoOf[r.key]]]
        /\ Service!Tell(By(c), [kind |-> "error"])
    BY <1>6, TellStep DEF CollectNotCleared, Collects, Receive, Message, Error
  <2>2. disk[RepoOf[r.key]] \in SUBSET Tests
    BY <2>1, Request_, ServerAssumption DEF Parts, DataOK
  <2>3. Service!Grow(r.key)
    BY <2>1, <2>2 DEF Service!Grow
  <2> QED
    BY <1>1, <2>1, <2>3 DEF Service!FailHalfway, Service!Error
<1>7. CASE List(c)
  <2>1. /\ Receive(c, "list") /\ job' = job /\ r.kind = "list" /\ contexts[r.key] # None
        /\ contexts' = contexts
        /\ Service!Tell(By(c), [kind |-> "tests", nodes |-> contexts[r.key].inv])
    BY <1>7, TellStep DEF List, Receive, Message, server
  <2> QED
    BY <1>1, <2>1 DEF Service!Show
<1>8. CASE GetInventory(c)
  <2>1. /\ Receive(c, "inventory") /\ job' = job /\ r.kind = "inventory"
        /\ contexts[r.key] # None /\ contexts' = contexts
        /\ Service!Tell(By(c), [kind |-> "data", hash |-> contexts[r.key].hash,
                                                nodes |-> contexts[r.key].inv])
    BY <1>8, TellStep DEF GetInventory, Receive, Message, server
  <2> QED
    BY <1>1, <2>1 DEF Service!Show
<1>9. CASE Shutdown(c)
  <2>1. /\ Receive(c, "shutdown") /\ job' = job /\ r.kind = "shutdown"
        /\ contexts' = [k \in Keys |-> IF k \in r.keys THEN None ELSE contexts[k]]
        /\ Service!Tell(By(c), [kind |-> "ack"])
    BY <1>9, TellStep DEF Shutdown, Receive, Message
  <2> QED
    BY <1>1, <2>1 DEF Service!Drop
<1>10. CASE Ping(c)
  <2>1. /\ Receive(c, "ping") /\ job' = job /\ r.kind = "ping" /\ contexts' = contexts
        /\ Service!Tell(By(c), [kind |-> "pong"])
    BY <1>10, TellStep DEF Ping, Receive, Message, server
  <2> QED
    BY <1>1, <2>1 DEF Service!Pong
<1> QED
  BY <1>2, <1>3, <1>4, <1>5, <1>6, <1>7, <1>8, <1>9, <1>10

LEMMA BegunLater ==
    ASSUME Parts, AskedInv, NEW c \in Clients,
           CollectCached(c) \/ CollectBegin(c) \/ RunBegin(c)
    PROVE  AskedInv' /\ Service!CarryOut(c)
<1> DEFINE r == Message(c).req
<1>1. PICK kind \in {"collect", "run"} :
        /\ Receive(c, kind) /\ r.kind = kind /\ contexts[r.key] # None
        /\ job' = [client |-> c, msg |-> Message(c)] /\ answer' = answer
  BY DEF CollectCached, CollectBegin, Collects, RunBegin, Begin, Receive, Message
<1>2. Message(c) \in Msg /\ job' \in Job /\ r.key \in Keys
  BY <1>1, Request_ DEF Job
<1>3. Current' = [req |-> r, by |-> By(c)]
  <2>1. job' # None /\ job'.msg = Message(c) /\ job'.client = c
    BY <1>1, <1>2, NotNone
  <2> QED
    BY <2>1 DEF Current, By
<1>4. IF r.kind = "collect" THEN Service!Grow(r.key) ELSE contexts' = contexts
  <2>1. CASE CollectCached(c)
    <3>1. contexts' = [contexts EXCEPT ![r.key].inv = @ \cup storage] /\ r.kind = "collect"
      BY <2>1 DEF CollectCached, Receive, Message
    <3> QED
      BY <3>1 DEF Service!Grow, Parts, DataOK
  <2>2. CASE CollectBegin(c)
    <3>1. /\ contexts' = [contexts EXCEPT ![r.key].inv = @ \cup disk[RepoOf[r.key]]]
          /\ r.kind = "collect"
      BY <2>2 DEF CollectBegin, Collects, Receive, Message
    <3>2. disk[RepoOf[r.key]] \in SUBSET Tests
      BY <1>2, ServerAssumption DEF Parts, DataOK
    <3> QED
      BY <3>1, <3>2 DEF Service!Grow
  <2>3. CASE RunBegin(c)
    BY <2>3 DEF RunBegin, Receive, Message
  <2> QED
    BY <2>1, <2>2, <2>3
<1>5. Service!Begin(r, By(c))
  BY <1>1, <1>3, <1>4 DEF Service!Begin
<1> QED
  BY <1>1, <1>5, CarryOutStep

\* A job that ends is told to the client it was for.
LEMMA FinishedStep ==
    ASSUME Parts, AskedInv, Finish
    PROVE  AskedInv' /\ Service!Finish
<1>1. /\ job # None /\ job \in Job /\ job.client \in Clients /\ job.msg \in Msg
      /\ daemon \in {"collecting", "running"}
      /\ daemon = "collecting" => job.msg.req.kind = "collect"
      /\ daemon = "running" => job.msg.req.kind = "run"
  BY DEF Finish, CollectSave, CollectNotSaved, RunEnd, RunNotSaved, Parts, JobFits, Job
<1>2. /\ inbox' = inbox /\ asked' = asked /\ job' = None
      /\ \E a \in {[kind |-> "collected"], [kind |-> "complete"], Error} : Done(a)
  BY DEF Finish, CollectSave, CollectNotSaved, RunEnd, RunNotSaved, Done
<1>3. AskedInv' /\ Lefts' = Lefts
  BY <1>2 DEF AskedInv, Lefts
<1>4. /\ Current = [req |-> job.msg.req, by |-> IF job.msg.live THEN job.client ELSE None]
      /\ Current # None /\ Current' = None
  BY <1>1, <1>2, Working_ DEF Current
<1>5. Current.req = job.msg.req /\ Current.by = IF job.msg.live THEN job.client ELSE None
  BY <1>4
<1>6. ASSUME NEW a, Done(a) PROVE Service!Tell(Current.by, a)
  BY <1>1, <1>5, <1>6, ServerAssumption DEF Done, Reply, Service!Tell
<1>7. \/ /\ Current.req.kind = "collect"
         /\ contexts' = [contexts EXCEPT ![Current.req.key].hash = contexts[Current.req.key].inv]
         /\ Service!Tell(Current.by, [kind |-> "collected"])
      \/ /\ Current.req.kind = "run" /\ contexts' = contexts
         /\ Service!Tell(Current.by, [kind |-> "complete"])
      \/ Faults /\ contexts' = contexts /\ Service!Tell(Current.by, [kind |-> "error"])
  <2>1. CASE CollectSave
    BY <1>1, <1>5, <1>6, <2>1 DEF CollectSave
  <2>2. CASE CollectNotSaved \/ RunNotSaved
    BY <1>6, <2>2 DEF CollectNotSaved, RunNotSaved, Error
  <2>3. CASE RunEnd
    BY <1>1, <1>5, <1>6, <2>3 DEF RunEnd
  <2> QED
    BY <2>1, <2>2, <2>3 DEF Finish
<1> QED
  BY <1>2, <1>3, <1>4, <1>7 DEF Service!Finish, Service!Error, Lefts

LEMMA DiesStep ==
    ASSUME Parts, AskedInv, Kill
    PROVE  AskedInv' /\ Service!Die
<1>1. /\ inbox' = [c \in Clients |-> <<>>] /\ asked' = asked /\ answer' = answer /\ job' = None
      /\ contexts' = [k \in Keys |-> None]
  BY DEF Kill
<1>2. AskedInv'
  BY <1>1 DEF AskedInv
<1>3. Lefts' = [c \in Clients |-> <<>>]
  <2>1. <<>> \in Seq(Msg) /\ Len(<<>>) = 0
    OBVIOUS
  <2>2. Left(<<>>) = <<>>
    BY <2>1, NothingLeft
  <2> QED
    BY <1>1, <2>2 DEF Lefts
<1>4. Current' = None
  BY <1>1 DEF Current
<1> QED
  BY <1>1, <1>2, <1>3, <1>4 DEF Service!Die, Lefts

\* A new daemon is sent what is waited for; nothing was left by the old one.
LEMMA RestartStep ==
    ASSUME Parts, AskedInv, Start
    PROVE  AskedInv' /\ UNCHANGED Service!vars
<1>1. /\ inbox' = [c \in Clients |->
                     IF asked[c] # None /\ answer[c] = None
                     THEN << [req |-> asked[c], live |-> TRUE] >> ELSE <<>>]
      /\ daemon = "down" /\ UNCHANGED <<job, contexts, asked, answer>>
  BY DEF Start
<1>2. \A c \in Clients : inbox[c] = <<>>
  BY <1>1 DEF Parts, JobFits
<1>3. AskedInv'
  BY <1>1 DEF AskedInv
<1>4. ASSUME NEW c \in Clients PROVE Left(inbox[c]) = <<>> /\ Left(inbox'[c]) = <<>>
  <2>1. <<>> \in Seq(Msg) /\ Len(<<>>) = 0
    OBVIOUS
  <2>2. Left(<<>>) = <<>>
    BY <2>1, NothingLeft
  <2>3. ASSUME asked[c] # None PROVE Left(<< [req |-> asked[c], live |-> TRUE] >>) = <<>>
    <3>1. [req |-> asked[c], live |-> TRUE] \in Msg
      BY <2>3 DEF Parts, Wire, PipesOK, Msg
    <3>2. PICK msg \in Msg : msg = [req |-> asked[c], live |-> TRUE] /\ msg.live
      BY <3>1
    <3>3. <<msg>> \in Seq(Msg) /\ Len(<<msg>>) = 1 /\ <<msg>>[1].live
      BY <3>2
    <3> QED
      BY <3>2, <3>3, NothingLeft
  <2> QED
    BY <1>1, <1>2, <2>2, <2>3
<1>5. Lefts' = Lefts
  BY <1>4 DEF Lefts
<1>6. Current' = Current
  BY <1>1 DEF Current
<1> QED
  BY <1>1, <1>3, <1>5, <1>6 DEF Service!vars, Lefts

LEMMA UnseenStep ==
    ASSUME AskedInv,
           \/ Flush \/ UNCHANGED vars \/ \E repo \in Repos, t \in Tests : Edit(repo, t)
    PROVE  AskedInv' /\ UNCHANGED Service!vars
<1>1. UNCHANGED <<contexts, job, inbox, asked, answer>>
  BY DEF Flush, Edit, vars, server, pipes
<1>2. AskedInv'
  BY <1>1, NothingAsked
<1>3. Current' = Current /\ Lefts' = Lefts
  BY <1>1 DEF Current, Lefts
<1> QED
  BY <1>1, <1>2, <1>3 DEF Service!vars, Lefts

\* Every step of the daemon is a step of the service or none.
LEMMA ServiceStep ==
    ASSUME Parts, AskedInv, [Next]_vars
    PROVE  AskedInv' /\ [Service!Next]_(Service!vars)
<1>1. ASSUME NEW c \in Clients, Client(c)
      PROVE  /\ AskedInv'
             /\ Service!Ask(c) \/ Service!Read(c) \/ Service!GiveUp(c) \/ Service!HangUp(c)
  BY <1>1, AsksStep, ReadStep, GivesUpStep, HangsUpStep DEF Client
<1>2. ASSUME NEW c \in Clients, Serve(c)
      PROVE  AskedInv' /\ Service!CarryOut(c)
  BY <1>2, AnsweredAtOnce, BegunLater DEF Serve
<1>3. CASE \E c \in Clients : Client(c) \/ Serve(c)
  BY <1>1, <1>2, <1>3 DEF Service!Next
<1>4. CASE Finish
  BY <1>4, FinishedStep DEF Service!Next
<1>5. CASE Kill
  BY <1>5, DiesStep DEF Service!Next
<1>6. CASE Start
  BY <1>6, RestartStep
<1>7. CASE \/ Flush \/ UNCHANGED vars \/ \E repo \in Repos, t \in Tests : Edit(repo, t)
  BY <1>7, UnseenStep
<1> QED
  BY <1>3, <1>4, <1>5, <1>6, <1>7 DEF Next

LEMMA ServiceInitial == Init => AskedInv /\ Service!Init
<1> SUFFICES ASSUME Init PROVE AskedInv /\ Service!Init
  OBVIOUS
<1>1. /\ contexts = [k \in Keys |-> None] /\ asked = [c \in Clients |-> None]
      /\ answer = [c \in Clients |-> None] /\ inbox = [c \in Clients |-> <<>>] /\ job = None
  BY DEF Init
<1>2. Left(<<>>) = <<>>
  <2>1. <<>> \in Seq(Msg) /\ Len(<<>>) = 0
    OBVIOUS
  <2> QED
    BY <2>1, NothingLeft
<1>3. Lefts = [c \in Clients |-> <<>>] /\ Current = None
  BY <1>1, <1>2 DEF Lefts, Current
<1>4. AskedInv
  BY <1>1 DEF AskedInv
<1> QED
  BY <1>1, <1>3, <1>4 DEF Service!Init, Lefts

(* The daemon implements the service its clients rely on: whatever they give
   up on, hang up on or ask again, and however often it dies, requests take
   effect one at a time on the contexts alone, and each answer goes once to
   the client that waits for it. *)
THEOREM ImplementsService == Spec => ServiceSpec
<1>1. IndInv /\ AskedInv /\ [Next]_vars => AskedInv' /\ [Service!Next]_(Service!vars)
  BY InParts, ServiceStep
<1>2. Spec => [][Service!Next]_(Service!vars)
  BY <1>1, ServiceInitial, Invariance, PTL DEF Spec
<1>3. Spec => Service!Init
  BY ServiceInitial DEF Spec
<1> QED
  BY <1>2, <1>3 DEF ServiceSpec, Service!Spec

-----------------------------------------------------------------------------
(***************************************************************************)
(* Watch: the watching loop reads the answer to the request of its own     *)
(* stage, also after requests that timed out.  Every step of the loop is a *)
(* step of a client or none, so Parts, the invariant of the daemon, is     *)
(* kept by the lemmas above.  The rest is about the loop.                  *)
(***************************************************************************)

\* The part of WatchTypeOK about the loop.
LoopOK ==
    /\ stage \in Asking \cup {"idle", "debouncing", "computing", "exited"}
    /\ DOMAIN graph \subseteq {Relative(f) : f \in TestFiles}
    /\ \A p \in DOMAIN graph : graph[p] \subseteq Tests
    /\ selected \subseteq Tests

\* The part about the files.
FilesOK ==
    /\ brewing \subseteq Changes /\ changed \subseteq Changes
    /\ channel \in Seq(SUBSET Changes)
    /\ fresh \subseteq Tests /\ late \in BOOLEAN

\* A request under way is the one of the stage the loop is in.
StageAsked == asked[W] # None => stage \in Asking /\ asked[W] = RequestOf(stage)

(* The inductive invariant: the types, the daemon's invariant, and that a
   request under way belongs to the stage of the loop. *)
WatchInv == Parts /\ LoopOK /\ FilesOK /\ StageAsked

-----------------------------------------------------------------------------
(* Requests and stages *)

LEMMA Watcher == W \in Clients /\ K \in Keys
BY WatchAssumption

LEMMA CollectRequest ==
    ASSUME NEW forced \in BOOLEAN
    PROVE  [kind |-> "collect", key |-> K, force |-> forced] \in Request
BY Watcher DEF Request

\* The request of a stage is a request, of the kind its answers are read as.
LEMMA StageRequest ==
    ASSUME stage \in Asking, selected \subseteq Tests
    PROVE  /\ RequestOf(stage) \in Request
           /\ RequestOf(stage) # None
           /\ stage = "init" => RequestOf(stage).kind = "init"
           /\ stage = "inventory" => RequestOf(stage).kind = "inventory"
           /\ stage \in {"list", "relist"} => RequestOf(stage).kind = "list"
           /\ stage \in {"firstRun", "run"} => RequestOf(stage).kind = "run"
           /\ stage = "recollect" => RequestOf(stage).kind = "collect"
<1>1. K \in Keys /\ (Conftest \in changed) \in BOOLEAN
  BY Watcher
<1>2. CASE stage = "init"
  BY <1>1, <1>2, NotNone DEF RequestOf, Request
<1>3. CASE stage = "inventory"
  BY <1>1, <1>3, NotNone DEF RequestOf, Request
<1>4. CASE stage \in {"list", "relist"}
  BY <1>1, <1>4, NotNone DEF RequestOf, Request
<1>5. CASE stage \in {"firstRun", "run"}
  BY <1>1, <1>5, NotNone DEF RequestOf, Request
<1>6. CASE stage = "recollect"
  <2> DEFINE forced == Conftest \in changed
  <2>1. RequestOf(stage) = [kind |-> "collect", key |-> K, force |-> forced]
    BY <1>6 DEF RequestOf
  <2>2. forced \in BOOLEAN
    OBVIOUS
  <2> HIDE DEF forced
  <2>3. RequestOf(stage) \in Request /\ RequestOf(stage).kind = "collect"
    BY <2>1, <2>2, CollectRequest
  <2> QED
    BY <1>6, <2>3, NotNone
<1> QED
  BY <1>2, <1>3, <1>4, <1>5, <1>6 DEF Asking, Starting

\* The nodes of an answer are tests.
LEMMA AnswerNodes ==
    ASSUME PipesOK, NEW c \in Clients, answer[c] # None, answer[c].kind \in {"tests", "data"}
    PROVE  answer[c].nodes \subseteq Tests
BY DEF PipesOK, Answer

\* The nodes of a run are tests.
LEMMA RunNodes ==
    ASSUME NEW r \in Request, r.kind = "run"
    PROVE  r.nodes \subseteq Tests
BY DEF Request

-----------------------------------------------------------------------------
(* The daemon's half *)

\* What a step of the loop does to the daemon: it takes the answer, asks, gives
\* up or does none of these.
LEMMA AnsweredStep ==
    ASSUME Parts, NEW s, Answered(s)
    PROVE  /\ Parts' /\ stage = s /\ answer[W] # None
           /\ asked'[W] = None
           /\ UNCHANGED <<brewing, channel, fresh, late>>
<1>1. Take(W) /\ UNCHANGED <<server, storage, flushed, disk>> /\ stage = s
      /\ UNCHANGED <<brewing, channel, fresh, late>>
  BY DEF Answered, server
<1>2. Client(W)
  BY <1>1 DEF Client
<1>3. Parts'
  BY <1>2, ClientStep, Watcher
<1>4. asked'[W] = None /\ answer[W] # None
  BY <1>1, Watcher DEF Take, Parts, Wire, PipesOK
<1> QED
  BY <1>1, <1>3, <1>4

LEMMA AskStep ==
    ASSUME WatchInv, Ask
    PROVE  WatchInv'
<1>1. /\ stage \in Asking /\ Send(W, RequestOf(stage))
      /\ UNCHANGED <<server, storage, flushed, disk, watchVars>>
  BY DEF Ask, server
<1>2. RequestOf(stage) \in Request
  BY <1>1, StageRequest DEF WatchInv, LoopOK
<1>3. Wire'
  BY <1>1, <1>2, SendStep, Watcher DEF WatchInv, Parts
<1>4. daemon # "down" \/ inbox' = inbox
  BY <1>1 DEF Send
<1>5. Parts'
  BY <1>1, <1>3, <1>4
  DEF WatchInv, Parts, DataOK, JobFits, Present, HashDescribesInventory, Working, server
<1>6. asked'[W] = RequestOf(stage)
  BY <1>1, Watcher DEF Send, WatchInv, Parts, Wire, PipesOK
<1>7. RequestOf(stage)' = RequestOf(stage) /\ stage' = stage
  BY <1>1 DEF RequestOf, watchVars, loop
<1> QED
  BY <1>1, <1>5, <1>6, <1>7 DEF WatchInv, LoopOK, FilesOK, StageAsked, watchVars, loop

-----------------------------------------------------------------------------
(* The loop *)

\* An answer that was taken leaves the loop with no request under way.
LEMMA AfterAnswer ==
    ASSUME WatchInv, NEW s, Answered(s), LoopOK', changed' = changed
    PROVE  WatchInv'
BY AnsweredStep DEF WatchInv, FilesOK, StageAsked

LEMMA ListedTests ==
    ASSUME WatchInv, answer[W] # None
    PROVE  Listed \subseteq Tests
BY AnswerNodes, Watcher DEF Listed, WatchInv, Parts, Wire

LEMMA TrackedStep ==
    ASSUME WatchInv, Tracked
    PROVE  WatchInv'
<1>1. /\ Answered("inventory") /\ stage' = "list" /\ UNCHANGED <<changed, selected>>
      /\ \/ graph' = graph
         \/ /\ answer[W].kind = "data"
            /\ graph' = [p \in {Relative(FileOf[t]) : t \in answer[W].nodes} |->
                            {t \in answer[W].nodes : Relative(FileOf[t]) = p}]
  BY DEF Tracked, Goto
<1>2. answer[W] # None
  BY <1>1, AnsweredStep DEF WatchInv
<1>3. answer[W].kind = "data" => answer[W].nodes \subseteq Tests
  BY <1>2, AnswerNodes, Watcher DEF WatchInv, Parts, Wire
<1>4. \A t \in Tests : FileOf[t] \in TestFiles
  BY WatchAssumption
<1>5. /\ DOMAIN graph' \subseteq {Relative(f) : f \in TestFiles}
      /\ \A p \in DOMAIN graph' : graph'[p] \subseteq Tests
  <2>1. CASE graph' = graph
    BY <2>1 DEF WatchInv, LoopOK
  <2>2. CASE /\ answer[W].kind = "data"
             /\ graph' = [p \in {Relative(FileOf[t]) : t \in answer[W].nodes} |->
                            {t \in answer[W].nodes : Relative(FileOf[t]) = p}]
    BY <1>3, <1>4, <2>2
  <2> QED
    BY <1>1, <2>1, <2>2
<1>6. LoopOK'
  BY <1>1, <1>5 DEF WatchInv, LoopOK, Asking, Starting
<1> QED
  BY <1>1, <1>6, AfterAnswer

\* Every other stage that takes an answer.
LEMMA TakenStep ==
    ASSUME WatchInv,
           Initialized \/ FirstListed \/ FirstRan \/ Recollected \/ Relisted \/ Ran
    PROVE  WatchInv'
<1>1. PICK s \in Asking :
        /\ Answered(s)
        /\ UNCHANGED <<graph, changed>>
        /\ stage' \in {"inventory", "exited", "idle", "firstRun", "relist", "run"}
        /\ \/ selected' = selected
           \/ selected' = Listed
           \/ selected' = InChangedFiles(Listed)
  BY DEF Initialized, FirstListed, FirstRan, Recollected, Relisted, Ran, Goto, Asking, Starting
<1>2. answer[W] # None
  BY <1>1, AnsweredStep DEF WatchInv
<1>3. Listed \subseteq Tests
  BY <1>2, ListedTests
<1>4. InChangedFiles(Listed) \subseteq Listed
  BY DEF InChangedFiles
<1>5. LoopOK'
  BY <1>1, <1>3, <1>4 DEF WatchInv, LoopOK, Asking, Starting
<1> QED
  BY <1>1, <1>5, AfterAnswer

\* The stages between requests.
LEMMA BetweenStep ==
    ASSUME WatchInv, WaitForChanges \/ Debounced \/ ComputeAffected
    PROVE  WatchInv'
<1>1. /\ UNCHANGED vars /\ UNCHANGED <<graph, brewing, fresh, late>>
      /\ stage \in {"idle", "debouncing", "computing"}
      /\ stage' \in Asking \cup {"debouncing", "computing", "idle"}
  BY DEF WaitForChanges, Debounced, ComputeAffected, Goto, Asking, Starting
<1>2. asked[W] = None
  BY <1>1 DEF WatchInv, StageAsked, Asking, Starting
<1>3. Parts'
  BY <1>1, StutterStep DEF WatchInv
<1>4. Affected \subseteq Tests
  BY DEF WatchInv, LoopOK, Affected
<1>5. selected' \subseteq Tests
  BY <1>4 DEF WatchInv, LoopOK, WaitForChanges, Debounced, ComputeAffected
<1>6. channel' \in Seq(SUBSET Changes) /\ changed' \subseteq Changes
  <2>1. CASE WaitForChanges
    <3>1. channel \in Seq(SUBSET Changes) /\ channel # <<>>
      BY <2>1 DEF WatchInv, FilesOK, WaitForChanges
    <3>2. Head(channel) \in SUBSET Changes /\ Tail(channel) \in Seq(SUBSET Changes)
      BY <3>1
    <3> QED
      BY <2>1, <3>2 DEF WaitForChanges
  <2>2. CASE Debounced \/ ComputeAffected
    BY <2>2 DEF WatchInv, FilesOK, Debounced, ComputeAffected
  <2> QED
    BY <2>1, <2>2
<1> QED
  BY <1>1, <1>2, <1>3, <1>5, <1>6 DEF WatchInv, LoopOK, FilesOK, StageAsked, vars

\* A request that fails is no longer under way.
LEMMA FailsStep ==
    ASSUME WatchInv, TimesOut \/ SendTimesOut
    PROVE  WatchInv'
<1>1. Fails
  BY DEF TimesOut, SendTimesOut
<1>2. /\ stage' = AfterTimeout(stage) /\ late' = TRUE
      /\ UNCHANGED <<storage, flushed, disk, graph, brewing, channel, changed, selected, fresh>>
  BY <1>1 DEF Fails, Goto
<1>3. stage \in Asking /\ asked'[W] = None /\ Parts'
  <2>1. CASE TimesOut
    <3>1. GiveUp(W) /\ asked[W] # None
      BY <2>1 DEF TimesOut, GiveUp
    <3>2. Client(W)
      BY <1>2, <3>1 DEF Client
    <3>3. Parts'
      BY <3>2, ClientStep, Watcher DEF WatchInv
    <3>4. asked'[W] = None
      BY <3>1, Watcher DEF GiveUp, WatchInv, Parts, Wire, PipesOK
    <3> QED
      BY <3>1, <3>3, <3>4 DEF WatchInv, StageAsked
  <2>2. CASE SendTimesOut
    <3>1. stage \in Asking /\ asked[W] = None /\ UNCHANGED <<server, pipes>>
      BY <2>2 DEF SendTimesOut
    <3>2. UNCHANGED vars
      BY <1>2, <3>1 DEF vars, server, pipes
    <3> QED
      BY <3>1, <3>2, StutterStep DEF WatchInv, pipes
  <2> QED
    BY <2>1, <2>2
<1>4. AfterTimeout(stage) \in {"exited", "relist", "idle"}
  BY <1>3 DEF AfterTimeout, Asking, Starting
<1>5. LoopOK'
  BY <1>2, <1>4 DEF WatchInv, LoopOK, Asking, Starting
<1> QED
  BY <1>2, <1>3, <1>5 DEF WatchInv, FilesOK, StageAsked

LEMMA LoopStep ==
    ASSUME WatchInv, Loop
    PROVE  WatchInv'
BY AskStep, TrackedStep, TakenStep, BetweenStep, FailsStep DEF Loop

-----------------------------------------------------------------------------
(* Files and daemon *)

LEMMA TouchStep ==
    ASSUME WatchInv, NEW f \in Changes, Touch(f)
    PROVE  WatchInv'
<1>1. /\ UNCHANGED <<server, storage, flushed, pipes, loop, late>>
      /\ brewing' = brewing \cup {f}
      /\ fresh' \subseteq fresh
  BY DEF Touch
<1>2. disk' \in [Repos -> SUBSET Tests]
  <2>1. disk \in [Repos -> SUBSET Tests] /\ Repo \in Repos
    BY Watcher, ServerAssumption DEF WatchInv, Parts, DataOK, Repo
  <2>2. PICK new \in SUBSET Tests :
          disk' = [disk EXCEPT ![Repo] = {t \in @ : FileOf[t] # f} \cup new]
    BY DEF Touch
  <2>3. {t \in disk[Repo] : FileOf[t] # f} \cup new \in SUBSET Tests
    BY <2>1, <2>2
  <2> QED
    BY <2>1, <2>2, <2>3
<1>3. Wire'
  BY <1>1 DEF WatchInv, Parts, Wire, PipesOK, ServedOnce, AnswersFitRequests, LiveIn, JobOf,
              server, pipes
<1>4. Parts'
  BY <1>1, <1>2, <1>3
  DEF WatchInv, Parts, DataOK, JobFits, Present, HashDescribesInventory, Working, server, pipes
<1>5. StageAsked'
  BY <1>1 DEF WatchInv, StageAsked, RequestOf, pipes, loop
<1> QED
  BY <1>1, <1>4, <1>5 DEF WatchInv, LoopOK, FilesOK, loop

LEMMA ReportStep ==
    ASSUME WatchInv, Report
    PROVE  WatchInv'
<1>1. /\ UNCHANGED <<vars, stage, graph, changed, selected, fresh, late>>
      /\ brewing' = {} /\ channel' = Append(channel, brewing)
  BY DEF Report
<1>2. channel' \in Seq(SUBSET Changes)
  BY <1>1 DEF WatchInv, FilesOK
<1>3. Parts'
  BY <1>1, StutterStep DEF WatchInv
<1>4. StageAsked'
  BY <1>1 DEF WatchInv, StageAsked, RequestOf, vars
<1> QED
  BY <1>1, <1>2, <1>3, <1>4 DEF WatchInv, LoopOK, FilesOK

\* Of the requests only a run makes the daemon run tests.
LEMMA RunningTests ==
    ASSUME Parts, NEW c \in Clients, Serve(c), daemon' = "running"
    PROVE  Message(c).req.nodes \subseteq Tests
<1>1. RunBegin(c)
  BY DEF Serve, InitContext, InitFails, NoSuchContext, CollectCached, CollectFails, CollectBegin,
         CollectNotCleared, Collects, List, GetInventory, Shutdown, Ping, Receive, Begin, server
<1>2. Message(c).req \in Request /\ Message(c).req.kind = "run"
  BY <1>1, Request_ DEF RunBegin
<1> QED
  BY <1>2, RunNodes

\* The daemon does not touch what its client asked for.
LEMMA ServeAsked ==
    ASSUME NEW c \in Clients, Serve(c)
    PROVE  asked' = asked
BY DEF Serve, InitContext, InitFails, NoSuchContext, CollectCached, CollectFails, CollectBegin,
       CollectNotCleared, Collects, RunBegin, List, GetInventory, Shutdown, Ping, Receive

LEMMA DaemonStep ==
    ASSUME WatchInv, Daemon
    PROVE  WatchInv'
<1>1. UNCHANGED <<loop, brewing, late>>
  BY DEF Daemon
<1>2. Parts' /\ asked' = asked /\ fresh' \subseteq Tests
  <2>1. CASE Serve(W) /\ fresh' = IF daemon' = "running"
                                  THEN fresh \cup Message(W).req.nodes ELSE fresh
    BY <2>1, ServeStep, ServeAsked, RunningTests, Watcher DEF WatchInv, FilesOK
  <2>2. CASE Finish /\ UNCHANGED fresh
    <3>1. asked' = asked
      BY <2>2 DEF Finish, CollectSave, CollectNotSaved, RunEnd, RunNotSaved, Done
    <3> QED
      BY <2>2, <3>1, FinishStep DEF WatchInv, FilesOK
  <2> QED
    BY <2>1, <2>2 DEF Daemon
<1>3. StageAsked'
  BY <1>1, <1>2 DEF WatchInv, StageAsked, RequestOf, loop
<1> QED
  BY <1>1, <1>2, <1>3 DEF WatchInv, LoopOK, FilesOK, loop

-----------------------------------------------------------------------------
(* Every step *)

LEMMA WatchInitial == WatchInit => WatchInv
<1> SUFFICES ASSUME WatchInit PROVE WatchInv
  OBVIOUS
<1>1. PICK known \in SUBSET Tests :
        /\ storage = known /\ flushed = known
        /\ \E context \in {None, [inv |-> known, hash |-> known]} :
              contexts = [k \in Keys |-> IF k = K THEN context ELSE None]
  BY DEF WatchInit
<1>2. PICK context \in {None, [inv |-> known, hash |-> known]} :
        contexts = [k \in Keys |-> IF k = K THEN context ELSE None]
  BY <1>1
<1>3. context \in Context \cup {None}
  BY <1>2 DEF Context
<1>4. DataOK
  BY <1>2, <1>1, <1>3 DEF WatchInit, DataOK
<1>5. Wire
  BY DEF WatchInit, Wire, PipesOK, ServedOnce, AnswersFitRequests, LiveIn, JobOf
<1>6. JobFits /\ daemon \in Doing /\ job \in Job \cup {None}
  BY DEF WatchInit, JobFits, Doing
<1>7. HashDescribesInventory
  BY <1>2 DEF HashDescribesInventory, Present
<1>8. Parts
  BY <1>4, <1>5, <1>6, <1>7 DEF Parts
<1>9. LoopOK
  <2>1. graph = [p \in {} |-> {}] /\ stage = "init" /\ selected = {}
    BY DEF WatchInit
  <2>2. DOMAIN graph = {}
    BY <2>1
  <2> QED
    BY <2>1, <2>2 DEF LoopOK, Asking, Starting
<1>10. FilesOK
  <2>1. brewing = {} /\ channel = <<>> /\ changed = {} /\ fresh = {} /\ late = FALSE
    BY DEF WatchInit
  <2>2. channel \in Seq(SUBSET Changes)
    BY <2>1
  <2> QED
    BY <2>1, <2>2 DEF FilesOK
<1>11. StageAsked
  BY Watcher DEF WatchInit, StageAsked
<1> QED
  BY <1>8, <1>9, <1>10, <1>11 DEF WatchInv

LEMMA WatchStep == WatchInv /\ [WatchNext]_allVars => WatchInv'
<1> SUFFICES ASSUME WatchInv, [WatchNext]_allVars PROVE WatchInv'
  OBVIOUS
<1>1. CASE \E f \in Changes : Touch(f)
  BY <1>1, TouchStep
<1>2. CASE Report
  BY <1>2, ReportStep
<1>3. CASE Loop
  BY <1>3, LoopStep
<1>4. CASE Daemon
  BY <1>4, DaemonStep
<1>5. CASE UNCHANGED allVars
  <2>1. Parts'
    BY <1>5, StutterStep DEF WatchInv, allVars
  <2>2. StageAsked'
    BY <1>5 DEF WatchInv, StageAsked, RequestOf, allVars, watchVars, loop, vars
  <2> QED
    BY <1>5, <2>1, <2>2 DEF WatchInv, LoopOK, FilesOK, allVars, watchVars, loop
<1> QED
  BY <1>1, <1>2, <1>3, <1>4, <1>5 DEF WatchNext

-----------------------------------------------------------------------------

(* The inductive invariant of handle_watch beside the daemon (main.rs:1024). *)
THEOREM WatchInvariance == WatchSpec => []WatchInv
<1> QED
  BY WatchInitial, WatchStep, PTL DEF WatchSpec

(* Type correctness of the loop, of the files and of the daemon it talks to. *)
THEOREM WatchTypeCorrect == WatchSpec => []WatchTypeOK
<1>1. WatchInv => WatchTypeOK
  BY DEF WatchInv, Parts, Wire, PipesOK, DataOK, Doing, TypeOK, LoopOK, FilesOK, WatchTypeOK
<1> QED
  BY <1>1, WatchInvariance, PTL

\* The answer on the loop's socket is one to the request of its stage.
StageAnswered ==
    answer[W] # None =>
        /\ stage \in Asking
        /\ asked[W] = RequestOf(stage)
        /\ answer[W].kind \in FitsRequest(RequestOf(stage).kind)

(* What the loop takes for the answer of a stage is an answer to the request of
   that stage, whatever timed out before and was answered late. *)
THEOREM StagesAnswered == WatchSpec => [](StageAnswered /\ ServedOnce /\ AnswersFitRequests)
<1>1. WatchInv => StageAnswered /\ ServedOnce /\ AnswersFitRequests
  BY Watcher DEF WatchInv, StageAsked, StageAnswered, Parts, Wire, AnswersFitRequests
<1> QED
  BY <1>1, WatchInvariance, PTL
=============================================================================

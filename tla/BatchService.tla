----------------------------- MODULE BatchService -----------------------------
(***************************************************************************)
(* What execute_parallel (rpytest-daemon/src/pool.rs) promises its caller, *)
(* with no worker, process or lock in sight: a call hands over tests in    *)
(* batches, each batch is answered once and as a whole, and the call       *)
(* returns when every batch is.                                            *)
(***************************************************************************)
CONSTANTS Batches, Tests

VARIABLES calling,  \* a call is under way
          split,    \* the batch each test of the call is in
          outcome   \* what the result list says of each test so far

vars == <<calling, split, outcome>>

Answered(b) == \A t \in Tests : split[t] = b => outcome[t] # "none"

Init ==
    /\ calling = FALSE
    /\ split \in [Tests -> Batches]
    /\ outcome = [t \in Tests |-> "none"]

Call ==
    /\ ~calling
    /\ calling' = TRUE
    /\ split' \in [Tests -> Batches]
    /\ outcome' = [t \in Tests |-> "none"]

\* A batch is answered with Python's report, which may leave tests out, or
\* with an Error for each of its tests; never with a mixture.
Answer(b) ==
    /\ calling
    /\ \A t \in Tests : split[t] = b => outcome[t] = "none"
    /\ \E t \in Tests : split[t] = b
    /\ \E kinds \in {{"error"}, {"reported", "missing"}} :
          \E answer \in [Tests -> kinds] :
             outcome' = [t \in Tests |-> IF split[t] = b THEN answer[t] ELSE outcome[t]]
    /\ UNCHANGED <<calling, split>>

Return ==
    /\ calling
    /\ \A b \in Batches : Answered(b)
    /\ calling' = FALSE
    /\ UNCHANGED <<split, outcome>>

Next == Call \/ (\E b \in Batches : Answer(b)) \/ Return

SafeSpec == Init /\ [][Next]_vars

Spec ==
    /\ SafeSpec
    /\ WF_vars(Return)
    /\ \A b \in Batches : WF_vars(Answer(b))
=============================================================================

---------------------------- MODULE RelayPromise ----------------------------
(***************************************************************************)
(* What the relay promises a caller, whatever happens to tabs, queues and  *)
(* the server: a request is acted on at most once and only after it was    *)
(* submitted, its caller is answered exactly once, "ok" is said only of a  *)
(* request that was acted on, and a request refused for want of a relay is *)
(* never acted on.  It does NOT promise that a caller told of a timeout or *)
(* a disconnection is safe to retry: Act stays possible after the answer.  *)
(***************************************************************************)
EXTENDS Naturals

CONSTANT Ids

VARIABLES
    open,      \* the callers that submitted a request and have no answer yet
    answer,    \* what each caller was told, "none" until then
    effects    \* how often the far system acted on each request

promiseVars == <<open, answer, effects>>

\* Answers that tell a caller its request was never accepted.
Rejections == {"inactive", "unreachable"}

PromiseInit ==
    /\ open = {}
    /\ answer = [i \in Ids |-> "none"]
    /\ effects = [i \in Ids |-> 0]

\* A request is accepted.
Submit(i) ==
    /\ i \notin open
    /\ answer[i] = "none"
    /\ open' = open \cup {i}
    /\ UNCHANGED <<answer, effects>>

\* A request is turned away before it was accepted.
Reject(i) ==
    /\ i \notin open
    /\ answer[i] = "none"
    /\ \E a \in Rejections : answer' = [answer EXCEPT ![i] = a]
    /\ UNCHANGED <<open, effects>>

\* The far system acts on an accepted request, its caller still there or not.
Act(i) ==
    /\ i \in open \/ answer[i] \notin {"none", "inactive"}
    /\ effects[i] = 0
    /\ effects' = [effects EXCEPT ![i] = 1]
    /\ UNCHANGED <<open, answer>>

\* Some open callers are answered at once: one by its result or its timeout, all
\* of them by a disconnection or a restart.
Settle(S) ==
    /\ S \subseteq open
    /\ S # {}
    /\ open' = open \ S
    /\ \E a \in {"ok", "refused", "failed", "timeout", "disconnected", "unreachable"} :
          /\ a = "ok" => \A i \in S : effects[i] = 1
          /\ answer' = [i \in Ids |-> IF i \in S THEN a ELSE answer[i]]
    /\ UNCHANGED effects

PromiseNext ==
    \/ \E i \in Ids : Submit(i) \/ Reject(i) \/ Act(i)
    \/ \E S \in SUBSET Ids : Settle(S)

PromiseSpec == PromiseInit /\ [][PromiseNext]_promiseVars
=============================================================================

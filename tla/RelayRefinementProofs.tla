------------------------ MODULE RelayRefinementProofs ------------------------
(***************************************************************************)
(* The channel, with its loops, its callers and its crashes, implements    *)
(* RelayPromise: every step is one the promise allows, or one it does not  *)
(* notice.                                                                 *)
(***************************************************************************)
EXTENDS RelayCustodyProofs

Open == {i \in Ids : callPc[i] \in {"posted", "waiting"}}

\* Every step of the channel is a step of the promise or leaves it alone.
LEMMA PromiseStep ==
    ASSUME TypeOK, Custody, NoLostWakeup, [Next]_vars
    PROVE  [Promise!PromiseNext]_(Promise!promiseVars)
  <1> DEFINE Goal == [Promise!PromiseNext]_(Promise!promiseVars)
  <1> USE DEF TypeOK
  <1>a. ASSUME \A i \in Ids : callPc'[i] \in {"posted", "waiting"} <=> callPc[i] \in {"posted", "waiting"},
               UNCHANGED <<answer, effects>>
        PROVE  Goal
    BY <1>a DEF Promise!promiseVars
  <1>b. ASSUME NEW S \in SUBSET Open, NEW a \in Answers \ {"none", "inactive"}, Answer(S, a),
               a = "ok" => \A i \in S : effects[i] = 1, effects' = effects
        PROVE  Goal
    <2>1. CASE S = {}
      <3>1. callPc' = callPc /\ answer' = answer
        BY <1>b, <2>1 DEF Answer
      <3> QED BY <1>a, <1>b, <3>1
    <2>2. CASE S # {}
      <3>1. S \in SUBSET Ids
        BY DEF Open
      <3>2. {i \in Ids : callPc'[i] \in {"posted", "waiting"}} = Open \ S
        BY <1>b, <3>1 DEF Answer, Open
      <3>3. a \in {"ok", "refused", "failed", "timeout", "disconnected", "unreachable"}
        BY DEF Answers
      <3>4. Promise!Settle(S)
        BY <1>b, <2>2, <3>2, <3>3 DEF Promise!Settle, Open, Answer
      <3> QED BY <3>1, <3>4 DEF Promise!PromiseNext
    <2> QED BY <2>1, <2>2
  <1>c. ASSUME NEW i \in Ids, callPc[i] = "new", callPc' = [callPc EXCEPT ![i] = "posted"]
                                              \/ callPc' = [callPc EXCEPT ![i] = "waiting"],
               UNCHANGED <<answer, effects>>
        PROVE  Goal
    <2>1. answer[i] = "none" /\ i \notin Open
      BY <1>c DEF Custody, ResultsAreReal, Open
    <2>2. {c \in Ids : callPc'[c] \in {"posted", "waiting"}} = Open \cup {i}
      BY <1>c DEF Open
    <2>3. Promise!Submit(i)
      BY <1>c, <2>1, <2>2 DEF Promise!Submit, Open
    <2> QED BY <2>3 DEF Promise!PromiseNext
  <1>d. ASSUME NEW i \in Ids, callPc[i] = "new", NEW a \in {"inactive", "unreachable"},
               Answer({i}, a), effects' = effects
        PROVE  Goal
    <2>1. answer[i] = "none" /\ i \notin Open
      BY <1>d DEF Custody, ResultsAreReal, Open
    <2>2. {c \in Ids : callPc'[c] \in {"posted", "waiting"}} = Open
      BY <1>d DEF Answer, Open
    <2>3. answer' = [answer EXCEPT ![i] = a]
      BY <1>d DEF Answer
    <2>4. Promise!Reject(i)
      BY <1>d, <2>1, <2>2, <2>3 DEF Promise!Reject, Promise!Rejections, Open
    <2> QED BY <2>4 DEF Promise!PromiseNext
  <1>e. resultWaiters \in SUBSET Open
    BY DEF NoLostWakeup, Open, Ids
  <1>f. /\ {"disconnected", "timeout", "unreachable"} \subseteq Answers \ {"none", "inactive"}
        /\ Results \ {"none"} \subseteq Answers \ {"none", "inactive"}
    BY DEF Answers, Results
  <1>0. CASE UNCHANGED vars
    BY <1>a, <1>0 DEF vars, callerVars
  <1>1. ASSUME NEW t \in Tabs, TabStep(t) PROVE Goal
    <2>1. ASSUME Register(t), effects' = effects PROVE Goal
      BY <1>b, <1>e, <1>f, <2>1 DEF Register, failPendingResultWaiters
    <2>2. CASE ClickBookmarklet(t)
      BY <2>1, <2>2 DEF ClickBookmarklet
    <2>3. CASE Reannounce(t)
      BY <1>a, <2>1, <2>3 DEF Reannounce, callerVars
    <2>4. CASE CloseTab(t)
      BY <1>b, <1>e, <1>f, <2>4 DEF CloseTab, failPendingResultWaiters
    <2>5. CASE PostResult(t)
      <3>1. /\ tabRequest[t] \in Ids
            /\ tabResult[t] \in Results \ {"none"}
            /\ tabResult[t] = "ok" => effects[tabRequest[t]] = 1
            /\ DeliverResult(tabRequest[t], tabResult[t])
            /\ effects' = effects
        BY <2>5 DEF PostResult, Custody, LoopsHoldRequests
      <3>2. CASE tabRequest[t] \in resultWaiters
        BY <1>b, <1>e, <1>f, <3>1, <3>2 DEF DeliverResult
      <3>3. CASE tabRequest[t] \notin resultWaiters
        BY <1>a, <3>1, <3>3 DEF DeliverResult, KeepResult, callerVars
      <3> QED BY <3>2, <3>3
    <2>6. CASE ExecuteRequest(t)
      <3> DEFINE i == tabRequest[t]
      <3>1. i \in Ids /\ effects[i] = 0 /\ UNCHANGED <<callPc, answer>>
        BY <2>6 DEF ExecuteRequest, Custody, LoopsHoldRequests, callerVars
      <3>2. i \in Open \/ answer[i] \notin {"none", "inactive"}
        <4>1. ~Unaccepted(i)
          BY <3>1, IdsAssumption DEF Custody, OnePlace
        <4> QED
          BY <3>1, <4>1 DEF Unaccepted, Open, Custody, ResultsAreReal
      <3>3. PICK acted \in {0, 1} : effects' = [effects EXCEPT ![i] = @ + acted]
        BY <2>6 DEF ExecuteRequest
      <3>4. CASE acted = 0
        <4>1. effects' = effects
          BY <3>1, <3>3, <3>4
        <4> QED BY <1>a, <3>1, <4>1
      <3>5. CASE acted = 1
        <4>1. effects' = [effects EXCEPT ![i] = 1]
          BY <3>1, <3>3, <3>5
        <4>2. Promise!Act(i)
          BY <3>1, <3>2, <4>1 DEF Promise!Act, Open
        <4> QED BY <3>1, <4>2 DEF Promise!PromiseNext
      <3> QED BY <3>3, <3>4, <3>5
    <2>7. CASE \/ TokenAppears(t) \/ ReportSessionToken(t) \/ Poll(t) \/ PollFails(t)
               \/ ResultPostFails(t) \/ CloseTabSilently(t)
      BY <1>a, <2>7 DEF TokenAppears, ReportSessionToken, Poll, PollFails, ResultPostFails,
                        CloseTabSilently, callerVars
    <2> QED
      BY <1>1, <2>2, <2>3, <2>4, <2>5, <2>6, <2>7 DEF TabStep, LoopStep
  <1>3. ASSUME NEW c \in Calls, CallStep(c) PROVE Goal
    <2>1. c \in Ids
      BY DEF Ids
    <2>2. CASE PostRequest(c)
      BY <1>c, <2>1, <2>2 DEF PostRequest
    <2>3. CASE CollectResult(c)
      <3>1. CASE pendingResults[c] # "none"
        <4>1. /\ pendingResults[c] \in Results \ {"none"}
              /\ pendingResults[c] = "ok" => effects[c] = 1
              /\ {c} \in SUBSET Open
          BY <2>1, <2>3, <3>1 DEF CollectResult, Custody, ResultsAreReal, Open
        <4> QED BY <1>b, <1>f, <2>3, <3>1, <4>1 DEF CollectResult
      <3>2. CASE pendingResults[c] = "none"
        BY <1>a, <2>1, <2>3, <3>2 DEF CollectResult
      <3> QED BY <3>1, <3>2
    <2>4. CASE CallUnreachable(c)
      <3>1. CASE callPc[c] = "new"
        BY <1>d, <2>1, <2>4, <3>1 DEF CallUnreachable
      <3>2. CASE callPc[c] = "posted"
        <4>1. {c} \in SUBSET Open
          BY <2>1, <3>2 DEF Open
        <4> QED BY <1>b, <1>f, <2>4, <4>1 DEF CallUnreachable
      <3> QED BY <2>4, <3>1, <3>2 DEF CallUnreachable
    <2>5. CASE ResultTimesOut(c)
      <3>1. {c} \in SUBSET Open
        BY <1>e, <2>5 DEF ResultTimesOut
      <3> QED BY <1>b, <1>f, <2>5, <3>1 DEF ResultTimesOut
    <2> QED BY <1>3, <2>2, <2>3, <2>4, <2>5 DEF CallStep
  <1>4. ASSUME NEW j \in Jobs, JobStep(j) PROVE Goal
    <2>1. j \in Ids
      BY DEF Ids
    <2>2. CASE SubmitRelayRequest(j)
      <3>1. CASE isRelayReady
        BY <1>c, <2>1, <2>2, <3>1 DEF SubmitRelayRequest
      <3>2. CASE ~isRelayReady
        BY <1>d, <2>1, <2>2, <3>2 DEF SubmitRelayRequest
      <3> QED BY <3>1, <3>2
    <2>3. CASE JobCollects(j)
      <3>1. /\ pendingResults[j] \in Results \ {"none"}
            /\ pendingResults[j] = "ok" => effects[j] = 1
            /\ {j} \in SUBSET Open
        BY <2>1, <2>3 DEF JobCollects, Custody, ResultsAreReal, Open
      <3> QED BY <1>b, <1>f, <2>3, <3>1 DEF JobCollects
    <2>4. CASE JobTimesOut(j)
      <3>1. {j} \in SUBSET Open
        BY <2>1, <2>4 DEF JobTimesOut, Open
      <3> QED BY <1>b, <1>f, <2>4, <3>1 DEF JobTimesOut
    <2> QED BY <1>4, <2>2, <2>3, <2>4 DEF JobStep
  <1>5. CASE PollTimesOut \/ HeartbeatGoesStale \/ Start
    BY <1>a, <1>5 DEF PollTimesOut, HeartbeatGoesStale, Start, callerVars
  <1>6. CASE Crash
    <2>1. {i \in Ids : callPc[i] = "waiting"} \in SUBSET Open
      BY DEF Open
    <2> QED BY <1>b, <1>f, <1>6, <2>1 DEF Crash
  <1> QED
    BY <1>0, <1>1, <1>3, <1>4, <1>5, <1>6 DEF Next

\* A fresh channel has no callers.
LEMMA PromiseInitially == Init => Promise!PromiseInit
  BY DEF Init, Promise!PromiseInit

\* The channel refines RelayPromise: whatever its tabs, timers and restarts do, a caller
\* is answered at most once, "ok" is true, and what was refused is never acted on.
THEOREM PromiseKept == Spec => KeepsPromise
  <1>1. TypeOK /\ Custody /\ NoLostWakeup /\ [Next]_vars
          => [Promise!PromiseNext]_(Promise!promiseVars)
    BY PromiseStep
  <1> QED
    BY <1>1, PromiseInitially, TypeCorrect, CustodyKept, WakeupsKept, PTL
       DEF Spec, KeepsPromise, Promise!PromiseSpec
=============================================================================

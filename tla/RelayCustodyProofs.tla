-------------------------- MODULE RelayCustodyProofs --------------------------
(***************************************************************************)
(* The safety of the relay, for any number of callers, loops, clicks and   *)
(* restarts.  Custody is the inductive invariant: its parts name each      *)
(* other, so each is preserved from the others, one lemma per part.        *)
(***************************************************************************)
EXTENDS RelayChannelProofs

\* Shifting a queue: every entry but the oldest moves up by one.
LEMMA ShiftedQueue ==
    ASSUME NEW S, NEW q \in Seq(S), q # <<>>
    PROVE  /\ Head(q) = q[1] /\ Head(q) \in S /\ 1 \in DOMAIN q
           /\ \A k \in DOMAIN Tail(q) :
                 /\ k \in Nat \ {0}
                 /\ Tail(q)[k] = q[k + 1]
                 /\ k + 1 \in DOMAIN q
  <1>1. /\ Tail(q) \in Seq(S)
        /\ Len(q) \in Nat \ {0}
        /\ Len(Tail(q)) = Len(q) - 1
        /\ \A k \in 1..Len(Tail(q)) : Tail(q)[k] = q[k + 1]
        /\ Head(q) = q[1] /\ Head(q) \in S
    BY HeadTail
  <1>2. DOMAIN q = 1..Len(q) /\ DOMAIN Tail(q) = 1..Len(Tail(q))
    BY <1>1
  <1> QED
    BY <1>1, <1>2

\* A held poll stays with the loop that waits for it, or with nobody.
LEMMA OwnedStep ==
    ASSUME TypeOK, PollsAreOwned, LoopsHoldRequests, [Next]_vars
    PROVE  PollsAreOwned'
  <1> USE TabsAssumption DEF PollsAreOwned, TypeOK
  <1>a. \A k \in DOMAIN pollWaiters : pollWaiters[k].tab \in Tabs \cup {Gone}
    <2>1. \A k \in DOMAIN pollWaiters : pollWaiters[k] \in Waiters
      OBVIOUS
    <2> QED
      BY <2>1 DEF Waiters
  <1>b. pollWaiters # <<>> =>
           /\ \A k \in DOMAIN Tail(pollWaiters) :
                 /\ k \in Nat
                 /\ Tail(pollWaiters)[k] = pollWaiters[k + 1]
                 /\ k + 1 \in DOMAIN pollWaiters
           /\ Head(pollWaiters) = pollWaiters[1] /\ 1 \in DOMAIN pollWaiters
    BY ShiftedQueue
  <1>c. ASSUME pollWaiters # <<>>,
               pollWaiters' = Tail(pollWaiters),
               \A u \in Tabs : u # Head(pollWaiters).tab => tabPc'[u] = tabPc[u]
        PROVE  PollsAreOwned'
    <2>1. \A k \in DOMAIN pollWaiters' :
             pollWaiters'[k].tab # Gone =>
               /\ pollWaiters'[k].tab # Head(pollWaiters).tab
               /\ pollWaiters'[k].tab \in Tabs
               /\ tabPc[pollWaiters'[k].tab] = "polling"
      BY <1>a, <1>b, <1>c
    <2>2. \A k, l \in DOMAIN pollWaiters' :
             k # l /\ pollWaiters'[k].tab # Gone => pollWaiters'[k].tab # pollWaiters'[l].tab
      BY <1>b, <1>c
    <2> QED
      BY <1>c, <2>1, <2>2
  <1>0. CASE UNCHANGED vars
    BY <1>0 DEF vars, queueVars, loopVars
  <1>1. ASSUME NEW t \in Tabs, TabStep(t) PROVE PollsAreOwned'
    <2>1. CASE ClickBookmarklet(t)
      BY <2>1 DEF ClickBookmarklet, Register
    <2>2. CASE TokenAppears(t)
      BY <1>a, <2>2 DEF TokenAppears, queueVars, loopVars
    <2>3. CASE ReportSessionToken(t)
      BY <1>a, <2>3 DEF ReportSessionToken, queueVars
    <2>4. CASE Poll(t)
      <3>1. CASE pendingRequests # <<>>
        BY <1>a, <2>4, <3>1 DEF Poll
      <3>2. CASE pendingRequests = <<>>
        <4>1. pollWaiters' = Append(pollWaiters,
                                [tab |-> t, shouldReregister |-> shouldReregister])
              /\ tabPc' = [tabPc EXCEPT ![t] = "polling"]
          BY <2>4, <3>2 DEF Poll
        <4>2. /\ DOMAIN pollWaiters' = 1..(Len(pollWaiters) + 1)
              /\ \A k \in DOMAIN pollWaiters : pollWaiters'[k] = pollWaiters[k]
              /\ pollWaiters'[Len(pollWaiters) + 1].tab = t
              /\ DOMAIN pollWaiters = 1..Len(pollWaiters) /\ Len(pollWaiters) \in Nat
          BY <4>1
        <4>3. \A k \in DOMAIN pollWaiters : pollWaiters[k].tab # t
          BY <2>4 DEF Poll
        <4> QED
          BY <1>a, <4>1, <4>2, <4>3
      <3> QED BY <3>1, <3>2
    <2>5. CASE PollFails(t)
      BY <1>a, <2>5 DEF PollFails, queueVars
    <2>6. CASE Reannounce(t)
      BY <1>a, <2>6 DEF Reannounce, Register, queueVars
    <2>7. CASE ExecuteRequest(t)
      BY <1>a, <2>7 DEF ExecuteRequest, queueVars
    <2>8. CASE PostResult(t)
      BY <1>a, <2>8 DEF PostResult
    <2>9. CASE ResultPostFails(t)
      BY <1>a, <2>9 DEF ResultPostFails, queueVars
    <2>10. CASE CloseTabSilently(t)
      BY <1>a, <2>10 DEF CloseTabSilently, Waiters
    <2>11. CASE CloseTab(t)
      BY <2>11 DEF CloseTab
    <2> QED
      BY <1>1, <2>1, <2>2, <2>3, <2>4, <2>5, <2>6, <2>7, <2>8, <2>9, <2>10, <2>11
         DEF TabStep, LoopStep
  <1>2. ASSUME NEW id, Enqueue(id) PROVE PollsAreOwned'
    <2>1. CASE pollWaiters = <<>>
      BY <1>2, <2>1 DEF Enqueue, loopVars
    <2>2. CASE pollWaiters # <<>>
      BY <1>c, <1>2, <2>2 DEF Enqueue
    <2> QED BY <2>1, <2>2
  <1>3. ASSUME NEW c \in Calls, CallStep(c) PROVE PollsAreOwned'
    BY <1>2, <1>3 DEF CallStep, PostRequest, CollectResult, CallUnreachable, ResultTimesOut,
                     queueVars, loopVars
  <1>4. ASSUME NEW j \in Jobs, JobStep(j) PROVE PollsAreOwned'
    BY <1>2, <1>4 DEF JobStep, SubmitRelayRequest, JobCollects, JobTimesOut, queueVars, loopVars
  <1>5. CASE PollTimesOut
    <2>1. /\ pollWaiters # <<>>
          /\ pollWaiters' = Tail(pollWaiters)
          /\ \A u \in Tabs : u # Head(pollWaiters).tab => tabPc'[u] = tabPc[u]
      BY <1>5 DEF PollTimesOut
    <2> QED
      BY <1>c, <2>1
  <1>6. CASE HeartbeatGoesStale
    BY <1>6 DEF HeartbeatGoesStale, queueVars, loopVars
  <1>7. CASE Crash
    BY <1>7 DEF Crash
  <1>8. CASE Start
    BY <1>8 DEF Start, queueVars, loopVars
  <1> QED
    BY <1>0, <1>1, <1>3, <1>4, <1>5, <1>6, <1>7, <1>8 DEF Next

\* Every loop goes on holding the request its place in the code says it holds.
LEMMA LoopsStep ==
    ASSUME TypeOK, PollsAreOwned, LoopsHoldRequests, OnePlace, [Next]_vars
    PROVE  LoopsHoldRequests'
  <1> USE TabsAssumption, IdsAssumption, OutcomesAssumption
      DEF LoopsHoldRequests, TypeOK, Results, TabPcs
  <1>0. CASE UNCHANGED vars
    BY <1>0 DEF vars, loopVars
  <1>1. ASSUME NEW t \in Tabs, TabStep(t) PROVE LoopsHoldRequests'
    <2>1. CASE ClickBookmarklet(t)
      BY <2>1 DEF ClickBookmarklet
    <2>2. CASE TokenAppears(t)
      BY <2>2 DEF TokenAppears, loopVars
    <2>3. CASE ReportSessionToken(t)
      BY <2>3 DEF ReportSessionToken
    <2>4. CASE Poll(t)
      <3>1. CASE pendingRequests # <<>>
        <4>1. Head(pendingRequests) = pendingRequests[1] /\ 1 \in DOMAIN pendingRequests
          BY <3>1, HeadTail
        <4>2. Head(pendingRequests) \in Ids /\ effects[Head(pendingRequests)] = 0
          BY <3>1, <4>1, HeadTail DEF OnePlace
        <4>3. tabRequest[t] = NoRequest /\ tabResult[t] = "none"
          BY <2>4 DEF Poll
        <4>4. /\ tabPc'[t] \in {"reannouncing", "executing"}
              /\ tabRequest'[t] = Head(pendingRequests)
              /\ \A u \in Tabs : u # t => tabPc'[u] = tabPc[u] /\ tabRequest'[u] = tabRequest[u]
              /\ UNCHANGED <<tabResult, effects>>
          BY <2>4, <3>1, <4>2 DEF Poll, AfterPoll
        <4> QED BY <4>2, <4>3, <4>4
      <3>2. CASE pendingRequests = <<>>
        BY <2>4, <3>2 DEF Poll
      <3> QED BY <3>1, <3>2
    <2>5. CASE PollFails(t)
      BY <2>5 DEF PollFails
    <2>6. CASE Reannounce(t)
      BY <2>6 DEF Reannounce, AfterPoll
    <2>7. CASE ExecuteRequest(t)
      <3>1. PICK outcome \in Outcomes, next \in {"posting", "reposting"},
                 acted \in {0, 1} :
              /\ tabResult' = [tabResult EXCEPT ![t] = outcome]
              /\ effects' = [effects EXCEPT ![tabRequest[t]] = @ + acted]
              /\ outcome = "ok" => acted = 1
              /\ tabPc' = [tabPc EXCEPT ![t] = next]
        BY <2>7 DEF ExecuteRequest
      <3>2. tabRequest' = tabRequest /\ tabPc[t] = "executing" /\ tabRequest[t] \in Ids
        BY <2>7 DEF ExecuteRequest
      <3>3. \A u \in Tabs : u # t => tabRequest[u] # tabRequest[t]
        BY <3>2 DEF OnePlace
      <3>4. outcome \in {"ok", "refused", "failed"}
        OBVIOUS
      <3>5. /\ \A u \in Tabs : u # t =>
                 /\ tabPc'[u] = tabPc[u]
                 /\ tabResult'[u] = tabResult[u]
                 /\ tabRequest[u] \in Ids => effects'[tabRequest[u]] = effects[tabRequest[u]]
            /\ tabPc'[t] = next /\ tabResult'[t] = outcome
            /\ effects'[tabRequest[t]] = effects[tabRequest[t]] + acted
        BY <3>1, <3>2, <3>3
      <3>6. effects[tabRequest[t]] = 0
        BY <3>2
      <3> QED BY <3>1, <3>2, <3>4, <3>5, <3>6
    <2>8. CASE PostResult(t)
      BY <2>8 DEF PostResult
    <2>9. CASE ResultPostFails(t)
      BY <2>9 DEF ResultPostFails
    <2>10. CASE CloseTabSilently(t)
      BY <2>10 DEF CloseTabSilently
    <2>11. CASE CloseTab(t)
      BY <2>11 DEF CloseTab
    <2> QED
      BY <1>1, <2>1, <2>2, <2>3, <2>4, <2>5, <2>6, <2>7, <2>8, <2>9, <2>10, <2>11
         DEF TabStep, LoopStep
  <1>2. ASSUME NEW i \in Ids, callPc[i] = "new", Enqueue(i), effects' = effects
        PROVE  LoopsHoldRequests'
    <2>1. CASE pollWaiters = <<>>
      BY <1>2, <2>1 DEF Enqueue, loopVars
    <2>2. CASE pollWaiters # <<>>
      <3>1. effects[i] = 0
        BY <1>2 DEF OnePlace, Unaccepted
      <3>2. \A t \in Tabs : t = Head(pollWaiters).tab =>
               tabPc[t] = "polling" /\ tabRequest[t] = NoRequest /\ tabResult[t] = "none"
        BY <2>2, HeadTail DEF PollsAreOwned
      <3> QED BY <1>2, <2>2, <3>1, <3>2 DEF Enqueue, AfterPoll
    <2> QED BY <2>1, <2>2
  <1>3. ASSUME NEW c \in Calls, CallStep(c) PROVE LoopsHoldRequests'
    BY <1>2, <1>3 DEF Ids, CallStep, PostRequest, CollectResult, CallUnreachable, ResultTimesOut,
                     loopVars
  <1>4. ASSUME NEW j \in Jobs, JobStep(j) PROVE LoopsHoldRequests'
    BY <1>2, <1>4 DEF Ids, JobStep, SubmitRelayRequest, JobCollects, JobTimesOut, loopVars
  <1>5. CASE PollTimesOut
    <2>1. \A t \in Tabs : t = Head(pollWaiters).tab =>
             tabPc[t] = "polling" /\ tabRequest[t] = NoRequest /\ tabResult[t] = "none"
      BY <1>5, HeadTail DEF PollTimesOut, PollsAreOwned
    <2> QED BY <1>5, <2>1 DEF PollTimesOut, AfterPoll
  <1>6. CASE HeartbeatGoesStale
    BY <1>6 DEF HeartbeatGoesStale, loopVars
  <1>7. CASE Crash
    BY <1>7 DEF Crash
  <1>8. CASE Start
    BY <1>8 DEF Start, loopVars
  <1> QED
    BY <1>0, <1>1, <1>3, <1>4, <1>5, <1>6, <1>7, <1>8 DEF Next

\* No step puts a request in two places or brings back one that was carried out.
LEMMA OnePlaceStep ==
    ASSUME TypeOK, PollsAreOwned, LoopsHoldRequests, OnePlace, ResultsAreReal, [Next]_vars
    PROVE  OnePlace'
  <1> USE IdsAssumption DEF OnePlace, Unaccepted, TypeOK
  <1>a. ASSUME pendingRequests' \in {pendingRequests, <<>>},
               tabRequest' \in [Tabs -> Ids \cup {NoRequest}],
               \A t \in Tabs : tabRequest'[t] \in {tabRequest[t], NoRequest},
               effects' = effects,
               \A i \in Ids : Unaccepted(i)' => Unaccepted(i)
        PROVE  OnePlace'
    BY <1>a
  <1>0. CASE UNCHANGED vars
    BY <1>0 DEF vars, queueVars, loopVars, callerVars
  <1>1. ASSUME NEW t \in Tabs, TabStep(t) PROVE OnePlace'
    <2>1. CASE ClickBookmarklet(t)
      BY <1>a, <2>1 DEF ClickBookmarklet, Register, failPendingResultWaiters, Answer
    <2>2. CASE TokenAppears(t)
      BY <1>a, <2>2 DEF TokenAppears, loopVars, queueVars, callerVars
    <2>3. CASE ReportSessionToken(t)
      BY <1>a, <2>3 DEF ReportSessionToken, queueVars, callerVars
    <2>4. CASE Poll(t)
      <3>1. CASE pendingRequests # <<>>
        <4>1. /\ pendingRequests' = Tail(pendingRequests)
              /\ tabRequest' = [tabRequest EXCEPT ![t] = Head(pendingRequests)]
              /\ UNCHANGED <<effects, callPc, answer>>
              /\ tabRequest[t] = NoRequest
          BY <2>4, <3>1 DEF Poll, Shifted, callerVars, LoopsHoldRequests
        <4>2. /\ Head(pendingRequests) = pendingRequests[1] /\ 1 \in DOMAIN pendingRequests
              /\ Head(pendingRequests) \in Ids
              /\ \A k \in DOMAIN Tail(pendingRequests) :
                    /\ k \in Nat \ {0}
                    /\ Tail(pendingRequests)[k] = pendingRequests[k + 1]
                    /\ k + 1 \in DOMAIN pendingRequests
          BY <3>1, ShiftedQueue
        <4>3. \A i \in Ids : Unaccepted(i) =>
                 i # Head(pendingRequests) /\ \A u \in Tabs : tabRequest'[u] # i
          BY <4>1, <4>2
        <4>4. \A k \in DOMAIN pendingRequests' :
                 /\ effects[pendingRequests'[k]] = 0
                 /\ pendingRequests'[k] # Head(pendingRequests)
                 /\ \A u \in Tabs : tabRequest'[u] # pendingRequests'[k]
          BY <4>1, <4>2
        <4>5. \A u \in Tabs : tabRequest[u] # Head(pendingRequests)
          BY <4>2
        <4> QED BY <4>1, <4>2, <4>3, <4>4, <4>5
      <3>2. CASE pendingRequests = <<>>
        BY <1>a, <2>4, <3>2 DEF Poll, callerVars
      <3> QED BY <3>1, <3>2
    <2>5. CASE PollFails(t)
      BY <1>a, <2>5 DEF PollFails, queueVars, callerVars
    <2>6. CASE Reannounce(t)
      BY <1>a, <2>6 DEF Reannounce, Register, failPendingResultWaiters, Answer, queueVars,
                       callerVars
    <2>7. CASE ExecuteRequest(t)
      <3>1. /\ \A i \in Ids : i # tabRequest[t] => effects'[i] = effects[i]
            /\ UNCHANGED <<pendingRequests, callPc, answer, tabRequest>>
            /\ tabRequest[t] # NoRequest
        BY <2>7 DEF ExecuteRequest, LoopsHoldRequests, queueVars, callerVars
      <3> QED BY <3>1
    <2>8. CASE PostResult(t)
      <3>1. /\ tabResult[t] \in Results
            /\ DeliverResult(tabRequest[t], tabResult[t])
            /\ UNCHANGED <<effects, pendingRequests>>
            /\ tabRequest' = [tabRequest EXCEPT ![t] = NoRequest]
        BY <2>8 DEF PostResult
      <3>2. \A i \in Ids : Unaccepted(i)' => Unaccepted(i)
        BY <3>1 DEF DeliverResult, KeepResult, Answer, callerVars, Results
      <3> QED BY <1>a, <3>1, <3>2
    <2>9. CASE ResultPostFails(t)
      BY <1>a, <2>9 DEF ResultPostFails, queueVars, callerVars
    <2>10. CASE CloseTabSilently(t)
      BY <1>a, <2>10 DEF CloseTabSilently, callerVars
    <2>11. CASE CloseTab(t)
      BY <1>a, <2>11 DEF CloseTab, failPendingResultWaiters, Answer
    <2> QED
      BY <1>1, <2>1, <2>2, <2>3, <2>4, <2>5, <2>6, <2>7, <2>8, <2>9, <2>10, <2>11
         DEF TabStep, LoopStep
  <1>2. ASSUME NEW i \in Ids, Enqueue(i), effects' = effects,
               callPc[i] = "new", ~Unaccepted(i)', answer' = answer,
               \A c \in Ids : c # i => callPc'[c] = callPc[c]
        PROVE  OnePlace'
    <2>0. /\ effects[i] = 0
          /\ \A k \in DOMAIN pendingRequests : pendingRequests[k] # i
          /\ \A t \in Tabs : tabRequest[t] # i
      BY <1>2
    <2>1. CASE pollWaiters = <<>>
      <3>1. /\ pendingRequests' = Append(pendingRequests, i)
            /\ tabRequest' = tabRequest
        BY <1>2, <2>1 DEF Enqueue, loopVars
      <3>2. /\ DOMAIN pendingRequests' = 1..(Len(pendingRequests) + 1)
            /\ \A k \in DOMAIN pendingRequests : pendingRequests'[k] = pendingRequests[k]
            /\ pendingRequests'[Len(pendingRequests) + 1] = i
            /\ DOMAIN pendingRequests = 1..Len(pendingRequests) /\ Len(pendingRequests) \in Nat
        BY <3>1
      <3> QED BY <1>2, <2>0, <3>1, <3>2
    <2>2. CASE pollWaiters # <<>>
      <3>1. /\ pendingRequests' = pendingRequests
            /\ tabRequest' = [t \in Tabs |-> IF t = Head(pollWaiters).tab THEN i
                                             ELSE tabRequest[t]]
        BY <1>2, <2>2 DEF Enqueue
      <3> QED BY <1>2, <2>0, <3>1
    <2> QED BY <2>1, <2>2
  <1>3. ASSUME NEW c \in Calls, CallStep(c) PROVE OnePlace'
    <2>1. c \in Ids
      BY DEF Ids
    <2>2. CASE PostRequest(c)
      BY <1>2, <2>1, <2>2 DEF PostRequest, ResultsAreReal
    <2>3. CASE CollectResult(c)
      <3>1. pendingResults[c] \in Results /\ callPc[c] = "posted"
        BY <2>1, <2>3 DEF CollectResult
      <3>2. \A i \in Ids : Unaccepted(i)' => Unaccepted(i)
        BY <2>1, <2>3, <3>1 DEF CollectResult, Answer, Results
      <3> QED BY <1>a, <2>3, <3>2 DEF CollectResult, loopVars
    <2>4. CASE CallUnreachable(c)
      BY <1>a, <2>1, <2>4 DEF CallUnreachable, Answer, loopVars, queueVars
    <2>5. CASE ResultTimesOut(c)
      BY <1>a, <2>1, <2>5 DEF ResultTimesOut, Answer, loopVars
    <2> QED BY <1>3, <2>2, <2>3, <2>4, <2>5 DEF CallStep
  <1>4. ASSUME NEW j \in Jobs, JobStep(j) PROVE OnePlace'
    <2>1. j \in Ids
      BY DEF Ids
    <2>2. CASE SubmitRelayRequest(j)
      <3>1. CASE isRelayReady
        BY <1>2, <2>1, <2>2, <3>1 DEF SubmitRelayRequest, ResultsAreReal
      <3>2. CASE ~isRelayReady
        BY <1>a, <2>1, <2>2, <3>2 DEF SubmitRelayRequest, Answer, loopVars
      <3> QED BY <3>1, <3>2
    <2>3. CASE JobCollects(j)
      BY <1>a, <2>1, <2>3 DEF JobCollects, Answer, loopVars, Results
    <2>4. CASE JobTimesOut(j)
      BY <1>a, <2>1, <2>4 DEF JobTimesOut, Answer, loopVars, queueVars
    <2> QED BY <1>4, <2>2, <2>3, <2>4 DEF JobStep
  <1>5. CASE PollTimesOut
    BY <1>a, <1>5 DEF PollTimesOut, callerVars
  <1>6. CASE HeartbeatGoesStale
    BY <1>a, <1>6 DEF HeartbeatGoesStale, loopVars, queueVars, callerVars
  <1>7. CASE Crash
    BY <1>a, <1>7 DEF Crash, Answer
  <1>8. CASE Start
    BY <1>a, <1>8 DEF Start, loopVars, queueVars, callerVars
  <1> QED
    BY <1>0, <1>1, <1>3, <1>4, <1>5, <1>6, <1>7, <1>8 DEF Next

\* Stored results and given answers stay true, and nothing is carried out twice.
LEMMA AnswersStep ==
    ASSUME TypeOK, LoopsHoldRequests, OnePlace, ResultsAreReal, AtMostOnce, OkMeansDone,
           [Next]_vars
    PROVE  ResultsAreReal' /\ AtMostOnce' /\ OkMeansDone'
  <1> USE IdsAssumption DEF ResultsAreReal, AtMostOnce, OkMeansDone, TypeOK
  <1> DEFINE Good == ResultsAreReal' /\ AtMostOnce' /\ OkMeansDone'
  <1>a. ASSUME \A i \in Ids : pendingResults'[i] \in {pendingResults[i], "none"},
               effects' = effects, UNCHANGED callerVars
        PROVE  Good
    BY <1>a DEF callerVars
  <1>b. ASSUME \A i \in Ids : pendingResults'[i] \in {pendingResults[i], "none"},
               effects' = effects, NEW S, NEW a \in Answers \ {"none"}, Answer(S, a),
               a = "ok" => \A i \in S \cap Ids : effects[i] = 1
        PROVE  Good
    BY <1>b DEF Answer
  <1>c. ASSUME pendingResults' = pendingResults, effects' = effects, answer' = answer,
               \A i \in Ids : callPc'[i] = "done" <=> callPc[i] = "done"
        PROVE  Good
    BY <1>c
  <1>d. "disconnected" \in Answers \ {"none"} /\ "timeout" \in Answers \ {"none"}
        /\ "unreachable" \in Answers \ {"none"} /\ "inactive" \in Answers \ {"none"}
        /\ Results \subseteq Answers /\ \A i \in Ids : NoResults[i] = "none"
    BY DEF Answers, Results, NoResults
  <1>0. CASE UNCHANGED vars
    BY <1>a, <1>0 DEF vars, queueVars
  <1>1. ASSUME NEW t \in Tabs, TabStep(t) PROVE Good
    <2>1. CASE ClickBookmarklet(t)
      BY <1>b, <1>d, <2>1 DEF ClickBookmarklet, Register, failPendingResultWaiters
    <2>2. CASE TokenAppears(t)
      BY <1>a, <2>2 DEF TokenAppears, queueVars
    <2>3. CASE ReportSessionToken(t)
      BY <1>a, <2>3 DEF ReportSessionToken, queueVars
    <2>4. CASE Poll(t)
      BY <1>a, <2>4 DEF Poll
    <2>5. CASE PollFails(t)
      BY <1>a, <2>5 DEF PollFails, queueVars
    <2>6. CASE Reannounce(t)
      <3>1. CASE serverUp
        BY <1>b, <1>d, <2>6, <3>1 DEF Reannounce, Register, failPendingResultWaiters
      <3>2. CASE ~serverUp
        BY <1>a, <2>6, <3>2 DEF Reannounce, queueVars
      <3> QED BY <3>1, <3>2
    <2>7. CASE ExecuteRequest(t)
      <3>1. PICK acted \in {0, 1} : effects' = [effects EXCEPT ![tabRequest[t]] = @ + acted]
        BY <2>7 DEF ExecuteRequest
      <3>2. /\ tabRequest[t] \in Ids /\ effects[tabRequest[t]] = 0
            /\ UNCHANGED <<pendingResults, callPc, answer>>
        BY <2>7 DEF ExecuteRequest, LoopsHoldRequests, queueVars, callerVars
      <3> QED BY <3>1, <3>2
    <2>8. CASE PostResult(t)
      <3>1. /\ tabRequest[t] \in Ids
            /\ tabResult[t] \in Results \ {"none"}
            /\ tabResult[t] = "ok" => effects[tabRequest[t]] = 1
            /\ DeliverResult(tabRequest[t], tabResult[t])
            /\ effects' = effects
        BY <2>8 DEF PostResult, LoopsHoldRequests
      <3>2. CASE tabRequest[t] \in resultWaiters
        BY <1>b, <1>d, <3>1, <3>2 DEF DeliverResult
      <3>3. CASE tabRequest[t] \notin resultWaiters
        BY <3>1, <3>3 DEF DeliverResult, KeepResult, callerVars
      <3> QED BY <3>2, <3>3
    <2>9. CASE ResultPostFails(t)
      BY <1>a, <2>9 DEF ResultPostFails, queueVars
    <2>10. CASE CloseTabSilently(t)
      BY <1>a, <2>10 DEF CloseTabSilently
    <2>11. CASE CloseTab(t)
      BY <1>b, <1>d, <2>11 DEF CloseTab, failPendingResultWaiters
    <2> QED
      BY <1>1, <2>1, <2>2, <2>3, <2>4, <2>5, <2>6, <2>7, <2>8, <2>9, <2>10, <2>11
         DEF TabStep, LoopStep
  <1>3. ASSUME NEW c \in Calls, CallStep(c) PROVE Good
    <2>1. c \in Ids
      BY DEF Ids
    <2>2. CASE PostRequest(c)
      BY <1>c, <2>1, <2>2 DEF PostRequest
    <2>3. CASE CollectResult(c)
      <3>1. CASE pendingResults[c] # "none"
        <4>1. /\ pendingResults[c] \in Answers \ {"none"}
              /\ Answer({c}, pendingResults[c])
              /\ pendingResults' = [pendingResults EXCEPT ![c] = "none"]
              /\ effects' = effects
          BY <1>d, <2>1, <2>3, <3>1 DEF CollectResult
        <4> QED BY <1>b, <2>1, <4>1
      <3>2. CASE pendingResults[c] = "none"
        BY <1>c, <2>1, <2>3, <3>2 DEF CollectResult
      <3> QED BY <3>1, <3>2
    <2>4. CASE CallUnreachable(c)
      BY <1>b, <1>d, <2>4 DEF CallUnreachable, queueVars
    <2>5. CASE ResultTimesOut(c)
      BY <1>b, <1>d, <2>5 DEF ResultTimesOut
    <2> QED BY <1>3, <2>2, <2>3, <2>4, <2>5 DEF CallStep
  <1>4. ASSUME NEW j \in Jobs, JobStep(j) PROVE Good
    <2>1. j \in Ids
      BY DEF Ids
    <2>2. CASE SubmitRelayRequest(j)
      <3>1. CASE isRelayReady
        BY <1>c, <2>1, <2>2, <3>1 DEF SubmitRelayRequest
      <3>2. CASE ~isRelayReady
        BY <1>b, <1>d, <2>2, <3>2 DEF SubmitRelayRequest
      <3> QED BY <3>1, <3>2
    <2>3. CASE JobCollects(j)
      <3>1. /\ pendingResults[j] \in Answers \ {"none"}
            /\ Answer({j}, pendingResults[j])
            /\ pendingResults' = [pendingResults EXCEPT ![j] = "none"]
            /\ effects' = effects
        BY <1>d, <2>1, <2>3 DEF JobCollects
      <3> QED BY <1>b, <2>1, <3>1
    <2>4. CASE JobTimesOut(j)
      BY <1>b, <1>d, <2>4 DEF JobTimesOut, queueVars
    <2> QED BY <1>4, <2>2, <2>3, <2>4 DEF JobStep
  <1>5. CASE PollTimesOut
    BY <1>a, <1>5 DEF PollTimesOut
  <1>6. CASE HeartbeatGoesStale
    BY <1>a, <1>6 DEF HeartbeatGoesStale, queueVars
  <1>7. CASE Crash
    BY <1>b, <1>d, <1>7 DEF Crash
  <1>8. CASE Start
    BY <1>a, <1>8 DEF Start, queueVars
  <1> QED
    BY <1>0, <1>1, <1>3, <1>4, <1>5, <1>6, <1>7, <1>8 DEF Next

\* Neither a request, a poll nor a vanishing tab leaves work beside a held poll.
LEMMA IdleStep ==
    ASSUME TypeOK, NoIdleQueue, [Next]_vars
    PROVE  NoIdleQueue'
  <1> USE DEF NoIdleQueue, TypeOK
  <1>a. ASSUME pendingRequests' \in {pendingRequests, <<>>}, pollWaiters' \in {pollWaiters, <<>>}
        PROVE  NoIdleQueue'
    BY <1>a
  <1>0. CASE UNCHANGED vars
    BY <1>0 DEF vars, queueVars
  <1>1. ASSUME NEW t \in Tabs, TabStep(t) PROVE NoIdleQueue'
    <2>1. CASE CloseTabSilently(t)
      <3>1. DOMAIN pollWaiters' = DOMAIN pollWaiters /\ pendingRequests' = pendingRequests
        BY <2>1 DEF CloseTabSilently
      <3>2. pollWaiters = <<>> => pollWaiters' = <<>>
        BY <2>1 DEF CloseTabSilently
      <3> QED BY <3>1, <3>2
    <2>2. CASE Poll(t)
      <3>1. CASE pendingRequests # <<>>
        BY <2>2, <3>1 DEF Poll
      <3>2. CASE pendingRequests = <<>>
        BY <2>2, <3>2 DEF Poll
      <3> QED BY <3>1, <3>2
    <2>3. CASE ~CloseTabSilently(t) /\ ~Poll(t)
      BY <1>a, <1>1, <2>3
         DEF TabStep, LoopStep, ClickBookmarklet, Register, TokenAppears, ReportSessionToken,
             PollFails, Reannounce, ExecuteRequest, PostResult, ResultPostFails, CloseTab, queueVars
    <2> QED BY <2>1, <2>2, <2>3
  <1>2. ASSUME NEW id, Enqueue(id) PROVE NoIdleQueue'
    BY <1>2 DEF Enqueue, EnqueueOnly
  <1>3. ASSUME NEW c \in Calls, CallStep(c) PROVE NoIdleQueue'
    BY <1>2, <1>3 DEF CallStep, PostRequest, CollectResult, CallUnreachable, ResultTimesOut,
                     queueVars
  <1>4. ASSUME NEW j \in Jobs, JobStep(j) PROVE NoIdleQueue'
    BY <1>2, <1>4 DEF JobStep, SubmitRelayRequest, JobCollects, JobTimesOut, queueVars
  <1>5. CASE PollTimesOut \/ HeartbeatGoesStale \/ Crash \/ Start
    BY <1>a, <1>5 DEF PollTimesOut, HeartbeatGoesStale, Crash, Start, queueVars
  <1> QED
    BY <1>0, <1>1, <1>3, <1>4, <1>5 DEF Next

\* Answers, results and held responses of front-end callers stay in step.
LEMMA WakeupStep ==
    ASSUME TypeOK, NoLostWakeup, [Next]_vars
    PROVE  NoLostWakeup'
  <1> USE IdsAssumption DEF NoLostWakeup, TypeOK, Ids
  <1>a. ASSUME UNCHANGED <<callPc, resultWaiters>>,
               \A c \in Calls : pendingResults'[c] \in {pendingResults[c], "none"}
        PROVE  NoLostWakeup'
    BY <1>a
  <1>b. ASSUME NEW S \in SUBSET Ids, NEW a, Answer(S, a), resultWaiters' = resultWaiters \ S,
               \A c \in Calls : pendingResults'[c] \in {pendingResults[c], "none"}
        PROVE  NoLostWakeup'
    BY <1>b DEF Answer
  <1>c. \A c \in Calls : NoResults[c] = "none"
    BY DEF NoResults
  <1>0. CASE UNCHANGED vars
    BY <1>a, <1>0 DEF vars, queueVars, callerVars
  <1>1. ASSUME NEW t \in Tabs, TabStep(t) PROVE NoLostWakeup'
    <2>1. ASSUME Register(t) PROVE NoLostWakeup'
      BY <1>b, <1>c, <2>1 DEF Register, failPendingResultWaiters
    <2>2. CASE ClickBookmarklet(t)
      BY <2>1, <2>2 DEF ClickBookmarklet
    <2>3. CASE Reannounce(t)
      BY <1>a, <2>1, <2>3 DEF Reannounce, queueVars, callerVars
    <2>4. CASE CloseTab(t)
      BY <1>b, <2>4 DEF CloseTab, failPendingResultWaiters
    <2>5. CASE PostResult(t)
      <3>1. DeliverResult(tabRequest[t], tabResult[t])
        BY <2>5 DEF PostResult
      <3>2. CASE tabRequest[t] \in resultWaiters
        BY <1>b, <3>1, <3>2 DEF DeliverResult
      <3>3. CASE tabRequest[t] \notin resultWaiters
        BY <3>1, <3>3 DEF DeliverResult, KeepResult, callerVars
      <3> QED BY <3>2, <3>3
    <2>6. CASE \/ TokenAppears(t) \/ ReportSessionToken(t) \/ Poll(t) \/ PollFails(t)
               \/ ExecuteRequest(t) \/ ResultPostFails(t) \/ CloseTabSilently(t)
      BY <1>a, <2>6 DEF TokenAppears, ReportSessionToken, Poll, PollFails, ExecuteRequest,
                        ResultPostFails, CloseTabSilently, queueVars, callerVars
    <2> QED
      BY <1>1, <2>2, <2>3, <2>4, <2>5, <2>6 DEF TabStep, LoopStep
  <1>3. ASSUME NEW c \in Calls, CallStep(c) PROVE NoLostWakeup'
    <2>1. CASE PostRequest(c)
      BY <2>1 DEF PostRequest
    <2>2. CASE CollectResult(c)
      <3>1. CASE pendingResults[c] # "none"
        <4>1. c \notin resultWaiters
          BY <2>2 DEF CollectResult
        <4> QED BY <1>b, <2>2, <3>1, <4>1 DEF CollectResult
      <3>2. CASE pendingResults[c] = "none"
        BY <2>2, <3>2 DEF CollectResult
      <3> QED BY <3>1, <3>2
    <2>3. CASE CallUnreachable(c)
      <3>1. c \notin resultWaiters
        BY <2>3 DEF CallUnreachable
      <3> QED BY <1>b, <2>3, <3>1 DEF CallUnreachable, queueVars
    <2>4. CASE ResultTimesOut(c)
      BY <1>b, <2>4 DEF ResultTimesOut
    <2> QED BY <1>3, <2>1, <2>2, <2>3, <2>4 DEF CallStep
  <1>4. ASSUME NEW j \in Jobs, JobStep(j) PROVE NoLostWakeup'
    <2>1. j \notin Calls
      OBVIOUS
    <2>2. CASE SubmitRelayRequest(j)
      BY <2>1, <2>2 DEF SubmitRelayRequest, Answer
    <2>3. CASE JobCollects(j)
      BY <2>1, <2>3 DEF JobCollects, Answer
    <2>4. CASE JobTimesOut(j)
      BY <2>1, <2>4 DEF JobTimesOut, Answer, queueVars
    <2> QED BY <1>4, <2>2, <2>3, <2>4 DEF JobStep
  <1>5. CASE PollTimesOut \/ HeartbeatGoesStale \/ Start
    BY <1>a, <1>5 DEF PollTimesOut, HeartbeatGoesStale, Start, queueVars, callerVars
  <1>6. CASE Crash
    BY <1>c, <1>6 DEF Crash, Answer
  <1> QED
    BY <1>0, <1>1, <1>3, <1>4, <1>5, <1>6 DEF Next

\* No missed hand-over: a request is never left queued beside a held poll.
THEOREM NeverIdle == Spec => []NoIdleQueue
  <1>1. Init => NoIdleQueue
    BY DEF Init, FreshChannel, NoIdleQueue
  <1>2. TypeOK /\ NoIdleQueue /\ [Next]_vars => NoIdleQueue'
    BY IdleStep
  <1> QED
    BY <1>1, <1>2, TypeCorrect, PTL DEF Spec

\* No lost wake-up: a caller waits on a held response or not at all, and never beside
\* its stored result.
THEOREM WakeupsKept == Spec => []NoLostWakeup
  <1>1. Init => NoLostWakeup
    BY DEF Init, FreshChannel, NoLostWakeup, Ids
  <1>2. TypeOK /\ NoLostWakeup /\ [Next]_vars => NoLostWakeup'
    BY WakeupStep
  <1> QED
    BY <1>1, <1>2, TypeCorrect, PTL DEF Spec

\* Nothing has been asked for yet.
LEMMA CustodyInit == Init => Custody
  <1> SUFFICES ASSUME Init PROVE Custody
    OBVIOUS
  <1> USE DEF Init, FreshChannel
  <1>1. PollsAreOwned
    BY DEF PollsAreOwned
  <1>2. LoopsHoldRequests
    BY DEF LoopsHoldRequests
  <1>3. OnePlace
    BY IdsAssumption DEF OnePlace
  <1>4. ResultsAreReal
    BY DEF ResultsAreReal, NoResults
  <1>5. AtMostOnce /\ OkMeansDone
    BY DEF AtMostOnce, OkMeansDone
  <1> QED
    BY <1>1, <1>2, <1>3, <1>4, <1>5 DEF Custody

\* Custody of every request, from its caller to the far system and back.
THEOREM CustodyKept == Spec => []Custody
  <1>1. TypeOK /\ Custody /\ [Next]_vars => Custody'
    BY OwnedStep, LoopsStep, OnePlaceStep, AnswersStep DEF Custody
  <1> QED
    BY <1>1, CustodyInit, TypeCorrect, PTL DEF Spec

\* No request is carried out twice, whatever becomes of tabs, queues and the server.
THEOREM RanAtMostOnce == Spec => []AtMostOnce
  BY CustodyKept, PTL DEF Custody

\* A caller told "ok" had its request carried out.
THEOREM OkIsTrue == Spec => []OkMeansDone
  BY CustodyKept, PTL DEF Custody
=============================================================================

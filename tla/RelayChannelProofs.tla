-------------------------- MODULE RelayChannelProofs --------------------------
(***************************************************************************)
(* Proofs about RelayChannel, for any number of callers, loops, clicks and *)
(* restarts.                                                               *)
(***************************************************************************)
EXTENDS RelayChannel, TLAPS

\* The head of a nonempty queue is one of its members, and dropping it leaves a queue.
LEMMA HeadTail ==
    ASSUME NEW S, NEW q \in Seq(S), q # <<>>
    PROVE  /\ Head(q) \in S
           /\ Tail(q) \in Seq(S)
           /\ Len(q) \in Nat \ {0}
           /\ Len(Tail(q)) = Len(q) - 1
           /\ \A k \in 1..Len(Tail(q)) : Tail(q)[k] = q[k + 1]
           /\ Head(q) = q[1]
  OBVIOUS

\* Every handler writes only values of the right kind into the channel.
LEMMA EnqueueType ==
    ASSUME TypeOK, NEW id \in Ids, Enqueue(id)
    PROVE  /\ pendingRequests' \in Seq(Ids)
           /\ pollWaiters' \in Seq(Waiters)
           /\ tabPc' \in [Tabs -> TabPcs]
           /\ tabRequest' \in [Tabs -> Ids \cup {NoRequest}]
           /\ tabResult' \in [Tabs -> Results]
  <1>1. CASE pollWaiters = <<>>
    <2>1. pendingRequests' = Append(pendingRequests, id) /\ pendingRequests \in Seq(Ids)
      BY <1>1 DEF Enqueue, TypeOK
    <2>2. UNCHANGED <<pollWaiters, loopVars>>
      BY <1>1 DEF Enqueue
    <2> QED
      BY <2>1, <2>2 DEF TypeOK, loopVars
  <1>2. CASE pollWaiters # <<>>
    <2>1. Head(pollWaiters) \in Waiters /\ Tail(pollWaiters) \in Seq(Waiters)
      BY <1>2, HeadTail DEF TypeOK
    <2>2. AfterPoll(id, Head(pollWaiters).shouldReregister) \in TabPcs
      BY DEF AfterPoll, TabPcs
    <2> QED
      BY <1>2, <2>1, <2>2 DEF Enqueue, TypeOK
  <1> QED
    BY <1>1, <1>2

\* Answers to a set of callers keep their types.
LEMMA AnswerType ==
    ASSUME TypeOK, NEW S, NEW a \in Answers, Answer(S, a)
    PROVE  /\ callPc' \in [Ids -> {"new", "posted", "waiting", "done"}]
           /\ answer' \in [Ids -> Answers]
  BY DEF Answer, TypeOK

\* POST /register writes a well-formed channel.
LEMMA RegisterType ==
    ASSUME TypeOK, NEW t \in Tabs, Register(t)
    PROVE  /\ callPc' \in [Ids -> {"new", "posted", "waiting", "done"}]
           /\ answer' \in [Ids -> Answers]
           /\ resultWaiters' = {}
           /\ isActive' \in BOOLEAN
           /\ isRegistered' \in BOOLEAN
           /\ heartbeat' \in {"never", "fresh", "stale"}
           /\ hasSessionToken' \in BOOLEAN
           /\ lastVerdict' \in {"none", "accepted", "refused"}
           /\ pendingRequests' = <<>>
           /\ pendingResults' = NoResults
           /\ pollWaiters' \in Seq(Waiters)
  BY AnswerType DEF Register, failPendingResultWaiters, TypeOK, Answers

\* POST /result writes a well-formed result or answer.
LEMMA DeliverType ==
    ASSUME TypeOK, NEW i \in Ids, NEW r \in Results, DeliverResult(i, r)
    PROVE  /\ callPc' \in [Ids -> {"new", "posted", "waiting", "done"}]
           /\ answer' \in [Ids -> Answers]
           /\ resultWaiters' \subseteq Calls
           /\ pendingResults' \in [Ids -> Results]
  BY AnswerType DEF DeliverResult, KeepResult, callerVars, TypeOK, Answers, Results

\* The empty channel is well formed.
LEMMA EmptyTypes ==
    /\ NoResults \in [Ids -> Results]
    /\ <<>> \in Seq(Ids)
    /\ <<>> \in Seq(Waiters)
  BY DEF NoResults, Results

\* The fresh channel, the closed tabs and the new callers are well formed.
LEMMA TypeInit == Init => TypeOK
  <1> SUFFICES ASSUME Init PROVE TypeOK
    OBVIOUS
  <1>1. /\ pendingRequests \in Seq(Ids)
        /\ pendingResults \in [Ids -> Results]
        /\ pollWaiters \in Seq(Waiters)
    BY EmptyTypes DEF Init, FreshChannel
  <1>2. clicks \in 0..MaxClicks /\ crashes \in 0..MaxCrashes
    BY BoundsAssumption DEF Init
  <1> QED
    BY <1>1, <1>2 DEF Init, FreshChannel, TypeOK, TabPcs, Results, Answers

\* No step of a tab breaks a type.
LEMMA TypeTab ==
    ASSUME TypeOK, NEW t \in Tabs, TabStep(t)
    PROVE  TypeOK'
  <1> USE DEF TabPcs, Results
  <1>1. CASE ClickBookmarklet(t)
    <2>1. Register(t)
      BY <1>1 DEF ClickBookmarklet
    <2>2. clicks' \in 0..MaxClicks /\ crashes' \in 0..MaxCrashes
      BY <1>1, BoundsAssumption DEF ClickBookmarklet, TypeOK
    <2>3. /\ pendingRequests' \in Seq(Ids)
          /\ pendingResults' \in [Ids -> Results]
      BY <2>1, RegisterType, EmptyTypes
    <2> QED
      BY <1>1, <2>1, <2>2, <2>3, RegisterType DEF ClickBookmarklet, TypeOK
  <1>2. CASE TokenAppears(t)
    BY <1>2 DEF TokenAppears, TypeOK, channelVars, queueVars, loopVars, callerVars, boundVars
  <1>3. CASE ReportSessionToken(t)
    BY <1>3 DEF ReportSessionToken, TypeOK, queueVars, callerVars, boundVars
  <1>4. CASE Poll(t)
    <2>1. /\ isActive' = TRUE
          /\ heartbeat' = "fresh"
          /\ UNCHANGED <<serverUp, isRegistered, hasSessionToken, lastVerdict, pendingResults,
                         resultWaiters, tabResult, tokenVars, callerVars, effects, boundVars>>
      BY <1>4 DEF Poll
    <2>2. /\ tabPc' \in [Tabs -> TabPcs]
          /\ tabRequest' \in [Tabs -> Ids \cup {NoRequest}]
          /\ pendingRequests' \in Seq(Ids)
          /\ pollWaiters' \in Seq(Waiters)
      <3>1. CASE pendingRequests # <<>>
        <4>1. AfterPoll(Head(pendingRequests), shouldReregister) \in TabPcs
          BY DEF AfterPoll
        <4>2. Head(pendingRequests) \in Ids /\ Tail(pendingRequests) \in Seq(Ids)
          BY <3>1, HeadTail DEF TypeOK
        <4> QED
          BY <1>4, <3>1, <4>1, <4>2 DEF Poll, Shifted, TypeOK
      <3>2. CASE pendingRequests = <<>>
        <4>1. [tab |-> t, shouldReregister |-> shouldReregister] \in Waiters
          BY DEF Waiters, shouldReregister
        <4>2. pollWaiters' = Append(pollWaiters,
                                [tab |-> t, shouldReregister |-> shouldReregister])
          BY <1>4, <3>2 DEF Poll
        <4>3. pollWaiters' \in Seq(Waiters)
          BY <4>1, <4>2 DEF TypeOK
        <4> QED
          BY <1>4, <3>2, <4>3 DEF Poll, TypeOK
      <3> QED
        BY <3>1, <3>2
    <2> QED
      BY <2>1, <2>2 DEF TypeOK, tokenVars, callerVars, boundVars
  <1>5. CASE PollFails(t)
    BY <1>5 DEF PollFails, TypeOK, channelVars, queueVars, tokenVars, callerVars, boundVars
  <1>6. CASE Reannounce(t)
    <2>1. /\ tabPc' \in [Tabs -> TabPcs]
          /\ tabReported' \in [Tabs -> BOOLEAN]
          /\ UNCHANGED <<serverUp, tabRequest, tabResult, pageToken, effects, boundVars>>
      BY <1>6 DEF Reannounce, TypeOK, AfterPoll
    <2>2. CASE serverUp
      <3>1. Register(t)
        BY <1>6, <2>2 DEF Reannounce
      <3>2. /\ pendingRequests' \in Seq(Ids)
            /\ pendingResults' \in [Ids -> Results]
        BY <3>1, RegisterType, EmptyTypes
      <3> QED
        BY <2>1, <3>1, <3>2, RegisterType DEF TypeOK, boundVars
    <2>3. CASE ~serverUp
      BY <1>6, <2>1, <2>3 DEF Reannounce, TypeOK, channelVars, queueVars, callerVars, boundVars
    <2> QED
      BY <2>2, <2>3
  <1>7. CASE ExecuteRequest(t)
    <2>1. PICK outcome \in Outcomes :
            /\ tabResult' = [tabResult EXCEPT ![t] = outcome]
            /\ \E acted \in IF outcome = "failed" THEN {0, 1}
                            ELSE IF outcome = "ok" THEN {1} ELSE {0} :
                  effects' = [effects EXCEPT ![tabRequest[t]] = @ + acted]
            /\ \E next \in IF outcome = "failed" THEN {"posting", "reposting"} ELSE {"posting"} :
                  tabPc' = [tabPc EXCEPT ![t] = next]
      BY <1>7 DEF ExecuteRequest
    <2>2. tabResult' \in [Tabs -> Results]
      BY <2>1, OutcomesAssumption DEF TypeOK
    <2>3. PICK acted \in {0, 1} : effects' = [effects EXCEPT ![tabRequest[t]] = @ + acted]
      BY <2>1
    <2>4. effects' \in [Ids -> Nat]
      <3>1. effects \in [Ids -> Nat]
        BY DEF TypeOK
      <3>2. \A i \in Ids : effects'[i] \in Nat
        BY <2>3, <3>1
      <3>3. DOMAIN effects' = Ids /\ effects' = [i \in Ids |-> effects'[i]]
        BY <2>3, <3>1
      <3> QED
        BY <3>2, <3>3
    <2>5. tabPc' \in [Tabs -> TabPcs]
      BY <2>1 DEF TypeOK
    <2> QED
      BY <1>7, <2>2, <2>4, <2>5
         DEF ExecuteRequest, TypeOK, channelVars, queueVars, tokenVars, callerVars, boundVars
  <1>8. CASE PostResult(t)
    <2>1. Verdict(tabResult[t]) \in {"none", "accepted", "refused"}
      BY DEF Verdict, TypeOK
    <2>2. CASE tabRequest[t] \in Ids
      <3>1. tabResult[t] \in Results /\ DeliverResult(tabRequest[t], tabResult[t])
        BY <1>8 DEF PostResult, TypeOK
      <3>2. /\ callPc' \in [Ids -> {"new", "posted", "waiting", "done"}]
            /\ answer' \in [Ids -> Answers]
            /\ resultWaiters' \subseteq Calls
            /\ pendingResults' \in [Ids -> Results]
        BY <2>2, <3>1, DeliverType DEF Results
      <3> QED
        BY <1>8, <2>1, <3>2 DEF PostResult, TypeOK, tokenVars, boundVars
    <2>3. CASE tabRequest[t] \notin Ids
      <3>1. /\ tabRequest[t] \notin resultWaiters
            /\ DeliverResult(tabRequest[t], tabResult[t])
        BY <1>8, <2>3 DEF PostResult, TypeOK, Ids
      <3>2. pendingResults' = pendingResults
        BY <2>3, <3>1 DEF DeliverResult, KeepResult, TypeOK
      <3> QED
        BY <1>8, <2>1, <3>1, <3>2
           DEF PostResult, DeliverResult, KeepResult, TypeOK, tokenVars, callerVars, boundVars
    <2> QED
      BY <2>2, <2>3
  <1>9. CASE ResultPostFails(t)
    BY <1>9 DEF ResultPostFails, TypeOK, channelVars, queueVars, tokenVars, callerVars, boundVars
  <1>10. CASE CloseTabSilently(t)
    <2>1. ASSUME NEW k \in DOMAIN pollWaiters
          PROVE  /\ pollWaiters[k] \in Waiters
                 /\ [pollWaiters[k] EXCEPT !.tab = Gone] \in Waiters
      <3>1. pollWaiters[k] \in Waiters
        BY DEF TypeOK
      <3>2. [pollWaiters[k] EXCEPT !.tab = Gone]
              = [tab |-> Gone, shouldReregister |-> pollWaiters[k].shouldReregister]
        BY <3>1 DEF Waiters
      <3> QED
        BY <3>1, <3>2 DEF Waiters
    <2>2. pollWaiters' \in Seq(Waiters)
      <3> DEFINE w(k) == IF pollWaiters[k].tab = t
                         THEN [pollWaiters[k] EXCEPT !.tab = Gone] ELSE pollWaiters[k]
      <3>1. pollWaiters' = [k \in DOMAIN pollWaiters |-> w(k)]
        BY <1>10 DEF CloseTabSilently
      <3>2. DOMAIN pollWaiters = 1..Len(pollWaiters) /\ Len(pollWaiters) \in Nat
        BY DEF TypeOK
      <3>3. \A k \in 1..Len(pollWaiters) : w(k) \in Waiters
        BY <2>1, <3>2
      <3> HIDE DEF w
      <3> QED
        BY <3>1, <3>2, <3>3
    <2> QED
      BY <1>10, <2>2 DEF CloseTabSilently, TypeOK, channelVars, callerVars, boundVars
  <1>11. CASE CloseTab(t)
    BY <1>11, AnswerType, EmptyTypes
       DEF CloseTab, failPendingResultWaiters, TypeOK, Answers, boundVars
  <1> QED
    BY <1>1, <1>2, <1>3, <1>4, <1>5, <1>6, <1>7, <1>8, <1>9, <1>10, <1>11
       DEF TabStep, LoopStep

\* No step of a front-end caller breaks a type.
LEMMA TypeCall ==
    ASSUME TypeOK, NEW c \in Calls, CallStep(c)
    PROVE  TypeOK'
  <1> c \in Ids
    BY DEF Ids
  <1>1. CASE PostRequest(c)
    BY <1>1, EnqueueType DEF PostRequest, TypeOK, channelVars, tokenVars, boundVars
  <1>2. CASE CollectResult(c)
    <2>1. CASE pendingResults[c] # "none"
      <3>1. pendingResults[c] \in Answers /\ Answer({c}, pendingResults[c])
        BY <1>2, <2>1 DEF CollectResult, TypeOK, Results, Answers
      <3> QED
        BY <1>2, <2>1, <3>1, AnswerType
           DEF CollectResult, TypeOK, Results, channelVars, loopVars, tokenVars, boundVars
    <2>2. CASE pendingResults[c] = "none"
      BY <1>2, <2>2 DEF CollectResult, TypeOK, channelVars, loopVars, tokenVars, boundVars
    <2> QED
      BY <2>1, <2>2
  <1>3. CASE CallUnreachable(c)
    BY <1>3, AnswerType DEF CallUnreachable, TypeOK, Answers, channelVars, queueVars,
                            loopVars, tokenVars, boundVars
  <1>4. CASE ResultTimesOut(c)
    BY <1>4, AnswerType DEF ResultTimesOut, TypeOK, Answers, channelVars, loopVars,
                            tokenVars, boundVars
  <1> QED
    BY <1>1, <1>2, <1>3, <1>4 DEF CallStep

\* No step of a server-side caller breaks a type.
LEMMA TypeJob ==
    ASSUME TypeOK, NEW j \in Jobs, JobStep(j)
    PROVE  TypeOK'
  <1> j \in Ids
    BY DEF Ids
  <1>1. CASE SubmitRelayRequest(j)
    <2>1. CASE isRelayReady
      BY <1>1, <2>1, EnqueueType
         DEF SubmitRelayRequest, TypeOK, channelVars, tokenVars, boundVars
    <2>2. CASE ~isRelayReady
      BY <1>1, <2>2, AnswerType
         DEF SubmitRelayRequest, TypeOK, Answers, channelVars, loopVars, tokenVars, boundVars
    <2> QED
      BY <2>1, <2>2
  <1>2. CASE JobCollects(j)
    <2>1. pendingResults[j] \in Answers /\ Answer({j}, pendingResults[j])
      BY <1>2 DEF JobCollects, TypeOK, Results, Answers
    <2> QED
      BY <1>2, <2>1, AnswerType
         DEF JobCollects, TypeOK, Results, channelVars, loopVars, tokenVars, boundVars
  <1>3. CASE JobTimesOut(j)
    BY <1>3, AnswerType DEF JobTimesOut, TypeOK, Answers, channelVars, queueVars, loopVars,
                            tokenVars, boundVars
  <1> QED
    BY <1>1, <1>2, <1>3 DEF JobStep

\* No timer, crash or start breaks a type.
LEMMA TypeServer ==
    ASSUME TypeOK, PollTimesOut \/ HeartbeatGoesStale \/ Crash \/ Start
    PROVE  TypeOK'
  <1>1. CASE PollTimesOut
    <2>1. pollWaiters' \in Seq(Waiters)
      BY <1>1, HeadTail DEF PollTimesOut, TypeOK
    <2>2. AfterPoll(NoRequest, Head(pollWaiters).shouldReregister) \in TabPcs
      BY DEF AfterPoll, TabPcs
    <2>3. tabPc' \in [Tabs -> TabPcs]
      BY <1>1, <2>2 DEF PollTimesOut, TypeOK
    <2> QED
      BY <1>1, <2>1, <2>3 DEF PollTimesOut, TypeOK, channelVars, tokenVars, callerVars, boundVars
  <1>2. CASE HeartbeatGoesStale
    BY <1>2 DEF HeartbeatGoesStale, TypeOK, queueVars, loopVars, tokenVars, callerVars, boundVars
  <1>3. CASE Crash
    <2>1. /\ pendingRequests' \in Seq(Ids)
          /\ pendingResults' \in [Ids -> Results]
          /\ pollWaiters' \in Seq(Waiters)
      BY <1>3, EmptyTypes DEF Crash
    <2>2. /\ callPc' \in [Ids -> {"new", "posted", "waiting", "done"}]
          /\ answer' \in [Ids -> Answers]
      BY <1>3, AnswerType DEF Crash, Answers
    <2>3. crashes' \in 0..MaxCrashes
      BY <1>3, BoundsAssumption DEF Crash, TypeOK
    <2>4. tabPc' \in [Tabs -> TabPcs]
      BY <1>3 DEF Crash, TypeOK, TabPcs
    <2> QED
      BY <1>3, <2>1, <2>2, <2>3, <2>4 DEF Crash, TypeOK, tokenVars
  <1>4. CASE Start
    BY <1>4 DEF Start, TypeOK, channelVars, queueVars, loopVars, tokenVars, callerVars, boundVars
  <1> QED
    BY <1>1, <1>2, <1>3, <1>4

\* Every variable of the channel, its loops and its callers keeps its type.
THEOREM TypeCorrect == Spec => []TypeOK
  <1>1. TypeOK /\ [Next]_vars => TypeOK'
    <2> SUFFICES ASSUME TypeOK, [Next]_vars PROVE TypeOK'
      OBVIOUS
    <2>1. CASE UNCHANGED vars
      BY <2>1 DEF vars, TypeOK, channelVars, queueVars, loopVars, tokenVars, callerVars, boundVars
    <2> QED
      BY <2>1, TypeTab, TypeCall, TypeJob, TypeServer DEF Next
  <1> QED
    BY <1>1, TypeInit, PTL DEF Spec
=============================================================================

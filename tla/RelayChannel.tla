---------------------------- MODULE RelayChannel ----------------------------
(***************************************************************************)
(* One system's channel of the relay bridge: the in-memory state of        *)
(* src/src/routes/relayBridge.js, the bookmarklet loops that serve it      *)
(* (src/client/src/services/browserRelay.ts), and its two kinds of caller: *)
(* the front-end, which posts a request and then long-polls for its        *)
(* result, and the server's own schedulers, which call submitRelayRequest. *)
(*                                                                         *)
(* Systems (snow, jira, conf, sharepoint) share no state, so one channel   *)
(* is enough.  Each handler runs without interruption: it is synchronous   *)
(* JavaScript, so it is one action.  Time enters only through the order of *)
(* timer events and through the freshness of the last poll.                *)
(***************************************************************************)
EXTENDS Naturals, Sequences, FiniteSets

CONSTANTS
    Calls,        \* ids of front-end requests (crypto.randomUUID, one per call)
    Jobs,         \* ids of requests made by submitRelayRequest (srv-req-...)
    Tabs,         \* bookmarklet loops: one per click, in any number of browser tabs
    TokenTabs,    \* the tabs whose page may come to expose g_ck
    Outcomes,     \* what the far system may do with a request
    Gone,         \* marks a held poll whose browser tab no longer exists
    NoRequest,    \* a poll answered without a request
    MaxClicks,    \* bound: how often a bookmarklet is clicked
    MaxCrashes    \* bound: how often the server process stops

Ids == Calls \cup Jobs

ASSUME IdsAssumption == Calls \cap Jobs = {} /\ NoRequest \notin Ids
ASSUME TabsAssumption == Gone \notin Tabs /\ TokenTabs \subseteq Tabs
ASSUME OutcomesAssumption == Outcomes \subseteq {"ok", "refused", "failed"}
ASSUME BoundsAssumption == MaxClicks \in Nat /\ MaxCrashes \in Nat

VARIABLES
    serverUp,         \* the NodeToolbox process is running
    isActive,         \* channel.isActive
    isRegistered,     \* channel.lastRegisteredAt !== null
    heartbeat,        \* channel.lastPolledAt: "never", "fresh" (<= 65 s ago) or "stale"
    hasSessionToken,  \* channel.hasSessionToken
    lastVerdict,      \* which of lastAuthorizedAt and lastUnauthorizedAt is the later
    pendingRequests,  \* channel.pendingRequests, oldest first
    pendingResults,   \* channel.pendingResults, "none" where the key is absent
    pollWaiters,      \* channel.pollWaiters, oldest first
    resultWaiters,    \* the keys of channel.resultWaiters
    tabPc,            \* where each bookmarklet loop stands
    tabRequest,       \* the request a loop is working on
    tabResult,        \* the outcome a loop is about to post
    tabReported,      \* hasReportedSessionToken
    pageToken,        \* resolveUserToken() finds g_ck on the page
    callPc,           \* where each caller stands
    answer,           \* what each caller was told
    effects,          \* how often the far system carried the request out
    clicks, crashes   \* the bounded counters

channelVars == <<isActive, isRegistered, heartbeat, hasSessionToken, lastVerdict>>
queueVars   == <<pendingRequests, pendingResults, pollWaiters, resultWaiters>>
loopVars    == <<tabPc, tabRequest, tabResult>>
tokenVars   == <<tabReported, pageToken>>
callerVars  == <<callPc, answer>>
boundVars   == <<clicks, crashes>>
vars == <<serverUp, channelVars, queueVars, loopVars, tokenVars, callerVars,
          effects, boundVars>>

Results  == {"none", "ok", "refused", "failed"}
Answers  == {"none", "ok", "refused", "failed",
             "timeout", "disconnected", "unreachable", "inactive"}
TabPcs   == {"closed", "loopTop", "toPoll", "polling", "reannouncing",
             "executing", "posting", "reposting"}
Waiters  == [tab : Tabs \cup {Gone}, shouldReregister : BOOLEAN]
NoResults == [i \in Ids |-> "none"]

TypeOK ==
    /\ serverUp \in BOOLEAN
    /\ isActive \in BOOLEAN
    /\ isRegistered \in BOOLEAN
    /\ heartbeat \in {"never", "fresh", "stale"}
    /\ hasSessionToken \in BOOLEAN
    /\ lastVerdict \in {"none", "accepted", "refused"}
    /\ pendingRequests \in Seq(Ids)
    /\ pendingResults \in [Ids -> Results]
    /\ pollWaiters \in Seq(Waiters)
    /\ resultWaiters \subseteq Calls
    /\ tabPc \in [Tabs -> TabPcs]
    /\ tabRequest \in [Tabs -> Ids \cup {NoRequest}]
    /\ tabResult \in [Tabs -> Results]
    /\ tabReported \in [Tabs -> BOOLEAN]
    /\ pageToken \in [Tabs -> BOOLEAN]
    /\ callPc \in [Ids -> {"new", "posted", "waiting", "done"}]
    /\ answer \in [Ids -> Answers]
    /\ effects \in [Ids -> Nat]
    /\ clicks \in 0..MaxClicks
    /\ crashes \in 0..MaxCrashes

\* createBridgeChannel(): what the process begins from.
FreshChannel ==
    /\ isActive = FALSE
    /\ isRegistered = FALSE
    /\ heartbeat = "never"
    /\ hasSessionToken = FALSE
    /\ lastVerdict = "none"
    /\ pendingRequests = <<>>
    /\ pendingResults = NoResults
    /\ pollWaiters = <<>>
    /\ resultWaiters = {}

Init ==
    /\ serverUp = TRUE
    /\ FreshChannel
    /\ tabPc = [t \in Tabs |-> "closed"]
    /\ tabRequest = [t \in Tabs |-> NoRequest]
    /\ tabResult = [t \in Tabs |-> "none"]
    /\ tabReported = [t \in Tabs |-> FALSE]
    /\ pageToken = [t \in Tabs |-> FALSE]
    /\ callPc = [i \in Ids |-> "new"]
    /\ answer = [i \in Ids |-> "none"]
    /\ effects = [i \in Ids |-> 0]
    /\ clicks = 0
    /\ crashes = 0

-----------------------------------------------------------------------------
(* Pieces the handlers share.                                              *)

\* isRelayReady: the only test a server-side caller makes before it submits.
isRelayReady == isActive /\ heartbeat = "fresh"

\* Every caller in S is given answer a and is finished.
Answer(S, a) ==
    /\ callPc' = [i \in Ids |-> IF i \in S THEN "done" ELSE callPc[i]]
    /\ answer' = [i \in Ids |-> IF i \in S THEN a ELSE answer[i]]

\* A slip for failPendingResultWaiters: the waits are dropped and nobody is told.
forgetResultWaiters ==
    /\ resultWaiters' = {}
    /\ UNCHANGED callerVars

\* failPendingResultWaiters: 503 to every front-end caller waiting on a result.
failPendingResultWaiters ==
    /\ Answer(resultWaiters, "disconnected")
    /\ resultWaiters' = {}

\* What a loop does next once its poll was answered: re-announce first, then run.
AfterPoll(request, asked) ==
    IF asked THEN "reannouncing"
    ELSE IF request = NoRequest THEN "loopTop" ELSE "executing"

\* Two slips for Enqueue: the held polls are not looked at; the poll that was given
\* the request stays in line for the next one.
EnqueueOnly(id) ==
    /\ pendingRequests' = Append(pendingRequests, id)
    /\ UNCHANGED <<pollWaiters, loopVars>>

EnqueueWithoutShift(id) ==
    IF pollWaiters = <<>> THEN EnqueueOnly(id)
    ELSE LET waiter == Head(pollWaiters) IN
         /\ tabPc' = [t \in Tabs |-> IF t = waiter.tab
                        THEN AfterPoll(id, waiter.shouldReregister) ELSE tabPc[t]]
         /\ tabRequest' = [t \in Tabs |-> IF t = waiter.tab THEN id ELSE tabRequest[t]]
         /\ UNCHANGED <<pollWaiters, pendingRequests, tabResult>>

\* The tail of POST /request and of submitRelayRequest: hand the entry to the
\* poll that has waited longest, or queue it.  A poll whose tab is gone swallows it.
Enqueue(id) ==
    IF pollWaiters = <<>>
    THEN /\ pendingRequests' = Append(pendingRequests, id)
         /\ UNCHANGED <<pollWaiters, loopVars>>
    ELSE LET waiter == Head(pollWaiters) IN
         /\ pollWaiters' = Tail(pollWaiters)
         /\ tabPc' = [t \in Tabs |-> IF t = waiter.tab
                        THEN AfterPoll(id, waiter.shouldReregister) ELSE tabPc[t]]
         /\ tabRequest' = [t \in Tabs |-> IF t = waiter.tab THEN id ELSE tabRequest[t]]
         /\ UNCHANGED <<pendingRequests, tabResult>>

\* A slip for Register: the gck flag of the call is not read.
RegisterWithoutToken(t) ==
    /\ failPendingResultWaiters
    /\ isActive' = TRUE
    /\ isRegistered' = TRUE
    /\ hasSessionToken' = FALSE
    /\ pendingRequests' = <<>>
    /\ pendingResults' = NoResults
    /\ UNCHANGED <<heartbeat, lastVerdict, pollWaiters>>

\* POST /register from tab t: held polls are left as they are.
Register(t) ==
    /\ failPendingResultWaiters
    /\ isActive' = TRUE
    /\ isRegistered' = TRUE
    /\ hasSessionToken' = pageToken[t]
    /\ pendingRequests' = <<>>
    /\ pendingResults' = NoResults
    /\ UNCHANGED <<heartbeat, lastVerdict, pollWaiters>>

\* A poll asks for a re-announcement while this process has seen no registration; a
\* slip would be never to ask.
neverAsks == FALSE
shouldReregister == ~isRegistered

\* The queue once GET /poll served its head; a slip would be to read and not shift.
Unshifted == pendingRequests
Shifted == Tail(pendingRequests)

\* What a posted result says of the far system; the slip records a plain failure too.
VerdictOfAnything(result) == IF result = "ok" THEN "accepted" ELSE result
Verdict(result) ==
    CASE result = "refused" -> "refused"
      [] result = "ok" -> "accepted"
      [] OTHER -> lastVerdict

\* The tail of POST /result: to the caller holding a poll for it, else kept.  The
\* slip always keeps it.
KeepResult(id, result) ==
    /\ pendingResults' = [pendingResults EXCEPT ![id] = result]
    /\ UNCHANGED <<resultWaiters, callerVars>>

DeliverResult(id, result) ==
    IF id \in resultWaiters
    THEN /\ Answer({id}, result)
         /\ resultWaiters' = resultWaiters \ {id}
         /\ UNCHANGED pendingResults
    ELSE KeepResult(id, result)

-----------------------------------------------------------------------------
(* The bookmarklet.                                                        *)

\* The bookmarklet is clicked: it registers and, when that works, starts its loop.
ClickBookmarklet(t) ==
    /\ serverUp
    /\ tabPc[t] = "closed"
    /\ clicks < MaxClicks
    /\ clicks' = clicks + 1
    /\ Register(t)
    /\ tabPc' = [tabPc EXCEPT ![t] = "loopTop"]
    /\ tabReported' = [tabReported EXCEPT ![t] = pageToken[t]]
    /\ UNCHANGED <<serverUp, tabRequest, tabResult, pageToken, effects, crashes>>

\* ServiceNow gets round to exposing g_ck on the page.
TokenAppears(t) ==
    /\ t \in TokenTabs
    /\ ~pageToken[t]
    /\ pageToken' = [pageToken EXCEPT ![t] = TRUE]
    /\ UNCHANGED <<serverUp, channelVars, queueVars, loopVars, tabReported,
                   callerVars, effects, boundVars>>

\* reportSessionTokenReady, at the top of the loop: POST /session-token at most
\* once, and again next time round when the call did not get through.
ReportSessionToken(t) ==
    /\ tabPc[t] = "loopTop"
    /\ tabPc' = [tabPc EXCEPT ![t] = "toPoll"]
    /\ LET reports == pageToken[t] /\ ~tabReported[t] /\ serverUp IN
       /\ tabReported' = [tabReported EXCEPT ![t] = @ \/ reports]
       /\ hasSessionToken' = (hasSessionToken \/ reports)
    /\ UNCHANGED <<serverUp, isActive, isRegistered, heartbeat, lastVerdict, queueVars,
                   tabRequest, tabResult, pageToken, callerVars, effects, boundVars>>

\* GET /poll: proof of life, then the oldest queued request or a held connection.
Poll(t) ==
    /\ serverUp
    /\ tabPc[t] = "toPoll"
    /\ isActive' = TRUE
    /\ heartbeat' = "fresh"
    /\ IF pendingRequests # <<>>
       THEN /\ pendingRequests' = Shifted
            /\ tabRequest' = [tabRequest EXCEPT ![t] = Head(pendingRequests)]
            /\ tabPc' = [tabPc EXCEPT ![t] =
                            AfterPoll(Head(pendingRequests), shouldReregister)]
            /\ UNCHANGED pollWaiters
       ELSE /\ pollWaiters' = Append(pollWaiters,
                                [tab |-> t, shouldReregister |-> shouldReregister])
            /\ tabPc' = [tabPc EXCEPT ![t] = "polling"]
            /\ UNCHANGED <<pendingRequests, tabRequest>>
    /\ UNCHANGED <<serverUp, isRegistered, hasSessionToken, lastVerdict, pendingResults,
                   resultWaiters, tabResult, tokenVars, callerVars, effects, boundVars>>

\* The poll cannot reach the server: the loop reports it, sleeps and starts over.
PollFails(t) ==
    /\ ~serverUp
    /\ tabPc[t] = "toPoll"
    /\ tabPc' = [tabPc EXCEPT ![t] = "loopTop"]
    /\ UNCHANGED <<serverUp, channelVars, queueVars, tabRequest, tabResult, tokenVars,
                   callerVars, effects, boundVars>>

\* POLL_TIMEOUT_MS passes.  Every held poll has the same window, so the oldest
\* expires first; the answer keeps the shouldReregister captured when it arrived.
PollTimesOut ==
    /\ serverUp
    /\ pollWaiters # <<>>
    /\ LET waiter == Head(pollWaiters) IN
       tabPc' = [t \in Tabs |-> IF t = waiter.tab
                   THEN AfterPoll(NoRequest, waiter.shouldReregister) ELSE tabPc[t]]
    /\ pollWaiters' = Tail(pollWaiters)
    /\ UNCHANGED <<serverUp, channelVars, pendingRequests, pendingResults, resultWaiters,
                   tabRequest, tabResult, tokenVars, callerVars, effects, boundVars>>

\* reannounceIfAsked: POST /register BEFORE the request that came with the poll is
\* executed; a register that does not get through is swallowed.
Reannounce(t) ==
    /\ tabPc[t] = "reannouncing"
    /\ IF serverUp THEN Register(t) ELSE UNCHANGED <<channelVars, queueVars, callerVars>>
    /\ tabReported' = [tabReported EXCEPT ![t] = pageToken[t]]
    /\ tabPc' = [tabPc EXCEPT ![t] = AfterPoll(tabRequest[t], FALSE)]
    /\ UNCHANGED <<serverUp, tabRequest, tabResult, pageToken, effects, boundVars>>

\* executeRelayRequest up to the far system's response.  "failed" covers an abort or
\* a network error, after which the far system may or may not have acted, and which
\* the catch block reports; and an HTTP error, which the try block reports.
ExecuteRequest(t) ==
    /\ tabPc[t] = "executing"
    /\ \E outcome \in Outcomes :
        /\ tabResult' = [tabResult EXCEPT ![t] = outcome]
        /\ \E acted \in IF outcome = "failed" THEN {0, 1}
                        ELSE IF outcome = "ok" THEN {1} ELSE {0} :
              effects' = [effects EXCEPT ![tabRequest[t]] = @ + acted]
        /\ \E next \in IF outcome = "failed" THEN {"posting", "reposting"} ELSE {"posting"} :
              tabPc' = [tabPc EXCEPT ![t] = next]
    /\ UNCHANGED <<serverUp, channelVars, queueVars, tabRequest, tokenVars, callerVars,
                   boundVars>>

\* POST /result: hand the result to the caller holding a poll for it, else keep it.
PostResult(t) ==
    /\ serverUp
    /\ tabPc[t] \in {"posting", "reposting"}
    /\ lastVerdict' = Verdict(tabResult[t])
    /\ DeliverResult(tabRequest[t], tabResult[t])
    /\ tabPc' = [tabPc EXCEPT ![t] = "loopTop"]
    /\ tabRequest' = [tabRequest EXCEPT ![t] = NoRequest]
    /\ tabResult' = [tabResult EXCEPT ![t] = "none"]
    /\ UNCHANGED <<serverUp, isActive, isRegistered, heartbeat, hasSessionToken,
                   pendingRequests, pollWaiters, tokenVars, effects, boundVars>>

\* POST /result cannot reach the server.  The first failure lands in the catch block,
\* which posts the call as failed; a second one abandons it and goes back to the loop.
ResultPostFails(t) ==
    /\ ~serverUp
    /\ \/ /\ tabPc[t] = "posting"
          /\ tabPc' = [tabPc EXCEPT ![t] = "reposting"]
          /\ tabResult' = [tabResult EXCEPT ![t] = "failed"]
          /\ UNCHANGED tabRequest
       \/ /\ tabPc[t] = "reposting"
          /\ tabPc' = [tabPc EXCEPT ![t] = "loopTop"]
          /\ tabResult' = [tabResult EXCEPT ![t] = "none"]
          /\ tabRequest' = [tabRequest EXCEPT ![t] = NoRequest]
    /\ UNCHANGED <<serverUp, channelVars, queueVars, tokenVars, callerVars, effects,
                   boundVars>>

\* The tab is closed or navigates away, and the pagehide beacon does not arrive: the
\* channel stays as it was, and a poll the tab held open now belongs to nobody.
CloseTabSilently(t) ==
    /\ tabPc[t] # "closed"
    /\ tabPc' = [tabPc EXCEPT ![t] = "closed"]
    /\ tabRequest' = [tabRequest EXCEPT ![t] = NoRequest]
    /\ tabResult' = [tabResult EXCEPT ![t] = "none"]
    /\ tabReported' = [tabReported EXCEPT ![t] = FALSE]
    /\ pageToken' = [pageToken EXCEPT ![t] = FALSE]
    /\ pollWaiters' = [k \in DOMAIN pollWaiters |->
                         IF pollWaiters[k].tab = t
                         THEN [pollWaiters[k] EXCEPT !.tab = Gone] ELSE pollWaiters[k]]
    /\ UNCHANGED <<serverUp, channelVars, pendingRequests, pendingResults, resultWaiters,
                   callerVars, effects, boundVars>>

\* The tab is closed and its beacon arrives: POST /deregister releases every held
\* poll, whoever holds it, and fails every result wait.
CloseTab(t) ==
    /\ serverUp
    /\ tabPc[t] # "closed"
    /\ isActive' = FALSE
    /\ pollWaiters' = <<>>
    /\ failPendingResultWaiters
    /\ tabPc' = [u \in Tabs |-> IF u = t THEN "closed"
                                ELSE IF tabPc[u] = "polling" THEN "loopTop" ELSE tabPc[u]]
    /\ tabRequest' = [tabRequest EXCEPT ![t] = NoRequest]
    /\ tabResult' = [tabResult EXCEPT ![t] = "none"]
    /\ tabReported' = [tabReported EXCEPT ![t] = FALSE]
    /\ pageToken' = [pageToken EXCEPT ![t] = FALSE]
    /\ UNCHANGED <<serverUp, isRegistered, heartbeat, hasSessionToken, lastVerdict,
                   pendingRequests, pendingResults, effects, boundVars>>

-----------------------------------------------------------------------------
(* The callers.                                                            *)

\* postRelayRequest: POST /request.  The handler never looks at isActive.
PostRequest(c) ==
    /\ serverUp
    /\ callPc[c] = "new"
    /\ callPc' = [callPc EXCEPT ![c] = "posted"]
    /\ Enqueue(c)
    /\ UNCHANGED <<serverUp, channelVars, pendingResults, resultWaiters, tokenVars, answer,
                   effects, boundVars>>

\* waitForRelayResult: GET /result/:id, answered at once or held open.
CollectResult(c) ==
    /\ serverUp
    /\ callPc[c] = "posted"
    /\ IF pendingResults[c] # "none"
       THEN /\ Answer({c}, pendingResults[c])
            /\ pendingResults' = [pendingResults EXCEPT ![c] = "none"]
            /\ UNCHANGED resultWaiters
       ELSE /\ callPc' = [callPc EXCEPT ![c] = "waiting"]
            /\ resultWaiters' = resultWaiters \cup {c}
            /\ UNCHANGED <<answer, pendingResults>>
    /\ UNCHANGED <<serverUp, channelVars, pendingRequests, pollWaiters, loopVars, tokenVars,
                   effects, boundVars>>

\* Either call of the front-end finds the server gone.
CallUnreachable(c) ==
    /\ ~serverUp
    /\ callPc[c] \in {"new", "posted"}
    /\ Answer({c}, "unreachable")
    /\ UNCHANGED <<serverUp, channelVars, queueVars, loopVars, tokenVars, effects, boundVars>>

\* The result window passes: 408.
ResultTimesOut(c) ==
    /\ serverUp
    /\ c \in resultWaiters
    /\ resultWaiters' = resultWaiters \ {c}
    /\ Answer({c}, "timeout")
    /\ UNCHANGED <<serverUp, channelVars, pendingRequests, pendingResults, pollWaiters,
                   loopVars, tokenVars, effects, boundVars>>

\* submitRelayRequest: refused outright unless the relay is ready, else enqueued.
SubmitRelayRequest(j) ==
    /\ serverUp
    /\ callPc[j] = "new"
    /\ \/ /\ isRelayReady
          /\ callPc' = [callPc EXCEPT ![j] = "waiting"]
          /\ Enqueue(j)
          /\ UNCHANGED answer
       \/ /\ ~isRelayReady
          /\ Answer({j}, "inactive")
          /\ UNCHANGED <<pendingRequests, pollWaiters, loopVars>>
    /\ UNCHANGED <<serverUp, channelVars, pendingResults, resultWaiters, tokenVars, effects,
                   boundVars>>

\* A slip for JobCollects: result.ok is not looked at.
JobCollectsBlindly(j) ==
    /\ serverUp
    /\ callPc[j] = "waiting"
    /\ pendingResults[j] # "none"
    /\ Answer({j}, "ok")
    /\ pendingResults' = [pendingResults EXCEPT ![j] = "none"]
    /\ UNCHANGED <<serverUp, channelVars, pendingRequests, pollWaiters, resultWaiters,
                   loopVars, tokenVars, effects, boundVars>>

\* The 100 ms interval of submitRelayRequest finds the result.
JobCollects(j) ==
    /\ serverUp
    /\ callPc[j] = "waiting"
    /\ pendingResults[j] # "none"
    /\ Answer({j}, pendingResults[j])
    /\ pendingResults' = [pendingResults EXCEPT ![j] = "none"]
    /\ UNCHANGED <<serverUp, channelVars, pendingRequests, pollWaiters, resultWaiters,
                   loopVars, tokenVars, effects, boundVars>>

\* A slip for JobTimesOut: the result that arrived did not clear the timer.
JobTimesOutAnyway(j) ==
    /\ serverUp
    /\ callPc[j] \in {"waiting", "done"}
    /\ Answer({j}, "timeout")
    /\ UNCHANGED <<serverUp, channelVars, queueVars, loopVars, tokenVars, effects, boundVars>>

\* submitRelayRequest rejects after timeoutMs.  Nothing withdraws the entry.
JobTimesOut(j) ==
    /\ serverUp
    /\ callPc[j] = "waiting"
    /\ Answer({j}, "timeout")
    /\ UNCHANGED <<serverUp, channelVars, queueVars, loopVars, tokenVars, effects, boundVars>>

-----------------------------------------------------------------------------
(* The process and the clock.                                              *)

\* No poll has arrived for RELAY_HEARTBEAT_STALE_MS.  A held poll is at most
\* POLL_TIMEOUT_MS old, so the heartbeat is fresh while one is held.
HeartbeatGoesStale ==
    /\ serverUp
    /\ heartbeat = "fresh"
    /\ pollWaiters = <<>>
    /\ heartbeat' = "stale"
    /\ UNCHANGED <<serverUp, isActive, isRegistered, hasSessionToken, lastVerdict, queueVars,
                   loopVars, tokenVars, callerVars, effects, boundVars>>

\* The process stops: its memory and every connection to it are gone.
Crash ==
    /\ serverUp
    /\ crashes < MaxCrashes
    /\ crashes' = crashes + 1
    /\ serverUp' = FALSE
    /\ isActive' = FALSE
    /\ isRegistered' = FALSE
    /\ heartbeat' = "never"
    /\ hasSessionToken' = FALSE
    /\ lastVerdict' = "none"
    /\ pendingRequests' = <<>>
    /\ pendingResults' = NoResults
    /\ pollWaiters' = <<>>
    /\ resultWaiters' = {}
    /\ tabPc' = [t \in Tabs |-> IF tabPc[t] = "polling" THEN "loopTop" ELSE tabPc[t]]
    /\ Answer({i \in Ids : callPc[i] = "waiting"}, "unreachable")
    /\ UNCHANGED <<tabRequest, tabResult, tokenVars, effects, clicks>>

Start ==
    /\ ~serverUp
    /\ serverUp' = TRUE
    /\ UNCHANGED <<channelVars, queueVars, loopVars, tokenVars, callerVars, effects, boundVars>>

-----------------------------------------------------------------------------
\* What a bookmarklet loop does by itself, as opposed to what is done to it.
LoopStep(t) ==
    \/ ReportSessionToken(t) \/ Poll(t) \/ PollFails(t) \/ Reannounce(t)
    \/ ExecuteRequest(t) \/ PostResult(t) \/ ResultPostFails(t)

TabStep(t) ==
    \/ ClickBookmarklet(t) \/ TokenAppears(t) \/ LoopStep(t)
    \/ CloseTabSilently(t) \/ CloseTab(t)

CallStep(c) ==
    \/ PostRequest(c) \/ CollectResult(c) \/ CallUnreachable(c) \/ ResultTimesOut(c)

JobStep(j) == SubmitRelayRequest(j) \/ JobCollects(j) \/ JobTimesOut(j)

Next ==
    \/ \E t \in Tabs : TabStep(t)
    \/ \E c \in Calls : CallStep(c)
    \/ \E j \in Jobs : JobStep(j)
    \/ PollTimesOut
    \/ HeartbeatGoesStale
    \/ Crash
    \/ Start

Spec == Init /\ [][Next]_vars

\* The browser keeps an open loop running, the timers of the server fire, a
\* front-end call goes on to collect, and whoever stopped the server starts it.
Fairness ==
    /\ \A t \in Tabs : WF_vars(LoopStep(t))
    /\ \A c \in Calls : WF_vars(CollectResult(c) \/ CallUnreachable(c) \/ ResultTimesOut(c))
    /\ \A j \in Jobs : WF_vars(JobCollects(j) \/ JobTimesOut(j))
    /\ WF_vars(PollTimesOut)
    /\ WF_vars(Start)

FairSpec == Spec /\ Fairness

-----------------------------------------------------------------------------
(* What must hold.                                                         *)

\* No missed hand-over: a request is never left queued while a poll is held, so
\* neither /request nor /poll can leave work for the other to find 28 s later.
NoIdleQueue == pendingRequests = <<>> \/ pollWaiters = <<>>

\* No lost wake-up: the callers waiting on /result/:id are exactly the ones with a
\* held response, and none of them waits beside a result that is already stored.
NoLostWakeup ==
    \A c \in Calls :
        /\ callPc[c] = "waiting" <=> c \in resultWaiters
        /\ c \in resultWaiters => pendingResults[c] = "none"

\* However requests are queued, handed over, flushed, re-announced or abandoned,
\* none is ever carried out twice by the far system.
AtMostOnce == \A i \in Ids : effects[i] <= 1

\* A caller told that its request succeeded can rely on it: the far system acted.
OkMeansDone == \A i \in Ids : answer[i] = "ok" => effects[i] = 1

\* A held poll belongs to the one loop that waits for it, and to no other.
PollsAreOwned ==
    /\ \A k \in DOMAIN pollWaiters :
          pollWaiters[k].tab # Gone => tabPc[pollWaiters[k].tab] = "polling"
    /\ \A k, l \in DOMAIN pollWaiters :
          k # l /\ pollWaiters[k].tab # Gone => pollWaiters[k].tab # pollWaiters[l].tab

\* The request a loop holds matches what the loop is doing with it.
LoopsHoldRequests ==
    \A t \in Tabs :
        /\ tabPc[t] \in {"executing", "posting", "reposting"} => tabRequest[t] # NoRequest
        /\ tabPc[t] \in {"closed", "loopTop", "toPoll", "polling"} => tabRequest[t] = NoRequest
        /\ tabRequest[t] # NoRequest /\ tabPc[t] \in {"reannouncing", "executing"}
              => effects[tabRequest[t]] = 0
        /\ tabPc[t] \in {"posting", "reposting"} <=> tabResult[t] # "none"
        /\ tabResult[t] = "ok" => tabRequest[t] # NoRequest /\ effects[tabRequest[t]] = 1

\* Not accepted, or not yet: its caller has not started or was refused outright.
Unaccepted(i) == callPc[i] = "new" \/ answer[i] = "inactive"

\* A request is in one place at a time: unaccepted, queued, with one loop, or gone.
OnePlace ==
    /\ \A i \in Ids : Unaccepted(i) =>
          /\ effects[i] = 0
          /\ \A k \in DOMAIN pendingRequests : pendingRequests[k] # i
          /\ \A t \in Tabs : tabRequest[t] # i
    /\ \A k \in DOMAIN pendingRequests :
          /\ effects[pendingRequests[k]] = 0
          /\ \A t \in Tabs : tabRequest[t] # pendingRequests[k]
    /\ \A k, l \in DOMAIN pendingRequests : k # l => pendingRequests[k] # pendingRequests[l]
    /\ \A t, u \in Tabs : t # u /\ tabRequest[t] # NoRequest => tabRequest[u] # tabRequest[t]

\* A stored "ok" is backed by the far system, and only the finished have answers.
ResultsAreReal ==
    /\ \A i \in Ids : pendingResults[i] = "ok" => effects[i] = 1
    /\ \A i \in Ids : answer[i] # "none" <=> callPc[i] = "done"

\* Custody of a request from caller to far system and back: the inductive invariant
\* behind AtMostOnce and OkMeansDone.
Custody ==
    /\ PollsAreOwned
    /\ LoopsHoldRequests
    /\ OnePlace
    /\ ResultsAreReal
    /\ AtMostOnce
    /\ OkMeansDone

\* Every caller gets an answer in the end, whatever becomes of the relay: a tab that
\* vanishes without a beacon, a request swallowed by a dead poll, a restart.
EveryCallEnds == \A i \in Ids : callPc[i] # "new" ~> callPc[i] = "done"

\* "A poll IS the heartbeat": an open loop brings the channel back, registered and
\* ready for server-side callers, without another click (comment in GET /poll).
RecoversWithoutAClick ==
    \A t \in Tabs : tabPc[t] # "closed" ~>
        (tabPc[t] = "closed" \/ (serverUp /\ isRegistered /\ isRelayReady))

\* Once an open page exposes g_ck the server comes to know, restarts included: the
\* loop reports it once, and only the re-announcement carries it after a restart.
TokenBecomesKnown ==
    \A t \in Tabs : (tabPc[t] # "closed" /\ pageToken[t]) ~>
        (tabPc[t] = "closed" \/ hasSessionToken)

\* The channel, its loops and its crashes keep the promise of RelayPromise.
Promise == INSTANCE RelayPromise WITH open <- {i \in Ids : callPc[i] \in {"posted", "waiting"}}
KeepsPromise == Promise!PromiseSpec

-----------------------------------------------------------------------------
(* What the source's comments say, and the code does not do.               *)

\* failPendingResultWaiters: "When the browser tab goes away, those requests can
\* never complete" - so a caller told "disconnected" is not acted for afterwards.
DisconnectedNeverRuns ==
    [][\A i \in Ids : answer[i] = "disconnected" => effects'[i] = effects[i]]_vars
=============================================================================

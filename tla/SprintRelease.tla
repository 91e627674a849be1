---------------------------- MODULE SprintRelease ----------------------------
(***************************************************************************)
(* The sprint and release automation: sprintReleaseScheduler.js and the    *)
(* Jira calls of sprintReleaseOrchestrator.js (src/src/services), for one  *)
(* team profile, which is what POST /api/sprint-release/config leaves; and *)
(* GET /api/sprint-release/dor-violations, which posts the comments of the *)
(* daily scan (routes/sprintRelease.js).                                   *)
(*                                                                         *)
(* A poll cycle is four scans, one after the other: handoffs to QE and BT, *)
(* sprint end dates, defect intakes, and once a day the definition of      *)
(* ready.  A cycle waits for Jira at every step.  Nothing keeps a second   *)
(* cycle, of the timer or of the run-now route, from starting meanwhile,   *)
(* and what has been done is remembered by the process alone.              *)
(*                                                                         *)
(* There is one clock, in moments.  What happens between two moments       *)
(* happens at the earlier one; a sub-status change is a moment of its own, *)
(* later than everything before it.                                        *)
(***************************************************************************)
EXTENDS Integers, FiniteSets

CONSTANTS
    DevIssues,        \* issues of the dev project
    ConfigOnly,       \* those with the config-only label
    Versions,         \* fix versions of the feature project
    Sprints,          \* fix versions with a sprint of their name on the board
    ActiveSprints,    \* those whose sprint is active
    Dates,            \* release dates
    FirstDate,        \* the release date every version starts with
    Intakes,          \* QE and BT issues that can get the defect-intake label
    Original,         \* the dev issue an intake is linked to
    NotReady,         \* sprint issues without QE or BT criteria
    None,             \* no sprint, no date, no day
    Interval,         \* moments between two firings of the timer
    PollWindows,      \* moments a search looks back: the interval configured when it is made
    JiraAhead,        \* moments by which Jira's local stamps read ahead of the same time in UTC
    DayLength,        \* moments in a day
    Cycles,           \* names for cycles in flight
    Horizon,          \* bound: moments
    MaxEdits,         \* bound: what people do in Jira, and calls of dor-violations
    MaxTrouble        \* bound: failed requests and refused updates, cycles started while
                      \* another is in flight, and restarts, in all

ASSUME PartsAssumption ==
    /\ ConfigOnly \subseteq DevIssues /\ Sprints \subseteq Versions /\ ActiveSprints \subseteq Sprints
    /\ FirstDate \in Dates /\ None \notin Dates \cup Versions \cup Nat
    /\ DevIssues \cap Intakes = {} /\ Original \in [Intakes -> DevIssues]

ASSUME TimeAssumption ==
    /\ Interval \in Nat \ {0} /\ PollWindows \subseteq Nat /\ JiraAhead \in Int
    /\ DayLength \in Nat \ {0} /\ Horizon \in Nat /\ IsFiniteSet(Cycles)

VARIABLES
    now, due,         \* the moment, and the one at which the timer is to fire
    sub,              \* the latest sub-status change of an issue
    updated,          \* when an issue was last updated
    labelled,         \* issues with the defect-intake label
    release,          \* the release dates of the fix versions
    sprintEnd,        \* the release date a sprint's end date stands for
    lastHandoff,      \* lastHandoffByIssue, with 0 for null
    lastSeen,         \* lastSeenFixVersionDates
    processed,        \* processedDefectIntakeKeys
    lastDorScanDate,
    activeSprintName,
    cycle,            \* the poll cycles
    call,             \* the issues a call of dor-violations has still to comment on
    comments,         \* handoff comments for the latest sub-status change of an issue
    announced,        \* issues with a comment for their sub-status since they have it
    defects,          \* defects created for an intake
    flags,            \* definition-of-ready comments of the day
    noticed,          \* versions whose release date changed under the eyes of this process
    unseen,           \* dev issues updated since a search found them last
    searched,         \* the moment of the latest search for handoffs
    gapped,           \* whether such a search came later than it looks back
    edits, misses, lost, overlaps, midnights, asked, restarts

jira   == <<sub, updated, unseen, labelled, release, sprintEnd>>
memory == <<lastHandoff, lastSeen, processed, lastDorScanDate, activeSprintName>>
told   == <<comments, announced, defects, flags, noticed>>
search == <<searched, gapped>>
bounds == <<edits, misses, lost, overlaps, midnights, asked, restarts>>
vars   == <<now, due, jira, memory, cycle, call, told, search, bounds>>

Kinds  == {"QE", "BT"}
Event  == [issue : DevIssues, kind : Kinds, at : Nat]
Move   == [version : Versions, date : Dates]
Item   == Event \cup Move \cup Intakes \cup NotReady
Pcs    == {"idle", "handoffs", "detecting", "closing", "commenting", "recording",
           "versions", "finding", "moving",
           "intakes", "creating", "linking", "unlabelling", "sprint", "flagging"}
Today  == now \div DayLength

\* A cycle at the start of a scan, and one that has taken up item i.
At(pc, day) == [pc |-> pc, item |-> None, todo |-> {}, stamp |-> 0, day |-> day]
Taking(pc, i, todo, stamp, day) == [pc |-> pc, item |-> i, todo |-> todo \ {i}, stamp |-> stamp, day |-> day]
Idle == At("idle", 0)

TypeOK ==
    /\ now \in 0..Horizon /\ due \in Nat
    /\ sub \in [DevIssues -> [value : Kinds \cup {"other"}, at : Nat]]
    /\ updated \in [DevIssues \cup Intakes -> 0..Horizon] /\ unseen \subseteq DevIssues
    /\ labelled \subseteq Intakes
    /\ release \in [Versions -> Dates \cup {None}] /\ sprintEnd \in [Sprints -> Dates]
    /\ lastHandoff \in [DevIssues -> [Kinds -> 0..now]]
    /\ lastSeen \in [Versions -> Dates \cup {None}]
    /\ processed \subseteq Intakes
    /\ lastDorScanDate \in Nat \cup {None}
    /\ activeSprintName \in ActiveSprints \cup {None}
    /\ cycle \in [Cycles -> [pc : Pcs, item : Item \cup {None}, todo : SUBSET Item,
                           stamp : 0..now, day : Nat]]
    /\ call \subseteq NotReady
    /\ comments \in [DevIssues -> Nat] /\ announced \subseteq DevIssues
    /\ defects \in [Intakes -> Nat] /\ flags \in [NotReady -> Nat] /\ noticed \subseteq Versions
    /\ searched \in 0..now /\ gapped \in BOOLEAN
    /\ edits \in Nat /\ misses \in Nat /\ lost \in Nat /\ overlaps \in Nat /\ midnights \in Nat
    /\ asked \in Nat /\ restarts \in Nat

NoHandoff == [i \in DevIssues |-> [k \in Kinds |-> 0]]
NoDate    == [v \in Versions |-> None]
AllIdle   == [n \in Cycles |-> Idle]

Init ==
    /\ now = 0 /\ due = Interval
    /\ sub = [i \in DevIssues |-> [value |-> "other", at |-> 0]]
    /\ updated = [i \in DevIssues \cup Intakes |-> 0] /\ unseen = {}
    /\ labelled = {}
    /\ release = [v \in Versions |-> FirstDate] /\ sprintEnd = [v \in Sprints |-> FirstDate]
    /\ lastHandoff = NoHandoff /\ lastSeen = NoDate /\ processed = {}
    /\ lastDorScanDate = None /\ activeSprintName = None
    /\ cycle = AllIdle /\ call = {}
    /\ comments = [i \in DevIssues |-> 0] /\ announced = {} /\ defects = [i \in Intakes |-> 0]
    /\ flags = [i \in NotReady |-> 0] /\ noticed = {}
    /\ searched = 0 /\ gapped = FALSE
    /\ edits = 0 /\ misses = 0 /\ lost = 0 /\ overlaps = 0 /\ midnights = 0 /\ asked = 0 /\ restarts = 0

-----------------------------------------------------------------------------
(* Cycles.                                                                 *)

MayGoWrong == misses + overlaps + restarts < MaxTrouble

InFlight == {n \in Cycles : cycle[n].pc # "idle"}

\* runPollCycle, up to the first search.
StartCycle(n) ==
    /\ cycle[n].pc = "idle"
    /\ InFlight # {} => MayGoWrong
    /\ overlaps' = overlaps + Cardinality(InFlight)
    /\ cycle' = [cycle EXCEPT ![n] = At("handoffs", 0)]
    /\ UNCHANGED <<now, jira, memory, call, told, search, edits, misses, lost, midnights, asked, restarts>>

\* The timer of startSprintReleaseScheduler: on time or late.
Poll == now >= due /\ due' = now + Interval /\ \E n \in Cycles : StartCycle(n)

\* triggerPollCycleNow.
RunNow == UNCHANGED due /\ \E n \in Cycles : StartCycle(n)

Continue(n, pc) == cycle' = [cycle EXCEPT ![n].pc = pc]

\* A scan goes on with another item, at the moment it notes down, or is over.
NextItem(n, pc, todo, over) ==
    IF todo = {}
    THEN cycle' = [cycle EXCEPT ![n] = At(over, 0)]
    ELSE \E i \in todo :
            cycle' = [cycle EXCEPT ![n] =
                        Taking(pc, i, todo, IF pc = "closing" THEN now ELSE 0, cycle[n].day)]

Miss == MayGoWrong /\ misses' = misses + 1
Fine == UNCHANGED misses

InWindow(i, window) == updated[i] + window >= now

Update(issues) ==
    /\ updated' = [i \in DevIssues \cup Intakes |-> IF i \in issues THEN now ELSE updated[i]]
    /\ unseen' = unseen \cup (issues \cap DevIssues)

-----------------------------------------------------------------------------
(* runSubStatusScan.                                                       *)

\* The latest sub-status change of every issue that Jira finds in the window.
SearchHandoffs(n) ==
    /\ cycle[n].pc = "handoffs"
    /\ \E window \in PollWindows :
          LET reached == {i \in DevIssues : InWindow(i, window)} IN
          /\ cycle' = [cycle EXCEPT ![n] =
                         [At("detecting", 0) EXCEPT
                            !.todo = {[issue |-> i, kind |-> sub[i].value, at |-> sub[i].at] :
                                        i \in {j \in reached : sub[j].value \in Kinds}}]]
          /\ unseen' = unseen \ reached
          /\ gapped' = (gapped \/ searched + window < now)
    /\ searched' = now
    /\ UNCHANGED <<sub, updated, labelled, release, sprintEnd, memory, told, misses, lost>>

\* Stamps are compared as text: a record in UTC, a change in the local time of Jira.
AlreadyHandedOver(e) ==
    /\ lastHandoff[e.issue][e.kind] # 0
    /\ lastHandoff[e.issue][e.kind] >= e.at + JiraAhead

\* A slip for detectSubStatusChanges: what the process remembers is not consulted.
detectAll(n) == cycle[n].todo

\* The changes found, unless a handoff of their kind was recorded since.
detectSubStatusChanges(n) == {e \in cycle[n].todo : ~AlreadyHandedOver(e)}

NextHandoff(n, todo) == NextItem(n, "closing", todo, "versions")

\* The answer to the search.  An error body is an answer without issues, and the result
\* cap hides some.
HandoffsFound(n) ==
    /\ cycle[n].pc = "detecting"
    /\ \/ NextHandoff(n, detectSubStatusChanges(n)) /\ Fine
       \/ (\E some \in SUBSET detectSubStatusChanges(n) : NextHandoff(n, some)) /\ Miss
    /\ UNCHANGED <<jira, memory, told, search, lost>>

\* executeDevIssueDone, whatever comes of it.  A config-only issue is recorded as handed
\* over to QE, in either case, and gets no comment.
Closed(n) ==
    /\ cycle[n].pc = "closing"
    /\ Update({cycle[n].item.issue}) \/ UNCHANGED <<updated, unseen>>
    /\ IF cycle[n].item.issue \in ConfigOnly
       THEN /\ lastHandoff' = [lastHandoff EXCEPT ![cycle[n].item.issue]["QE"] = cycle[n].stamp]
            /\ NextHandoff(n, cycle[n].todo)
       ELSE Continue(n, "commenting") /\ UNCHANGED lastHandoff
    /\ UNCHANGED <<sub, labelled, release, sprintEnd, lastSeen, processed, lastDorScanDate,
                   activeSprintName, told, search, misses, lost>>

\* postHandoffComment, whose failure is only logged.
Commented(n) ==
    /\ cycle[n].pc = "commenting"
    /\ LET e == cycle[n].item IN
       \/ /\ comments' = [comments EXCEPT ![e.issue] = IF sub[e.issue].at = e.at THEN @ + 1 ELSE @]
          /\ announced' = IF sub[e.issue].value = e.kind THEN announced \cup {e.issue} ELSE announced
          /\ Update({e.issue})
          /\ Fine
       \/ Miss /\ UNCHANGED <<comments, announced, updated, unseen>>
    /\ Continue(n, "recording")
    /\ UNCHANGED <<sub, labelled, release, sprintEnd, memory, defects, flags, noticed, search, lost>>

\* A slip for recordHandoff: recorded as of the time it is recorded.
recordLate(n) == lastHandoff' = [lastHandoff EXCEPT ![cycle[n].item.issue][cycle[n].item.kind] = now]

\* A slip for recordHandoff: a moment ahead.
recordAhead(n) ==
    lastHandoff' = [lastHandoff EXCEPT ![cycle[n].item.issue][cycle[n].item.kind] = cycle[n].stamp + 1]

\* The handoff is recorded as of the moment its event was taken up.
recordHandoff(n) ==
    lastHandoff' = [lastHandoff EXCEPT ![cycle[n].item.issue][cycle[n].item.kind] = cycle[n].stamp]

\* After the answers to the comment and of the webhook.
Recorded(n) ==
    /\ cycle[n].pc = "recording"
    /\ recordHandoff(n)
    /\ NextHandoff(n, cycle[n].todo)
    /\ UNCHANGED <<jira, lastSeen, processed, lastDorScanDate, activeSprintName, told, search, misses, lost>>

-----------------------------------------------------------------------------
(* runFixVersionDateSync.                                                  *)

\* Every date is noted as seen, before anything is done about it.
noteDates == lastSeen' = [v \in Versions |-> IF release[v] = None THEN lastSeen[v] ELSE release[v]]

Changed == {v \in Versions : release[v] # None /\ lastSeen[v] \notin {None, release[v]}}

\* A slip for detectFixVersionDateChange: the previous date in place of the new one.
detectOldDate == {[version |-> v, date |-> lastSeen[v]] : v \in Changed}

\* The versions with a date that is not the one seen last; a version is first seen as it is.
detectFixVersionDateChange == {[version |-> v, date |-> release[v]] : v \in Changed}

NextMove(n, todo) == NextItem(n, "finding", todo, "intakes")

VersionsFound(n) ==
    /\ cycle[n].pc = "versions"
    /\ \/ /\ NextMove(n, detectFixVersionDateChange)
          /\ noteDates
          /\ noticed' = noticed \cup {m.version : m \in detectFixVersionDateChange}
          /\ Fine
       \/ NextMove(n, {}) /\ Miss /\ UNCHANGED <<lastSeen, noticed>>
    /\ UNCHANGED <<jira, lastHandoff, processed, lastDorScanDate, activeSprintName, comments, announced,
                   defects, flags, search, lost>>

\* findSprintByName.  The sprint found becomes the one the daily scan looks at.
SprintFound(n) ==
    /\ cycle[n].pc = "finding"
    /\ LET v == cycle[n].item.version IN
       \/ /\ v \in Sprints
          /\ activeSprintName' = IF v \in ActiveSprints THEN v ELSE activeSprintName
          /\ Continue(n, "moving")
          /\ Fine
       \/ /\ v \notin Sprints \/ MayGoWrong
          /\ misses' = IF v \in Sprints THEN misses + 1 ELSE misses
          /\ NextMove(n, cycle[n].todo)
          /\ UNCHANGED activeSprintName
    /\ UNCHANGED <<jira, lastHandoff, lastSeen, processed, lastDorScanDate, told, search, lost>>

\* updateSprintEndDate: refused for a closed sprint or a date in the past, or it fails.
SprintMoved(n) ==
    /\ cycle[n].pc = "moving"
    /\ \/ sprintEnd' = [sprintEnd EXCEPT ![cycle[n].item.version] = cycle[n].item.date] /\ Fine
       \/ Miss /\ UNCHANGED sprintEnd
    /\ NextMove(n, cycle[n].todo)
    /\ UNCHANGED <<sub, updated, unseen, labelled, release, memory, told, search, lost>>

-----------------------------------------------------------------------------
(* runDefectIntakeScan.                                                    *)

\* A slip for detectDefectIntakeLabels: the label alone decides.
everyLabel(window) == {i \in labelled : InWindow(i, window)}

\* Of the intakes found by a search, those not processed when its answer is read.
detectDefectIntakeLabels(window) == {i \in labelled : InWindow(i, window) /\ i \notin processed}

\* The next intake, or runDorScanIfDue, which notes the day it starts and may be over at once.
NextIntake(n, todo) ==
    IF todo # {}
    THEN NextItem(n, "creating", todo, "sprint")
    ELSE cycle' = [cycle EXCEPT ![n] = IF lastDorScanDate = Today THEN Idle
                                       ELSE At("sprint", Today)]

\* The search and its answer in one: a label that a cycle takes off in between is on an
\* intake that is processed by then.
IntakesFound(n) ==
    /\ cycle[n].pc = "intakes"
    /\ \E window \in PollWindows :
          \/ NextIntake(n, detectDefectIntakeLabels(window)) /\ Fine
          \/ (\E some \in SUBSET detectDefectIntakeLabels(window) : NextIntake(n, some)) /\ Miss
    /\ UNCHANGED <<jira, memory, told, search, lost>>

\* A slip for NotCreated: the intake is taken off the list all the same.
takenAnyway(n) == Continue(n, "linking")

NotCreated(n) == NextIntake(n, cycle[n].todo)

\* The original issue is read and the defect created.  Without the original, without an
\* answer or with one that names no defect, although Jira may have made it, the intake is
\* left for the next cycle; an original without a body ends the scan.
DefectCreated(n) ==
    /\ cycle[n].pc = "creating"
    /\ \/ /\ defects' = [defects EXCEPT ![cycle[n].item] = @ + 1]
          /\ Continue(n, "linking") /\ Fine /\ UNCHANGED lost
       \/ NotCreated(n) /\ Miss /\ UNCHANGED <<defects, lost>>
       \/ /\ defects' = [defects EXCEPT ![cycle[n].item] = @ + 1]
          /\ NotCreated(n) /\ Miss /\ lost' = lost + 1
       \/ NextIntake(n, {}) /\ Miss /\ UNCHANGED <<defects, lost>>
    /\ UNCHANGED <<jira, memory, comments, announced, flags, noticed, search>>

\* createIssueLink, twice: either may fail, which is only logged.
Linked(n) ==
    /\ cycle[n].pc = "linking"
    /\ \E ends \in SUBSET {cycle[n].item, Original[cycle[n].item]} : Update(ends)
    /\ Continue(n, "unlabelling")
    /\ UNCHANGED <<sub, labelled, release, sprintEnd, memory, told, search, misses, lost>>

\* removeDefectIntakeLabel, whose failure is only logged; the intake counts as processed.
Unlabelled(n) ==
    /\ cycle[n].pc = "unlabelling"
    /\ \/ labelled' = labelled \ {cycle[n].item} /\ Update({cycle[n].item}) /\ Fine
       \/ Miss /\ UNCHANGED <<labelled, updated, unseen>>
    /\ processed' = processed \cup {cycle[n].item}
    /\ NextIntake(n, cycle[n].todo)
    /\ UNCHANGED <<sub, release, sprintEnd, lastHandoff, lastSeen, lastDorScanDate,
                   activeSprintName, told, search, lost>>

-----------------------------------------------------------------------------
(* runDorScanIfDue.                                                        *)

\* A slip for dorScanDone: the day of the scan is not noted.
dorScanForgotten(n) == UNCHANGED lastDorScanDate

dorScanDone(n) == lastDorScanDate' = cycle[n].day

NextFlag(n, todo) ==
    IF todo = {}
    THEN cycle' = [cycle EXCEPT ![n] = Idle] /\ dorScanDone(n)
    ELSE NextItem(n, "flagging", todo, "idle") /\ UNCHANGED lastDorScanDate

\* A slip for ScanGivenUp: the day is noted all the same.
noteGivenUp(n) == cycle' = [cycle EXCEPT ![n] = Idle] /\ dorScanDone(n)

\* Without the sprint the scan is over, and the day stays open.
ScanGivenUp(n) == cycle' = [cycle EXCEPT ![n] = Idle] /\ UNCHANGED lastDorScanDate

\* The active sprint, if its name is known, and its issues.  Nobody looks at the status of
\* the answer: an error body is a sprint without issues, and the result cap hides some.
SprintRead(n) ==
    /\ cycle[n].pc = "sprint"
    /\ \/ activeSprintName = None /\ ScanGivenUp(n) /\ Fine
       \/ activeSprintName # None /\ NextFlag(n, NotReady) /\ Fine
       \/ activeSprintName # None /\ ScanGivenUp(n) /\ Miss
       \/ activeSprintName # None /\ (\E some \in SUBSET NotReady : NextFlag(n, some)) /\ Miss
    /\ UNCHANGED <<jira, lastHandoff, lastSeen, processed, activeSprintName, told, search, lost>>

\* postDorViolationComment, whose failure is only logged.
Flag(i) ==
    \/ flags' = [flags EXCEPT ![i] = @ + 1] /\ Fine
    \/ Miss /\ UNCHANGED flags

Flagged(n) ==
    /\ cycle[n].pc = "flagging"
    /\ Flag(cycle[n].item)
    /\ NextFlag(n, cycle[n].todo)
    /\ UNCHANGED <<jira, lastHandoff, lastSeen, processed, activeSprintName, comments, announced,
                   defects, noticed, search, lost>>

\* GET /api/sprint-release/dor-violations for a sprint, one call at a time.  (Without the
\* number of a sprint it looks for one whose name is empty, and is over.)
AskForViolations ==
    /\ call = {}
    /\ edits < MaxEdits /\ edits' = edits + 1
    /\ asked' = asked + 1
    /\ call' \in SUBSET NotReady \ {{}}
    /\ UNCHANGED <<now, due, jira, memory, cycle, told, search, misses, lost, overlaps, midnights, restarts>>

AnswerViolation ==
    /\ \E i \in call : Flag(i) /\ call' = call \ {i}
    /\ UNCHANGED <<now, due, jira, memory, cycle, comments, announced, defects, noticed, search,
                   edits, lost, overlaps, midnights, asked, restarts>>

-----------------------------------------------------------------------------
(* The surroundings.                                                       *)

\* The next moment.  At midnight the comments of the day are counted anew, and a scan or a
\* call that is not over goes on with the issues of the day before.
Tick ==
    /\ now < Horizon
    /\ now' = now + 1
    /\ IF (now + 1) \div DayLength = Today
       THEN UNCHANGED <<flags, midnights>>
       ELSE /\ flags' = [i \in NotReady |-> 0]
            /\ midnights' = midnights + Cardinality({n \in Cycles : cycle[n].pc \in {"sprint", "flagging"}})

TimePasses ==
    /\ Tick
    /\ UNCHANGED <<due, jira, memory, cycle, call, comments, announced, defects, noticed, search,
                   edits, misses, lost, overlaps, asked, restarts>>

Edit == edits < MaxEdits /\ edits' = edits + 1

\* Somebody sets the sub-status of an issue.
SetSubStatus(i, value) ==
    /\ Edit /\ Tick
    /\ sub' = [sub EXCEPT ![i] = [value |-> value, at |-> now + 1]]
    /\ updated' = [updated EXCEPT ![i] = now + 1] /\ unseen' = unseen \cup {i}
    /\ comments' = [comments EXCEPT ![i] = 0] /\ announced' = announced \ {i}
    /\ UNCHANGED <<due, labelled, release, sprintEnd, memory, cycle, call, defects, noticed, search,
                   misses, lost, overlaps, asked, restarts>>

\* Somebody changes something else about an issue.
Touch(i) ==
    /\ Edit
    /\ Update({i})
    /\ UNCHANGED <<now, due, sub, labelled, release, sprintEnd, memory, cycle, call, told, search,
                   misses, lost, overlaps, midnights, asked, restarts>>

\* Somebody asks for a defect.
Label(i) ==
    /\ Edit
    /\ labelled' = labelled \cup {i}
    /\ Update({i})
    /\ UNCHANGED <<now, due, sub, release, sprintEnd, memory, cycle, call, told, search,
                   misses, lost, overlaps, midnights, asked, restarts>>

\* A release is planned for another date, or for none.
Reschedule(v, date) ==
    /\ Edit
    /\ release' = [release EXCEPT ![v] = date]
    /\ UNCHANGED <<now, due, sub, updated, unseen, labelled, sprintEnd, memory, cycle, call, told,
                   search, misses, lost, overlaps, midnights, asked, restarts>>

\* The process ends and starts again; its first poll is an interval away.
Restart ==
    /\ MayGoWrong
    /\ restarts' = restarts + 1
    /\ due' = now + Interval
    /\ lastHandoff' = NoHandoff /\ lastSeen' = NoDate /\ processed' = {}
    /\ lastDorScanDate' = None /\ activeSprintName' = None
    /\ cycle' = AllIdle /\ call' = {} /\ noticed' = {}
    /\ UNCHANGED <<now, jira, comments, announced, defects, flags, search, edits, misses, lost,
                   overlaps, midnights, asked>>

CycleStep(n) ==
    /\ \/ SearchHandoffs(n) \/ HandoffsFound(n) \/ Closed(n) \/ Commented(n) \/ Recorded(n)
       \/ VersionsFound(n) \/ SprintFound(n) \/ SprintMoved(n)
       \/ IntakesFound(n) \/ DefectCreated(n) \/ Linked(n) \/ Unlabelled(n)
       \/ SprintRead(n) \/ Flagged(n)
    /\ UNCHANGED <<now, due, call, edits, overlaps, midnights, asked, restarts>>

Next ==
    \/ Poll \/ RunNow
    \/ \E n \in Cycles : CycleStep(n)
    \/ AskForViolations \/ AnswerViolation
    \/ \E i \in DevIssues, value \in Kinds \cup {"other"} : SetSubStatus(i, value)
    \/ \E i \in DevIssues \cup Intakes : Touch(i)
    \/ \E i \in Intakes : Label(i)
    \/ \E v \in Versions, date \in Dates \cup {None} : Reschedule(v, date)
    \/ TimePasses \/ Restart

Spec == Init /\ [][Next]_vars

-----------------------------------------------------------------------------
(* What must hold.                                                         *)

\* lastHandoffByIssue "prevents duplicate handoff notifications across poll cycles": where
\* Jira's stamps do not read ahead of UTC, a handoff is announced a second time only by a
\* cycle that ran beside another one or by a process that has forgotten.
HandoffOnce == JiraAhead <= 0 => \A i \in DevIssues : comments[i] <= 1 + overlaps + restarts

\* A cycle is about to announce that issue i has its sub-status.
HandoffUnderWay(i) ==
    LET calls(e) == e.issue = i /\ e.kind = sub[i].value
    IN  \E n \in Cycles :
           \/ cycle[n].pc \in {"closing", "commenting"} /\ calls(cycle[n].item)
           \/ /\ cycle[n].pc \in {"detecting", "closing", "commenting", "recording"}
              /\ \E e \in cycle[n].todo : calls(e)

\* Where Jira's stamps do not read behind UTC, no request fails and the process stays up: a
\* handoff that a search has found is announced, with a comment made after the sub-status
\* was set, or about to be.  One that no search has found is younger than the latest search,
\* unless a search came later after the one before it than it looks back.
HandoffMade ==
    JiraAhead >= 0 /\ misses = 0 /\ restarts = 0 =>
        \A i \in DevIssues \ ConfigOnly :
            \/ sub[i].value = "other"
            \/ i \in unseen /\ (updated[i] >= searched \/ gapped)
            \/ i \in announced
            \/ HandoffUnderWay(i)

\* processedDefectIntakeKeys "prevents duplicate issue creation": an intake gets another
\* defect only from a cycle that ran beside another one, from a process that has forgotten,
\* or because the answer that named the defect was lost.
OneDefect == \A i \in Intakes : defects[i] <= 1 + overlaps + restarts + lost

\* An intake that is taken off the list has its defect, and only then.
LabelTakenForDefect == \A i \in processed : defects[i] >= 1

\* A sprint ends as the release date last seen has it, once a cycle is over and a change
\* of the date has been noticed.  A date is noted before the sprint is moved: a request
\* that fails leaves the two apart for good, as cycles that overlap may.
SprintFollows ==
    misses + overlaps = 0 /\ InFlight = {} =>
        \A v \in Sprints \cap noticed : sprintEnd[v] = lastSeen[v]

\* The scan runs "once per calendar day": an issue gets a second comment on one day only
\* from cycles that overlapped, a process that has forgotten, a scan that ran past midnight
\* or a call of dor-violations.
FlaggedOncePerDay == \A i \in NotReady : flags[i] <= 1 + overlaps + restarts + midnights + asked

\* A day that counts as scanned has been: every sprint issue that is not ready was told so
\* today, unless a request failed.  A scan that knows no sprint, that runs past midnight or
\* that the end of the process cuts short leaves the day to a later cycle.
ScannedMeansFlagged ==
    misses = 0 /\ lastDorScanDate = Today => \A i \in NotReady : flags[i] >= 1
=============================================================================

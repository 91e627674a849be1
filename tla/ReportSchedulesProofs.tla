------------------------ MODULE ReportSchedulesProofs ------------------------
(***************************************************************************)
(* Proofs about ReportSchedules, for any set of reports, any calendar and  *)
(* any number of runs, crashes and lost files.                             *)
(***************************************************************************)
EXTENDS ReportSchedules, TLAPS

\* What a day, and an earlier day, is.
LEMMA DayFacts ==
    ASSUME NEW t \in Nat
    PROVE  Day(t) \in Nat /\ Day(t) <= t
  BY DEF Day, Phases

LEMMA DayInt ==
    ASSUME NEW t \in Int
    PROVE  Day(t) \in Int /\ Phases * Day(t) \in Int /\ Phases * Day(t) <= t
  BY DEF Day, Phases

LEMMA DayMonotone ==
    ASSUME NEW t \in Int, NEW u \in Int, t <= u
    PROVE  Day(t) <= Day(u)
  BY DEF Day, Phases

\* A window begins at some moment, perhaps before the first one of the model.
LEMMA WindowType ==
    ASSUME now \in 0..Horizon, NEW mark \in -1..Horizon
    PROVE  /\ resolveCoverageCutoff(mark) \in Int
           /\ WindowStart(resolveCoverageCutoff(mark)) \in Int
  <1>1. now \in Nat /\ mark \in Int
    BY TimeAssumption
  <1>2. Day(now) \in Int /\ DaysBack(DayOfWeek(Day(now))) \in Int
    BY <1>1, DayFacts DEF DaysBack
  <1>3. getPreviousBusinessDayCutoff \in Int /\ now - Phases * MaxLookbackDays \in Int
    BY <1>1, <1>2, TimeAssumption DEF getPreviousBusinessDayCutoff, Phases
  <1>4. resolveCoverageCutoff(mark) \in Int
    BY <1>1, <1>3 DEF resolveCoverageCutoff, MaxOf, MinOf
  <1>5. Phases * Day(resolveCoverageCutoff(mark) + UtcAhead) \in Int
    BY <1>4, TimeAssumption, DayInt
  <1> QED
    BY <1>4, <1>5 DEF WindowStart, cutoffDateString, MaxOf

\* The runs a scheduler or a person starts are well formed.
LEMMA NewRunType ==
    ASSUME TypeOK, NEW r \in Reports, NEW trigger \in {"scheduled", "manual"}
    PROVE  /\ NewRun(r, trigger) \in Run
           /\ NewRun(r, trigger).report = r
           /\ NewRun(r, trigger).trigger = trigger
           /\ NewRun(r, trigger).started = now
           /\ NewRun(r, trigger).pc \in {"querying", "working"}
           /\ NewRun(r, trigger).pc = "working" \/ r \in PageReports
  <1> DEFINE mark == IF r \in ChangeReports THEN watermark[KeyOf[r]] ELSE Never
  <1>1. mark \in -1..Horizon
    BY TimeAssumption, ConfigurationAssumption DEF TypeOK, Never
  <1>2. WindowStart(resolveCoverageCutoff(mark)) \in Int
    BY <1>1, WindowType DEF TypeOK
  <1>3. now \in 0..Horizon /\ mark \in Int
    BY <1>1 DEF TypeOK
  <1> HIDE DEF mark
  <1>4. NewRun(r, trigger) =
          [report |-> r, trigger |-> trigger, started |-> now, mark |-> mark,
           from |-> WindowStart(resolveCoverageCutoff(mark)),
           pc |-> IF r \in PageReports THEN "querying" ELSE "working",
           found |-> {}, hidden |-> {}, copy |-> {}, isStale |-> FALSE, attempt |-> 1]
    BY DEF NewRun, mark
  <1> QED
    BY <1>2, <1>3, <1>4 DEF Run

\* What Jira answers is made of entries.
LEMMA AnswerType ==
    ASSUME TypeOK, NEW x \in runs, x.report \in PageReports
    PROVE  Answer(x) \subseteq Entry
  <1>1. x \in Run /\ x.report \in Reports /\ x.started \in 0..Horizon /\ 0 \in 0..Horizon
    BY TimeAssumption DEF TypeOK, Run
  <1>2. CASE x.report \in ChangeReports
    BY <1>1, <1>2, ConfigurationAssumption DEF Answer, Entry, TypeOK
  <1>3. CASE x.report \notin ChangeReports
    BY <1>1, <1>3 DEF Answer, Entry
  <1> QED
    BY <1>2, <1>3

\* Every run knows where it writes to: a run that reads and writes works on a page.
RunsInOrder ==
    \A x \in runs :
        /\ x.pc # "working" => x.report \in PageReports
        /\ x.pc \in {"reading", "writing"} => PageOf[x.report] # NewPost
        /\ x.pc = "posting" => PageOf[x.report] = NewPost

WellFormed == TypeOK /\ RunsInOrder

\* A run that begins, or that goes on, in order.
OrderedRun(y) ==
    /\ y \in Run
    /\ y.pc # "working" => y.report \in PageReports
    /\ y.pc \in {"reading", "writing"} => PageOf[y.report] # NewPost
    /\ y.pc = "posting" => PageOf[y.report] = NewPost

\* y is run x later on: what was fixed at its start is what it was.
SameRun(x, y) ==
    /\ y.report = x.report /\ y.trigger = x.trigger /\ y.started = x.started
    /\ y.mark = x.mark /\ y.from = x.from

\* What becomes of run y when page p has a new version.
Restamped(y, p) ==
    IF y.pc = "writing" /\ PageOf[y.report] = p THEN [y EXCEPT !.isStale = TRUE] ELSE y

\* A page's new version marks the copies of other runs and changes nothing else of them.
LEMMA OutdatedShape ==
    ASSUME NEW S \in SUBSET Run, NEW p
    PROVE  /\ \A z \in Outdated(S, p) : \E y \in S :
                 /\ z \in Run /\ SameRun(y, z) /\ z = Restamped(y, p)
                 /\ z.pc = y.pc /\ z.found = y.found /\ z.copy = y.copy /\ z.hidden = y.hidden
                 /\ z = y \/ z.isStale
                 /\ y.pc = "writing" /\ PageOf[y.report] = p => z.isStale
           /\ \A y \in S : \E z \in Outdated(S, p) : SameRun(y, z)
  <1>1. ASSUME NEW y \in S
        PROVE  /\ [y EXCEPT !.isStale = TRUE] \in Run
               /\ SameRun(y, [y EXCEPT !.isStale = TRUE])
               /\ [y EXCEPT !.isStale = TRUE].pc = y.pc
               /\ [y EXCEPT !.isStale = TRUE].found = y.found
               /\ [y EXCEPT !.isStale = TRUE].copy = y.copy
               /\ [y EXCEPT !.isStale = TRUE].hidden = y.hidden
               /\ [y EXCEPT !.isStale = TRUE].isStale
               /\ SameRun(y, y) /\ y \in Run
    BY DEF Run, SameRun
  <1> QED
    BY <1>1 DEF Outdated, Restamped

\* A step of run x ends it, carries it on as another ordered run, or ends it with a new
\* version of its page.
LEMMA RunStepShape ==
    ASSUME WellFormed, NEW x \in runs, RunStep(x)
    PROVE  \/ Over(x)
           \/ \E y \in Run : OrderedRun(y) /\ SameRun(x, y) /\ GoesOn(x, y)
           \/ runs' = Outdated(runs \ {x}, PageOf[x.report]) /\ Released(x)
  <1>1. x \in Run /\ OrderedRun(x)
    BY DEF WellFormed, TypeOK, RunsInOrder, OrderedRun
  <1>2. CASE QueryAnswered(x)
    <2>1. x.report \in PageReports /\ Answer(x) \subseteq Entry
      BY <1>1, <1>2, AnswerType DEF QueryAnswered, OrderedRun, WellFormed
    <2>2. PICK found \in SUBSET Entry : Found(x, found)
      BY <1>2, <2>1 DEF QueryAnswered
    <2>3. CASE found = {}
      BY <2>2, <2>3 DEF Found
    <2>4. CASE found # {}
      <3> DEFINE y == [x EXCEPT !.found = found, !.hidden = Withheld(x, found),
                       !.pc = IF PageOf[x.report] = NewPost THEN "posting" ELSE "reading"]
      <3>1. GoesOn(x, y)
        BY <2>2, <2>4 DEF Found
      <3>2. OrderedRun(y) /\ SameRun(x, y)
        BY <1>1, <2>1 DEF Run, OrderedRun, SameRun, Withheld
      <3> QED
        BY <3>1, <3>2 DEF OrderedRun
    <2> QED
      BY <2>3, <2>4
  <1>3. CASE PageRead(x)
    <2>1. x.report \in PageReports /\ PageOf[x.report] # NewPost /\ PageOf[x.report] \in Places
      BY <1>1, <1>3, ConfigurationAssumption DEF PageRead, OrderedRun
    <2>2. page[PageOf[x.report]] \in SUBSET Entry
      BY <2>1 DEF WellFormed, TypeOK
    <2> DEFINE y == [x EXCEPT !.pc = "writing", !.copy = page[PageOf[x.report]], !.isStale = FALSE]
    <2>3. Over(x) \/ GoesOn(x, y)
      BY <1>3 DEF PageRead
    <2>4. OrderedRun(y) /\ SameRun(x, y)
      BY <1>1, <2>1, <2>2 DEF Run, OrderedRun, SameRun
    <2> QED
      BY <2>3, <2>4 DEF OrderedRun
  <1>4. CASE PageWritten(x)
    <2> DEFINE y == [x EXCEPT !.pc = "reading", !.copy = {}, !.attempt = 2]
    <2>1. \/ Over(x) \/ GoesOn(x, y)
          \/ runs' = Outdated(runs \ {x}, PageOf[x.report]) /\ Released(x)
      BY <1>4 DEF PageWritten
    <2>2. x.pc = "writing"
      BY <1>4 DEF PageWritten
    <2>3. /\ y \in Run /\ SameRun(x, y) /\ y.pc = "reading"
      BY <1>1, 2 \in 1..2 DEF Run, SameRun
    <2> HIDE DEF y
    <2>4. OrderedRun(y)
      BY <1>1, <2>2, <2>3 DEF OrderedRun, SameRun
    <2> QED
      BY <2>1, <2>3, <2>4
  <1> QED
    BY <1>2, <1>3, <1>4 DEF RunStep, RequestFails, Posted, WorkDone

\* The runs stay in order, whichever of them moves.
LEMMA RunsStayInOrder ==
    ASSUME WellFormed, NEW x \in runs, RunStep(x)
    PROVE  runs' \subseteq Run /\ RunsInOrder'
  <1>1. runs \subseteq Run /\ \A y \in runs : OrderedRun(y)
    BY DEF WellFormed, TypeOK, RunsInOrder, OrderedRun
  <1>2. \A z \in runs' : OrderedRun(z)
    <2>1. CASE Over(x)
      BY <1>1, <2>1 DEF Over
    <2>2. CASE \E y \in Run : OrderedRun(y) /\ SameRun(x, y) /\ GoesOn(x, y)
      BY <1>1, <2>2 DEF GoesOn
    <2>3. CASE runs' = Outdated(runs \ {x}, PageOf[x.report]) /\ Released(x)
      <3>1. \A z \in runs' : \E y \in runs : z \in Run /\ SameRun(y, z) /\ z.pc = y.pc
        BY <1>1, <2>3, OutdatedShape
      <3> QED
        BY <1>1, <3>1 DEF OrderedRun, SameRun
    <2> QED
      BY <2>1, <2>2, <2>3, RunStepShape
  <1> QED
    BY <1>2 DEF RunsInOrder, OrderedRun

\* Confirming coverage writes moments the model has.
LEMMA ConfirmType ==
    ASSUME TypeOK, NEW x \in runs, NEW hidden \in SUBSET (0..Horizon),
           Confirm(x, hidden) \/ UNCHANGED <<watermark, forgiven>>
    PROVE  /\ watermark' \in [CoverageKeys -> -1..Horizon]
           /\ forgiven' \in [CoverageKeys -> SUBSET (0..Horizon)]
  <1>1. x.started \in -1..Horizon
    BY TimeAssumption DEF TypeOK, Run
  <1>2. CASE UNCHANGED <<watermark, forgiven>>
    BY <1>2 DEF TypeOK
  <1>3. CASE Confirm(x, hidden) /\ x.report \in ChangeReports
    <2>1. watermark' = [watermark EXCEPT ![KeyOf[x.report]] = x.started]
      BY <1>3 DEF Confirm, setCoverageWatermark
    <2> DEFINE more == hidden \cup {c \in changes[KeyOf[x.report]] : Excused(x) /\ c < x.from}
    <2>2. forgiven' = [forgiven EXCEPT ![KeyOf[x.report]] = @ \cup more]
      BY <1>3 DEF Confirm
    <2>3. more \subseteq 0..Horizon /\ KeyOf[x.report] \in CoverageKeys
      BY <1>3, ConfigurationAssumption DEF TypeOK
    <2> HIDE DEF more
    <2> QED
      BY <1>1, <1>3, <2>1, <2>2, <2>3 DEF TypeOK
  <1>4. CASE Confirm(x, hidden) /\ x.report \notin ChangeReports
    BY <1>4 DEF Confirm, TypeOK
  <1> QED
    BY <1>2, <1>3, <1>4

\* What a run leaves behind besides itself.
LEMMA RunStepType ==
    ASSUME WellFormed, NEW x \in runs, RunStep(x)
    PROVE  TypeOK'
  <1>1. x \in Run /\ OrderedRun(x) /\ PageOf \in [PageReports -> Places]
    BY ConfigurationAssumption DEF WellFormed, TypeOK, RunsInOrder, OrderedRun
  <1>2. runs' \subseteq Run
    BY RunsStayInOrder
  <1>3. \/ \E hidden \in SUBSET (0..Horizon) : Confirm(x, hidden)
        \/ UNCHANGED <<watermark, forgiven>>
    <2>1. CASE QueryAnswered(x)
      <3>1. PICK found : Found(x, found)
        BY <2>1 DEF QueryAnswered
      <3>2. Withheld(x, found) \in SUBSET (0..Horizon)
        BY DEF Withheld
      <3> QED
        BY <3>1, <3>2 DEF Found
    <2> x.hidden \in SUBSET (0..Horizon)
      BY <1>1 DEF Run
    <2>2. CASE Posted(x)
      BY <2>2 DEF Posted
    <2>3. CASE PageWritten(x)
      BY <2>3 DEF PageWritten
    <2> QED
      BY <2>1, <2>2, <2>3 DEF RunStep, RequestFails, PageRead, WorkDone
  <1>4. /\ watermark' \in [CoverageKeys -> -1..Horizon]
        /\ forgiven' \in [CoverageKeys -> SUBSET (0..Horizon)]
    BY <1>3, ConfirmType DEF WellFormed
  <1>5. page' \in [Places -> SUBSET Entry]
    <2>1. page \in [Places -> SUBSET Entry] /\ x.found \subseteq Entry /\ x.copy \subseteq Entry
      BY <1>1 DEF WellFormed, TypeOK, Run
    <2>2. CASE Posted(x)
      BY <2>1, <2>2 DEF Posted
    <2>3. CASE PageWritten(x)
      <3>1. page' = page \/ page' = [page EXCEPT ![PageOf[x.report]] = x.copy \cup x.found]
        BY <2>3 DEF PageWritten
      <3> QED
        BY <2>1, <3>1
    <2> QED
      BY <2>1, <2>2, <2>3 DEF RunStep, QueryAnswered, RequestFails, PageRead, WorkDone
  <1>6. runningTeams' \subseteq PiTeams /\ isRunInProgress' \in BOOLEAN
    <2>1. Released(x) \/ UNCHANGED <<runningTeams, isRunInProgress>>
      BY RunStepShape DEF Over, GoesOn
    <2> QED
      BY <2>1 DEF Released, WellFormed, TypeOK
  <1>7. shortAnswers' \in Nat /\ lostMarks' \in Nat
    BY DEF RunStep, QueryAnswered, RequestFails, Posted, PageRead, PageWritten, WorkDone,
           WellFormed, TypeOK
  <1>8. UNCHANGED <<enabled, now, isUp, ticked, lastFired, alignedSlot, firedOnDisk, changes,
                    starts, crashes, edits>>
    BY DEF RunStep
  <1> QED
    BY <1>2, <1>4, <1>5, <1>6, <1>7, <1>8 DEF WellFormed, TypeOK
\* What the ticks fire is enabled and due.
LEMMA TickType ==
    ASSUME WellFormed, Tick
    PROVE  WellFormed'
  <1> DEFINE due   == {r \in enabled : Due(r)}
             fired == due \ IntervalTeams
  <1>1. due \subseteq Reports /\ Day(now) \in -1..Horizon /\ now \in -1..Horizon
    BY DayFacts, TimeAssumption DEF WellFormed, TypeOK
  <1>2. runs' = runs \cup {NewRun(r, "scheduled") : r \in due}
    BY DEF Tick
  <1>3. runs' \subseteq Run /\ RunsInOrder'
    BY <1>1, <1>2, NewRunType DEF WellFormed, TypeOK, RunsInOrder
  <1>4. /\ lastFired' = [r \in Reports |-> IF r \in fired THEN Day(now) ELSE lastFired[r]]
        /\ alignedSlot' = [r \in IntervalTeams |-> IF r \in due THEN now ELSE alignedSlot[r]]
        /\ runningTeams' = runningTeams \cup (due \cap PiTeams)
        /\ isRunInProgress' = (isRunInProgress \/ due \cap MonthlyReports # {})
        /\ starts' = [r \in Reports |-> IF r \in due THEN starts[r] + 1 ELSE starts[r]]
        /\ ticked' = TRUE
        /\ UNCHANGED <<enabled, now, isUp, watermark, changes, page, forgiven, crashes, shortAnswers, edits>>
    BY DEF Tick
  <1>5. /\ lostMarks' = lostMarks \/ lostMarks' = lostMarks + 1
        /\ \/ firedOnDisk' = [r \in Reports |-> IF r \in fired THEN Day(now) ELSE firedOnDisk[r]]
           \/ firedOnDisk' = firedOnDisk
    BY DEF Tick, recordFiredDate
  <1> HIDE DEF due
  <1>6. /\ lastFired' \in [Reports -> -1..Horizon]
        /\ firedOnDisk' \in [Reports -> -1..Horizon]
        /\ alignedSlot' \in [IntervalTeams -> -1..Horizon]
        /\ starts' \in [Reports -> Nat]
    BY <1>1, <1>4, <1>5 DEF WellFormed, TypeOK
  <1>7. /\ runningTeams' \subseteq PiTeams /\ isRunInProgress' \in BOOLEAN
        /\ ticked' \in BOOLEAN /\ lostMarks' \in Nat
    BY <1>4, <1>5 DEF WellFormed, TypeOK
  <1> QED
    BY <1>3, <1>4, <1>6, <1>7 DEF WellFormed, TypeOK

LEMMA EditType ==
    ASSUME WellFormed, NEW p \in Pages, EditPage(p)
    PROVE  WellFormed'
  <1>1. /\ page' = [page EXCEPT ![p] = @ \cup {[owner |-> Human, at |-> now]}]
        /\ runs' = Outdated(runs, p)
        /\ edits' = edits + 1
        /\ UNCHANGED <<enabled, now, isUp, ticked, memory, disk, changes, starts, forgiven, crashes,
                       shortAnswers, lostMarks>>
    BY DEF EditPage
  <1>2. page' \in [Places -> SUBSET Entry]
    <2>1. [owner |-> Human, at |-> now] \in Entry
      BY DEF WellFormed, TypeOK, Entry
    <2> QED
      BY <1>1, <2>1 DEF WellFormed, TypeOK
  <1>3. \A z \in runs' : \E y \in runs : z \in Run /\ SameRun(y, z) /\ z.pc = y.pc
    BY <1>1, OutdatedShape DEF WellFormed, TypeOK
  <1>4. runs' \subseteq Run /\ RunsInOrder'
    BY <1>3 DEF WellFormed, RunsInOrder, SameRun
  <1>5. edits' \in Nat
    BY <1>1 DEF WellFormed, TypeOK
  <1> QED
    BY <1>1, <1>2, <1>4, <1>5 DEF WellFormed, TypeOK, memory, disk

\* All other steps.
LEMMA OtherType ==
    ASSUME WellFormed,
           \/ \E r \in ByHand \cap enabled : RunNow(r)
           \/ \E k \in CoverageKeys : JiraChanges(k)
           \/ TimePasses \/ Boot \/ Crash \/ UNCHANGED vars
    PROVE  WellFormed'
  <1>1. ASSUME NEW r \in ByHand \cap enabled, RunNow(r) PROVE WellFormed'
    <2>1. r \in Reports
      BY ConfigurationAssumption
    <2>2. runs' = runs \cup {NewRun(r, "manual")}
      BY <1>1 DEF RunNow
    <2>3. runs' \subseteq Run /\ RunsInOrder'
      BY <2>1, <2>2, NewRunType DEF WellFormed, TypeOK, RunsInOrder
    <2>4. isRunInProgress' \in BOOLEAN
      BY <1>1 DEF RunNow
    <2> QED
      BY <1>1, <2>3, <2>4 DEF RunNow, WellFormed, TypeOK, disk, bounds
  <1>2. ASSUME NEW k \in CoverageKeys, JiraChanges(k) PROVE WellFormed'
    <2>1. changes' \in [CoverageKeys -> SUBSET (0..Horizon)]
      BY <1>2 DEF JiraChanges, WellFormed, TypeOK
    <2> QED
      BY <1>2, <2>1 DEF JiraChanges, WellFormed, TypeOK, RunsInOrder, memory, disk, bounds
  <1>3. CASE TimePasses
    <2>1. now' \in 0..Horizon
      BY <1>3, TimeAssumption DEF TimePasses, WellFormed, TypeOK
    <2>2. starts' \in [Reports -> Nat]
      BY <1>3 DEF TimePasses, WellFormed, TypeOK
    <2> QED
      BY <1>3, <2>1, <2>2 DEF TimePasses, WellFormed, TypeOK, RunsInOrder, memory, disk, bounds
  <1>4. CASE Boot
    <2>1. Never \in -1..Horizon
      BY TimeAssumption DEF Never
    <2> QED
      BY <1>4, <2>1 DEF Boot, loadFiredDates, WellFormed, TypeOK, RunsInOrder, disk, bounds
  <1>5. CASE Crash
    <2>1. Never \in -1..Horizon
      BY TimeAssumption DEF Never
    <2>2. lostMarks' \in Nat /\ crashes' \in Nat
      BY <1>5 DEF Crash, WellFormed, TypeOK
    <2>3. firedOnDisk' \in [Reports -> -1..Horizon] /\ watermark' \in [CoverageKeys -> -1..Horizon]
      BY <1>5, <2>1 DEF Crash, WellFormed, TypeOK, disk
    <2> QED
      BY <1>5, <2>2, <2>3 DEF Crash, WellFormed, TypeOK, RunsInOrder, memory
  <1>6. CASE UNCHANGED vars
    BY <1>6 DEF vars, memory, disk, bounds, WellFormed, TypeOK, RunsInOrder
  <1> QED
    BY <1>1, <1>2, <1>3, <1>4, <1>5, <1>6

LEMMA InitWellFormed == Init => WellFormed
  <1>1. Never \in -1..Horizon /\ 0 \in 0..Horizon
    BY TimeAssumption DEF Never
  <1> SUFFICES ASSUME Init PROVE TypeOK /\ RunsInOrder
    BY DEF WellFormed
  <1>2. enabled \in SUBSET Reports
    BY ConfigurationAssumption DEF Init
  <1>3. runs = {} /\ runs \subseteq Run /\ RunsInOrder
    BY DEF Init, RunsInOrder
  <1>4. /\ lastFired \in [Reports -> -1..Horizon]
        /\ firedOnDisk \in [Reports -> -1..Horizon]
        /\ alignedSlot \in [IntervalTeams -> -1..Horizon]
        /\ watermark \in [CoverageKeys -> -1..Horizon]
        /\ starts \in [Reports -> Nat]
    BY <1>1 DEF Init
  <1>5. /\ changes \in [CoverageKeys -> SUBSET (0..Horizon)]
        /\ forgiven \in [CoverageKeys -> SUBSET (0..Horizon)]
        /\ page \in [Places -> SUBSET Entry]
    BY DEF Init
  <1> QED
    BY <1>1, <1>2, <1>3, <1>4, <1>5 DEF Init, TypeOK

LEMMA NextWellFormed == WellFormed /\ [Next]_vars => WellFormed'
  <1> SUFFICES ASSUME WellFormed, [Next]_vars PROVE WellFormed'
    OBVIOUS
  <1>1. ASSUME NEW x \in runs, RunStep(x) PROVE WellFormed'
    BY <1>1, RunStepType, RunsStayInOrder DEF WellFormed
  <1>2. ASSUME NEW p \in Pages, EditPage(p) PROVE WellFormed'
    BY <1>2, EditType
  <1>3. CASE Tick
    BY <1>3, TickType
  <1> QED
    BY <1>1, <1>2, <1>3, OtherType, ConfigurationAssumption DEF Next

\* Every variable keeps its type, and every run knows its page.
THEOREM TypeCorrect == Spec => []TypeOK
  <1>1. Spec => []WellFormed
    BY InitWellFormed, NextWellFormed, PTL DEF Spec
  <1>2. WellFormed => TypeOK
    BY DEF WellFormed
  <1> QED
    BY <1>1, <1>2, PTL
-----------------------------------------------------------------------------
(* Slots and marks.                                                        *)

\* Date d stands for the slot the report is in.
MarkedBy(r, d) == IF r \in MonthlyReports THEN d # Never ELSE d = Day(now)

\* A mark, in memory or on disk, stands for a run of the slot; without it every run of
\* the slot has cost a mark.
MarkCounts(r, d) ==
    /\ d <= Day(now)
    /\ MarkedBy(r, d) => starts[r] >= 1
    /\ ~MarkedBy(r, d) => starts[r] <= lostMarks

Once(r) == starts[r] <= 1 + lostMarks + (IF r \in IntervalTeams THEN crashes ELSE 0)

\* The boundary an interval team has used is remembered as long as the process lives.
SlotKept(r) ==
    /\ Once(r)
    /\ IF r \in IntervalTeams
       THEN /\ lastFired[r] = Never /\ firedOnDisk[r] = Never
            /\ ~isUp \/ alignedSlot[r] # now => starts[r] <= lostMarks + crashes
       ELSE MarkCounts(r, lastFired[r]) /\ MarkCounts(r, firedOnDisk[r])

SlotsKept == \A r \in Reports : SlotKept(r)

\* What is due has not been marked.
LEMMA DueUnmarked ==
    ASSUME NEW r \in Reports, Due(r)
    PROVE  IF r \in IntervalTeams THEN alignedSlot[r] # now ELSE ~MarkedBy(r, lastFired[r])
  <1>1. CASE r \in IntervalTeams
    <2>1. PiReviewDue(r)
      BY <1>1, KindsAssumption
         DEF Due, ChangeReportDue, BriefingDue, HygieneDue, MonthlyDue, PageReports
    <2> QED
      BY <1>1, <2>1 DEF PiReviewDue, isTeamDueThisTick
  <1>2. CASE r \in MonthlyReports
    <2>1. r \notin PiTeams /\ MonthlyDue(r)
      BY <1>2, KindsAssumption
         DEF Due, ChangeReportDue, BriefingDue, HygieneDue, PiReviewDue, PageReports
    <2> QED
      BY <1>2, <2>1, KindsAssumption DEF MonthlyDue, hasAlreadyFiredThisMonth, MarkedBy
  <1>3. CASE r \notin IntervalTeams \cup MonthlyReports
    BY <1>3 DEF Due, ChangeReportDue, BriefingDue, HygieneDue, PiReviewDue, MonthlyDue,
                isTeamDueThisTick, hasAlreadyFiredToday, MarkedBy
  <1> QED
    BY <1>1, <1>2, <1>3

\* A tick marks what it starts, or loses a mark for it.
LEMMA TickKeepsSlots ==
    ASSUME WellFormed, SlotsKept, Tick
    PROVE  SlotsKept'
  <1> SUFFICES ASSUME NEW r \in Reports PROVE SlotKept(r)'
    BY DEF SlotsKept
  <1> DEFINE due   == {s \in enabled : Due(s)}
             fired == due \ IntervalTeams
             today == Day(now)
  <1>1. /\ lastFired'[r] = (IF r \in fired THEN today ELSE lastFired[r])
        /\ r \in IntervalTeams => alignedSlot'[r] = (IF r \in due THEN now ELSE alignedSlot[r])
        /\ starts'[r] = (IF r \in due THEN starts[r] + 1 ELSE starts[r])
        /\ UNCHANGED <<now, isUp, crashes>>
        /\ isUp
    BY DEF Tick
  <1>2. \/ /\ firedOnDisk'[r] = (IF r \in fired THEN today ELSE firedOnDisk[r])
           /\ lostMarks' = lostMarks
        \/ firedOnDisk' = firedOnDisk /\ lostMarks' = lostMarks + 1
    BY DEF Tick, recordFiredDate
  <1>3. r \in due => IF r \in IntervalTeams THEN alignedSlot[r] # now ELSE ~MarkedBy(r, lastFired[r])
    BY DueUnmarked
  <1>4. /\ starts[r] \in Nat /\ lostMarks \in Nat /\ crashes \in Nat /\ today \in Nat /\ today' = today
        /\ lastFired[r] \in Int /\ firedOnDisk[r] \in Int
    BY <1>1, DayFacts, TimeAssumption DEF WellFormed, TypeOK
  <1>5. SlotKept(r)
    BY DEF SlotsKept
  <1> HIDE DEF due
  <1>6. CASE r \in IntervalTeams
    BY <1>1, <1>2, <1>3, <1>4, <1>5, <1>6 DEF SlotKept, Once
  <1>7. CASE r \notin IntervalTeams
    <2>1. MarkCounts(r, lastFired[r]) /\ MarkCounts(r, firedOnDisk[r]) /\ Once(r)
      BY <1>5, <1>7 DEF SlotKept
    <2>2. MarkCounts(r, lastFired[r])'
      BY <1>1, <1>2, <1>4, <1>7, <2>1 DEF MarkCounts, MarkedBy, Never
    <2>3. MarkCounts(r, firedOnDisk[r])'
      BY <1>1, <1>2, <1>3, <1>4, <1>7, <2>1 DEF MarkCounts, MarkedBy, Never
    <2>4. Once(r)'
      BY <1>1, <1>2, <1>3, <1>4, <1>7, <2>1 DEF MarkCounts, Once
    <2> QED
      BY <1>7, <2>2, <2>3, <2>4 DEF SlotKept
  <1> QED
    BY <1>6, <1>7

\* With the clock a new day may begin, for which nothing has been started or marked.
LEMMA ClockKeepsSlots ==
    ASSUME WellFormed, SlotsKept, TimePasses
    PROVE  SlotsKept'
  <1> SUFFICES ASSUME NEW r \in Reports PROVE SlotKept(r)'
    BY DEF SlotsKept
  <1>1. /\ now' = now + 1
        /\ starts'[r] = (IF r \in IntervalTeams \/ (r \in Daily /\ Day(now + 1) # Day(now)) THEN 0 ELSE starts[r])
        /\ UNCHANGED <<isUp, lastFired, firedOnDisk, alignedSlot, crashes, lostMarks>>
    BY DEF TimePasses, memory, disk, bounds
  <1>2. /\ starts[r] \in Nat /\ lostMarks \in Nat /\ crashes \in Nat
        /\ lastFired[r] \in Int /\ firedOnDisk[r] \in Int
        /\ now \in Nat /\ Day(now) \in Nat /\ Day(now + 1) \in Nat /\ Day(now) <= Day(now + 1)
    BY DayFacts, DayMonotone, TimeAssumption DEF WellFormed, TypeOK
  <1>3. SlotKept(r)
    BY DEF SlotsKept
  <1>4. CASE r \in IntervalTeams
    BY <1>1, <1>2, <1>3, <1>4 DEF SlotKept, Once
  <1>5. CASE r \in MonthlyReports
    BY <1>1, <1>2, <1>3, <1>5, KindsAssumption DEF SlotKept, Once, MarkCounts, MarkedBy, Daily, PageReports
  <1>6. CASE r \in Daily
    BY <1>1, <1>2, <1>3, <1>6 DEF SlotKept, Once, MarkCounts, MarkedBy, Daily
  <1> QED
    BY <1>4, <1>5, <1>6 DEF Daily

\* The end and the start of the process: what is lost of the marks is counted.
LEMMA RestartKeepsSlots ==
    ASSUME WellFormed, SlotsKept, Boot \/ Crash
    PROVE  SlotsKept'
  <1> SUFFICES ASSUME NEW r \in Reports PROVE SlotKept(r)'
    BY DEF SlotsKept
  <1>1. /\ starts[r] \in Nat /\ lostMarks \in Nat /\ crashes \in Nat
        /\ lastFired[r] \in Int /\ firedOnDisk[r] \in Int
        /\ now \in Nat /\ Day(now) \in Nat
    BY DayFacts, TimeAssumption DEF WellFormed, TypeOK
  <1>2. SlotKept(r)
    BY DEF SlotsKept
  <1>3. CASE Boot
    <2>1. /\ lastFired' = firedOnDisk /\ ~isUp
          /\ UNCHANGED <<now, firedOnDisk, starts, crashes, lostMarks>>
      BY <1>3 DEF Boot, loadFiredDates, disk, bounds
    <2> QED
      BY <1>1, <1>2, <2>1 DEF SlotKept, Once, MarkCounts, MarkedBy
  <1>4. CASE Crash
    <2>1. /\ crashes' = crashes + 1 /\ ~isUp'
          /\ UNCHANGED <<now, lastFired, alignedSlot, starts>>
          /\ \/ firedOnDisk' = firedOnDisk /\ (lostMarks' = lostMarks \/ lostMarks' = lostMarks + 1)
             \/ firedOnDisk'[r] = Never /\ lostMarks' = lostMarks + 1
      BY <1>4 DEF Crash, disk, memory
    <2>2. CASE r \in IntervalTeams
      BY <1>1, <1>2, <2>1, <2>2 DEF SlotKept, Once, Never
    <2>3. CASE r \notin IntervalTeams
      <3>1. MarkCounts(r, lastFired[r]) /\ MarkCounts(r, firedOnDisk[r]) /\ Once(r)
        BY <1>2, <2>3 DEF SlotKept
      <3>2. MarkCounts(r, lastFired[r])' /\ Once(r)'
        BY <1>1, <2>1, <2>3, <3>1 DEF MarkCounts, MarkedBy, Once
      <3>3. MarkCounts(r, firedOnDisk[r])'
        BY <1>1, <2>1, <2>3, <3>1 DEF MarkCounts, MarkedBy, Once, Never
      <3> QED
        BY <2>3, <3>2, <3>3 DEF SlotKept
    <2> QED
      BY <2>2, <2>3
  <1> QED
    BY <1>3, <1>4

\* Nothing else touches slots or marks.
LEMMA OthersKeepSlots ==
    ASSUME SlotsKept,
           UNCHANGED <<now, isUp, lastFired, alignedSlot, firedOnDisk, starts, crashes, lostMarks>>
    PROVE  SlotsKept'
  BY DEF SlotsKept, SlotKept, Once, MarkCounts, MarkedBy

LEMMA NextKeepsSlots == WellFormed /\ SlotsKept /\ [Next]_vars => SlotsKept'
  <1> SUFFICES ASSUME WellFormed, SlotsKept, [Next]_vars PROVE SlotsKept'
    OBVIOUS
  <1>1. ASSUME NEW r, RunNow(r) PROVE SlotsKept'
    BY <1>1, OthersKeepSlots DEF RunNow, disk, bounds
  <1>2. ASSUME NEW x \in runs, RunStep(x) PROVE SlotsKept'
    BY <1>2, OthersKeepSlots
       DEF RunStep, QueryAnswered, RequestFails, Posted, PageRead, PageWritten, WorkDone
  <1>3. ASSUME NEW r, JiraChanges(r) PROVE SlotsKept'
    BY <1>3, OthersKeepSlots DEF JiraChanges, memory, disk, bounds
  <1>4. ASSUME NEW p, EditPage(p) PROVE SlotsKept'
    BY <1>4, OthersKeepSlots DEF EditPage, memory, disk
  <1>5. CASE UNCHANGED vars
    BY <1>5, OthersKeepSlots DEF vars, memory, disk, bounds
  <1> QED
    BY <1>1, <1>2, <1>3, <1>4, <1>5, TickKeepsSlots, ClockKeepsSlots, RestartKeepsSlots,
       ConfigurationAssumption DEF Next

LEMMA InitKeepsSlots == Init => SlotsKept
  <1>1. Day(0) = 0
    BY DEF Day, Phases
  <1> QED
    BY <1>1 DEF Init, SlotsKept, SlotKept, Once, MarkCounts, MarkedBy, Never

LEMMA SlotsAlwaysKept == Spec => [](WellFormed /\ SlotsKept)
  BY InitWellFormed, NextWellFormed, InitKeepsSlots, NextKeepsSlots, PTL DEF Spec

\* Header of schedulerFiredState.js: "a restart cannot cause a duplicate delivery".
THEOREM NoDuplicateSlot == Spec => []OncePerSlot
  <1>1. SlotsKept => OncePerSlot
    BY DEF SlotsKept, SlotKept, Once, OncePerSlot
  <1> QED
    BY <1>1, SlotsAlwaysKept, PTL

LEMMA SlotsHaveRuns == WellFormed /\ SlotsKept => MarksAreEarned
  <1> SUFFICES ASSUME WellFormed, SlotsKept, NEW r \in Reports, HasFired(r) PROVE starts[r] >= 1
    BY DEF MarksAreEarned
  <1>1. SlotKept(r) /\ Day(now) \in Nat
    BY DayFacts DEF SlotsKept, WellFormed, TypeOK
  <1>2. CASE r \in IntervalTeams
    <2>1. r \notin MonthlyReports
      BY <1>2, KindsAssumption DEF PageReports
    <2> QED
      BY <1>1, <1>2, <2>1 DEF SlotKept, HasFired, hasAlreadyFiredToday, Never
  <1>3. CASE r \notin IntervalTeams
    BY <1>1, <1>3 DEF SlotKept, MarkCounts, MarkedBy, HasFired, hasAlreadyFiredToday,
                      hasAlreadyFiredThisMonth
  <1> QED
    BY <1>2, <1>3

\* No report is taken for delivered that was never started, whatever a restart restores.
THEOREM MarksStandForRuns == Spec => []MarksAreEarned
  BY SlotsHaveRuns, SlotsAlwaysKept, PTL

\* What a late tick does not start has a run, or a reason of the schedule to have none.
LEMMA TickLeavesNone ==
    ASSUME WellFormed, MarksAreEarned, Tick, Phase(now) >= 1, NEW r \in enabled \ IntervalTeams
    PROVE  \/ starts'[r] >= 1
           \/ r \in ChangeReports /\ isTodayWeekend
           \/ r \in HygieneTeams /\ DayOfWeek(Day(now)) \notin HygieneDays
           \/ r \in MonthlyReports /\ (Day(now) < SecondTuesday \/ isRunInProgress)
           \/ r \in runningTeams
  <1>0. r \in Reports /\ starts[r] \in Nat /\ Day(now) \in Nat /\ SecondTuesday \in Int /\ isScheduledTimeReached
    BY DayFacts, TimeAssumption
       DEF WellFormed, TypeOK, SecondTuesday, FirstOfMonth, DayOfWeek, isScheduledTimeReached
  <1>1. starts'[r] = IF Due(r) THEN starts[r] + 1 ELSE starts[r]
    BY <1>0 DEF Tick
  <1>2. CASE Due(r) \/ HasFired(r)
    BY <1>0, <1>1, <1>2 DEF MarksAreEarned
  <1>3. CASE ~Due(r) /\ ~HasFired(r)
    <2>1. CASE r \in MonthlyReports
      BY <1>0, <1>3, <2>1 DEF Due, MonthlyDue, HasFired
    <2>2. CASE r \in ChangeReports \cup Briefings \cup HygieneTeams \cup PiTeams
      <3>1. ~hasAlreadyFiredToday(r)
        BY <1>3, <2>2, KindsAssumption DEF HasFired, PageReports
      <3> QED
        BY <1>0, <1>3, <2>2, <3>1
           DEF Due, ChangeReportDue, BriefingDue, HygieneDue, PiReviewDue, isTeamDueThisTick
    <2> QED
      BY <1>0, <2>1, <2>2 DEF Reports, PageReports
  <1> QED
    BY <1>2, <1>3

\* The same header: "a scheduler that starts late can still deliver the day's report".
THEOREM LateTickCatchesUp == Spec => CaughtUp
  <1> DEFINE Step == Tick /\ Phase(now) >= 1 =>
        \A r \in enabled \ IntervalTeams :
            \/ starts'[r] >= 1
            \/ r \in ChangeReports /\ isTodayWeekend
            \/ r \in HygieneTeams /\ DayOfWeek(Day(now)) \notin HygieneDays
            \/ r \in MonthlyReports /\ (Day(now) < SecondTuesday \/ isRunInProgress)
            \/ r \in runningTeams
  <1>1. WellFormed /\ SlotsKept /\ [Next]_vars => [Step]_vars
    BY SlotsHaveRuns, TickLeavesNone
  <1> QED
    BY <1>1, SlotsAlwaysKept, PTL DEF Spec, CaughtUp

-----------------------------------------------------------------------------
(* Guards.                                                                 *)

\* Run x is one that report r's guard is there for.
Holds(x, r) == x.report = r /\ (r \in MonthlyReports \/ x.trigger = "scheduled")

Guard(r) == IF r \in MonthlyReports THEN isRunInProgress ELSE r \in runningTeams

\* A guard is up exactly while its run is in flight, and there is one such run.
GuardKept(r) ==
    /\ isUp => (Guard(r) <=> \E x \in runs : Holds(x, r))
    /\ \A x, y \in runs : Holds(x, r) /\ Holds(y, r) => x = y

GuardsKept ==
    /\ ~isUp => runs = {}
    /\ isRunInProgress => MonthlyReports # {}
    /\ \A r \in Guarded : GuardKept(r)

\* Nobody is started beside a run in flight.
LEMMA DueUnguarded ==
    ASSUME NEW r \in Guarded, Due(r)
    PROVE  ~Guard(r)
  <1>1. CASE r \in MonthlyReports
    <2>1. MonthlyDue(r)
      BY <1>1, KindsAssumption
         DEF Due, ChangeReportDue, BriefingDue, HygieneDue, PiReviewDue, PageReports
    <2> QED
      BY <1>1, <2>1 DEF MonthlyDue, Guard
  <1>2. CASE r \notin MonthlyReports
    <2>1. PiReviewDue(r)
      BY <1>2, KindsAssumption
         DEF Due, ChangeReportDue, BriefingDue, HygieneDue, MonthlyDue, Guarded
    <2> QED
      BY <1>2, <2>1 DEF PiReviewDue, Guard
  <1> QED
    BY <1>1, <1>2

\* A tick puts up the guards of the runs it starts.
LEMMA TickKeepsGuards ==
    ASSUME WellFormed, GuardsKept, Tick
    PROVE  GuardsKept'
  <1> DEFINE due == {s \in enabled : Due(s)}
  <1>1. /\ runs' = runs \cup {NewRun(s, "scheduled") : s \in due}
        /\ runningTeams' = runningTeams \cup (due \cap PiTeams)
        /\ isRunInProgress' = (isRunInProgress \/ due \cap MonthlyReports # {})
        /\ isUp /\ isUp'
    BY DEF Tick
  <1>2. \A s \in due : NewRun(s, "scheduled").report = s /\ NewRun(s, "scheduled").trigger = "scheduled"
    BY NewRunType DEF WellFormed, TypeOK
  <1>3. \A s \in due \cap Guarded : ~Guard(s)
    BY DueUnguarded
  <1> HIDE DEF due
  <1>4. ASSUME NEW r \in Guarded PROVE GuardKept(r)'
    <2>1. Guard(r)' <=> Guard(r) \/ r \in due
      BY <1>1, <1>4, KindsAssumption DEF Guard, Guarded
    <2>2. GuardKept(r)
      BY DEF GuardsKept
    <2>3. \A s \in due : Holds(NewRun(s, "scheduled"), r) <=> s = r
      BY <1>2 DEF Holds
    <2>4. \A x \in runs' : Holds(x, r) => (x \in runs /\ Guard(r)) \/ (r \in due /\ x = NewRun(r, "scheduled"))
      BY <1>1, <2>2, <2>3 DEF GuardKept
    <2>5. r \in due => \E x \in runs' : Holds(x, r)
      BY <1>1, <2>3
    <2>6. Guard(r) => \E x \in runs' : Holds(x, r)
      BY <1>1, <2>2 DEF GuardKept
    <2>7. \A x, y \in runs' : Holds(x, r) /\ Holds(y, r) => x = y
      BY <1>3, <2>2, <2>4 DEF GuardKept
    <2>8. (\E x \in runs' : Holds(x, r)) => Guard(r) \/ r \in due
      BY <2>4
    <2> QED
      BY <2>1, <2>5, <2>6, <2>7, <2>8 DEF GuardKept, Holds
  <1> QED
    BY <1>1, <1>4 DEF GuardsKept

\* A run by hand takes the monthly report's guard, and none of a PI team's.
LEMMA RunNowKeepsGuards ==
    ASSUME WellFormed, GuardsKept, NEW s \in Reports, RunNow(s)
    PROVE  GuardsKept'
  <1> DEFINE n == NewRun(s, "manual")
  <1>1. /\ runs' = runs \cup {n} /\ isUp /\ isUp'
        /\ s \in MonthlyReports => ~isRunInProgress
        /\ isRunInProgress' = (isRunInProgress \/ s \in MonthlyReports)
        /\ runningTeams' = runningTeams
    BY DEF RunNow
  <1>2. n.report = s /\ n.trigger = "manual"
    BY NewRunType DEF WellFormed
  <1> HIDE DEF n
  <1>3. ASSUME NEW r \in Guarded PROVE GuardKept(r)'
    <2>1. GuardKept(r)
      BY DEF GuardsKept
    <2>2. Holds(n, r) <=> s = r /\ r \in MonthlyReports
      BY <1>2 DEF Holds
    <2>3. CASE s = r /\ r \in MonthlyReports
      <3>1. Guard(r)' /\ ~Guard(r)
        BY <1>1, <2>3 DEF Guard
      <3>2. \A x \in runs : ~Holds(x, r)
        BY <1>1, <2>1, <3>1 DEF GuardKept
      <3> QED
        BY <1>1, <2>2, <2>3, <3>1, <3>2 DEF GuardKept, Holds
    <2>4. CASE ~(s = r /\ r \in MonthlyReports)
      <3>1. Guard(r)' <=> Guard(r)
        BY <1>1, <2>4, KindsAssumption DEF Guard
      <3> QED
        BY <1>1, <2>1, <2>2, <2>4, <3>1 DEF GuardKept, Holds
    <2> QED
      BY <2>3, <2>4
  <1> QED
    BY <1>1, <1>3 DEF GuardsKept

\* A run that ends takes its guard with it, and no other.
LEMMA OverKeepsGuards ==
    ASSUME GuardsKept, NEW x \in runs, Released(x), isUp' = isUp,
           NEW r \in Guarded,
           \A z \in runs' : \E y \in runs \ {x} : SameRun(y, z),
           \A y \in runs \ {x} : \E z \in runs' : SameRun(y, z)
    PROVE  isUp => (Guard(r)' <=> \E z \in runs' : Holds(z, r))
  <1>1. GuardKept(r)
    BY DEF GuardsKept
  <1>2. (\E z \in runs' : Holds(z, r)) <=> \E y \in runs \ {x} : Holds(y, r)
    BY DEF SameRun, Holds
  <1>3. CASE Holds(x, r)
    <2>1. ~Guard(r)'
      BY <1>3 DEF Released, Guard, Holds, Guarded
    <2> QED
      BY <1>1, <1>2, <1>3, <2>1 DEF GuardKept
  <1>4. CASE ~Holds(x, r)
    <2>1. Guard(r)' <=> Guard(r)
      BY <1>4, KindsAssumption DEF Released, Guard, Holds, Guarded
    <2> QED
      BY <1>1, <1>2, <1>4, <2>1 DEF GuardKept
  <1> QED
    BY <1>3, <1>4

LEMMA RunStepKeepsGuards ==
    ASSUME WellFormed, GuardsKept, NEW x \in runs, RunStep(x)
    PROVE  GuardsKept'
  <1>1. isUp /\ isUp'
    BY DEF GuardsKept, RunStep
  <1>2. runs \subseteq Run
    BY DEF WellFormed, TypeOK
  <1>3. CASE Over(x)
    <2>1. runs' = runs \ {x} /\ Released(x)
      BY <1>3 DEF Over
    <2>2. ASSUME NEW r \in Guarded PROVE GuardKept(r)'
      <3>1. isUp => (Guard(r)' <=> \E z \in runs' : Holds(z, r))
        BY <1>1, <2>1, OverKeepsGuards DEF SameRun
      <3>2. GuardKept(r)
        BY DEF GuardsKept
      <3> QED
        BY <1>1, <2>1, <3>1, <3>2 DEF GuardKept, Holds
    <2> QED
      BY <1>1, <2>1, <2>2 DEF GuardsKept, Released
  <1>4. CASE \E y \in Run : OrderedRun(y) /\ SameRun(x, y) /\ GoesOn(x, y)
    <2>1. PICK y \in Run : SameRun(x, y) /\ GoesOn(x, y)
      BY <1>4
    <2>2. runs' = (runs \ {x}) \cup {y} /\ UNCHANGED <<runningTeams, isRunInProgress>>
      BY <2>1 DEF GoesOn
    <2>3. ASSUME NEW r \in Guarded PROVE GuardKept(r)'
      <3>1. GuardKept(r) /\ (Holds(x, r) <=> Holds(y, r)) /\ (Guard(r)' <=> Guard(r))
        BY <2>1, <2>2 DEF GuardsKept, SameRun, Holds, Guard
      <3> QED
        BY <1>1, <2>2, <3>1 DEF GuardKept, Holds
    <2> QED
      BY <1>1, <2>2, <2>3 DEF GuardsKept
  <1>5. CASE runs' = Outdated(runs \ {x}, PageOf[x.report]) /\ Released(x)
    <2> DEFINE p == PageOf[x.report]
               others == runs \ {x}
    <2>1. others \in SUBSET Run /\ runs' = Outdated(others, p)
      BY <1>2, <1>5
    <2> HIDE DEF p, others
    <2>2. /\ \A z \in runs' : \E y \in others : SameRun(y, z) /\ z = Restamped(y, p)
          /\ \A y \in others : \E z \in runs' : SameRun(y, z)
      BY <2>1, OutdatedShape
    <2> USE DEF others
    <2>3. ASSUME NEW r \in Guarded PROVE GuardKept(r)'
      <3>1. isUp => (Guard(r)' <=> \E z \in runs' : Holds(z, r))
        BY <1>1, <1>5, <2>2, OverKeepsGuards
      <3>2. GuardKept(r)
        BY DEF GuardsKept
      <3>3. \A z, w \in runs' : Holds(z, r) /\ Holds(w, r) => z = w
        BY <2>2, <3>2 DEF GuardKept, SameRun, Holds
      <3> QED
        BY <1>1, <3>1, <3>3 DEF GuardKept, Holds
    <2> QED
      BY <1>1, <1>5, <2>3 DEF GuardsKept, Released
  <1> QED
    BY <1>3, <1>4, <1>5, RunStepShape

LEMMA EditKeepsGuards ==
    ASSUME WellFormed, GuardsKept, NEW p, EditPage(p)
    PROVE  GuardsKept'
  <1>1. /\ runs' = Outdated(runs, p) /\ isUp' = isUp
        /\ UNCHANGED <<runningTeams, isRunInProgress>>
    BY DEF EditPage, memory
  <1>2. /\ \A z \in runs' : \E y \in runs : SameRun(y, z) /\ z = Restamped(y, p)
        /\ \A y \in runs : \E z \in runs' : SameRun(y, z)
    BY <1>1, OutdatedShape DEF WellFormed, TypeOK
  <1>3. ASSUME NEW r \in Guarded PROVE GuardKept(r)'
    <2>1. GuardKept(r) /\ (Guard(r)' <=> Guard(r))
      BY <1>1 DEF GuardsKept, Guard
    <2>2. (\E z \in runs' : Holds(z, r)) <=> \E y \in runs : Holds(y, r)
      BY <1>2 DEF SameRun, Holds
    <2>3. \A z, w \in runs' : Holds(z, r) /\ Holds(w, r) => z = w
      BY <1>2, <2>1 DEF GuardKept, SameRun, Holds
    <2> QED
      BY <1>1, <2>1, <2>2, <2>3 DEF GuardKept, Holds
  <1> QED
    BY <1>1, <1>2, <1>3 DEF GuardsKept

LEMMA NextKeepsGuards == WellFormed /\ GuardsKept /\ [Next]_vars => GuardsKept'
  <1> SUFFICES ASSUME WellFormed, GuardsKept, [Next]_vars PROVE GuardsKept'
    OBVIOUS
  <1>1. ASSUME NEW r \in ByHand, RunNow(r) PROVE GuardsKept'
    BY <1>1, RunNowKeepsGuards, ConfigurationAssumption
  <1>2. ASSUME UNCHANGED <<isUp, runs, runningTeams, isRunInProgress>> PROVE GuardsKept'
    BY <1>2 DEF GuardsKept, GuardKept, Guard, Holds
  <1>3. ASSUME NEW r, JiraChanges(r) PROVE GuardsKept'
    BY <1>2, <1>3 DEF JiraChanges, memory
  <1>4. CASE TimePasses
    BY <1>2, <1>4 DEF TimePasses, memory
  <1>5. CASE Boot
    BY <1>5 DEF Boot, GuardsKept, GuardKept, Guard, Holds
  <1>6. CASE Crash
    BY <1>6 DEF Crash, memory, GuardsKept, GuardKept, Guard, Holds
  <1>7. CASE UNCHANGED vars
    BY <1>2, <1>7 DEF vars, memory
  <1> QED
    BY <1>1, <1>3, <1>4, <1>5, <1>6, <1>7, TickKeepsGuards, RunStepKeepsGuards, EditKeepsGuards,
       ConfigurationAssumption DEF Next

LEMMA GuardsAlwaysKept == Spec => [](WellFormed /\ GuardsKept)
  <1>1. Init => GuardsKept
    BY DEF Init, GuardsKept, GuardKept, Guard, Holds
  <1> QED
    BY <1>1, InitWellFormed, NextWellFormed, NextKeepsGuards, PTL DEF Spec

\* runningTeamKeys and isRunInProgress keep a second run of a team, or of the monthly
\* report, away as long as the first is in flight.
THEOREM RunsAlone == Spec => []OneAtATime
  <1>1. GuardsKept => OneAtATime
    BY DEF GuardsKept, GuardKept, Holds, OneAtATime, Guarded
  <1> QED
    BY <1>1, GuardsAlwaysKept, PTL

\* A guard never outlives its run.
THEOREM GuardsAreReleased == Spec => []GuardsHaveRuns
  <1>1. WellFormed /\ GuardsKept => GuardsHaveRuns
    <2> SUFFICES ASSUME WellFormed, GuardsKept, isUp
                 PROVE  /\ \A r \in runningTeams : \E x \in runs : x.report = r /\ x.trigger = "scheduled"
                        /\ isRunInProgress => \E x \in runs : x.report \in MonthlyReports
      BY DEF GuardsHaveRuns
    <2>1. ASSUME NEW r \in runningTeams PROVE \E x \in runs : x.report = r /\ x.trigger = "scheduled"
      <3>1. r \in Guarded /\ r \notin MonthlyReports
        BY KindsAssumption DEF WellFormed, TypeOK, Guarded, PageReports
      <3> QED
        BY <3>1 DEF GuardsKept, GuardKept, Guard, Holds
    <2>2. ASSUME isRunInProgress PROVE \E x \in runs : x.report \in MonthlyReports
      <3>1. PICK r \in MonthlyReports : TRUE
        BY <2>2 DEF GuardsKept
      <3>2. r \in Guarded /\ Guard(r)
        BY <2>2, <3>1 DEF Guarded, Guard
      <3> QED
        BY <3>1, <3>2 DEF GuardsKept, GuardKept, Holds
    <2> QED
      BY <2>1, <2>2
  <1> QED
    BY <1>1, GuardsAlwaysKept, PTL
=============================================================================

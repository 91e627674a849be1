--------------------------- MODULE ReportSchedules ---------------------------
(***************************************************************************)
(* The scheduled reports: scopeChangeScheduler.js, featureChangeScheduler.js, *)
(* standupBriefingScheduler.js, hygieneMonitorScheduler.js,                *)
(* piReviewScheduler.js with piReviewRefresh.js and                        *)
(* monthlyDeliveryScheduler.js (src/src/services), on the chassis they     *)
(* share: schedulerFiredState.js remembers on disk what has fired,         *)
(* reportCoverage.js how far a change report has reported.                 *)
(*                                                                         *)
(* Every scheduler ticks once a minute and forgets its runs; a run then    *)
(* goes through Jira and Confluence by itself while ticks, manual runs,    *)
(* other runs and the end of the process come in between.                  *)
(***************************************************************************)
EXTENDS Integers, FiniteSets

CONSTANTS
    ChangeReports,    \* scope and feature change reports, of a team or rolled up
    CoverageKeys,     \* the keys of report-coverage.json: a project, a label, a roll-up
    KeyOf,            \* the key of a change report; entries of one project or label share it
    Briefings,        \* standup briefings
    HygieneTeams,     \* teams of the hygiene monitor
    PiTeams,          \* teams whose PI Review page is refreshed
    IntervalTeams,    \* those of them that poll every intervalMin
    MonthlyReports,   \* the monthly delivery report, or none
    Pages,            \* Confluence pages that are kept up to date
    PageOf,           \* the page a report writes to, or NewPost
    NewPost,          \* every delivery creates a post of its own
    Human,            \* owner of the edits people make on a page
    HygieneDays,      \* weekdays of the hygiene monitor
    BoundaryPhases,   \* phases of the day whose minute is on an interval boundary
    FirstDayOfWeek,   \* weekday of day 0
    DayOfMonth,       \* day of the month of day 0
    UtcAhead,         \* phases by which the UTC date runs ahead of the local one
    MaxLookbackDays,  \* DEFAULT_MAX_LOOKBACK_DAYS
    Deployments,      \* the sets of reports a configuration may enable
    Horizon,          \* bound: the last moment
    MaxChanges,       \* bound: changes in Jira
    MaxEdits,         \* bound: edits by people
    MaxRuns,          \* bound: runs in flight when somebody starts one by hand
    MaxLength,        \* bound: phases a run is in flight (no request times out)
    ByHand,           \* bound: the reports people start by hand
    MaxCrashes,       \* bound: times the process ends
    MaxFaults         \* bound: short answers, failed writes and lost files in all

PageReports == ChangeReports \cup Briefings \cup PiTeams
Guarded     == PiTeams \cup MonthlyReports
Reports     == PageReports \cup HygieneTeams \cup MonthlyReports
Daily       == Reports \ (IntervalTeams \cup MonthlyReports)
Places      == Pages \cup {NewPost}

\* A team or report is of one kind; only PI teams poll; there is one monthly report.
ASSUME KindsAssumption ==
    /\ PiTeams \cap (ChangeReports \cup Briefings \cup HygieneTeams) = {}
    /\ MonthlyReports \cap (PageReports \cup HygieneTeams) = {}
    /\ IntervalTeams \subseteq PiTeams
    /\ \A r, s \in MonthlyReports : r = s

ASSUME ConfigurationAssumption ==
    /\ PageOf \in [PageReports -> Places]
    /\ KeyOf \in [ChangeReports -> CoverageKeys]
    /\ Deployments \subseteq SUBSET Reports
    /\ ByHand \subseteq Reports

ASSUME TimeAssumption ==
    Horizon \in Nat /\ UtcAhead \in Nat /\ MaxLookbackDays \in Nat /\ FirstDayOfWeek \in Nat /\ DayOfMonth \in Nat

VARIABLES
    enabled,          \* the reports the configuration enables
    now,              \* the moment: day and phase of the day
    isUp,             \* the server process runs
    ticked,           \* the schedulers have ticked in this phase
    lastFired,        \* lastFiredDates, in memory
    firedOnDisk,      \* scheduler-fired-state.json
    alignedSlot,      \* lastAlignedSlotByTeamKey
    runningTeams,     \* runningTeamKeys
    isRunInProgress,  \* the monthly report's guard
    watermark,        \* report-coverage.json
    runs,             \* the runs in flight
    changes,          \* when Jira saw a change to report, by the key it belongs to
    page,             \* what Confluence holds
    starts,           \* scheduled runs started in the current slot of each report
    forgiven,         \* changes no window reaches, or kept from the run that confirmed them
    crashes,          \* how often the process ended
    shortAnswers,     \* Jira answers without all the issues
    edits,            \* how often somebody edited a page
    lostMarks         \* fired dates that could not be written, and damaged files

memory == <<lastFired, alignedSlot, runningTeams, isRunInProgress>>
disk   == <<firedOnDisk, watermark>>
bounds == <<crashes, shortAnswers, lostMarks, edits>>
vars   == <<enabled, now, isUp, ticked, memory, disk, runs, changes, page, starts, forgiven, bounds>>

-----------------------------------------------------------------------------
(* Time: three phases a day, before, at and after the scheduled minute.    *)

Never  == -1
Phases == 3
Day(t)       == t \div Phases
Phase(t)     == t % Phases
DayOfWeek(d) == (FirstDayOfWeek + d) % 7
MinOf(a, b)  == IF a <= b THEN a ELSE b
MaxOf(a, b)  == IF a >= b THEN a ELSE b

\* A slip for isScheduledTimeReached: the exact minute, as the schedulers once compared.
isScheduledMinute == Phase(now) = 1

isScheduledTimeReached == Phase(now) >= 1

isTodayWeekend == DayOfWeek(Day(now)) \in {0, 6}

\* DAYS_BACK_TO_PREVIOUS_BUSINESS_DAY.
DaysBack(dow) == IF dow = 0 THEN 2 ELSE IF dow = 1 THEN 3 ELSE 1

\* Midnight at the start of the previous business day.
getPreviousBusinessDayCutoff == Phases * (Day(now) - DaysBack(DayOfWeek(Day(now))))

\* A slip for resolveCoverageCutoff: the later of the two moments.
resolveLater(mark) ==
    IF mark = Never THEN getPreviousBusinessDayCutoff
    ELSE MaxOf(getPreviousBusinessDayCutoff, mark)

\* Back to the last confirmed coverage, but no further than the cap.
resolveCoverageCutoff(mark) ==
    IF mark = Never THEN getPreviousBusinessDayCutoff
    ELSE MaxOf(MinOf(getPreviousBusinessDayCutoff, mark), now - Phases * MaxLookbackDays)

\* The query names the UTC date of the cutoff.
cutoffDateString(cutoff) == Day(cutoff + UtcAhead)

\* The changelog is compared with the cutoff itself: the later of the two decides.
WindowStart(cutoff) == MaxOf(cutoff, Phases * cutoffDateString(cutoff))

\* The 2nd Tuesday of the month.
FirstOfMonth  == 1 - DayOfMonth
SecondTuesday == FirstOfMonth + 7 + ((9 - DayOfWeek(FirstOfMonth)) % 7)

-----------------------------------------------------------------------------
Entry == [owner : Reports \cup {Human}, at : 0..Horizon]
Run   == [report : Reports, trigger : {"scheduled", "manual"}, started : 0..Horizon,
          mark : Int, from : Int, pc : {"querying", "posting", "reading", "writing", "working"},
          found : SUBSET Entry, hidden : SUBSET (0..Horizon), copy : SUBSET Entry,
          isStale : BOOLEAN, attempt : 1..2]

TypeOK ==
    /\ enabled \in SUBSET Reports
    /\ now \in 0..Horizon /\ isUp \in BOOLEAN /\ ticked \in BOOLEAN
    /\ lastFired \in [Reports -> -1..Horizon]
    /\ firedOnDisk \in [Reports -> -1..Horizon]
    /\ alignedSlot \in [IntervalTeams -> -1..Horizon]
    /\ runningTeams \subseteq PiTeams
    /\ isRunInProgress \in BOOLEAN
    /\ watermark \in [CoverageKeys -> -1..Horizon]
    /\ runs \subseteq Run
    /\ changes \in [CoverageKeys -> SUBSET (0..Horizon)]
    /\ page \in [Places -> SUBSET Entry]
    /\ starts \in [Reports -> Nat]
    /\ forgiven \in [CoverageKeys -> SUBSET (0..Horizon)]
    /\ crashes \in Nat /\ shortAnswers \in Nat /\ lostMarks \in Nat /\ edits \in Nat

Init ==
    /\ now = 0 /\ isUp = TRUE /\ ticked = FALSE
    /\ lastFired = [r \in Reports |-> Never]
    /\ firedOnDisk = [r \in Reports |-> Never]
    /\ alignedSlot = [r \in IntervalTeams |-> Never]
    /\ runningTeams = {} /\ isRunInProgress = FALSE
    /\ watermark = [k \in CoverageKeys |-> Never]
    /\ runs = {}
    /\ changes = [k \in CoverageKeys |-> {}]
    /\ page = [p \in Places |-> {}]
    /\ starts = [r \in Reports |-> 0]
    /\ forgiven = [k \in CoverageKeys |-> {}]
    /\ crashes = 0 /\ shortAnswers = 0 /\ lostMarks = 0 /\ edits = 0
    /\ enabled \in Deployments

MayFail == shortAnswers + lostMarks < MaxFaults

-----------------------------------------------------------------------------
(* The ticks.                                                              *)

hasAlreadyFiredToday(r) == lastFired[r] = Day(now)

\* checkAndFireScheduledReports of the two change reports: business days only.
ChangeReportDue(r) ==
    r \in ChangeReports /\ ~isTodayWeekend /\ isScheduledTimeReached /\ ~hasAlreadyFiredToday(r)

\* checkAndFireScheduledBriefings: every day.
BriefingDue(r) == r \in Briefings /\ isScheduledTimeReached /\ ~hasAlreadyFiredToday(r)

\* checkAndFireHygieneScans: on the team's weekdays.
HygieneDue(r) ==
    /\ r \in HygieneTeams
    /\ isScheduledTimeReached
    /\ DayOfWeek(Day(now)) \in HygieneDays
    /\ ~hasAlreadyFiredToday(r)

\* isTeamDueThisTick, in interval mode and once a day.
isTeamDueThisTick(r) ==
    IF r \in IntervalTeams
    THEN Phase(now) \in BoundaryPhases /\ isScheduledTimeReached /\ alignedSlot[r] # now
    ELSE isScheduledTimeReached /\ ~hasAlreadyFiredToday(r)

\* A slip for PiReviewDue: a team is started although it is mid-run.
startBusyTeam(r) == r \in PiTeams /\ isTeamDueThisTick(r)

\* checkAndFireScheduledPiReviews: a team mid-run is passed over before its slot is used.
PiReviewDue(r) == r \in PiTeams /\ r \notin runningTeams /\ isTeamDueThisTick(r)

\* All moments of the model are in one month.
hasAlreadyFiredThisMonth(r) == lastFired[r] # Never

\* checkAndFireMonthlyDelivery: on the 2nd Tuesday at the time, or any time after it.
MonthlyDue(r) ==
    /\ r \in MonthlyReports
    /\ ~hasAlreadyFiredThisMonth(r)
    /\ Day(now) > SecondTuesday \/ (Day(now) = SecondTuesday /\ isScheduledTimeReached)
    /\ ~isRunInProgress

Due(r) == ChangeReportDue(r) \/ BriefingDue(r) \/ HygieneDue(r) \/ PiReviewDue(r) \/ MonthlyDue(r)

\* The first step of a run, up to its first await: a change report reads the watermark of
\* its key, which another entry of its project or label may have set, and fixes its window.
NewRun(r, trigger) ==
    LET mark == IF r \in ChangeReports THEN watermark[KeyOf[r]] ELSE Never IN
    [report |-> r, trigger |-> trigger, started |-> now, mark |-> mark,
     from |-> WindowStart(resolveCoverageCutoff(mark)),
     pc |-> IF r \in PageReports THEN "querying" ELSE "working",
     found |-> {}, hidden |-> {}, copy |-> {}, isStale |-> FALSE, attempt |-> 1]

\* A slip for recordFiredDate: the date stays in memory.
forgetFiredDate(fired) == UNCHANGED firedOnDisk

\* recordFiredDate of all that fired.
recordFiredDate(fired) ==
    firedOnDisk' = [r \in Reports |-> IF r \in fired THEN Day(now) ELSE firedOnDisk[r]]

\* The ticks of one minute.  What fires is marked first, then started and forgotten; a
\* mark that cannot be written is logged, no more.
Tick ==
    /\ isUp
    /\ LET due   == {r \in enabled : Due(r)}
           fired == due \ IntervalTeams
       IN
       /\ lastFired' = [r \in Reports |-> IF r \in fired THEN Day(now) ELSE lastFired[r]]
       /\ alignedSlot' = [r \in IntervalTeams |-> IF r \in due THEN now ELSE alignedSlot[r]]
       /\ \/ recordFiredDate(fired) /\ UNCHANGED lostMarks
          \/ /\ fired # {} /\ MayFail
             /\ lostMarks' = lostMarks + 1
             /\ UNCHANGED firedOnDisk
       /\ runs' = runs \cup {NewRun(r, "scheduled") : r \in due}
       /\ runningTeams' = runningTeams \cup (due \cap PiTeams)
       /\ isRunInProgress' = (isRunInProgress \/ due \cap MonthlyReports # {})
       /\ starts' = [r \in Reports |-> IF r \in due THEN starts[r] + 1 ELSE starts[r]]
    /\ ticked' = TRUE
    /\ UNCHANGED <<enabled, now, isUp, watermark, changes, page, forgiven, crashes, shortAnswers, edits>>

\* run-now: only the monthly report looks whether a run is in flight, and no fired date
\* is touched.
RunNow(r) ==
    /\ isUp
    /\ Cardinality(runs) < MaxRuns
    /\ r \in MonthlyReports => ~isRunInProgress
    /\ runs' = runs \cup {NewRun(r, "manual")}
    /\ isRunInProgress' = (isRunInProgress \/ r \in MonthlyReports)
    /\ UNCHANGED <<enabled, now, isUp, ticked, lastFired, alignedSlot, runningTeams, disk, changes,
                   page, starts, forgiven, bounds>>

-----------------------------------------------------------------------------
(* The runs.                                                               *)

\* A slip for Released: a run that ends leaves its guard up.
forgetGuards(x) == UNCHANGED <<runningTeams, isRunInProgress>>

\* Run x is over, whatever came of it: the guards of scheduled PI runs and of the
\* monthly report are released.
Released(x) ==
    /\ runningTeams' = IF x.trigger = "scheduled" THEN runningTeams \ {x.report}
                       ELSE runningTeams
    /\ isRunInProgress' = (isRunInProgress /\ x.report \notin MonthlyReports)

Over(x) == runs' = runs \ {x} /\ Released(x)

\* Page p has a new version: the copies other runs are working on are based on an old one.
Outdated(others, p) ==
    {IF y.pc = "writing" /\ PageOf[y.report] = p THEN [y EXCEPT !.isStale = TRUE] ELSE y : y \in others}

\* Run x goes on as y.
GoesOn(x, y) ==
    /\ runs' = (runs \ {x}) \cup {y}
    /\ UNCHANGED <<runningTeams, isRunInProgress>>

\* The window of x may leave out what is older than its watermark: there was none, the
\* outage was longer than the cap, or the watermark's UTC date is already the next day.
Excused(x) ==
    \/ x.mark = Never
    \/ x.started - x.mark > Phases * MaxLookbackDays
    \/ Day(x.mark + UtcAhead) > Day(x.mark)

\* A slip for setCoverageWatermark: the start of the window in place of the start of the run.
coverFromWindow(x) == watermark' = [watermark EXCEPT ![KeyOf[x.report]] = x.from]

setCoverageWatermark(x) == watermark' = [watermark EXCEPT ![KeyOf[x.report]] = x.started]

\* The run confirms coverage through its start: it delivered, or found nothing.  The
\* changes it never saw are the ones Jira kept from it, and the ones before its window.
Confirm(x, hidden) ==
    IF x.report \in ChangeReports
    THEN /\ setCoverageWatermark(x)
         /\ forgiven' = [forgiven EXCEPT ![KeyOf[x.report]] =
                @ \cup hidden \cup {c \in changes[KeyOf[x.report]] : Excused(x) /\ c < x.from}]
    ELSE UNCHANGED <<watermark, forgiven>>

\* What Jira has for the run: the changes since its window began, a briefing in any case,
\* the features of a PI team.  A removal, or a field that ends a window as it began it, is
\* nothing to report, and so no change here.
Answer(x) ==
    IF x.report \in ChangeReports
    THEN {[owner |-> x.report, at |-> c] : c \in {d \in changes[KeyOf[x.report]] : d >= x.from}}
    ELSE {[owner |-> x.report, at |-> IF x.report \in Briefings THEN x.started ELSE 0]}

\* The changes in the window of x that an answer leaves out.
Withheld(x, found) ==
    {c \in 0..Horizon : [owner |-> x.report, at |-> c] \in Answer(x) \ found}

\* Run x continues with what Jira answered: nothing to write, or a page or post to write.
Found(x, found) ==
    IF found = {}
    THEN Over(x) /\ Confirm(x, Withheld(x, found))
    ELSE /\ GoesOn(x, [x EXCEPT !.found = found, !.hidden = Withheld(x, found),
                                !.pc = IF PageOf[x.report] = NewPost THEN "posting" ELSE "reading"])
         /\ UNCHANGED <<watermark, forgiven>>

\* Jira answers.  The status is not looked at by the change reports: an error body has no
\* issues, and the result cap hides some.
QueryAnswered(x) ==
    /\ x.pc = "querying"
    /\ \/ Found(x, Answer(x)) /\ UNCHANGED shortAnswers
       \/ /\ x.report \in ChangeReports /\ MayFail
          /\ \E short \in SUBSET Answer(x) \ {Answer(x)} : Found(x, short)
          /\ shortAnswers' = shortAnswers + 1
       \/ /\ x.report \in PiTeams
          /\ Found(x, {})
          /\ UNCHANGED shortAnswers
    /\ UNCHANGED <<page, lostMarks>>

\* A request fails, a page cannot be read or Confluence refuses: the run ends in an error
\* that is recorded or logged, and nothing is confirmed.
RequestFails(x) ==
    /\ x.pc # "working"
    /\ Over(x)
    /\ UNCHANGED <<watermark, forgiven, page, shortAnswers, lostMarks>>

\* createConfluenceBlogPost.
Posted(x) ==
    /\ x.pc = "posting"
    /\ page' = [page EXCEPT ![NewPost] = @ \cup x.found]
    /\ Over(x)
    /\ Confirm(x, x.hidden) \/ UNCHANGED <<watermark, forgiven>>
    /\ UNCHANGED <<shortAnswers, lostMarks>>

\* fetchConfluencePage: the body and the version the update will be based on.  A PI
\* refresh that has nothing new for the page ends here.
PageRead(x) ==
    /\ x.pc = "reading"
    /\ LET copy == page[PageOf[x.report]] IN
       IF x.report \in PiTeams /\ x.found \subseteq copy
       THEN Over(x)
       ELSE GoesOn(x, [x EXCEPT !.pc = "writing", !.copy = copy, !.isStale = FALSE])
    /\ UNCHANGED <<watermark, forgiven, page, shortAnswers, lostMarks>>

\* A slip for PutAccepted: the version is not the one the body was read with.
putAnyway(x) == TRUE

\* Confluence takes version n + 1 only on top of version n.
PutAccepted(x) == ~x.isStale

\* The PUT of the combined body; its answer may get lost.  On a conflict a PI refresh
\* starts over from the page, once; a report gives up.
PageWritten(x) ==
    /\ x.pc = "writing"
    /\ \/ /\ PutAccepted(x)
          /\ page' = [page EXCEPT ![PageOf[x.report]] =
                          x.copy \cup x.found]
          /\ runs' = Outdated(runs \ {x}, PageOf[x.report]) /\ Released(x)
          /\ Confirm(x, x.hidden) \/ UNCHANGED <<watermark, forgiven>>
       \/ /\ ~PutAccepted(x)
          /\ IF x.report \in PiTeams /\ x.attempt = 1
             THEN GoesOn(x, [x EXCEPT !.pc = "reading", !.copy = {}, !.attempt = 2])
             ELSE Over(x)
          /\ UNCHANGED <<watermark, forgiven, page>>
    /\ UNCHANGED <<shortAnswers, lostMarks>>

\* The hygiene scan and the monthly report: Jira, then a webhook whose failure is only
\* reported.
WorkDone(x) ==
    /\ x.pc = "working"
    /\ Over(x)
    /\ UNCHANGED <<watermark, forgiven, page, shortAnswers, lostMarks>>

RunStep(x) ==
    /\ \/ QueryAnswered(x) \/ RequestFails(x) \/ Posted(x) \/ PageRead(x) \/ PageWritten(x)
       \/ WorkDone(x)
    /\ UNCHANGED <<enabled, now, isUp, ticked, lastFired, alignedSlot, firedOnDisk, changes, starts, crashes, edits>>

-----------------------------------------------------------------------------
(* The surroundings.                                                       *)

\* A change in Jira that the reports of key k are about.
JiraChanges(k) ==
    /\ Cardinality(changes[k]) < MaxChanges
    /\ changes' = [changes EXCEPT ![k] = @ \cup {now}]
    /\ UNCHANGED <<enabled, now, isUp, ticked, memory, disk, runs, page, starts, forgiven, bounds>>

\* Somebody edits a page.
EditPage(p) ==
    /\ edits < MaxEdits
    /\ edits' = edits + 1
    /\ page' = [page EXCEPT ![p] = @ \cup {[owner |-> Human, at |-> now]}]
    /\ runs' = Outdated(runs, p)
    /\ UNCHANGED <<enabled, now, isUp, ticked, memory, disk, changes, starts, forgiven, crashes,
                   shortAnswers, lostMarks>>

\* The clock moves on; a phase is long enough for a tick.
TimePasses ==
    /\ now < Horizon
    /\ isUp => ticked
    /\ \A x \in runs : now < x.started + MaxLength
    /\ now' = now + 1
    /\ ticked' = FALSE
    /\ starts' = [r \in Reports |->
            IF r \in IntervalTeams \/ (r \in Daily /\ Day(now + 1) # Day(now)) THEN 0 ELSE starts[r]]
    /\ UNCHANGED <<enabled, isUp, memory, disk, runs, changes, page, forgiven, bounds>>

\* A slip for loadFiredDates: a restart takes the day's reports for delivered.
seedToday == [r \in Reports |-> Day(now)]

\* What has fired before the start.
loadFiredDates == firedOnDisk

\* The process starts: the fired dates come from disk, everything else is new.
Boot ==
    /\ ~isUp
    /\ isUp' = TRUE /\ ticked' = FALSE
    /\ lastFired' = loadFiredDates
    /\ alignedSlot' = [r \in IntervalTeams |-> Never]
    /\ runningTeams' = {} /\ isRunInProgress' = FALSE
    /\ UNCHANGED <<enabled, now, disk, runs, changes, page, starts, forgiven, bounds>>

\* The process ends, with all its runs.  It may have been writing one of its two files,
\* which reads as empty from then on.
Crash ==
    /\ isUp
    /\ crashes < MaxCrashes
    /\ crashes' = crashes + 1
    /\ isUp' = FALSE /\ ticked' = FALSE
    /\ runs' = {}
    /\ \/ UNCHANGED <<disk, lostMarks>>
       \/ /\ MayFail
          /\ lostMarks' = lostMarks + 1
          /\ \/ firedOnDisk' = [r \in Reports |-> Never] /\ UNCHANGED watermark
             \/ watermark' = [k \in CoverageKeys |-> Never] /\ UNCHANGED firedOnDisk
    /\ UNCHANGED <<enabled, now, memory, changes, page, starts, forgiven, shortAnswers, edits>>

Next ==
    \/ Tick
    \/ \E r \in ByHand \cap enabled : RunNow(r)
    \/ \E x \in runs : RunStep(x)
    \/ \E k \in {KeyOf[r] : r \in enabled \cap ChangeReports} : JiraChanges(k)
    \/ \E p \in Pages \cap {PageOf[r] : r \in enabled \cap PageReports} : EditPage(p)
    \/ TimePasses \/ Boot \/ Crash

Spec == Init /\ [][Next]_vars

-----------------------------------------------------------------------------
(* What must hold.                                                         *)

\* Header of schedulerFiredState.js: "a restart cannot cause a duplicate delivery".  A
\* slot is started a second time only for a mark that got lost; the boundaries of an
\* interval are remembered by the process alone.
OncePerSlot ==
    \A r \in Reports : starts[r] <= 1 + lostMarks + (IF r \in IntervalTeams THEN crashes ELSE 0)

\* A mark is as good as a run: what is marked for the day, or the month, has been started
\* in it, whatever was restored from disk and whoever was busy.
HasFired(r)    == IF r \in MonthlyReports THEN hasAlreadyFiredThisMonth(r) ELSE hasAlreadyFiredToday(r)
MarksAreEarned == \A r \in Reports : HasFired(r) => starts[r] >= 1

\* The same header: "a scheduler that starts late can still deliver the day's report".
\* A tick at any time after the scheduled one leaves no report of the day, or of the
\* month, without a run, unless it is one that is mid-run.
CaughtUp ==
    [][Tick /\ Phase(now) >= 1 =>
        \A r \in enabled \ IntervalTeams :
            \/ starts'[r] >= 1
            \/ r \in ChangeReports /\ isTodayWeekend
            \/ r \in HygieneTeams /\ DayOfWeek(Day(now)) \notin HygieneDays
            \/ r \in MonthlyReports /\ (Day(now) < SecondTuesday \/ isRunInProgress)
            \/ r \in runningTeams]_vars

Reporters(k)   == {r \in ChangeReports : KeyOf[r] = k}
Reported(k, c) == \E r \in Reporters(k) : [owner |-> r, at |-> c] \in page[PageOf[r]]

\* Header of reportCoverage.js: missed days self-heal.  A change from before the
\* watermark, which no later run needs to look at, is on the page of a report of that
\* watermark's key, was out of reach of a window for one of the reasons of Excused, or was
\* kept by Jira from the very run that confirmed it: a short answer loses what it left out,
\* and nothing else.  A report whose key is its own so misses nothing; of entries that
\* share one, the changes of a delivery that failed may be on the other's page alone.
NoGap ==
    \A k \in CoverageKeys : \A c \in changes[k] :
        c < watermark[k] => Reported(k, c) \/ c \in forgiven[k]

\* No two scheduled runs of one PI team, and no two runs of the monthly report.
OneAtATime ==
    \A x, y \in runs :
        /\ x.report = y.report /\ x.report \in Guarded
        /\ x.report \in MonthlyReports \/ (x.trigger = "scheduled" /\ y.trigger = "scheduled")
        => x = y

\* A guard that is up belongs to a run in flight, or the team would never run again.
GuardsHaveRuns ==
    isUp =>
        /\ \A r \in runningTeams : \E x \in runs : x.report = r /\ x.trigger = "scheduled"
        /\ isRunInProgress => \E x \in runs : x.report \in MonthlyReports

\* Reports, PI refreshes and people write to the same pages: nothing on a page is lost.
PagesOnlyGrow == [][\A p \in Places : page[p] \subseteq page'[p]]_vars
=============================================================================

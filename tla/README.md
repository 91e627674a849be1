# NodeToolbox: TLA+ models, model checks and proofs

NodeToolbox is a local Node server (`src/src`) with a React front end (`src/client`) that
automates Jira, ServiceNow, Confluence, SharePoint and GitHub for a team. Everything hard
in it comes from one shape: small pieces of in-memory state inside one single-threaded
process, touched by HTTP handlers, timers and awaits, beside JSON files that are read,
changed and written back, in front of remote systems that are often reachable only through
a bookmarklet running in somebody's browser tab.

This directory models those pieces in TLA+, checks them with TLC on small instances and
proves, with TLAPS and for every instance, the safety properties of the relay, of the booked
change moves, of the email intake, of the scheduled reports and of the sprint release.

## 1. Inventory

Paths below are relative to the repository root; `src/src` is the server.

| Component | State it keeps | Operations | Hard behaviour | What makes it correct |
|---|---|---|---|---|
| Relay bridge, `src/routes/relayBridge.js` | per system: `isActive`, registration and poll times, token flag, `pendingRequests`, `pendingResults`, `pollWaiters`, `resultWaiters` | register, session-token, deregister, request, poll, result, result/:id, `submitRelayRequest` | long polls held on both sides, timers racing answers, restarts that empty one side of a conversation only | nothing runs twice, "ok" is true, every caller is answered, no lost wake-up, the tab recovers the channel by itself |
| Relay bookmarklet, `client/src/services/browserRelay.ts` | poll loop, `hasReportedSessionToken` | click, poll, re-announce, execute, post result, pagehide | a second click starts a second loop; a result post that fails is posted again as a failure | as above |
| Relay callers, `client/src/services/relayBridgeApi.ts` | one promise per call | post, then wait | server gone between the two | always an answer |
| Booked change moves, `services/changeMoveScheduler.js`, `changeMoveBookings.js`, `routes/changeMoves.js` | bookings file, `isRunInFlight` | book, withdraw, tick, run-now | a run holds a snapshot over several relay calls while people edit the file | done means moved, never early, late not lost, once |
| GitHub email intake, `services/githubEmailIntakeScheduler.js` | drop folder, key ledger, seen-names ledger, `isRunInProgress` | sweep, ingest batch, preview | ledger read at the start of a run and written at its end; answers lost | an event is commented once, no email vanishes |
| SharePoint pulls, `services/sharePointEmailRelay.js`, `client/src/services/githubEmailSharePointPull.ts` | names collected, sources downloaded | list, filter, download, ingest, recycle | two pullers and a sweep share one guard; refused batches | only what was ingested is recycled |
| Scheduler chassis, `services/schedulerFiredState.js`, `reportCoverage.js` and the ticks of the six report schedulers | `lastFiredDates` in memory and in `scheduler-fired-state.json`, `lastAlignedSlotByTeamKey`, `runningTeamKeys`, `isRunInProgress`, `report-coverage.json` | tick, run-now, load at start | a date recorded before the run, a team busy when due, a restart or a damaged file in between | once per day, month or slot; what is due is started the same day; a guard never stays up |
| Report schedulers, `services/scopeChangeScheduler.js`, `featureChangeScheduler.js`, `standupBriefingScheduler.js`, `hygieneMonitorScheduler.js`, `piReviewScheduler.js`, `piReviewRefresh.js`, `monthlyDeliveryScheduler.js` | runs in flight: their window, what Jira answered, the copy of the page they are changing | query Jira, post, or read and write a Confluence page | a watermark advanced past a change nobody saw; two writers of one page | no change falls between two reports, nothing on a page is lost |
| Report delivery status, `services/reportDeliveryStatus.js` | the last outcome, for display | record, post to a webhook | none: nothing reads it back | not planned |
| Sprint release, `services/sprintReleaseScheduler.js`, `sprintReleaseOrchestrator.js` | `lastHandoffByIssue`, `lastSeenFixVersionDates`, `processedDefectIntakeKeys`, `lastDorScanDate`, `activeSprintName`, all in memory | poll cycle of four scans, run-now, dor-violations | cycles have no overlap guard and record after awaits; a search looks back one interval only; answers lost after the act | each issue handled once, none missed that a search reaches, sprints follow their release dates |
| Jira output, `services/jiraEventOutput.js`, `jiraWriteJournal.js` | write journal | comment, transition | answer lost after the write | no wrong transition |
| Server shell, `server.js`, `utils/portManager.js`, `utils/updater.js` | port, child process | start, take over, update | two instances at once | one server owns the port |
| Configuration loader, REST proxies, setup pages, React views | a file; none | read, forward, render | little: sequential or stateless | not planned |

How they interact: the front end and the schedulers call the relay bridge; the bookmarklet
serves it. Change moves and the SharePoint pulls are callers of `submitRelayRequest` (jobs
in the relay model); a pull started in a tab is a front-end caller. Sweeps and pulls meet
in one pipeline and one ledger. The chassis decides when a report runs; reports, PI refreshes
and people share Confluence pages.

The hazards of this code are listed with their lines in `PROJECT.json`, next to the
properties that cover them.

## 2. Modules

| Module | What it is |
|---|---|
| `RelayChannel` | one system's channel of the bridge, its bookmarklet loops and both kinds of caller |
| `RelayPromise` | what the relay promises a caller, with no tabs, queues or restarts in it |
| `RelayChannelProofs`, `RelayCustodyProofs`, `RelayRefinementProofs` | theorems about `RelayChannel` |
| `ChangeMoves` | bookings, their file and the runs that carry them out |
| `BookingPromise` | what a person who books a move may rely on |
| `ChangeMovesProofs` | theorems about `ChangeMoves` |
| `GithubEmailIntake` | the email pipeline, sweeps and SharePoint pulls |
| `GithubEmailIntakeProofs` | theorems about `GithubEmailIntake` |
| `ReportSchedules` | the ticks of the report schedulers, what they remember, and their runs |
| `ReportSchedulesProofs`, `ReportCoverageProofs` | theorems about `ReportSchedules`: slots and guards; watermarks and pages |
| `SprintRelease` | the poll cycles of the sprint and release automation |
| `SprintReleaseProofs` | theorems about `SprintRelease` |
| `MCRelayChannel`, `MCChangeMoves`, `MCGithubEmailIntake`, `MCReportSchedules`, `MCSprintRelease` | instances for TLC, one `.cfg` per run |

An operator with the comment "a slip for ..." is not part of a specification: it is a
plausible bug in the definition it names, used to check that a property would notice it.

### RelayChannel

Node runs one handler to its end, so every handler, timer callback and loop iteration
between two awaits is one action. Systems share no state, so one channel is modelled.

* Server: `Register`, `PostRequest`, `Poll`, `PostResult`, `CollectResult`, `CloseTab`
  (deregister) are the routes; `PollTimesOut`, `ResultTimesOut`, `JobCollects`,
  `JobTimesOut` the timers; `Crash` and `Start` the process, whose memory is lost.
  `Enqueue` is the common tail of POST /request and `submitRelayRequest`.
* Bookmarklet: `tabPc` is where a loop stands. `ReportSessionToken` is the top of the loop,
  `Reannounce` comes before `ExecuteRequest` as in the code, and `ResultPostFails` is the
  catch block that posts a finished request again, as failed.
  `CloseTabSilently` is a tab whose beacon never arrives: its held poll becomes `Gone` and
  still swallows the next request.
* Time appears only as what depends on it: `heartbeat` is never, fresh or stale.
* The far system acts or not on each execution; `effects` counts how often.

The result of a POST whose answer is lost after the server processed it is not modelled,
nor are `relayOrigin`, request bodies and the digest retry inside one execution.

### RelayPromise

Five actions: submit, reject, act, settle some callers. It promises at most one effect per
request, one answer per caller, "ok" only after the effect, and no effect for a request
refused outright. It leaves out, on purpose, what the relay cannot promise: that a caller
told of a timeout or a disconnection may safely retry. `RelayChannel` implements it with
`open` mapped to the callers that posted or wait.

### ChangeMoves

The file is the sequence `file` of id and status; every operation reads it, changes it and
writes it in one step, as the synchronous code does, with the cap. A write may fail before it
begins, and leave the file as it was, or be cut short, by a full disk or by the end of the
process in `Restart`: `writeFileSync` truncates first, so the file is then damaged, and
`readBookings` takes a damaged file for an empty list (`LeaveDamaged`, counted in `damages`).
`pushedOff` is bookkeeping: the bookings a full file dropped while they were pending. A run takes a snapshot (`taken`, `queue`) and awaits a lookup and a PATCH per
booking. `Conclude` is the rest of the loop body, up to the next await: with the relay
closed `submitRelayRequest` throws at once for every booking left. `listDueBookings` is the
sorted list of what is due, written as the set that holds its one result, so that no
recursion is needed; bookings of one moment keep their order in the file. The relay is here
the abstraction the promise allows: a call is answered, fails, or is carried out after its
caller gave up; `abandoned` counts, for each booking, the PATCHes that may still act so
(`LeaveBehind`). `overlaps` is bookkeeping: how often a run began beside another one.

### BookingPromise

What a person who books a move may rely on, with no runs, queues, relay or file in it: a
status, a count of moves, and whether a booking is open, that is, may still be moved or
settled. Only an open booking is moved or settled, and not before its moment; done means
moved; what has closed never opens again; the first move is free and each further one costs
a trouble. It leaves out, on purpose, what the code cannot promise: that a failed or a
withdrawn booking was not moved, or will not be while it is open. `ChangeMoves` implements
it with `open` mapped to the bookings that are pending, in a run's queue, or left behind with
the relay, `troubles` to the overlaps, restarts and failed writes, and `losses` to the damaged
files, each of which empties the panel (`LoseAll`).

### GithubEmailIntake

A run of `processDropFolder` is `run[x]`: the files left, its own copy of the ledger, and
the post it awaits. While it is "sweeping" no other handler starts (`Quiet`), because the
loop awaits nothing but Jira. Each branch of the loop is an operator of its own, in the
code's order: read failure, parse failure, same email, not actionable or same event, dry
run, post. `Unreadable` emails fail to be read in each sweep and stay in the folder.
`FinishRun` writes the ledger, releases the guard and records the seen names, in one
synchronous stretch. Both files are truncated and written in place and read as empty lists
when they cannot be parsed, so a write that fails leaves the old list or none (`SpoilLedger`,
`SpoilSeen`), and the process may end in the middle of one (`CrashInWrite`). A download whose
body is empty, or no string, is taken for an email without a line (`run[x].blank`, `ReadAs`);
`emptied` is bookkeeping, the files to which that happened. `pull[x]` walks through collecting, ingesting, clearing; a refused
batch is swallowed by the server's pull and ends the tab's.

Previews persist nothing and await nothing, so they are no step. The order of files within
a run or a pull is left open. File names in the library are taken as unique: Power Automate
names a file by the email's subject, and a later email under a name already seen would not
be downloaded; what it does then is outside this repository.

### ReportSchedules

One module for six schedulers, because they share what is hard. A day has three phases:
before, at and after the scheduled minute; one minute of the day stands for the schedule of
every report. `Deployments` lists the sets of reports a configuration enables.

* `Tick` is the ticks of all schedulers in one minute. They are synchronous up to the start
  of the runs and touch disjoint entries of the fired dates, so their order says nothing.
  `ChangeReportDue`, `BriefingDue`, `HygieneDue`, `PiReviewDue` and `MonthlyDue` are the
  conditions of the six checks; the mark is set first (`recordFiredDate`, whose write may
  fail), then the run starts and is forgotten. Interval teams are marked by `alignedSlot`,
  in memory only. `RunNow` sets no mark and looks at a guard only for the monthly report.
* A run is a record in `runs`, one `pc` per await: `QueryAnswered`, `Posted`, `PageRead`,
  `PageWritten`, `WorkDone` (hygiene and monthly reports, which end in a webhook) and
  `RequestFails`. A change report fixes its window when it starts (`NewRun`, from
  `resolveCoverageCutoff`) and confirms it when it delivered or found nothing (`Confirm`,
  `setCoverageWatermark` through its start). Watermarks, and changes, go by key (`KeyOf`): a
  project's for the scope reports, a label's for the feature reports, one for each roll-up,
  so two entries of one project or label share one. `WindowStart` is the code's pair of
  filters: the query names the UTC date of the cutoff (`cutoffDateString`), the changelog is
  compared with the cutoff. A change is what a report would show: removals, and fields that
  end a window as they began it, are left out by `extractChangeEntries`.
* Confluence takes version n + 1 only on top of version n: `PutAccepted`. `Outdated` marks
  the copies that somebody else's write or edit made old. A PI refresh starts over once.
* `Crash` loses memory and runs and may leave one of the two files damaged, which reads as
  empty; `Boot` loads the fired dates.
* `starts`, `forgiven` and `lostMarks` are bookkeeping: scheduled runs of the current slot,
  changes a window was right not to reach or Jira kept from the run that confirmed them, and
  marks lost. `hidden` is what a run was not told: nothing unless Jira's answer was short.

### SprintRelease

`Poll` is the timer, on time or late; `RunNow` the route. Both start a cycle without asking
whether one is in flight. The four scans of a cycle follow each other, an action for each
awaited request that matters to them:

* handoffs: `SearchHandoffs` is the moment Jira looks, `HandoffsFound` the one at which its
  answer is compared with `lastHandoffByIssue` (`detectSubStatusChanges`); then, for each
  issue, `Closed`, `Commented`, `Recorded`;
* end dates: `VersionsFound`, `SprintFound`, `SprintMoved`;
* defects: `IntakesFound`, `DefectCreated`, `Linked`, `Unlabelled`. The links and the removal
  of the label are updates, which the next searches find. `DefectCreated` may make a defect
  whose answer is lost, and the code then knows of none;
* definition of ready: `SprintRead`, `Flagged`, for the day on which the scan began.
  `AskForViolations` and `AnswerViolation` are the route that posts the same comments.

Every failure is caught and logged by the code and the cycle goes on as the action says.
`Restart` forgets everything.

There is one clock, `now`, in moments; the timer is due every `Interval` of them (`due`) and a
search looks back one of `PollWindows`, since the code takes the window from the live
configuration and the timer's interval from the one it was started with. Jira's stamps of
changes read `JiraAhead` moments ahead of the same time in UTC, or behind it: the code
compares the two as text (`AlreadyHandedOver`).

The rest is bookkeeping: `unseen`, `searched` and `gapped` tell which updates no search has
found yet, when the latest search was, and whether one came later than it looked back;
`announced` and `comments` what has been said about the sub-status an issue has now; `noticed`
the versions whose date changed under the eyes of this process; `misses`, `lost`, `overlaps`,
`midnights`, `asked` and `restarts` what the properties count as causes.

## 3. Runs

| Run | Instance | Shows |
|---|---|---|
| `relay_safety` | 2 loops, 2 front-end calls, 1 job, 2 clicks, 1 restart, symmetric | no idle queue, no lost wake-up, at most once, ok is true, `Custody`, refinement of `RelayPromise` |
| `relay_liveness` | 1 loop, 1 call, 1 job, 2 clicks, 2 restarts, late token | every call ends, recovery without a click, token becomes known |
| `relay_disconnected` | 1 loop, 1 call, 1 restart | violation, see 6 |
| `moves_settle` | tick only, 3 bookings, cap of 2, relay closes once, 1 restart, 1 write cut short | in order, no lost update, every pending booking is settled unless it is pushed off or the file damaged |
| `moves_hostile` | tick and run-now, 1 restart, 1 failed write, 1 cut short, late PATCHes, 1 overlap | done means moved, each repeat has a cause, withdrawn in time never runs, refinement of `BookingPromise` |
| `moves_overlap`, `moves_closed` | tick and run-now; relay closes mid-run | violations, see 6 |
| `intake` | 1 saved email and an unreadable copy of it, 1 more about its event and 1 unparseable in the library, sweep, server pull, tab pull, batches of 1, 1 fault of any kind (torn files and empty downloads among them) | posted once, claims are true, ledgers agree, nothing else vanishes, the folder drains but for the unreadable |
| `intake_unparsed`, `intake_rehearsal` | a server pull; one email saved twice | violations, see 6 |
| `reports` | Friday to the second Tuesday of the month; two scope reports of one project, rolled-up report, two PI teams on one page, or briefing, hygiene and monthly report together; 1 edit, 1 change per report, 1 manual run, 1 restart, 1 fault | once per slot, marks are earned, no gap, one at a time, guards come down, a late tick catches up, pages only grow |
| `sprint_release` | 2 cycles, 1 plain and 1 config-only issue, 2 versions (1 with a sprint), 1 intake, 1 unready issue, 3 ticks of the clock, each a poll interval, 2 edits or calls, 1 trouble, symmetric | handoffs, defects and flags once but for a cause of its own, a handoff in reach of a search is announced, sprints follow, no day taken for scanned |

Why the bounds are enough to be interesting. Two loops and three requests give every
pairing the queues can see: two requests behind one poll, two polls before one request, a
swallowing dead poll in front of a live one. One restart separates memories that disagree;
the liveness run has two, so that recovery from recovery is seen. For change moves, two
bookings of one change and one of another make order, overlap and the cap visible. In the
intake the guard is contended by three runners, and a batch of 1 lets another run in
between two batches. `MaxFaults` bounds crashes, lost answers, failed writes and harmless
failures together: each property names the kind that excuses it. In `moves_settle` no PATCH
acts after its caller gave up (`AbandonedMayAct`): such a PATCH touches neither the file nor a
run, which is all that run is about; `moves_hostile` has them.

`reports` starts on a Friday so that the weekend, Monday's three days back and the monthly
Tuesday all lie within 14 moments. The cap of 30 days on a window is scaled to 4
(`MaxLookbackDays`), so that an outage longer than it can happen, and `UtcAhead = 1` puts the
UTC date ahead in the last phase of a day. A run stays in flight for at most one phase
(`MaxLength`), long enough for it to be busy when it is next due. With one change per report
(`MaxChanges`) a short answer is an empty one, the error body; answers cut off by the cap are
left to the proof of `NoGap`. The deployments are
separate because reports that share neither a page nor a coverage key share nothing; the two
scope reports are together because they share a key. In
`sprint_release` a moment is a poll interval and a window is one (`PollWindows = {1}`), a day has
two, so a scan can run past midnight, and a search can come two or three intervals after the one before it,
which leaves a gap. Jira's stamps are in UTC there (`JiraAhead = 0`), where both handoff
properties apply; other offsets, windows and intervals are left to the proofs. `MaxTrouble` pays
for a failed request, a lost answer, an overlap or a restart, and each property names the ones
that excuse it.

`CHECK_DEADLOCK FALSE` is set for the relay, the moves, the reports and the sprint release:
once every call is answered, the bounded clicks, restarts and clock are used up and tabs may
all be closed, so the system rightly stops.

### Properties

The comment above each property says what it means. The ones to know:

* `AtMostOnce`, `OkMeansDone`: `effects` never passes 1; "ok" implies it is 1. They need the
  whole custody chain of a request, through queue, poll, re-announcement and result.
* `NoIdleQueue`, `NoLostWakeup`: the two ways long polling goes wrong.
* `EachRepeatHasACause`: however runs, restarts, failed writes and late PATCHes cross, a
  booking is carried out once and once more for each run begun beside another, restart and
  failed write. A PATCH whose caller gave up is in the count of no cause: it is never
  followed by a second one. The bound is reached.
* `NoLostUpdate`: the read-change-write of several actors over one file. A stored booking leaves
  it only off the end of a full file or with a damaged one, and its status changes only by a
  withdrawal while it is pending, or by the outcome of a run that had taken it.
* `PostedOnce`: at most one comment per event plus one per crash, lost answer and failed or
  torn write of the ledger. The bound is reached: a run that dies posts again.
* `NothingVanishes`: no email with news is archived or recycled unless its event was put to
  Jira, or shown by a dry run, or one of its downloads came back without text, which the code
  does not tell from an email (see 6). It rests on the seen ledger surviving refused batches.
* `NoGap`: the watermark, the window and the pages of change reports together: a change from
  before the watermark of a key is on the page of a report of that key, or lies outside a window for one of three reasons the
  code gives (`Excused`): no watermark yet, an outage longer than the cap, a watermark whose
  UTC date is already the next day; or it is one that a short answer kept from the very run
  that confirmed it (`Withheld`). It would fail if coverage were confirmed through the end
  of a run in place of its start, or by a run that did not deliver.
* `OncePerSlot`, `MarksAreEarned`, `CaughtUp`: the fired dates err in neither direction, over
  restarts, damaged files and teams that are busy when due.
* `PagesOnlyGrow`: no report takes from a page what another report or a person wrote.
* `HandoffMade`: what a search has found is announced, or a cycle is about to, whatever cycles
  cross; a handoff no search has found is younger than the latest search, or one search came
  later than it looks back (`gapped`), which the code does not prevent. `announced` asks for a
  comment of the right kind made since the sub-status was set: one made for an earlier change
  of the same kind is good enough, since the record then stands for both. It is claimed where
  Jira's stamps do not read behind UTC (`JiraAhead >= 0`), and only without failed requests
  and restarts; `HandoffOnce` where they do not read ahead (`JiraAhead <= 0`). What goes wrong on
  the other side of each is in 6.
* `OneDefect`, `FlaggedOncePerDay`: every repetition has a cause of its own: for a defect an
  overlap, a restart or the lost answer of a create; for a comment an overlap, a restart, a
  scan that ran past midnight or a call of dor-violations.
* `SprintFollows`: the date is noted before the sprint is moved, so a failure is for good, and
  two cycles may move it in the wrong order; the property leaves out both.
* `ScannedMeansFlagged`: the day is noted at the end of a scan, as of its start. A scan that
  ends early, for want of a sprint, or late, after midnight, leaves the day to a later cycle.
  A request that failed is excluded: an error body counts as a sprint where all are ready (6).
* `SeenIsLedgered`: two files written one after the other never disagree for long enough to
  lose an email, also when the process ends between the two writes or in the second one. A
  ledger that is itself lost excuses it: the names stay seen, and the emails are not ledgered.
* `FolderDrains`: a saved email is put away in the end, whatever fails once; only an email that
  can never be read stays, and it holds up no other.

### Fairness

* Relay: weak fairness of each loop (the browser keeps an open page's loop going), of the
  server's poll timer, of a caller that collects or times out (both sides hold timers), and
  of restarting the server. Clicks, closing tabs and requests are never forced.
* Change moves: weak fairness of a run's steps (`submitRelayRequest` always ends by its own
  timer), of the clock and of reopening the relay; strong fairness of the tick, which comes
  every 60 seconds however often the relay opens and closes, so the closures being bounded
  it does meet an open relay.
* Intake: weak fairness of the tick and of what a run does between two calls. A call to Jira
  has no time limit (`httpClient.js`), so its answer is not assumed: `FolderDrains` is about the
  behaviours in which no run waits for Jira for ever. Pulls, arrivals and mode switches are
  never forced. That the tick fires again
  after a day or an interval is taken from the chassis.
* Reports and sprint release: none. Their requests have no timeout in the code, so a run may
  hang for ever, and no liveness is claimed. What must not stay undone is stated as safety
  instead, at the moment the code could have done it (`CaughtUp`, `HandoffMade`,
  `SprintFollows`).

## 4. Proofs

All theorems hold for any values of the constants that meet the named assumptions of the
module: for the relay, disjoint ids, markers outside them and natural bounds; for the others,
that kinds of runners, reports and issues are disjoint and bounds natural. The change moves
need finitely many run-now calls, which their properties count. The sprint release
also needs finitely many cycles, which its properties count, and an interval and a day of at
least one moment; its windows may be any, and Jira's stamps may read any number of moments
ahead of UTC or behind it.

| Module | Theorem | Statement |
|---|---|---|
| `RelayChannelProofs` | `TypeCorrect` | `Spec => []TypeOK` |
| `RelayCustodyProofs` | `NeverIdle`, `WakeupsKept` | `Spec => []NoIdleQueue`, `Spec => []NoLostWakeup` |
| | `CustodyKept` | `Spec => []Custody` |
| | `RanAtMostOnce`, `OkIsTrue` | `Spec => []AtMostOnce`, `Spec => []OkMeansDone` |
| `RelayRefinementProofs` | `PromiseKept` | `Spec => KeepsPromise`: the channel implements `RelayPromise` |
| `ChangeMovesProofs` | `TypeCorrect` | `Spec => []TypeOK` |
| | `DoneIsTrue`, `NeverTooSoon` | `Spec => []DoneMeansMoved`, `Spec => []NeverEarly` |
| | `BookingsKept` | `Spec => KeepsBookings`: change moves implement `BookingPromise` |
| | `UpdatesKept`, `WithdrawnStaysOut` | the action properties `NoLostUpdate`, `WithdrawnInTimeNeverRuns` |
| | `RepeatsArePaidFor` | `Spec => []EachRepeatHasACause` |
| | `TickMovesOnce`, `TickKeepsOrder` | `[]MovedAtMostOnce`, `[]LandsInOrder`, if `NowRuns = {}` |
| `GithubEmailIntakeProofs` | `TypeCorrect` | `Spec => []TypeOK` |
| | `CommentedOnce`, `ClaimsAreBacked` | `Spec => []PostedOnce`, `Spec => []ClaimsAreTrue` |
| | `SeenNamesAreLedgered`, `NothingLost` | `Spec => []SeenIsLedgered`, `Spec => []NothingVanishes` |
| `ReportSchedulesProofs` | `TypeCorrect` | `Spec => []TypeOK` |
| | `NoDuplicateSlot`, `MarksStandForRuns` | `Spec => []OncePerSlot`, `Spec => []MarksAreEarned` |
| | `LateTickCatchesUp` | the action property `CaughtUp` |
| | `RunsAlone`, `GuardsAreReleased` | `Spec => []OneAtATime`, `Spec => []GuardsHaveRuns` |
| `ReportCoverageProofs` | `NothingFallsBetween` | `Spec => []NoGap` |
| | `NothingOverwritten` | the action property `PagesOnlyGrow` |
| `SprintReleaseProofs` | `TypeCorrect` | `Spec => []TypeOK` |
| | `DefectBeforeTaken`, `OneDefectEach` | `Spec => []LabelTakenForDefect`, `Spec => []OneDefect` |
| | `SprintsFollowReleases`, `NoHandoffMissed` | `Spec => []SprintFollows`, `Spec => []HandoffMade` |
| | `OneHandoffEach`, `OneFlagADay` | `Spec => []HandoffOnce`, `Spec => []FlaggedOncePerDay` |
| | `ScansLeaveNobodyOut` | `Spec => []ScannedMeansFlagged` |

**Relay.** `AtMostOnce` is not inductive: a loop that executes a request needs to know
that the request had no effect yet, which needs that nobody else holds it, which needs that
it left the queue when it was handed over, and so on back to the caller. `Custody` is that
chain: held polls belong to the one loop that waits for them (`PollsAreOwned`), a loop's
request matches what the loop is doing and has not been acted on before it executes
(`LoopsHoldRequests`), a request is in one place at a time and in none before it is accepted
(`OnePlace`), and stored results are backed by effects (`ResultsAreReal`). Its proof has
one lemma for each action or group of actions that disturb the same conjuncts. The
refinement uses `Custody` in the step for `ExecuteRequest`: the promise lets a request
be acted on only if it was accepted, and `OnePlace` says that no loop holds one that was
not.

**Change moves.** `Sound` is the invariant: ids are unique in the file and none is there that
was never booked (`FileSound`), what a run holds was due when it took it (`RunSound`), what
was abandoned or landed came from such a run and is past its moment (`FarSideSound`), and done
is backed by a landing (`DoneIsBacked`). A withdrawn booking is the hard case: its status may
be overwritten by a run that held it, so `DoneMeansMoved` cannot be read off the file.
`EachRepeatHasACause` needs a count (`Paid`): the moves of a booking that were made, the
PATCHes left behind that may still make one (`abandoned`) and the runs that still have it in
their hands (`Holders`) are together no more than the causes, and one more once the booking
is spent: held, reported, or no longer pending. A run that begins alone finds a pending
booking that nobody holds, and so uses up the one; any other beginning is an overlap and
pays. A booking leaves a run's hands settled in the file, or with a failed write that pays.
It also needs that a run's queue names no booking twice (`QueuesDistinct`).
The refinement of `BookingPromise` rests on the same count: a PATCH that acts is still in a
run's hands or left behind, so `Paid` leaves room for its move. The rest is that a step
opens nothing: what a run takes was pending (`DueFacts`), what is left behind was in a
queue (`LeaveBehindFacts`), and a write settles only what its run had (`WrittenFor`).
`MovedAtMostOnce` is the case without causes: with the tick alone no run begins beside
another. `LandsInOrder` needs `Ordered`: the queue is in order of moments, and
an earlier booking that was beside a later one when that landed is neither queued nor pending.
Both hold only while the tick is alone, so their theorems assume that
there are no run-now calls; `moves_overlap` shows what happens otherwise.

**Intake.** `Books` relates four copies of one book: the ledger on disk, the copy of the run
in flight, the files and names the run or a pull still holds, and what Jira carries. Its parts
are that only one run is past its guard (`OneRun`), that a run's copy contains the disk's
(`RunKept`), that each key in either is vouched for by a comment or a dry run (`VouchedBy`),
and that each comment on an event that is not on record has been paid for (`PaidBy`).
`PostedOnce` alone is not inductive, because a crash makes the record of a comment vanish:
only `PaidBy` says that the crash itself is then the fault that pays. A run's end is the other
hard place (`EndKeepsBooks`): what becomes of two files is decided one after the other, so the
invariant must not rest on the ledger where the list of names is already written. `SafeToDrop`
carries what is needed instead, for the names seen and the files a pull is clearing: such a
file was handled, or taken for an email without a line.

**Reports.** `WellFormed` adds to the types that a run does what its kind of report does
(`RunsInOrder`). `SlotsKept` says of memory and of disk alike: a mark for the slot stands for a start
in it, which is also what a late tick relies on when it passes a report over (`CaughtUp`),
and without one every start of the slot has cost a mark (a write that failed, a file
that was damaged). That it holds of both is what carries it over a restart, which copies one
into the other. `GuardsKept` ties a guard to exactly the run that holds
it. For pages, `CopiesKept` says that a copy that is not stale is the page. For coverage,
`Timely` says that nothing is newer than now, and `Coverage` that every change before the
watermark, and before the watermark any run in flight began with, is accounted for, and that
such a run holds what its window reaches, but for what Jira kept from it. The part about runs is what is needed when two runs
of one key, a manual and a scheduled one or those of two entries, overlap and confirm in either
order.

**Sprint release.** Each property has an invariant of its own over `WellFormed`, which adds to
the types that a cycle's list belongs to the scan it is in. `HasDefects`: a cycle that is
about to remove a label has a defect behind it. The three properties of the form "once, and
once more per cause" are not inductive, because two cycles may hold one item
before either has acted on it. `Owed` counts, beside what was done, the cycles that may still
do it, and says that all but the first were paid for when a cycle started beside another, the
process forgot, or an answer was lost (`OwedWasted`). Who may still act is the property's own.
For defects: the cycles that have not come past the item (`Creators`). For handoffs also a
cycle that was overtaken (`Overtaken`), which will write an older moment back into
`lastHandoffByIssue` and so give another search something to find; that what is recorded is
no older than what was announced needs `EventsSound`, and that it is then passed over
`JiraAhead <= 0`. For the daily comments also a cycle that still scans for a day gone by
(`Behind`), which will put `lastDorScanDate` back; the comments such a scan and a call still
have to post are counted as if they were posted (`Pledged`), and paid for at midnight, when
`FewInFlight` bounds the scans that cross it, and by the call. `Following`: without
overlaps one cycle is in flight, the dates on its list are the dates last seen, and a noticed
date that the sprint does not have yet is on that list. `Minded`, for a watched issue: a
handoff that is not announced is not recorded either, nor about to be, as of its moment or a
later one (`Unrecorded`, which with `JiraAhead >= 0` makes the comparison let it pass), and it
is announced, about to be (`Pending`), or not found yet for one of the two reasons the
property gives (`Fresh`). `AllLookedAtFlagged`: an issue
a scan of today has passed is flagged; it needs `DaysPast`, no scan is for a day to come, or
midnight could make a scan of yesterday one of today.

Only model-checked: liveness (the prover has no fairness and no ENABLED here). Every safety
property of the passing runs has a theorem, `LandsInOrder` for the tick alone. `NeverEarly` and
`MovedAtMostOnce` are proved and in no passing run: the first is part of the promise
`moves_hostile` checks, the second follows from `EachRepeatHasACause` there.

## 5. Not modelled

* Configuration loading, setup pages, REST proxies and React views: sequential or stateless.
  They are most of the repository's lines, so the models cover a small share of them; the
  state that is shared between actors is in the services modelled here.
* Report text, formatting, logs and the run log. How several changes of one issue collapse
  into a line, and what a PI refresh reconciles within its table: every change of the model
  touches an issue of its own. A schedule minute of its own for each report. The last-run
  results kept for display, `reportDeliveryStatus` and the webhooks.
* In the intake: previews (see 2), transitions and parent actions of an event (only whether
  the comment was made matters to the ledgers) and the write journal of `jiraWriteJournal.js`.
* In the sprint release: more than one team profile. POST config writes exactly one
  (`routes/sprintRelease.js:304`), several only come about by editing the configuration file,
  and they would get in each other's way: `lastDorScanDate`, `activeSprintName`,
  `activeSprintEndDate`, the warnings and the first-run test of `lastSeenFixVersionDates` are
  shared by all of them, so the daily scan, for one, would run for one profile a day. Nor a
  change of projects or board in a running process; the labels of a created defect, the parent
  lookup, comment texts and webhooks, which no scan reads. The links of a defect are modelled as
  the updates of two issues that they are. Versions without a release date are skipped by the
  code, and by `noteDates` and `Changed`.
* The SharePoint document relay, which browses and downloads, and keeps and writes nothing,
  and the server shell (port take-over, update hand-off between two processes).

## 6. Where the code and its comments disagree

The first five are runs that TLC must find violated.

* `DisconnectedNeverRuns`: after a restart the first poll is told to re-register; the loop
  re-registers after it was handed a request and before it runs it, and POST /register
  answers "disconnected" to the caller of that very request, which is then carried out.
* `MovedAtMostOnce` in `moves_overlap`: POST run-now goes past `isRunInFlight`.
* `ClosedRelayFailsNothing`: a relay that closes during a run turns due bookings into
  failed ones, though the header says they stay pending.
* `UnparsedSurvives`: a parse failure leaves an event, the event's name becomes seen, and
  seen names are recycled.
* `LiveRunFires`: a dry run records the email's own key, so the same email is a duplicate
  for the real run that follows.

Observed while modelling, without a run of their own: polls held before POST /register
survive it and still serve requests; a re-announcement flushes requests accepted since the
restart; a poll alone sets `isActive`; the header of the bridge still says that the
"bookmarklet must be re-clicked each server start" (`relayBridge.js:22`), while the poll handler
(lines 365-384) brings the channel back without a click, which is what `RecoversWithoutAClick`
states and `relay_liveness` shows; "Older completed ones fall off the end" of the bookings file
(`changeMoveScheduler.js:40`), but line 68 drops the oldest bookings whatever their status, so a
pending one is lost, not late, once enough newer ones were booked (`pushedOff`); the bookings
file is written in place and reads as empty when damaged, which loses every pending booking; a
booking withdrawn while a run holds it is still carried
out and its status overwritten.

Of the intake:

* An unreadable .msg "throws, which routes the file to the error folder"
  (`githubEmailIntakeScheduler.js:200-201`), but the handler of that error (lines 340-347) moves
  nothing: the file stays in the drop folder and fails again in every sweep. `FolderDrains` is
  about the others.
* "A non-string body means nothing readable came back" (`sharePointEmailRelay.js:142`), but such
  a body becomes an empty text (line 145; `githubEmailSharePointPull.ts:208`), which is ingested
  as an email without news, recorded, and recycled as confirmed: the email is lost. It is the
  one loss `NothingVanishes` has to excuse.
* The ledger and the list of seen names are truncated and rewritten in place
  (`githubEmailIntakeScheduler.js:82-89`, 584-594) and read as empty when damaged. A torn ledger
  posts what is still at hand again; a torn list of names downloads again what the ledger knows.

Of the reports:

* The change reports look neither at the HTTP status of Jira's answer nor at the cap of 200
  results (`scopeChangeScheduler.js:226`): an error counts as "no changes" and advances the
  watermark. `NoGap` bounds the damage: what such an answer left out is lost if the run that
  got it confirms coverage, and nothing else is.
* A watermark from late in the evening names the next UTC day in the query
  (`scopeChangeScheduler.js:616`), which leaves out the changes of the local evening after it.
* Both state files are written in place and read as empty when damaged; the reports of the
  day then go out twice.
* Two feature entries of one label share a coverage key (`featureChangeScheduler.js:695`), though
  line 219 of the file says that "two entries at different times can coexist", and so do two
  scope entries of one project (`scopeChangeScheduler.js:613`): when one delivers after the other
  failed, the watermark passes the window of the failed one, whose own page never shows those
  changes ("Do NOT call when a run errors before writing, so the next run retries the same
  window", `reportCoverage.js:111-112`). `NoGap` says what is left: they are on the page of one.

Of the sprint release:

* `lastHandoffByIssue` "Prevents duplicate handoff notifications across poll cycles"
  (`sprintReleaseScheduler.js:50-54`), but not of cycles that overlap, nor across a restart,
  after which any update of an issue handed over long ago announces and closes it again.
* A handoff counts as made although its comment failed, and an end date as handled although
  the sprint could not be moved; neither is tried again. Failed links are only logged.
* `processedDefectIntakeKeys` "Prevents duplicate issue creation" (lines 64-67), but an answer
  of POST /issue that is lost or names no key leaves `createdIssueKey` null
  (`sprintReleaseOrchestrator.js:502-510`) although Jira may have made the defect, and the next
  cycle makes another. And "The Set is populated from recent processed-intake history on
  startup" (`specs/003-sprint-release-workflow/data-model.md:72`), but the code starts with an
  empty one (line 68), so a restart allows another too. `OneDefect` counts both.
* A config-only issue sent to BT is recorded as handed over to QE, so it is closed again in
  each cycle that finds it.
* The definition of ready scan is to run "once per calendar day" but does not run at all
  until the release date of a version changes, which is when `activeSprintName` is set
  (`sprintReleaseScheduler.js:342`). It does not look at the HTTP status of the answer with
  the sprint's issues (line 353) either: an error counts as a sprint in which all are ready,
  and the day as scanned.
* `removeDefectIntakeLabel` writes back the list of labels it was given with the search, so a
  label set in between is lost (`sprintReleaseOrchestrator.js:565`).
* Jira's `created` stamps, with a local offset, are compared as strings with UTC stamps
  (`sprintReleaseOrchestrator.js:86` and 91). Where the offset is positive a handoff reads later
  than its own record for as many hours, and every cycle that finds the issue closes and
  announces it again, with no overlap and no restart; where it is negative a second handoff of
  the same kind within as many hours is taken for the first and never announced.
* The searches look back exactly one poll interval, by the configuration as it is then, while the
  timer keeps the interval it was started with (`sprintReleaseScheduler.js:123-131`, 438-440):
  a late timer, or a shorter interval in the configuration, leaves a gap whose updates no
  search finds (`gapped`). Results are cut off at 100, 50 and 100 issues, and the HTTP status of
  an answer is not looked at; what is left out is one of the `misses`.
* A scan that runs past midnight, and GET dor-violations (`routes/sprintRelease.js:312-359`),
  post the comments of the day a second time; "once per calendar day" is `lastDorScanDate`
  alone. Without `?sprintId=` that route looks for a sprint whose name is empty and answers 404.

## 7. Plan

Done: the relay and its promise; change moves; the email intake; the report schedulers with
the chassis; the sprint release; and proofs about all of them.

What remains, in this order:

1. Composition: change moves over `RelayPromise` in place of the abstraction described in 2.
2. `jiraEventOutput.js` with its write journal: the transition after the comment, and an
   answer lost between the two.
3. The server shell: port take-over and update hand-off, two processes and one port.
4. Report delivery to a webhook, should a scheduler ever read its outcome.

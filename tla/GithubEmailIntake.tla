-------------------------- MODULE GithubEmailIntake --------------------------
(***************************************************************************)
(* GitHub notification emails become Jira comments:                        *)
(* src/src/services/githubEmailIntakeScheduler.js, the SharePoint transport *)
(* in sharePointEmailRelay.js and its browser twin                         *)
(* src/client/src/services/githubEmailSharePointPull.ts.                   *)
(*                                                                         *)
(* One pipeline, processDropFolder, reads emails from a local drop folder  *)
(* (sweeps) or from batches a pull downloaded from a SharePoint library.   *)
(* It runs without interruption except while it awaits Jira, so no other   *)
(* handler starts while a run is "sweeping".  What a run learns reaches    *)
(* the disk only when it ends.                                             *)
(***************************************************************************)
EXTENDS Naturals, FiniteSets

CONSTANTS
    FolderFiles,      \* files that may be saved to the drop folder
    LibraryFiles,     \* files that may appear in the SharePoint library
    Messages,         \* emails, by Message-ID or content hash: the file keys
    Events,           \* repository events an email can announce: the event keys
    MessageOf,        \* the email each file holds
    EventOf,          \* what parsing an email yields
    NotActionable,    \* parsed, but unclassified, without Jira key or filtered out
    Garbled,          \* not parseable
    BlankEmail,       \* the email without a line, which a download may come to
    Unreadable,       \* saved files no reader can read: a .msg without transport headers
    Sweeps,           \* drop-folder runs: the tick's and run-now's
    ServerPulls,      \* runSharePointIntakeNow, started by the tick
    TabPulls,         \* pullSharePointEmails, started in a NodeToolbox tab
    Modes,            \* the modes the configuration may be set to
    BatchSize,        \* MAX_SHAREPOINT_SOURCES_PER_BATCH
    NoFile,           \* a run that awaits no answer
    MaxFaults         \* bound: crashes, lost answers, failed writes and hiccups in all

Files   == FolderFiles \cup LibraryFiles
Pulls   == ServerPulls \cup TabPulls
Runners == Sweeps \cup Pulls
Keys    == Messages \cup Events

ASSUME FilesAssumption == FolderFiles \cap LibraryFiles = {} /\ NoFile \notin Files
ASSUME EmailsAssumption ==
    /\ MessageOf \in [Files -> Messages]
    /\ EventOf \in [Messages -> Events \cup {NotActionable, Garbled}]
    /\ Messages \cap Events = {}
    /\ {NotActionable, Garbled} \cap Events = {}
    /\ BlankEmail \in Messages /\ EventOf[BlankEmail] = NotActionable
    /\ NotActionable # Garbled /\ Unreadable \subseteq FolderFiles
ASSUME RunnersAssumption == Sweeps \cap Pulls = {} /\ ServerPulls \cap TabPulls = {}
ASSUME ModesAssumption == Modes # {} /\ Modes \subseteq {"dryRun", "live"}
ASSUME BoundsAssumption == BatchSize \in Nat \ {0} /\ MaxFaults \in Nat

VARIABLES
    place,            \* where each file is
    ledger,           \* github-email-processed.json: the keys it holds
    seen,             \* github-email-sharepoint-seen.json: the names it holds
    mode,             \* scheduler.githubEmailIntake.mode
    isRunInProgress,  \* the overlap guard
    run,              \* each runner's call of processDropFolder
    pull,             \* each pull's progress
    comments,         \* how many comments Jira carries for each event
    offered,          \* events that were put to Jira
    rehearsed,        \* emails that a dry run reported as it would post them
    crashes,          \* how often the process died
    lostAnswers,      \* comments Jira made and whose answer was lost
    emptied,          \* library files whose download came back without text
    failedWrites,     \* ledgers that could not be written, or were torn by the process's end
    hiccups           \* saved files not read or moved, lists of seen names not written,
                      \* downloads without text

files  == <<place>>
disk   == <<ledger, seen>>
jira   == <<comments, offered>>
bounds == <<crashes, lostAnswers, failedWrites, hiccups>>
vars   == <<files, disk, mode, isRunInProgress, run, pull, jira, rehearsed, emptied, bounds>>

EventIn(f) == EventOf[MessageOf[f]]
Actionable(f) == EventIn(f) \in Events

RunPcs  == {"idle", "sweeping", "posting"}
PullPcs == {"idle", "collecting", "ingesting", "running", "clearing"}
NoRun   == [pc |-> "idle", files |-> {}, todo |-> {}, ledger |-> {}, now |-> NoFile,
            blank |-> {}, live |-> FALSE]
NoPull  == [pc |-> "idle", names |-> {}, got |-> {}, blank |-> {}, left |-> {}]

TypeOK ==
    /\ \A f \in FolderFiles : place[f] \in {"away", "inbox", "processed", "errors"}
    /\ \A f \in LibraryFiles : place[f] \in {"away", "inbox", "recycled"}
    /\ DOMAIN place = Files
    /\ ledger \subseteq Keys
    /\ seen \subseteq LibraryFiles
    /\ mode \in Modes
    /\ isRunInProgress \in BOOLEAN
    /\ run \in [Runners -> [pc : RunPcs, files : SUBSET Files, todo : SUBSET Files,
                            ledger : SUBSET Keys, now : Files \cup {NoFile},
                            blank : SUBSET LibraryFiles, live : BOOLEAN]]
    /\ pull \in [Pulls -> [pc : PullPcs, names : SUBSET LibraryFiles,
                           got : SUBSET LibraryFiles, blank : SUBSET LibraryFiles,
                           left : SUBSET LibraryFiles]]
    /\ comments \in [Events -> Nat]
    /\ offered \subseteq Events
    /\ rehearsed \subseteq Messages
    /\ emptied \subseteq LibraryFiles
    /\ {crashes, lostAnswers, failedWrites, hiccups} \subseteq Nat
    /\ crashes + lostAnswers + failedWrites + hiccups <= MaxFaults

Init ==
    /\ place = [f \in Files |-> IF f \in Unreadable THEN "inbox" ELSE "away"]
    /\ ledger = {}
    /\ seen = {}
    /\ mode \in Modes
    /\ isRunInProgress = FALSE
    /\ run = [x \in Runners |-> NoRun]
    /\ pull = [x \in Pulls |-> NoPull]
    /\ comments = [e \in Events |-> 0]
    /\ offered = {}
    /\ rehearsed = {}
    /\ emptied = {}
    /\ crashes = 0 /\ lostAnswers = 0 /\ failedWrites = 0 /\ hiccups = 0

\* No run holds the thread: a handler, a timer or an answer from the relay can run.
Quiet == \A x \in Runners : run[x].pc # "sweeping"

MayFail == crashes + lostAnswers + failedWrites + hiccups < MaxFaults

\* One more failure of the kind that only delays.
Hiccup ==
    /\ MayFail
    /\ hiccups' = hiccups + 1
    /\ UNCHANGED <<crashes, lostAnswers, failedWrites>>

-----------------------------------------------------------------------------
(* The pipeline: processDropFolder under the guard of                      *)
(* runGithubEmailIntakeNow.                                                *)

\* A slip for GuardFree: nobody looks at isRunInProgress.
alwaysFree == TRUE
GuardFree == ~isRunInProgress

\* runGithubEmailIntakeNow takes the guard; the list of files, the mode and the
\* ledger are read once, here.  The files of blank were downloaded without text.
Begin(x, todo, blank) ==
    /\ isRunInProgress' = TRUE
    /\ run' = [run EXCEPT ![x] = [pc |-> "sweeping", files |-> todo, todo |-> todo,
                                  ledger |-> ledger, now |-> NoFile, blank |-> blank,
                                  live |-> mode = "live"]]

\* The email run x takes file f for, and what parsing that yields.
ReadAs(x, f)    == IF f \in run[x].blank THEN BlankEmail ELSE MessageOf[f]
ParsedAs(x, f)  == EventOf[ReadAs(x, f)]
HasNews(x, f)   == ParsedAs(x, f) \in Events

\* The tick or run-now sweeps the drop folder.
StartSweep(x) ==
    /\ Quiet
    /\ run[x].pc = "idle"
    /\ GuardFree
    /\ Begin(x, {f \in FolderFiles : place[f] = "inbox"}, {})
    /\ UNCHANGED <<files, disk, mode, pull, jira, rehearsed, emptied, bounds>>

\* A slip for safeMove: the move of a SharePoint source is not a no-op.
moveAnything(f, to) ==
    \/ place' = [place EXCEPT ![f] = to] /\ UNCHANGED bounds
    \/ UNCHANGED place /\ Hiccup

\* safeMove: a move that fails is reported and the run goes on.  The files of a pull
\* live in SharePoint, so there the move does nothing.
safeMove(f, to) ==
    IF f \in LibraryFiles THEN UNCHANGED <<place, bounds>>
    ELSE \/ place' = [place EXCEPT ![f] = to] /\ UNCHANGED bounds
         \/ UNCHANGED place /\ Hiccup

\* Run x has dealt with file f and recorded keys in its copy of the ledger.
Dealt(x, f, keys) ==
    run' = [run EXCEPT ![x].pc = "sweeping", ![x].now = NoFile,
                       ![x].todo = @ \ {f}, ![x].ledger = @ \cup keys]

\* readFile throws, this once or, on an Unreadable file, each time: the file stays
\* where it is.
ReadFails(x, f) ==
    /\ f \in FolderFiles
    /\ Dealt(x, f, {})
    /\ \/ f \in Unreadable /\ UNCHANGED bounds
       \/ Hiccup
    /\ UNCHANGED <<files, rehearsed>>

\* parseGithubEmail throws: to the error folder, without ledgering.
ParseFails(x, f) ==
    /\ f \notin Unreadable
    /\ ParsedAs(x, f) = Garbled
    /\ Dealt(x, f, {})
    /\ safeMove(f, "errors")
    /\ UNCHANGED rehearsed

Parsed(x, f) == f \notin Unreadable /\ ParsedAs(x, f) # Garbled

\* The same email was handled before.
SkipDuplicateEmail(x, f) ==
    /\ Parsed(x, f)
    /\ ReadAs(x, f) \in run[x].ledger
    /\ Dealt(x, f, {})
    /\ safeMove(f, "processed")
    /\ UNCHANGED rehearsed

\* New to the ledger and parseable: the emails the rest of the loop looks at.
Fresh(x, f) == Parsed(x, f) /\ ReadAs(x, f) \notin run[x].ledger

\* Not actionable, or another email about the same event already drove Jira.
SkipForGood(x, f) ==
    /\ Fresh(x, f)
    /\ ~HasNews(x, f) \/ ParsedAs(x, f) \in run[x].ledger
    /\ Dealt(x, f, {ReadAs(x, f)})
    /\ safeMove(f, "processed")
    /\ UNCHANGED rehearsed

ToBePosted(x, f) == Fresh(x, f) /\ HasNews(x, f) /\ ParsedAs(x, f) \notin run[x].ledger

\* postJiraCommentForEvent in a dry run: reports success, touches nothing in Jira.
Rehearse(x, f) ==
    /\ ToBePosted(x, f)
    /\ ~run[x].live
    /\ rehearsed' = rehearsed \cup {ReadAs(x, f)}
    /\ Dealt(x, f, {ReadAs(x, f)})
    /\ safeMove(f, "processed")

\* postJiraCommentForEvent for real: the run awaits Jira's answer.
BeginPost(x, f) ==
    /\ ToBePosted(x, f)
    /\ run[x].live
    /\ run' = [run EXCEPT ![x].pc = "posting", ![x].now = f]
    /\ UNCHANGED <<files, rehearsed, bounds>>

ProcessFile(x) ==
    /\ run[x].pc = "sweeping"
    /\ \E f \in run[x].todo :
          \/ ReadFails(x, f) \/ ParseFails(x, f) \/ SkipDuplicateEmail(x, f)
          \/ SkipForGood(x, f) \/ Rehearse(x, f) \/ BeginPost(x, f)
    /\ UNCHANGED <<disk, mode, isRunInProgress, pull, jira, emptied>>

\* A slip for KeysAfterPost: the event is claimed whether or not Jira took it.
keysClaimed(f, isPosted) == {MessageOf[f], EventIn(f)}

\* The email is recorded in any case, the event only once Jira was driven.
KeysAfterPost(f, isPosted) ==
    IF isPosted THEN {MessageOf[f], EventIn(f)} ELSE {MessageOf[f]}

\* Jira's answer: the comment is made, or refused, or made while its answer is lost,
\* which postJiraCommentForEvent reports as a failure.
PostAnswered(x) ==
    /\ run[x].pc = "posting"
    /\ Quiet
    /\ LET f == run[x].now
           made(n) == comments' = [comments EXCEPT ![EventIn(f)] = @ + n]
           recorded(isPosted) == Dealt(x, f, KeysAfterPost(f, isPosted))
       IN
       /\ offered' = offered \cup {EventIn(f)}
       /\ \/ made(1) /\ recorded(TRUE) /\ safeMove(f, "processed")
          \/ made(0) /\ recorded(FALSE) /\ safeMove(f, "processed")
          \/ /\ made(1) /\ recorded(FALSE)
             /\ MayFail
             /\ lostAnswers' = lostAnswers + 1
             /\ place' = [place EXCEPT ![f] = IF f \in FolderFiles THEN "processed" ELSE @]
             /\ UNCHANGED <<crashes, failedWrites, hiccups>>
    /\ UNCHANGED <<disk, mode, isRunInProgress, pull, rehearsed, emptied>>

\* A slip for releaseGuard: the flag is not reset in a finally.
keepGuard == UNCHANGED isRunInProgress
releaseGuard == isRunInProgress' = FALSE

\* A slip for SaveLedger: each run writes what it alone learned, not the merged list.
saveOnlyNew(x) == ledger' = run[x].ledger \ ledger

SaveLedger(x) == ledger' = run[x].ledger

\* appendSeenSharePointNamesToDisk, of the names of a pull's batch.
SaveSeen(x) == seen' = IF x \in Pulls THEN seen \cup run[x].files ELSE seen

\* Both files are truncated and written in place, and what cannot be parsed is read as
\* an empty list: a write that fails leaves the old list, or none.
SpoilLedger == ledger' \in {ledger, {}}
SpoilSeen(x) == seen' \in {seen, IF x \in Pulls THEN {} ELSE seen}

\* The loop is over: the ledger is written (a failed write is swallowed), the guard
\* released, and the names of a pull's batch recorded as seen.
FinishRun(x) ==
    /\ run[x].pc = "sweeping"
    /\ run[x].todo = {}
    /\ \/ SaveLedger(x) /\ SaveSeen(x) /\ UNCHANGED bounds
       \/ SaveLedger(x) /\ SpoilSeen(x) /\ Hiccup
       \/ /\ SpoilLedger
          /\ SaveSeen(x) \/ SpoilSeen(x)
          /\ MayFail
          /\ failedWrites' = failedWrites + 1
          /\ UNCHANGED <<crashes, lostAnswers, hiccups>>
    /\ releaseGuard
    /\ run' = [run EXCEPT ![x] = NoRun]
    /\ IF x \in Pulls
       THEN pull' = [pull EXCEPT ![x].pc = IF @ = "running" THEN "ingesting" ELSE @]
       ELSE UNCHANGED pull
    /\ UNCHANGED <<files, mode, jira, rehearsed, emptied>>

-----------------------------------------------------------------------------
(* The pulls.                                                              *)

\* collectNewSharePointSources: list the library, keep the names not seen yet.  The
\* tick starts no pull while a run is in progress; the tab does not ask.
StartPull(x) ==
    /\ Quiet
    /\ pull[x].pc = "idle" /\ run[x].pc = "idle"
    /\ x \in ServerPulls => GuardFree
    /\ LET names == {f \in LibraryFiles : place[f] = "inbox"} \ seen IN
       /\ names # {}
       /\ pull' = [pull EXCEPT ![x] = [NoPull EXCEPT !.pc = "collecting", !.names = names]]
    /\ UNCHANGED <<files, disk, mode, isRunInProgress, run, jira, rehearsed, emptied, bounds>>

\* The downloads go one by one, through one browser tab.  A body that is empty, or no
\* string, is taken for an email without a line.
Download(x) ==
    /\ Quiet
    /\ pull[x].pc = "collecting"
    /\ \E f \in pull[x].names :
          /\ place[f] = "inbox"
          /\ \E blank \in {pull[x].blank, pull[x].blank \cup {f}} :
                LET got == pull[x].got \cup {f}
                    isLast == pull[x].names = {f}
                IN
                /\ pull' = [pull EXCEPT ![x] = [pc |-> IF isLast THEN "ingesting" ELSE "collecting",
                               names |-> pull[x].names \ {f}, got |-> got, blank |-> blank,
                               left |-> IF isLast THEN got ELSE {}]]
                /\ emptied' = emptied \cup blank
                /\ IF f \in blank THEN Hiccup ELSE UNCHANGED bounds
    /\ UNCHANGED <<files, disk, mode, isRunInProgress, run, jira, rehearsed>>

\* A download fails, because the relay does or because somebody else recycled the
\* file: the collection throws and the pull is over.
DownloadFails(x) ==
    /\ Quiet
    /\ pull[x].pc = "collecting"
    /\ pull' = [pull EXCEPT ![x] = NoPull]
    /\ UNCHANGED <<files, disk, mode, isRunInProgress, run, jira, rehearsed, emptied, bounds>>

\* The next batch goes into the pipeline.
IngestBatch(x) ==
    /\ Quiet
    /\ pull[x].pc = "ingesting"
    /\ GuardFree
    /\ \E batch \in SUBSET pull[x].left :
          /\ Cardinality(batch) \in 1..BatchSize
          /\ Begin(x, batch, pull[x].blank \cap batch)
          /\ pull' = [pull EXCEPT ![x].pc = "running", ![x].left = @ \ batch]
    /\ UNCHANGED <<files, disk, mode, jira, rehearsed, emptied, bounds>>

\* Another run is in progress: the server's pull swallows the refusal and goes on to
\* the next batch, the tab's pull gets a 409 and throws.
BatchRefused(x) ==
    /\ Quiet
    /\ pull[x].pc = "ingesting"
    /\ ~GuardFree
    /\ IF x \in ServerPulls
       THEN \E batch \in SUBSET pull[x].left :
              /\ Cardinality(batch) \in 1..BatchSize
              /\ pull' = [pull EXCEPT ![x].left = @ \ batch]
       ELSE /\ pull[x].left # {}
            /\ pull' = [pull EXCEPT ![x] = NoPull]
    /\ UNCHANGED <<files, disk, mode, isRunInProgress, run, jira, rehearsed, emptied, bounds>>

\* A slip for Confirmed: everything the pull attempted is taken for ingested.
attempted(x) == pull[x].got

\* What recycleConfirmedFiles may delete: names filterNewSharePointFileNames no
\* longer calls new.
Confirmed(x) == pull[x].got \cap seen

\* All batches are through: the pull ends, or clears the library behind itself
\* (shouldClearSharePointAfterIngest).
FinishPull(x) ==
    /\ Quiet
    /\ pull[x].pc = "ingesting"
    /\ pull[x].left = {}
    /\ \/ pull' = [pull EXCEPT ![x] = NoPull]
       \/ /\ Confirmed(x) # {}
          /\ pull' = [pull EXCEPT ![x] = [NoPull EXCEPT !.pc = "clearing",
                                                        !.names = Confirmed(x)]]
    /\ UNCHANGED <<files, disk, mode, isRunInProgress, run, jira, rehearsed, emptied, bounds>>

\* One recycle() through the relay; a file that will not go, or is gone already, is
\* left alone.
Recycle(x) ==
    /\ Quiet
    /\ pull[x].pc = "clearing"
    /\ \E f \in pull[x].names :
          /\ place' \in {place, [place EXCEPT ![f] = "recycled"]}
          /\ pull' = [pull EXCEPT ![x] = IF pull[x].names = {f} THEN NoPull
                                         ELSE [pull[x] EXCEPT !.names = pull[x].names \ {f}]]
    /\ UNCHANGED <<disk, mode, isRunInProgress, run, jira, rehearsed, emptied, bounds>>

\* The NodeToolbox tab is closed: its pull is over, a batch it posted is not.
CloseTab(x) ==
    /\ Quiet
    /\ pull[x].pc # "idle"
    /\ pull' = [pull EXCEPT ![x] = NoPull]
    /\ UNCHANGED <<files, disk, mode, isRunInProgress, run, jira, rehearsed, emptied, bounds>>

-----------------------------------------------------------------------------
(* The surroundings.                                                       *)

\* An email is saved to the folder, or Power Automate puts one into the library.
Arrive(f) ==
    /\ Quiet
    /\ place[f] = "away"
    /\ place' = [place EXCEPT ![f] = "inbox"]
    /\ UNCHANGED <<disk, mode, isRunInProgress, run, pull, jira, rehearsed, emptied, bounds>>

\* POST /config.
SetMode(m) ==
    /\ Quiet
    /\ mode # m
    /\ mode' = m
    /\ UNCHANGED <<files, disk, isRunInProgress, run, pull, jira, rehearsed, emptied, bounds>>

\* The process comes back: runs and pulls are gone with what they had not written.
Restarted ==
    /\ isRunInProgress' = FALSE
    /\ run' = [x \in Runners |-> NoRun]
    /\ pull' = [x \in Pulls |-> NoPull]
    /\ UNCHANGED <<files, mode, rehearsed, emptied, lostAnswers, hiccups>>

\* The process dies; a comment on its way may or may not have been made.
Crash ==
    /\ MayFail
    /\ crashes' = crashes + 1
    /\ Restarted
    /\ \E acted \in SUBSET {run[x].now : x \in {y \in Runners : run[y].pc = "posting"}} :
          LET made == {EventIn(f) : f \in acted} IN
          /\ comments' = [e \in Events |-> comments[e] + IF e \in made THEN 1 ELSE 0]
          /\ offered' = offered \cup made
    /\ UNCHANGED <<disk, failedWrites>>

\* The process dies as run x writes: the ledger is torn, or whole with the seen names
\* missing or torn.
CrashInWrite(x) ==
    /\ run[x].pc = "sweeping"
    /\ run[x].todo = {}
    /\ MayFail
    /\ Restarted
    /\ \/ /\ ledger' = {} /\ UNCHANGED seen
          /\ failedWrites' = failedWrites + 1 /\ UNCHANGED crashes
       \/ /\ SaveLedger(x) /\ SpoilSeen(x)
          /\ crashes' = crashes + 1 /\ UNCHANGED failedWrites
    /\ UNCHANGED jira

RunStep(x) == ProcessFile(x) \/ PostAnswered(x) \/ FinishRun(x)

PullStep(x) ==
    \/ Download(x) \/ DownloadFails(x) \/ IngestBatch(x) \/ BatchRefused(x)
    \/ FinishPull(x) \/ Recycle(x)

Next ==
    \/ \E x \in Sweeps : StartSweep(x)
    \/ \E x \in Runners : RunStep(x)
    \/ \E x \in Pulls : StartPull(x) \/ PullStep(x)
    \/ \E x \in TabPulls : CloseTab(x)
    \/ \E f \in Files : Arrive(f)
    \/ \E m \in Modes : SetMode(m)
    \/ Crash
    \/ \E x \in Runners : CrashInWrite(x)

Spec == Init /\ [][Next]_vars

\* The tick keeps coming, and a run that is not waiting for Jira goes on.  Nothing is
\* said of Jira's answer, which has no time limit, nor of the pulls.
Fairness ==
    /\ \A x \in Sweeps : WF_vars(StartSweep(x))
    /\ \A x \in Runners : WF_vars(ProcessFile(x) \/ FinishRun(x))

FairSpec == Spec /\ Fairness

-----------------------------------------------------------------------------
(* What must hold.                                                         *)

\* Header of the scheduler: two emails about one event, or one email twice, fire Jira
\* once.  A second comment takes a run that died before it wrote its ledger, a lost
\* answer, or a ledger that could not be written or was torn, one for each.
PostedOnce ==
    \A e \in Events : comments[e] <= 1 + crashes + lostAnswers + failedWrites

\* An event is claimed on disk, and later emails about it are skipped, only when
\* Jira really carries its comment.
ClaimsAreTrue == \A e \in Events \cap ledger : comments[e] > 0

\* The two ledgers agree although they are written one after the other, and the process
\* may die in between: unless the ledger was lost to a failed write, a name that will
\* not be downloaded again belongs to a recorded email, to a garbled one, or to a file
\* that was once taken for an email without a line.
SeenIsLedgered ==
    failedWrites = 0 =>
        \A f \in seen : EventIn(f) = Garbled \/ f \in emptied \/ MessageOf[f] \in ledger

\* However sweeps and pulls overlap or die, and whatever becomes of the two ledgers, an
\* email with news is put away only when its event was put to Jira or a dry run showed
\* it - or when one of its downloads came back without text.
NothingVanishes ==
    \A f \in Files : Actionable(f) /\ place[f] \in {"processed", "recycled"} =>
        \/ EventIn(f) \in offered
        \/ MessageOf[f] \in rehearsed
        \/ f \in emptied

\* The drop folder empties as long as Jira answers the runs that wait for it: whatever
\* fails once is taken up by a later sweep, and only what can never be read stays.
FolderDrains ==
    (\A x \in Runners : []<>(run[x].pc # "posting")) =>
        \A f \in FolderFiles \ Unreadable : place[f] = "inbox" ~> place[f] # "inbox"

-----------------------------------------------------------------------------
(* What the source's comments say, and the code does not do.               *)

\* recycleConfirmedFiles: "a batch can report success while an individual email failed
\* to parse, and that email has to survive for somebody to look at".
UnparsedSurvives ==
    \A f \in LibraryFiles : EventIn(f) = Garbled => place[f] # "recycled"

\* processDropFolder on a dry run: the event key is not claimed "so a later real run
\* still fires the event" - a live run that puts an email away has put it to Jira.
LiveRunFires ==
    [][\A x \in Sweeps, f \in FolderFiles :
          run[x].live /\ place[f] = "inbox" /\ place'[f] = "processed" /\ Actionable(f)
              => EventIn(f) \in offered']_vars
=============================================================================

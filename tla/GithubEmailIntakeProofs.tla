----------------------- MODULE GithubEmailIntakeProofs -----------------------
(***************************************************************************)
(* Proofs about GithubEmailIntake, for any number of emails, files, sweeps,*)
(* pulls and faults.                                                       *)
(***************************************************************************)
EXTENDS GithubEmailIntake, TLAPS

RunRecord  == [pc : RunPcs, files : SUBSET Files, todo : SUBSET Files, ledger : SUBSET Keys,
               now : Files \cup {NoFile}, blank : SUBSET LibraryFiles, live : BOOLEAN]
PullRecord == [pc : PullPcs, names : SUBSET LibraryFiles, got : SUBSET LibraryFiles,
               blank : SUBSET LibraryFiles, left : SUBSET LibraryFiles]

\* The part of the type that one handler does not spoil for another.
PlaceType ==
    /\ DOMAIN place = Files
    /\ \A f \in FolderFiles : place[f] \in {"away", "inbox", "processed", "errors"}
    /\ \A f \in LibraryFiles : place[f] \in {"away", "inbox", "recycled"}

CountsType ==
    /\ crashes \in Nat /\ lostAnswers \in Nat /\ failedWrites \in Nat /\ hiccups \in Nat
    /\ crashes + lostAnswers + failedWrites + hiccups <= MaxFaults

LEMMA TypeParts ==
    TypeOK <=> /\ PlaceType /\ CountsType
               /\ ledger \subseteq Keys /\ seen \subseteq LibraryFiles
               /\ mode \in Modes /\ isRunInProgress \in BOOLEAN
               /\ run \in [Runners -> RunRecord] /\ pull \in [Pulls -> PullRecord]
               /\ comments \in [Events -> Nat] /\ offered \subseteq Events
               /\ rehearsed \subseteq Messages /\ emptied \subseteq LibraryFiles
  BY DEF TypeOK, PlaceType, CountsType, RunRecord, PullRecord

LEMMA EmptyRecords == NoRun \in RunRecord /\ NoPull \in PullRecord
  BY DEF NoRun, NoPull, RunRecord, PullRecord, RunPcs, PullPcs

\* A fault is counted, and there is room for it.
LEMMA FaultType ==
    ASSUME CountsType,
           \/ UNCHANGED bounds
           \/ Hiccup
           \/ MayFail /\ failedWrites' = failedWrites + 1 /\ UNCHANGED <<crashes, lostAnswers, hiccups>>
           \/ MayFail /\ lostAnswers' = lostAnswers + 1 /\ UNCHANGED <<crashes, failedWrites, hiccups>>
           \/ MayFail /\ crashes' = crashes + 1 /\ UNCHANGED <<lostAnswers, failedWrites, hiccups>>
    PROVE  CountsType'
  BY BoundsAssumption DEF CountsType, bounds, Hiccup, MayFail

\* A move puts only saved files elsewhere.
LEMMA MoveType ==
    ASSUME PlaceType, CountsType, NEW f \in Files, NEW to \in {"processed", "errors"}, safeMove(f, to)
    PROVE  /\ PlaceType' /\ CountsType'
           /\ UNCHANGED <<crashes, lostAnswers, failedWrites>>
           /\ \/ place' = place
              \/ f \in FolderFiles /\ place' = [place EXCEPT ![f] = to]
  <1>1. CASE UNCHANGED place
    BY <1>1, FaultType DEF safeMove, PlaceType, bounds, Hiccup
  <1>2. CASE f \in FolderFiles /\ place' = [place EXCEPT ![f] = to] /\ UNCHANGED bounds
    BY <1>2, FilesAssumption, FaultType DEF PlaceType, bounds
  <1> QED
    BY <1>1, <1>2 DEF safeMove, Files

\* What dealing with a file does to its run.
LEMMA DealtShape ==
    ASSUME TypeOK, NEW x \in Runners, NEW f \in Files, NEW keys \in SUBSET Keys, Dealt(x, f, keys)
    PROVE  /\ run' \in [Runners -> RunRecord]
           /\ \A y \in Runners \ {x} : run'[y] = run[y]
           /\ run'[x].pc = "sweeping" /\ run'[x].todo = run[x].todo \ {f}
           /\ run'[x].files = run[x].files /\ run'[x].ledger = run[x].ledger \cup keys
           /\ run'[x].live = run[x].live /\ run'[x].blank = run[x].blank
  <1>1. run \in [Runners -> RunRecord]
    BY TypeParts
  <1> DEFINE after == [run[x] EXCEPT !.pc = "sweeping", !.now = NoFile,
                                     !.todo = @ \ {f}, !.ledger = @ \cup keys]
  <1>2. run' = [run EXCEPT ![x] = after]
    BY <1>1 DEF Dealt
  <1>3. /\ after \in RunRecord
        /\ after.pc = "sweeping" /\ after.todo = run[x].todo \ {f}
        /\ after.files = run[x].files /\ after.ledger = run[x].ledger \cup keys
        /\ after.live = run[x].live /\ after.blank = run[x].blank
    BY <1>1 DEF RunRecord, RunPcs
  <1> HIDE DEF after
  <1> QED
    BY <1>1, <1>2, <1>3

LEMMA BeginShape ==
    ASSUME TypeOK, NEW x \in Runners, NEW todo \in SUBSET Files,
           NEW blank \in SUBSET LibraryFiles, Begin(x, todo, blank)
    PROVE  /\ run' \in [Runners -> RunRecord] /\ isRunInProgress'
           /\ \A y \in Runners \ {x} : run'[y] = run[y]
           /\ run'[x].pc = "sweeping" /\ run'[x].todo = todo
           /\ run'[x].files = todo /\ run'[x].ledger = ledger /\ run'[x].blank = blank
  BY TypeParts DEF Begin, RunRecord, RunPcs

\* What a fresh file's keys are.
LEMMA FileKeys ==
    ASSUME NEW f \in Files
    PROVE  /\ MessageOf[f] \in Messages /\ MessageOf[f] \in Keys
           /\ Actionable(f) => EventIn(f) \in Events /\ EventIn(f) \in Keys
  BY EmailsAssumption DEF Keys, Actionable, EventIn

\* A run takes a file for what it holds, or, downloaded without text, for nothing.
LEMMA ReadShape ==
    ASSUME NEW x, NEW f \in Files
    PROVE  /\ ReadAs(x, f) \in Messages /\ ReadAs(x, f) \in Keys
           /\ f \notin run[x].blank => /\ ReadAs(x, f) = MessageOf[f] /\ ParsedAs(x, f) = EventIn(f)
                                       /\ HasNews(x, f) <=> Actionable(f)
           /\ f \in run[x].blank => /\ ReadAs(x, f) = BlankEmail /\ ~HasNews(x, f)
                                    /\ ParsedAs(x, f) # Garbled
  BY EmailsAssumption DEF ReadAs, ParsedAs, HasNews, Actionable, EventIn, Keys

\* A step that keeps the parts keeps the whole.
LEMMA KeptType ==
    ASSUME PlaceType', CountsType', ledger' \subseteq Keys, seen' \subseteq LibraryFiles,
           mode' \in Modes, isRunInProgress' \in BOOLEAN,
           run' \in [Runners -> RunRecord], pull' \in [Pulls -> PullRecord],
           comments' \in [Events -> Nat], offered' \subseteq Events, rehearsed' \subseteq Messages,
           emptied' \subseteq LibraryFiles
    PROVE  TypeOK'
  BY DEF TypeOK, PlaceType, CountsType, RunRecord, PullRecord

LEMMA ProcessType ==
    ASSUME TypeOK, NEW x \in Runners, ProcessFile(x)
    PROVE  TypeOK'
  <1>1. PICK f \in run[x].todo :
          \/ ReadFails(x, f) \/ ParseFails(x, f) \/ SkipDuplicateEmail(x, f)
          \/ SkipForGood(x, f) \/ Rehearse(x, f) \/ BeginPost(x, f)
    BY DEF ProcessFile
  <1>2. f \in Files /\ PlaceType /\ CountsType /\ run \in [Runners -> RunRecord] /\ rehearsed \subseteq Messages
    BY TypeParts DEF RunRecord
  <1>3. ReadAs(x, f) \in Messages /\ {} \in SUBSET Keys /\ {ReadAs(x, f)} \in SUBSET Keys
    BY <1>2, ReadShape
  <1>4. run' \in [Runners -> RunRecord]
    <2>1. CASE BeginPost(x, f)
      <3>1. run' = [run EXCEPT ![x] = [run[x] EXCEPT !.pc = "posting", !.now = f]]
        BY <1>2, <2>1 DEF BeginPost
      <3>2. [run[x] EXCEPT !.pc = "posting", !.now = f] \in RunRecord
        BY <1>2 DEF RunRecord, RunPcs
      <3> QED
        BY <1>2, <3>1, <3>2
    <2> QED
      BY <1>1, <1>2, <1>3, <2>1, DealtShape
         DEF ReadFails, ParseFails, SkipDuplicateEmail, SkipForGood, Rehearse
  <1>5. PlaceType' /\ CountsType'
    <2>1. CASE UNCHANGED place /\ (UNCHANGED bounds \/ Hiccup)
      BY <1>2, <2>1, FaultType DEF PlaceType
    <2>2. CASE safeMove(f, "errors") \/ safeMove(f, "processed")
      BY <1>2, <2>2, MoveType
    <2> QED
      BY <1>1, <2>1, <2>2
         DEF ReadFails, ParseFails, SkipDuplicateEmail, SkipForGood, Rehearse, BeginPost, files
  <1>6. rehearsed' \subseteq Messages
    BY <1>1, <1>2, <1>3
       DEF ReadFails, ParseFails, SkipDuplicateEmail, SkipForGood, Rehearse, BeginPost
  <1>7. UNCHANGED <<disk, mode, isRunInProgress, pull, jira, emptied>>
    BY DEF ProcessFile
  <1> QED
    BY <1>4, <1>5, <1>6, <1>7, TypeParts, KeptType DEF disk, jira
LEMMA AnswerType ==
    ASSUME TypeOK, NEW x \in Runners, PostAnswered(x),
           run[x].now \in Files, Actionable(run[x].now)
    PROVE  TypeOK'
  <1> DEFINE f == run[x].now
             e == EventIn(f)
  <1>1. e \in Events /\ MessageOf[f] \in Keys /\ e \in Keys
    BY FileKeys DEF Actionable
  <1>2. PlaceType /\ CountsType /\ comments \in [Events -> Nat] /\ offered \subseteq Events
    BY TypeParts
  <1>3. offered' = offered \cup {e}
    BY DEF PostAnswered
  <1>4. comments' = [comments EXCEPT ![e] = @ + 1] \/ comments' = [comments EXCEPT ![e] = @ + 0]
    BY DEF PostAnswered
  <1>5. PICK isPosted \in BOOLEAN : Dealt(x, f, KeysAfterPost(f, isPosted))
    BY DEF PostAnswered
  <1>6. KeysAfterPost(f, isPosted) \in SUBSET Keys
    BY <1>1 DEF KeysAfterPost
  <1>7. run' \in [Runners -> RunRecord]
    BY <1>5, <1>6, DealtShape
  <1>8. PlaceType' /\ CountsType'
    <2>1. CASE safeMove(f, "processed")
      BY <1>2, <2>1, MoveType
    <2>2. CASE /\ MayFail /\ lostAnswers' = lostAnswers + 1
               /\ place' = [place EXCEPT ![f] = IF f \in FolderFiles THEN "processed" ELSE @]
               /\ UNCHANGED <<crashes, failedWrites, hiccups>>
      <3>1. CountsType'
        BY <1>2, <2>2, FaultType
      <3>2. PlaceType'
        BY <1>2, <2>2, FilesAssumption DEF PlaceType, Files
      <3> QED
        BY <3>1, <3>2
    <2> QED
      BY <2>1, <2>2 DEF PostAnswered
  <1> HIDE DEF e
  <1>9. comments' \in [Events -> Nat] /\ offered' \subseteq Events
    BY <1>1, <1>2, <1>3, <1>4
  <1> QED
    BY <1>7, <1>8, <1>9, TypeParts, KeptType DEF PostAnswered, disk

LEMMA FinishType ==
    ASSUME TypeOK, NEW x \in Runners, FinishRun(x),
           x \in Pulls => run[x].files \subseteq LibraryFiles
    PROVE  TypeOK'
  <1>1. /\ run \in [Runners -> RunRecord] /\ pull \in [Pulls -> PullRecord]
        /\ seen \subseteq LibraryFiles /\ ledger \subseteq Keys /\ CountsType
    BY TypeParts
  <1>2. ledger' \subseteq Keys
    BY <1>1 DEF FinishRun, SaveLedger, SpoilLedger, RunRecord
  <1>3. CountsType'
    BY <1>1, FaultType DEF FinishRun, bounds
  <1>4. run' \in [Runners -> RunRecord]
    BY <1>1, EmptyRecords DEF FinishRun
  <1> DEFINE p == [pull[x] EXCEPT !.pc = IF @ = "running" THEN "ingesting" ELSE @]
  <1>5. x \in Pulls => p \in PullRecord
    BY <1>1 DEF PullRecord, PullPcs
  <1>6. x \in Pulls => pull' = [pull EXCEPT ![x] = p]
    BY <1>1 DEF FinishRun
  <1> HIDE DEF p
  <1>7. pull' \in [Pulls -> PullRecord]
    BY <1>1, <1>5, <1>6 DEF FinishRun
  <1>8. seen' \subseteq LibraryFiles
    BY <1>1 DEF FinishRun, SaveSeen, SpoilSeen
  <1>9. PlaceType' /\ isRunInProgress' \in BOOLEAN
    BY TypeParts DEF FinishRun, releaseGuard, files, PlaceType
  <1> QED
    BY <1>2, <1>3, <1>4, <1>7, <1>8, <1>9, TypeParts, KeptType DEF FinishRun, jira
\* What a download does to its pull.
LEMMA DownloadShape ==
    ASSUME NEW x \in Pulls, Download(x)
    PROVE  \E f \in pull[x].names :
             \E blank \in {pull[x].blank, pull[x].blank \cup {f}},
              c \in {"collecting", "ingesting"}, left \in {{}, pull[x].got \cup {f}} :
                /\ pull' = [pull EXCEPT ![x] = [pc |-> c, names |-> pull[x].names \ {f},
                              got |-> pull[x].got \cup {f}, blank |-> blank, left |-> left]]
                /\ emptied' = emptied \cup blank
                /\ Hiccup \/ UNCHANGED bounds
  <1>1. PICK f \in pull[x].names : \E blank \in {pull[x].blank, pull[x].blank \cup {f}} :
          /\ pull' = [pull EXCEPT ![x] =
                 [pc |-> IF pull[x].names = {f} THEN "ingesting" ELSE "collecting",
                  names |-> pull[x].names \ {f}, got |-> pull[x].got \cup {f}, blank |-> blank,
                  left |-> IF pull[x].names = {f} THEN pull[x].got \cup {f} ELSE {}]]
          /\ emptied' = emptied \cup blank
          /\ Hiccup \/ UNCHANGED bounds
    BY DEF Download
  <1>2. CASE pull[x].names = {f}
    BY <1>1, <1>2
  <1>3. CASE pull[x].names # {f}
    BY <1>1, <1>3
  <1> QED
    BY <1>2, <1>3

\* The steps of a pull that start no run.
LEMMA PullType ==
    ASSUME TypeOK, NEW x \in Pulls,
           StartPull(x) \/ Download(x) \/ DownloadFails(x) \/ BatchRefused(x) \/ FinishPull(x)
             \/ Recycle(x) \/ CloseTab(x)
    PROVE  TypeOK'
  <1>1. /\ pull \in [Pulls -> PullRecord] /\ seen \subseteq LibraryFiles
        /\ PlaceType /\ CountsType
    BY TypeParts
  <1>2. \A p \in PullRecord, S \in SUBSET LibraryFiles, T \in SUBSET LibraryFiles, U \in SUBSET LibraryFiles,
           c \in PullPcs :
             /\ [p EXCEPT !.names = S] \in PullRecord /\ [p EXCEPT !.left = U] \in PullRecord
             /\ [p EXCEPT !.pc = c, !.names = S] \in PullRecord
    BY DEF PullRecord
  <1>3. "collecting" \in PullPcs /\ "ingesting" \in PullPcs /\ "clearing" \in PullPcs
    BY DEF PullPcs
  <1>4. /\ pull[x] \in PullRecord /\ pull[x].names \subseteq LibraryFiles
        /\ pull[x].got \subseteq LibraryFiles /\ pull[x].left \subseteq LibraryFiles
        /\ pull[x].pc \in PullPcs
    BY <1>1 DEF PullRecord
  <1>5. pull' \in [Pulls -> PullRecord]
    <2>1. CASE StartPull(x)
      <3> DEFINE names == {f \in LibraryFiles : place[f] = "inbox"} \ seen
      <3>1. pull' = [pull EXCEPT ![x] = [NoPull EXCEPT !.pc = "collecting", !.names = names]]
        BY <2>1 DEF StartPull
      <3>2. [NoPull EXCEPT !.pc = "collecting", !.names = names] \in PullRecord
        BY <1>2, <1>3, EmptyRecords
      <3> QED
        BY <1>1, <3>1, <3>2
    <2>2. CASE Download(x)
      <3>1. PICK f \in pull[x].names :
              \E blank \in {pull[x].blank, pull[x].blank \cup {f}},
                 c \in {"collecting", "ingesting"}, left \in {{}, pull[x].got \cup {f}} :
                 pull' = [pull EXCEPT ![x] = [pc |-> c, names |-> pull[x].names \ {f},
                            got |-> pull[x].got \cup {f}, blank |-> blank, left |-> left]]
        BY <2>2, DownloadShape
      <3>2. \A blank \in {pull[x].blank, pull[x].blank \cup {f}},
               c \in {"collecting", "ingesting"}, left \in {{}, pull[x].got \cup {f}} :
               [pc |-> c, names |-> pull[x].names \ {f}, got |-> pull[x].got \cup {f},
                blank |-> blank, left |-> left] \in PullRecord
        BY <1>4, <3>1 DEF PullRecord, PullPcs
      <3> QED
        BY <1>1, <3>1, <3>2
    <2>3. CASE pull' = [pull EXCEPT ![x] = NoPull]
      BY <1>1, <2>3, EmptyRecords
    <2>4. CASE BatchRefused(x) /\ x \in ServerPulls
      <3>1. PICK batch \in SUBSET pull[x].left : pull' = [pull EXCEPT ![x].left = @ \ batch]
        BY <2>4 DEF BatchRefused
      <3>2. pull' = [pull EXCEPT ![x] = [pull[x] EXCEPT !.left = pull[x].left \ batch]]
        BY <1>1, <3>1
      <3>3. [pull[x] EXCEPT !.left = pull[x].left \ batch] \in PullRecord
        BY <1>4, <3>1 DEF PullRecord
      <3> QED
        BY <1>1, <3>2, <3>3
    <2>5. CASE pull' = [pull EXCEPT ![x] = [NoPull EXCEPT !.pc = "clearing", !.names = Confirmed(x)]]
      <3>1. [NoPull EXCEPT !.pc = "clearing", !.names = Confirmed(x)] \in PullRecord
        BY <1>2, <1>3, <1>4, EmptyRecords DEF Confirmed
      <3> QED
        BY <1>1, <2>5, <3>1
    <2>6. CASE Recycle(x)
      <3>1. PICK f \in pull[x].names :
               pull' = [pull EXCEPT ![x] = IF pull[x].names = {f} THEN NoPull
                                            ELSE [pull[x] EXCEPT !.names = pull[x].names \ {f}]]
        BY <2>6 DEF Recycle
      <3>2. [pull[x] EXCEPT !.names = pull[x].names \ {f}] \in PullRecord
        BY <1>4 DEF PullRecord
      <3>3. \/ pull' = [pull EXCEPT ![x] = NoPull]
            \/ pull' = [pull EXCEPT ![x] = [pull[x] EXCEPT !.names = pull[x].names \ {f}]]
        BY <1>1, <3>1
      <3> QED
        BY <1>1, <3>2, <3>3, EmptyRecords
    <2> QED
      BY <2>1, <2>2, <2>3, <2>4, <2>5, <2>6 DEF DownloadFails, BatchRefused, FinishPull, CloseTab
  <1>6. PlaceType' /\ CountsType'
    <2>1. CASE Recycle(x)
      <3>1. PICK f \in pull[x].names :
              place' \in {place, [place EXCEPT ![f] = "recycled"]} /\ UNCHANGED bounds
        BY <2>1 DEF Recycle
      <3>2. f \in LibraryFiles /\ f \notin FolderFiles
        BY <1>4, FilesAssumption
      <3>3. PlaceType'
        BY <1>1, <3>1, <3>2 DEF PlaceType, Files
      <3>4. CountsType'
        BY <1>1, <3>1, FaultType
      <3> QED
        BY <3>3, <3>4
    <2>2. CASE Download(x)
      <3>1. CountsType'
        BY <1>1, <2>2, DownloadShape, FaultType
      <3> QED
        BY <1>1, <2>2, <3>1 DEF Download, PlaceType, files
    <2>3. CASE UNCHANGED <<place, bounds>>
      BY <1>1, <2>3, FaultType DEF PlaceType
    <2> QED
      BY <2>1, <2>2, <2>3
         DEF StartPull, DownloadFails, BatchRefused, FinishPull, CloseTab, files
  <1>7. UNCHANGED <<disk, mode, isRunInProgress, run, jira, rehearsed>>
    BY DEF StartPull, Download, DownloadFails, BatchRefused, FinishPull, Recycle, CloseTab
  <1>8. emptied' \subseteq LibraryFiles
    <2>1. CASE Download(x)
      <3>1. PICK f \in pull[x].names : \E blank \in {pull[x].blank, pull[x].blank \cup {f}} :
               emptied' = emptied \cup blank
        BY <2>1, DownloadShape
      <3>2. pull[x].blank \subseteq LibraryFiles /\ emptied \subseteq LibraryFiles
        BY <1>4, TypeParts DEF PullRecord
      <3> QED
        BY <1>4, <3>1, <3>2
    <2> QED
      BY <2>1, TypeParts DEF StartPull, DownloadFails, BatchRefused, FinishPull, Recycle, CloseTab
  <1> QED
    BY <1>5, <1>6, <1>7, <1>8, TypeParts, KeptType DEF disk, jira

\* The other steps.
LEMMA OtherType ==
    ASSUME TypeOK,
           \/ \E x \in Sweeps : StartSweep(x)
           \/ \E x \in Pulls : IngestBatch(x)
           \/ \E f \in Files : Arrive(f)
           \/ \E m \in Modes : SetMode(m)
           \/ UNCHANGED vars
    PROVE  TypeOK'
  <1>1. /\ pull \in [Pulls -> PullRecord] /\ PlaceType /\ CountsType
        /\ comments \in [Events -> Nat] /\ offered \subseteq Events
    BY TypeParts
  <1>2. ASSUME NEW x \in Sweeps, StartSweep(x) PROVE TypeOK'
    <2>1. run' \in [Runners -> RunRecord] /\ isRunInProgress' \in BOOLEAN
      <3> DEFINE todo == {f \in FolderFiles : place[f] = "inbox"}
      <3>1. Begin(x, todo, {})
        BY <1>2 DEF StartSweep
      <3>2. todo \in SUBSET Files /\ x \in Runners /\ {} \in SUBSET LibraryFiles
        BY DEF Files, Runners
      <3> HIDE DEF todo
      <3> QED
        BY <3>1, <3>2, BeginShape DEF Begin
    <2> QED
      BY <1>1, <1>2, <2>1, TypeParts, KeptType, FaultType DEF StartSweep, files, disk, jira, PlaceType
  <1>3. ASSUME NEW x \in Pulls, IngestBatch(x) PROVE TypeOK'
    <2>1. PICK batch \in SUBSET pull[x].left :
             /\ Begin(x, batch, pull[x].blank \cap batch)
             /\ pull' = [pull EXCEPT ![x].pc = "running", ![x].left = @ \ batch]
      BY <1>3 DEF IngestBatch
    <2>2. pull[x] \in PullRecord /\ batch \in SUBSET Files /\ pull[x].blank \cap batch \in SUBSET LibraryFiles
      BY <1>1 DEF PullRecord, Files
    <2>3. run' \in [Runners -> RunRecord] /\ isRunInProgress' \in BOOLEAN
      BY <2>1, <2>2, BeginShape DEF Begin, Runners
    <2>4. [pull[x] EXCEPT !.pc = "running", !.left = @ \ batch] \in PullRecord
      BY <2>2 DEF PullRecord, PullPcs
    <2>5. pull' = [pull EXCEPT ![x] = [pull[x] EXCEPT !.pc = "running", !.left = @ \ batch]]
      BY <1>1, <2>1
    <2>6. pull' \in [Pulls -> PullRecord]
      BY <1>1, <2>4, <2>5
    <2> QED
      BY <1>1, <1>3, <2>3, <2>6, TypeParts, KeptType, FaultType DEF IngestBatch, files, disk, jira, PlaceType
  <1>4. ASSUME NEW f \in Files, Arrive(f) PROVE TypeOK'
    <2>1. PlaceType'
      BY <1>1, <1>4 DEF Arrive, PlaceType
    <2> QED
      BY <1>1, <1>4, <2>1, TypeParts, KeptType, FaultType DEF Arrive, disk, jira
  <1>5. ASSUME NEW m \in Modes, SetMode(m) PROVE TypeOK'
    BY <1>1, <1>5, TypeParts, KeptType, FaultType DEF SetMode, files, disk, jira, PlaceType
  <1>6. CASE UNCHANGED vars
    BY <1>1, <1>6, TypeParts, KeptType, FaultType DEF vars, files, disk, jira, PlaceType
  <1> QED
    BY <1>2, <1>3, <1>4, <1>5, <1>6

\* What a restart leaves, whatever was on disk.
LEMMA RestartType ==
    ASSUME TypeOK, Restarted, CountsType', ledger' \subseteq Keys, seen' \subseteq LibraryFiles,
           comments' \in [Events -> Nat], offered' \subseteq Events
    PROVE  TypeOK'
  <1>1. run' \in [Runners -> RunRecord] /\ pull' \in [Pulls -> PullRecord]
    BY EmptyRecords DEF Restarted
  <1>2. PlaceType'
    BY TypeParts DEF Restarted, files, PlaceType
  <1> QED
    BY <1>1, <1>2, TypeParts, KeptType DEF Restarted

\* What a crash does to Jira: the comments on their way may have been made.
LEMMA CrashShape ==
    ASSUME TypeOK, Crash, \A y \in Runners : run[y].pc = "posting" => EventIn(run[y].now) \in Events
    PROVE  /\ TypeOK' /\ CountsType'
           /\ \E acted \in SUBSET {run[x].now : x \in {y \in Runners : run[y].pc = "posting"}} :
                 /\ \A e \in Events : comments'[e] = IF \E f \in acted : EventIn(f) = e
                                                    THEN comments[e] + 1 ELSE comments[e]
                 /\ \A e \in Events : e \in offered \/ (\E f \in acted : EventIn(f) = e) => e \in offered'
  <1>1. CountsType'
    BY TypeParts, FaultType DEF Crash, Restarted
  <1>2. PICK acted \in SUBSET {run[x].now : x \in {y \in Runners : run[y].pc = "posting"}} :
          /\ comments' = [e \in Events |-> comments[e] + IF e \in {EventIn(f) : f \in acted} THEN 1 ELSE 0]
          /\ offered' = offered \cup {EventIn(f) : f \in acted}
    BY DEF Crash
  <1>3. comments \in [Events -> Nat] /\ offered \subseteq Events
    BY TypeParts
  <1>4. \A e \in Events : comments'[e] = IF \E f \in acted : EventIn(f) = e
                                        THEN comments[e] + 1 ELSE comments[e]
    BY <1>2, <1>3
  <1>5. comments' \in [Events -> Nat] /\ offered' \subseteq Events
    BY <1>2, <1>3
  <1>6. TypeOK'
    BY <1>1, <1>5, RestartType, TypeParts DEF Crash, disk
  <1>7. \A e \in Events : e \in offered \/ (\E f \in acted : EventIn(f) = e) => e \in offered'
    BY <1>2
  <1> QED
    BY <1>1, <1>4, <1>6, <1>7
-----------------------------------------------------------------------------
(* The books: what a ledger vouches for, and what it costs when it cannot.  *)

\* File f's news were put to Jira, for one of the events of o, or shown by a dry run.
HandledBy(f, o, shown) == Actionable(f) => EventIn(f) \in o \/ MessageOf[f] \in shown

\* File f may be put away: it was handled, or taken for an email without a line.
SafeToDrop(f, o, shown) == HandledBy(f, o, shown) \/ f \in emptied

\* The keys of K are right: c counts the comments.
VouchedBy(K, c, o, shown) ==
    /\ \A e \in Events \cap K : c[e] > 0 /\ e \in o
    /\ \A f \in Files : MessageOf[f] \in K => HandledBy(f, o, shown)

\* An event that is not among the keys K has cost a fault for every comment it has.
PaidBy(K, c, n) == \A e \in Events \ K : c[e] <= n

\* File f may be taken for seen when it was a library file of a run with ledger K.
SettledBy(f, K, o, shown) ==
    f \in LibraryFiles \ emptied =>
        HandledBy(f, o, shown) /\ (EventIn(f) = Garbled \/ MessageOf[f] \in K)

Spent == crashes + lostAnswers + failedWrites

\* A run under way holds the guard, knows what the disk knows, and has settled the files
\* it has dealt with.
RunKept(x) ==
    run[x].pc # "idle" =>
        /\ isRunInProgress
        /\ ledger \subseteq run[x].ledger
        /\ run[x].todo \subseteq run[x].files
        /\ run[x].blank \subseteq emptied
        /\ x \in Pulls => run[x].files \subseteq LibraryFiles
        /\ run[x].pc = "posting" => run[x].now \in run[x].todo /\ ToBePosted(x, run[x].now)
        /\ VouchedBy(run[x].ledger, comments, offered, rehearsed)
        /\ PaidBy(run[x].ledger, comments, Spent)
        /\ \A f \in run[x].files \ run[x].todo : SettledBy(f, run[x].ledger, offered, rehearsed)

OneRun == \A x, y \in Runners : run[x].pc # "idle" /\ run[y].pc # "idle" => x = y

DiskKept ==
    /\ VouchedBy(ledger, comments, offered, rehearsed)
    /\ isRunInProgress \/ PaidBy(ledger, comments, Spent)
    /\ PostedOnce
    /\ SeenIsLedgered
    /\ \A f \in seen : SafeToDrop(f, offered, rehearsed)
    /\ \A f \in Files : place[f] \in {"processed", "recycled"} => SafeToDrop(f, offered, rehearsed)

\* What a pull clears away it may, even when the list of seen names is lost meanwhile.
PullKept(x) ==
    /\ pull[x].blank \subseteq emptied
    /\ pull[x].pc = "clearing" => \A f \in pull[x].names : SafeToDrop(f, offered, rehearsed)

Books ==
    /\ TypeOK /\ OneRun /\ DiskKept
    /\ \A x \in Runners : RunKept(x)
    /\ \A x \in Pulls : PullKept(x)

\* Comments, offered and rehearsals only grow, and what they vouch for stays.
Grows(c, o, shown, c2, o2, shown2) ==
    /\ c \in [Events -> Nat] /\ c2 \in [Events -> Nat]
    /\ \A e \in Events : c[e] <= c2[e]
    /\ o \subseteq o2 /\ shown \subseteq shown2

LEMMA HandledStays ==
    ASSUME NEW c, NEW o, NEW shown, NEW c2, NEW o2, NEW shown2, Grows(c, o, shown, c2, o2, shown2),
           NEW f, HandledBy(f, o, shown)
    PROVE  HandledBy(f, o2, shown2)
  BY DEF Grows, HandledBy, Actionable

LEMMA VouchedStays ==
    ASSUME NEW c, NEW o, NEW shown, NEW c2, NEW o2, NEW shown2, Grows(c, o, shown, c2, o2, shown2),
           NEW K, VouchedBy(K, c, o, shown)
    PROVE  VouchedBy(K, c2, o2, shown2)
  BY HandledStays DEF Grows, VouchedBy

\* A run deals with file f: whatever came of it, the books stay in order when the run's
\* ledger is vouched for and paid, and the file is settled.
LEMMA DealtKeepsBooks ==
    ASSUME Books, TypeOK', NEW x \in Runners, run[x].pc # "idle", NEW f \in run[x].todo,
           NEW keys \in SUBSET Keys, Dealt(x, f, keys),
           UNCHANGED <<disk, mode, isRunInProgress, pull, emptied, crashes, failedWrites>>,
           lostAnswers <= lostAnswers',
           Grows(comments, offered, rehearsed, comments', offered', rehearsed'),
           VouchedBy(run[x].ledger \cup keys, comments', offered', rehearsed'),
           PaidBy(run[x].ledger \cup keys, comments', Spent'),
           SettledBy(f, run[x].ledger \cup keys, offered', rehearsed'),
           PostedOnce',
           \A g \in Files : g # f => place'[g] = place[g],
           place'[f] = place[f] \/ place'[f] = "errors" \/ SafeToDrop(f, offered', rehearsed')
    PROVE  Books'
  <1>1. /\ f \in Files /\ RunKept(x) /\ run[x].ledger \subseteq Keys
        /\ \A y \in Runners : run[y] \in RunRecord
    BY TypeParts DEF Books, RunRecord
  <1>2. /\ \A y \in Runners \ {x} : run'[y] = run[y]
        /\ run'[x].pc = "sweeping" /\ run'[x].todo = run[x].todo \ {f}
        /\ run'[x].files = run[x].files /\ run'[x].ledger = run[x].ledger \cup keys
        /\ run'[x].blank = run[x].blank
    BY <1>1, DealtShape DEF Books
  <1>3. \A y \in Runners \ {x} : run'[y].pc = "idle"
    BY <1>2 DEF Books, OneRun
  <1>4. \A g : HandledBy(g, offered, rehearsed) => HandledBy(g, offered', rehearsed')
    BY HandledStays
  <1>5. /\ ledger' = ledger /\ seen' = seen /\ isRunInProgress' = isRunInProgress /\ pull' = pull
        /\ emptied' = emptied
    BY DEF disk
  <1>a. \A g : SafeToDrop(g, offered, rehearsed) => SafeToDrop(g, offered, rehearsed)'
    BY <1>4, <1>5 DEF SafeToDrop
  <1>6. RunKept(x)'
    <2>1. isRunInProgress /\ ledger \subseteq run[x].ledger /\ run[x].todo \subseteq run[x].files
          /\ (x \in Pulls => run[x].files \subseteq LibraryFiles) /\ run[x].blank \subseteq emptied
      BY <1>1 DEF RunKept
    <2>2. \A g \in run[x].files \ run[x].todo : SettledBy(g, run[x].ledger, offered, rehearsed)
      BY <1>1 DEF RunKept
    <2>3. \A g \in run'[x].files \ run'[x].todo : SettledBy(g, run[x].ledger, offered, rehearsed)'
      BY <1>2, <1>4, <1>5, <2>2 DEF SettledBy
    <2>4. isRunInProgress' /\ ledger' \subseteq run'[x].ledger /\ run'[x].todo \subseteq run'[x].files
          /\ (x \in Pulls => run'[x].files \subseteq LibraryFiles) /\ run'[x].blank \subseteq emptied'
      BY <1>2, <1>5, <2>1
    <2>5. /\ VouchedBy(run'[x].ledger, comments', offered', rehearsed')
          /\ PaidBy(run'[x].ledger, comments', Spent')
      BY <1>2
    <2> QED
      BY <1>2, <2>3, <2>4, <2>5 DEF RunKept
  <1>7. DiskKept'
    <2>1. VouchedBy(ledger', comments', offered', rehearsed')
      BY <1>5, VouchedStays DEF Books, DiskKept
    <2>2. isRunInProgress'
      BY <1>1, <1>5 DEF RunKept
    <2>3. SeenIsLedgered'
      BY <1>5 DEF Books, DiskKept, SeenIsLedgered
    <2>4. \A g \in seen' : SafeToDrop(g, offered, rehearsed)'
      BY <1>a, <1>5 DEF Books, DiskKept
    <2>5. ASSUME NEW g \in Files, place'[g] \in {"processed", "recycled"}
          PROVE  SafeToDrop(g, offered, rehearsed)'
      <3>1. place[g] \in {"processed", "recycled"} => SafeToDrop(g, offered, rehearsed)'
        BY <1>a DEF Books, DiskKept
      <3>2. CASE g # f
        BY <2>5, <3>1, <3>2
      <3>3. CASE g = f
        BY <2>5, <3>1, <3>3 DEF SafeToDrop
      <3> QED
        BY <3>2, <3>3
    <2> QED
      BY <2>1, <2>2, <2>3, <2>4, <2>5 DEF DiskKept
  <1>8. \A y \in Pulls : PullKept(y)'
    BY <1>a, <1>5 DEF Books, PullKept
  <1>9. OneRun' /\ (\A y \in Runners : RunKept(y)')
    BY <1>3, <1>6 DEF OneRun, RunKept
  <1> QED
    BY <1>7, <1>8, <1>9 DEF Books

\* An email's own key may be added once the email is handled.
LEMMA AddMessage ==
    ASSUME NEW K, NEW c, NEW o, NEW shown, NEW f \in Files,
           VouchedBy(K, c, o, shown), HandledBy(f, o, shown)
    PROVE  VouchedBy(K \cup {MessageOf[f]}, c, o, shown)
  <1>1. MessageOf[f] \notin Events
    BY EmailsAssumption
  <1>2. \A g \in Files : MessageOf[g] = MessageOf[f] => HandledBy(g, o, shown)
    BY DEF HandledBy, Actionable, EventIn
  <1> QED
    BY <1>1, <1>2 DEF VouchedBy

\* The key of the email without a line says nothing of any news.
LEMMA AddBlank ==
    ASSUME NEW K, NEW c, NEW o, NEW shown, VouchedBy(K, c, o, shown)
    PROVE  VouchedBy(K \cup {BlankEmail}, c, o, shown)
  <1>1. BlankEmail \notin Events
    BY EmailsAssumption
  <1>2. \A g \in Files : MessageOf[g] = BlankEmail => HandledBy(g, o, shown)
    BY EmailsAssumption DEF HandledBy, Actionable, EventIn
  <1> QED
    BY <1>1, <1>2 DEF VouchedBy

\* What the ledger of a run says about a file's keys.
LEMMA KnownIsHandled ==
    ASSUME NEW K, NEW c, NEW o, NEW shown, NEW f \in Files, VouchedBy(K, c, o, shown)
    PROVE  /\ MessageOf[f] \in K => HandledBy(f, o, shown)
           /\ EventIn(f) \in K => HandledBy(f, o, shown)
           /\ ~Actionable(f) => HandledBy(f, o, shown)
           /\ EventIn(f) = Garbled => HandledBy(f, o, shown)
  BY EmailsAssumption DEF VouchedBy, HandledBy, Actionable

LEMMA ProcessKeepsBooks ==
    ASSUME Books, NEW x \in Runners, ProcessFile(x)
    PROVE  Books'
  <1>1. PICK f \in run[x].todo :
          \/ ReadFails(x, f) \/ ParseFails(x, f) \/ SkipDuplicateEmail(x, f)
          \/ SkipForGood(x, f) \/ Rehearse(x, f) \/ BeginPost(x, f)
    BY DEF ProcessFile
  <1> DEFINE K == run[x].ledger
  <1>2. /\ f \in Files /\ run[x].pc = "sweeping" /\ RunKept(x) /\ OneRun /\ DiskKept
        /\ run \in [Runners -> RunRecord] /\ PlaceType /\ CountsType
        /\ comments \in [Events -> Nat] /\ offered \subseteq Events
    BY TypeParts DEF RunRecord, Books, ProcessFile
  <1>3. VouchedBy(K, comments, offered, rehearsed) /\ PaidBy(K, comments, Spent)
    BY <1>2 DEF RunKept
  <1>4. TypeOK'
    BY ProcessType DEF Books
  <1>5. UNCHANGED <<disk, mode, isRunInProgress, pull, comments, offered, emptied>>
    BY DEF ProcessFile, jira
  <1>b. /\ run[x].blank \subseteq emptied /\ run[x].blank \subseteq LibraryFiles
        /\ f \in run[x].blank => f \in emptied /\ f \notin FolderFiles
    BY <1>2, FilesAssumption DEF RunKept, RunRecord
  <1>6. CASE BeginPost(x, f)
    <2>1. /\ run' = [run EXCEPT ![x] = [run[x] EXCEPT !.pc = "posting", !.now = f]]
          /\ UNCHANGED <<place, rehearsed, crashes, lostAnswers, failedWrites>>
      BY <1>2, <1>6 DEF BeginPost, files, bounds
    <2>2. /\ \A y \in Runners \ {x} : run'[y] = run[y]
          /\ run'[x].pc = "posting" /\ run'[x].now = f /\ run'[x].todo = run[x].todo
          /\ run'[x].files = run[x].files /\ run'[x].ledger = K /\ run'[x].blank = run[x].blank
      BY <1>2, <2>1 DEF RunRecord
    <2>3. ledger' = ledger /\ seen' = seen /\ isRunInProgress' = isRunInProgress /\ pull' = pull
          /\ comments' = comments /\ offered' = offered /\ emptied' = emptied
      BY <1>5 DEF disk
    <2>4. ToBePosted(x, f)'
      BY <1>6, <2>2 DEF BeginPost, ToBePosted, Fresh, Parsed, HasNews, ParsedAs, ReadAs
    <2>5. Spent' = Spent
      BY <2>1 DEF Spent
    <2>6. RunKept(x)'
      BY <1>2, <2>1, <2>2, <2>3, <2>4, <2>5 DEF RunKept, SettledBy
    <2>7. DiskKept'
      BY <1>2, <2>1, <2>3, <2>5 DEF DiskKept, PostedOnce, SeenIsLedgered, SafeToDrop
    <2>8. \A y \in Runners \ {x} : run'[y].pc = "idle"
      BY <1>2, <2>2 DEF OneRun
    <2>9. OneRun' /\ (\A y \in Runners : RunKept(y)') /\ (\A y \in Pulls : PullKept(y)')
      BY <2>1, <2>3, <2>6, <2>8 DEF Books, OneRun, RunKept, PullKept, SafeToDrop
    <2> QED
      BY <1>4, <2>7, <2>9 DEF Books
  <1>7. ASSUME NEW keys \in {{}, {ReadAs(x, f)}}, Dealt(x, f, keys),
               rehearsed \subseteq rehearsed',
               \/ f \in run[x].blank
               \/ HandledBy(f, offered, rehearsed')
               \/ f \in FolderFiles /\ keys = {} /\ UNCHANGED place,
               f \in FolderFiles \/ f \in emptied \/ EventIn(f) = Garbled \/ MessageOf[f] \in K \cup keys,
               \/ UNCHANGED place /\ (Hiccup \/ UNCHANGED bounds)
               \/ safeMove(f, "errors") \/ safeMove(f, "processed")
        PROVE  Books'
    <2>1. /\ UNCHANGED <<crashes, lostAnswers, failedWrites>>
          /\ place' = place \/ (f \in FolderFiles /\ \E to : place' = [place EXCEPT ![f] = to])
      BY <1>2, <1>7, MoveType DEF Hiccup, bounds
    <2>2. Grows(comments, offered, rehearsed, comments', offered', rehearsed')
      BY <1>2, <1>5, <1>7 DEF Grows
    <2>3. VouchedBy(K, comments', offered', rehearsed') /\ offered' = offered /\ comments' = comments
      BY <1>3, <1>5, <2>2, VouchedStays
    <2>4. \/ keys = {} \/ keys = {BlankEmail}
          \/ keys = {MessageOf[f]} /\ HandledBy(f, offered', rehearsed')
      BY <1>2, <1>7, <2>3, ReadShape
    <2>5. VouchedBy(K \cup keys, comments', offered', rehearsed')
      BY <1>2, <2>3, <2>4, AddMessage, AddBlank
    <2>6. Spent' = Spent /\ PostedOnce'
      BY <1>2, <1>5, <2>1 DEF Spent, DiskKept, PostedOnce
    <2>7. PaidBy(K \cup keys, comments', Spent')
      BY <1>3, <2>3, <2>6 DEF PaidBy
    <2>8. SettledBy(f, K \cup keys, offered', rehearsed')
      BY <1>7, <1>b, <2>3, FilesAssumption DEF SettledBy
    <2>9. \A g \in Files : g # f => place'[g] = place[g]
      BY <1>2, <2>1 DEF PlaceType
    <2>10. place'[f] = place[f] \/ place'[f] = "errors" \/ SafeToDrop(f, offered', rehearsed')
      BY <1>7, <1>b, <2>3 DEF SafeToDrop
    <2>11. keys \in SUBSET Keys
      BY <1>2, <1>7, ReadShape
    <2>12. UNCHANGED <<disk, mode, isRunInProgress, pull, emptied, crashes, failedWrites>> /\ lostAnswers <= lostAnswers'
      BY <1>2, <1>5, <2>1 DEF CountsType
    <2>13. run[x].pc # "idle"
      BY <1>2
    <2> QED
      BY <1>4, <1>7, <2>2, <2>5, <2>6, <2>7, <2>8, <2>9, <2>10, <2>11, <2>12, <2>13, DealtKeepsBooks
  <1>c. /\ f \notin run[x].blank => /\ ReadAs(x, f) = MessageOf[f] /\ ParsedAs(x, f) = EventIn(f)
                                    /\ HasNews(x, f) <=> Actionable(f)
        /\ f \in run[x].blank => ~HasNews(x, f) /\ ParsedAs(x, f) # Garbled
    BY <1>2, ReadShape
  <1>8. CASE ReadFails(x, f)
    <2>1. f \in FolderFiles /\ Dealt(x, f, {}) /\ rehearsed' = rehearsed
      BY <1>8 DEF ReadFails
    <2>2. UNCHANGED place /\ (Hiccup \/ UNCHANGED bounds)
      BY <1>8 DEF ReadFails, files
    <2> QED
      BY <1>7, <2>1, <2>2
  <1>9. CASE ParseFails(x, f)
    <2>1. EventIn(f) = Garbled /\ HandledBy(f, offered, rehearsed)
      BY <1>2, <1>3, <1>9, <1>c, KnownIsHandled DEF ParseFails
    <2> QED
      BY <1>7, <1>9, <2>1 DEF ParseFails
  <1>10. CASE SkipDuplicateEmail(x, f)
    <2>1. f \in run[x].blank \/ (MessageOf[f] \in K /\ HandledBy(f, offered, rehearsed))
      BY <1>2, <1>3, <1>10, <1>c, KnownIsHandled DEF SkipDuplicateEmail
    <2> QED
      BY <1>7, <1>10, <1>b, <2>1 DEF SkipDuplicateEmail
  <1>11. CASE SkipForGood(x, f)
    <2>1. f \in run[x].blank \/ (ReadAs(x, f) = MessageOf[f] /\ HandledBy(f, offered, rehearsed))
      BY <1>2, <1>3, <1>11, <1>c, KnownIsHandled DEF SkipForGood
    <2> QED
      BY <1>7, <1>11, <1>b, <2>1 DEF SkipForGood
  <1>12. CASE Rehearse(x, f)
    <2>1. ReadAs(x, f) = MessageOf[f]
      BY <1>12, <1>c DEF Rehearse, ToBePosted
    <2>2. HandledBy(f, offered, rehearsed')
      BY <1>12, <2>1 DEF Rehearse, HandledBy
    <2> QED
      BY <1>7, <1>12, <2>1, <2>2 DEF Rehearse
  <1> QED
    BY <1>1, <1>6, <1>8, <1>9, <1>10, <1>11, <1>12

\* The email a run puts to Jira has news, and is no empty download.
LEMMA PostingShape ==
    ASSUME Books, NEW x \in Runners, run[x].pc = "posting"
    PROVE  /\ run[x].now \in Files /\ Actionable(run[x].now)
           /\ EventIn(run[x].now) \in Events /\ EventIn(run[x].now) \notin run[x].ledger
           /\ EventIn(run[x].now) # Garbled /\ MessageOf[run[x].now] \notin run[x].ledger
  <1>1. run[x] \in RunRecord /\ run[x].now \in run[x].todo /\ ToBePosted(x, run[x].now)
    BY TypeParts DEF Books, RunKept
  <1>2. run[x].now \in Files
    BY <1>1 DEF RunRecord
  <1> QED
    BY <1>1, <1>2, ReadShape DEF ToBePosted, Fresh, Parsed, Actionable

\* Jira's answer costs a fault when it is lost, and claims the event when it is not.
LEMMA AnswerKeepsBooks ==
    ASSUME Books, NEW x \in Runners, PostAnswered(x)
    PROVE  Books'
  <1> DEFINE f == run[x].now
             e == EventIn(f)
             K == run[x].ledger
  <1>1. /\ run[x].pc = "posting" /\ RunKept(x) /\ DiskKept
        /\ PlaceType /\ CountsType
        /\ comments \in [Events -> Nat] /\ offered \subseteq Events /\ run \in [Runners -> RunRecord]
    BY TypeParts DEF Books, PostAnswered
  <1>2. /\ f \in run[x].todo /\ f \in Files /\ Actionable(f) /\ e \in Events /\ e \notin K
        /\ MessageOf[f] \notin K /\ MessageOf[f] \in Keys /\ e \in Keys /\ EventIn(f) # Garbled
        /\ VouchedBy(K, comments, offered, rehearsed) /\ PaidBy(K, comments, Spent)
    BY <1>1, FileKeys, PostingShape DEF RunKept
  <1>3. TypeOK'
    BY <1>2, AnswerType DEF Books
  <1> DEFINE Outcome(isPosted, n) ==
               /\ Dealt(x, f, KeysAfterPost(f, isPosted))
               /\ comments' = [comments EXCEPT ![e] = @ + n]
               /\ isPosted => n = 1
               /\ \/ safeMove(f, "processed") /\ (isPosted \/ n = 0)
                  \/ /\ ~isPosted /\ lostAnswers' = lostAnswers + 1
                     /\ place' = [place EXCEPT ![f] = IF f \in FolderFiles THEN "processed" ELSE @]
                     /\ UNCHANGED <<crashes, failedWrites, hiccups>>
  <1>a. Outcome(TRUE, 1) \/ Outcome(FALSE, 0) \/ Outcome(FALSE, 1)
    BY DEF PostAnswered
  <1> HIDE DEF Outcome
  <1>b. 0 \in 0..1 /\ 1 \in 0..1
    OBVIOUS
  <1>c. PICK isPosted \in BOOLEAN, n \in 0..1 : Outcome(isPosted, n)
    BY <1>a, <1>b, Zenon
  <1>4. /\ Dealt(x, f, KeysAfterPost(f, isPosted))
        /\ comments' = [comments EXCEPT ![e] = @ + n]
        /\ isPosted => n = 1
        /\ \/ safeMove(f, "processed") /\ (isPosted \/ n = 0)
           \/ /\ ~isPosted /\ lostAnswers' = lostAnswers + 1
              /\ place' = [place EXCEPT ![f] = IF f \in FolderFiles THEN "processed" ELSE @]
              /\ UNCHANGED <<crashes, failedWrites, hiccups>>
    BY <1>c DEF Outcome
  <1>5. /\ offered' = offered \cup {e} /\ rehearsed' = rehearsed
        /\ UNCHANGED <<disk, mode, isRunInProgress, pull, emptied>>
    BY DEF PostAnswered
  <1>6. /\ \/ UNCHANGED <<crashes, lostAnswers, failedWrites>> /\ (isPosted \/ n = 0)
           \/ ~isPosted /\ lostAnswers' = lostAnswers + 1 /\ UNCHANGED <<crashes, failedWrites>>
        /\ \A g \in Files : g # f => place'[g] = place[g]
    <2>1. CASE safeMove(f, "processed") /\ (isPosted \/ n = 0)
      BY <1>1, <1>2, <2>1, MoveType DEF PlaceType
    <2>2. CASE /\ ~isPosted /\ lostAnswers' = lostAnswers + 1
               /\ place' = [place EXCEPT ![f] = IF f \in FolderFiles THEN "processed" ELSE @]
               /\ UNCHANGED <<crashes, failedWrites, hiccups>>
      BY <1>1, <2>2 DEF PlaceType
    <2> QED
      BY <1>4, <2>1, <2>2
  <1> DEFINE keys == KeysAfterPost(f, isPosted)
  <1>7. keys = (IF isPosted THEN {MessageOf[f], e} ELSE {MessageOf[f]}) /\ keys \in SUBSET Keys
    BY <1>2 DEF KeysAfterPost
  <1>8. Grows(comments, offered, rehearsed, comments', offered', rehearsed')
    <2>1. comments' \in [Events -> Nat] /\ offered' \subseteq Events
      BY <1>3, TypeParts DEF TypeOK
    <2>2. \A i \in Events : comments[i] <= comments'[i]
      BY <1>1, <1>2, <1>4
    <2> QED
      BY <1>1, <1>5, <2>1, <2>2 DEF Grows
  <1>9. HandledBy(f, offered', rehearsed')
    BY <1>1, <1>2, <1>5 DEF HandledBy
  <1>10. VouchedBy(K \cup keys, comments', offered', rehearsed')
    <2>1. VouchedBy(K \cup {MessageOf[f]}, comments', offered', rehearsed')
      BY <1>2, <1>8, <1>9, VouchedStays, AddMessage
    <2>2. isPosted => comments'[e] > 0 /\ e \in offered'
      BY <1>1, <1>2, <1>4, <1>5
    <2>3. e \notin Messages /\ \A g \in Files : MessageOf[g] \in Messages
      BY <1>2, EmailsAssumption
    <2> HIDE DEF K, e, f
    <2> QED
      BY <1>7, <2>1, <2>2, <2>3 DEF VouchedBy
  <1>11. PaidBy(K \cup keys, comments', Spent') /\ PostedOnce'
    <2>1. /\ Spent \in Nat /\ Spent' \in Nat /\ Spent <= Spent'
          /\ isPosted \/ n = 0 \/ Spent' = Spent + 1
      BY <1>1, <1>6 DEF Spent, CountsType
    <2>2. \A i \in Events : comments'[i] = (IF i = e THEN comments[i] + n ELSE comments[i])
      BY <1>1, <1>2, <1>4
    <2>3. comments[e] <= Spent /\ \A i \in Events : comments[i] <= 1 + Spent
      BY <1>1, <1>2 DEF PaidBy, DiskKept, PostedOnce, Spent, CountsType
    <2> HIDE DEF K, e, f
    <2>4. PaidBy(K \cup keys, comments', Spent')
      BY <1>1, <1>2, <1>4, <1>7, <2>1, <2>2, <2>3 DEF PaidBy
    <2>5. \A i \in Events : comments'[i] <= 1 + Spent'
      BY <1>1, <1>2, <2>1, <2>2, <2>3
    <2> QED
      BY <1>1, <1>6, <2>4, <2>5 DEF PostedOnce, Spent, CountsType
  <1>12. SettledBy(f, K \cup keys, offered', rehearsed')
    BY <1>7, <1>9 DEF SettledBy
  <1>a1. place'[f] = place[f] \/ place'[f] = "errors" \/ SafeToDrop(f, offered', rehearsed')
    BY <1>9 DEF SafeToDrop
  <1>13. /\ UNCHANGED <<disk, mode, isRunInProgress, pull, emptied, crashes, failedWrites>>
         /\ lostAnswers <= lostAnswers' /\ run[x].pc # "idle"
    BY <1>1, <1>5, <1>6 DEF CountsType
  <1> QED
    BY <1>2, <1>3, <1>4, <1>6, <1>7, <1>8, <1>a1, <1>10, <1>11, <1>12, <1>13, DealtKeepsBooks

\* A run begins when no other is under way, with the ledger as it is on disk.
LEMMA BeginKeepsBooks ==
    ASSUME Books, TypeOK', NEW x \in Runners, NEW todo \in SUBSET Files, NEW blank \in SUBSET LibraryFiles,
           GuardFree, Begin(x, todo, blank), blank \subseteq emptied,
           x \in Pulls => todo \subseteq LibraryFiles,
           UNCHANGED <<files, disk, jira, rehearsed, emptied, crashes, lostAnswers, failedWrites>>,
           \A y \in Pulls : /\ pull'[y].blank = pull[y].blank
                            /\ pull'[y].pc = "clearing" => pull'[y] = pull[y]
    PROVE  Books'
  <1>1. \A y \in Runners : run[y].pc = "idle"
    BY DEF Books, RunKept, GuardFree
  <1>2. /\ isRunInProgress' /\ \A y \in Runners \ {x} : run'[y] = run[y]
        /\ run'[x].pc = "sweeping" /\ run'[x].todo = todo
        /\ run'[x].files = todo /\ run'[x].ledger = ledger /\ run'[x].blank = blank
    BY BeginShape DEF Books
  <1>3. UNCHANGED <<place, ledger, seen, comments, offered, rehearsed, emptied>> /\ Spent' = Spent
    BY DEF files, disk, jira, Spent
  <1>4. /\ VouchedBy(ledger, comments, offered, rehearsed) /\ PaidBy(ledger, comments, Spent)
    BY DEF Books, DiskKept, GuardFree
  <1>5. RunKept(x)'
    BY <1>2, <1>3, <1>4 DEF RunKept
  <1>6. DiskKept'
    BY <1>2, <1>3 DEF Books, DiskKept, PostedOnce, SeenIsLedgered, SafeToDrop
  <1>7. \A y \in Pulls : PullKept(y)'
    BY <1>3 DEF Books, PullKept, SafeToDrop
  <1>8. OneRun' /\ (\A y \in Runners : RunKept(y)')
    BY <1>1, <1>2, <1>5 DEF OneRun, RunKept
  <1> QED
    BY <1>6, <1>7, <1>8 DEF Books

\* However run x ends, at its last line or in the middle of its writes: a ledger that has
\* all it learned, or a failed write that is counted, leaves the books in order.
LEMMA EndKeepsBooks ==
    ASSUME Books, TypeOK', NEW x \in Runners, run[x].pc = "sweeping", run[x].todo = {},
           UNCHANGED <<place, comments, offered, rehearsed, emptied, lostAnswers>>,
           \/ ledger' = run[x].ledger /\ failedWrites' = failedWrites /\ crashes' >= crashes
           \/ ledger' \in {ledger, {}} /\ failedWrites' = failedWrites + 1 /\ crashes' = crashes,
           \/ seen' \in {seen, {}}
           \/ x \in Pulls /\ seen' = seen \cup run[x].files,
           \A y \in Runners : run'[y].pc = "idle",
           \A y \in Pulls : PullKept(y)'
    PROVE  Books'
  <1> DEFINE K == run[x].ledger
  <1>1. RunKept(x) /\ DiskKept /\ CountsType /\ CountsType' /\ comments \in [Events -> Nat]
    BY TypeParts DEF Books, CountsType, TypeOK
  <1>2. /\ ledger \subseteq K /\ (x \in Pulls => run[x].files \subseteq LibraryFiles)
        /\ VouchedBy(K, comments, offered, rehearsed) /\ PaidBy(K, comments, Spent)
        /\ \A f \in run[x].files : SettledBy(f, K, offered, rehearsed)
    BY <1>1 DEF RunKept
  <1>3. VouchedBy(ledger, comments, offered, rehearsed)'
    BY <1>1, <1>2 DEF DiskKept, VouchedBy
  <1>4. \A e \in Events : comments[e] <= 1 + Spent
    BY <1>1 DEF DiskKept, PostedOnce, Spent, CountsType
  <1>5. PaidBy(ledger, comments, Spent)' /\ PostedOnce'
    <2>1. Spent \in Nat /\ Spent' \in Nat /\ Spent' = crashes' + lostAnswers' + failedWrites'
      BY <1>1 DEF Spent, CountsType
    <2>2. CASE ledger' = K /\ Spent' >= Spent
      <3>1. \A e \in Events : comments[e] <= 1 + Spent'
        BY <1>1, <1>4, <2>1, <2>2
      <3>2. \A e \in Events \ K : comments[e] <= Spent'
        BY <1>1, <1>2, <2>1, <2>2 DEF PaidBy
      <3>3. PaidBy(ledger, comments, Spent)'
        BY <2>2, <3>2 DEF PaidBy
      <3> QED
        BY <1>1, <2>1, <3>1, <3>3 DEF PostedOnce, CountsType
    <2>3. CASE Spent' = Spent + 1
      <3>1. \A e \in Events : comments[e] <= Spent' /\ comments[e] <= 1 + Spent'
        BY <1>1, <1>4, <2>1, <2>3
      <3> QED
        BY <1>1, <2>1, <3>1 DEF PaidBy, PostedOnce, CountsType
    <2>4. /\ crashes \in Nat /\ lostAnswers \in Nat /\ failedWrites \in Nat
          /\ crashes' \in Nat /\ lostAnswers' = lostAnswers /\ failedWrites' \in Nat
      BY <1>1 DEF CountsType
    <2>5. failedWrites' = failedWrites /\ crashes' >= crashes => Spent' >= Spent
      BY <2>4 DEF Spent
    <2>6. failedWrites' = failedWrites + 1 /\ crashes' = crashes => Spent' = Spent + 1
      BY <2>4 DEF Spent
    <2> QED
      BY <2>2, <2>3, <2>5, <2>6
  <1>6. SeenIsLedgered'
    <2> SUFFICES ASSUME failedWrites' = 0, NEW f \in seen'
                 PROVE  EventIn(f) = Garbled \/ f \in emptied \/ MessageOf[f] \in ledger'
      BY DEF SeenIsLedgered, EventIn
    <2>1. ledger' = K /\ failedWrites = 0
      BY <1>1 DEF CountsType
    <2>2. CASE f \in seen
      BY <1>1, <1>2, <2>1, <2>2 DEF DiskKept, SeenIsLedgered
    <2>3. CASE f \notin seen
      <3>1. f \in run[x].files /\ f \in LibraryFiles
        BY <1>2, <2>3
      <3> QED
        BY <1>2, <2>1, <3>1 DEF SettledBy
    <2> QED
      BY <2>2, <2>3
  <1>7. \A f \in seen' : SafeToDrop(f, offered, rehearsed)
    <2> SUFFICES ASSUME NEW f \in seen' PROVE SafeToDrop(f, offered, rehearsed)
      OBVIOUS
    <2>1. CASE f \in seen
      BY <1>1, <2>1 DEF DiskKept
    <2>2. CASE f \notin seen
      BY <1>2, <2>2 DEF SettledBy, SafeToDrop
    <2> QED
      BY <2>1, <2>2
  <1>8. \A f \in Files : place'[f] \in {"processed", "recycled"} => SafeToDrop(f, offered, rehearsed)
    BY <1>1 DEF DiskKept
  <1>9. DiskKept'
    BY <1>3, <1>5, <1>6, <1>7, <1>8 DEF DiskKept, SafeToDrop
  <1>10. OneRun' /\ \A y \in Runners : RunKept(y)'
    BY DEF OneRun, RunKept
  <1> QED
    BY <1>9, <1>10 DEF Books

LEMMA FinishKeepsBooks ==
    ASSUME Books, NEW x \in Runners, FinishRun(x)
    PROVE  Books'
  <1>1. /\ run[x].pc = "sweeping" /\ run[x].todo = {} /\ RunKept(x) /\ CountsType
        /\ run \in [Runners -> RunRecord] /\ pull \in [Pulls -> PullRecord]
    BY TypeParts DEF Books, FinishRun
  <1>2. TypeOK'
    BY <1>1, FinishType DEF Books, RunKept
  <1>3. \/ ledger' = run[x].ledger /\ UNCHANGED <<crashes, lostAnswers, failedWrites>>
        \/ ledger' \in {ledger, {}} /\ failedWrites' = failedWrites + 1 /\ UNCHANGED <<crashes, lostAnswers>>
    BY DEF FinishRun, SaveLedger, SpoilLedger, bounds, Hiccup
  <1>4. \/ seen' \in {seen, {}}
        \/ x \in Pulls /\ seen' = seen \cup run[x].files
    BY DEF FinishRun, SaveSeen, SpoilSeen
  <1>5. UNCHANGED <<place, comments, offered, rehearsed, emptied>>
    BY DEF FinishRun, files, jira
  <1>6. /\ run'[x].pc = "idle" /\ \A y \in Runners \ {x} : run'[y] = run[y]
    BY <1>1 DEF FinishRun, NoRun
  <1>7. \A y \in Runners : run'[y].pc = "idle"
    BY <1>1, <1>6 DEF Books, OneRun
  <1>8. \A y \in Pulls : PullKept(y)'
    <2>1. CASE x \in Pulls
      <3> DEFINE p == [pull[x] EXCEPT !.pc = IF @ = "running" THEN "ingesting" ELSE @]
      <3>1. pull' = [pull EXCEPT ![x] = p]
        BY <1>1, <2>1 DEF FinishRun
      <3>2. /\ p.names = pull[x].names /\ p.blank = pull[x].blank
            /\ p.pc = "clearing" => pull[x].pc = "clearing"
        BY <1>1, <2>1 DEF PullRecord
      <3> HIDE DEF p
      <3> QED
        BY <1>1, <1>5, <2>1, <3>1, <3>2 DEF Books, PullKept, SafeToDrop
    <2>2. CASE x \notin Pulls
      BY <1>5, <2>2 DEF FinishRun, Books, PullKept, SafeToDrop
    <2> QED
      BY <2>1, <2>2
  <1> QED
    BY <1>1, <1>2, <1>3, <1>4, <1>5, <1>7, <1>8, EndKeepsBooks DEF CountsType

\* The process dies in the middle of a run's writes.
LEMMA CrashInWriteKeepsBooks ==
    ASSUME Books, NEW x \in Runners, CrashInWrite(x)
    PROVE  Books'
  <1>1. /\ run[x].pc = "sweeping" /\ run[x].todo = {} /\ CountsType
        /\ run[x].ledger \subseteq Keys /\ seen \subseteq LibraryFiles
        /\ comments \in [Events -> Nat] /\ offered \subseteq Events
    BY TypeParts DEF Books, CrashInWrite, RunRecord
  <1>2. \/ ledger' = run[x].ledger /\ failedWrites' = failedWrites /\ crashes' = crashes + 1
        \/ ledger' = {} /\ failedWrites' = failedWrites + 1 /\ crashes' = crashes
    BY DEF CrashInWrite, SaveLedger
  <1>3. seen' \in {seen, {}}
    BY DEF CrashInWrite, SpoilSeen
  <1>4. UNCHANGED <<place, comments, offered, rehearsed, emptied, lostAnswers, hiccups>>
    BY DEF CrashInWrite, Restarted, files, jira
  <1>5. CountsType'
    BY <1>1, <1>2, <1>4, FaultType DEF CrashInWrite
  <1>6. TypeOK'
    BY <1>1, <1>2, <1>3, <1>4, <1>5, RestartType DEF Books, CrashInWrite
  <1>7. (\A y \in Runners : run'[y].pc = "idle") /\ \A y \in Pulls : pull'[y] = NoPull
    BY DEF CrashInWrite, Restarted, NoRun
  <1>8. \A y \in Pulls : PullKept(y)'
    BY <1>7 DEF PullKept, NoPull
  <1>9. crashes + 1 >= crashes
    BY <1>1 DEF CountsType
  <1> QED
    BY <1>1, <1>2, <1>3, <1>4, <1>6, <1>7, <1>8, <1>9, EndKeepsBooks

\* A pull touches the ledgers through its runs only, and recycles what is seen.
LEMMA PullKeepsBooks ==
    ASSUME Books, NEW x \in Pulls,
           StartPull(x) \/ Download(x) \/ DownloadFails(x) \/ BatchRefused(x) \/ FinishPull(x)
             \/ Recycle(x) \/ CloseTab(x)
    PROVE  Books'
  <1>1. TypeOK'
    BY PullType DEF Books
  <1>2. /\ DiskKept /\ PullKept(x) /\ pull \in [Pulls -> PullRecord] /\ PlaceType /\ CountsType
        /\ seen \subseteq LibraryFiles
    BY TypeParts DEF Books
  <1>3. UNCHANGED <<ledger, seen, isRunInProgress, run, comments, offered, rehearsed>> /\ emptied \subseteq emptied'
    BY DEF StartPull, Download, DownloadFails, BatchRefused, FinishPull, Recycle, CloseTab, disk, jira
  <1>4. UNCHANGED <<crashes, lostAnswers, failedWrites>>
    BY DownloadShape DEF StartPull, DownloadFails, BatchRefused, FinishPull, Recycle, CloseTab, bounds, Hiccup
  <1>5. Spent' = Spent
    BY <1>4 DEF Spent
  <1>6. \A y \in Pulls \ {x} : pull'[y] = pull[y]
    BY <1>2, DownloadShape DEF StartPull, DownloadFails, BatchRefused, FinishPull, Recycle, CloseTab
  <1>a. \A f : SafeToDrop(f, offered, rehearsed) => SafeToDrop(f, offered, rehearsed)'
    BY <1>3 DEF SafeToDrop
  <1>b. pull[x] \in PullRecord
    BY <1>2
  <1>7. PullKept(x)'
    <2>1. CASE pull' = [pull EXCEPT ![x] = NoPull]
      BY <1>2, <2>1 DEF PullKept, NoPull
    <2>2. CASE StartPull(x)
      <3>1. pull'[x].pc = "collecting" /\ pull'[x].blank = {}
        BY <1>2, <2>2 DEF StartPull, NoPull
      <3> QED
        BY <3>1 DEF PullKept
    <2>3. CASE Download(x)
      <3>1. PICK f \in pull[x].names :
              \E blank \in {pull[x].blank, pull[x].blank \cup {f}},
                 c \in {"collecting", "ingesting"}, left \in {{}, pull[x].got \cup {f}} :
              /\ pull' = [pull EXCEPT ![x] = [pc |-> c, names |-> pull[x].names \ {f},
                            got |-> pull[x].got \cup {f}, blank |-> blank, left |-> left]]
              /\ emptied' = emptied \cup blank
        BY <2>3, DownloadShape
      <3>2. \E blank : /\ emptied' = emptied \cup blank /\ pull'[x].blank = blank
                        /\ pull'[x].pc # "clearing"
        BY <1>2, <3>1
      <3> QED
        BY <3>2 DEF PullKept
    <2>4. CASE BatchRefused(x) /\ x \in ServerPulls
      <3>1. pull'[x].pc = "ingesting" /\ pull'[x].blank = pull[x].blank
        BY <1>2, <1>b, <2>4 DEF BatchRefused, PullRecord
      <3> QED
        BY <1>2, <1>3, <3>1 DEF PullKept
    <2>5. CASE pull' = [pull EXCEPT ![x] = [NoPull EXCEPT !.pc = "clearing", !.names = Confirmed(x)]]
      <3>1. pull'[x].names = Confirmed(x) /\ pull'[x].blank = {}
        BY <1>2, <2>5 DEF NoPull
      <3>2. \A f \in Confirmed(x) : SafeToDrop(f, offered, rehearsed)'
        BY <1>2, <1>a DEF Confirmed, DiskKept
      <3> QED
        BY <3>1, <3>2 DEF PullKept
    <2>6. CASE Recycle(x)
      <3>1. PICK f \in pull[x].names :
               pull' = [pull EXCEPT ![x] = IF pull[x].names = {f} THEN NoPull
                                            ELSE [pull[x] EXCEPT !.names = pull[x].names \ {f}]]
        BY <2>6 DEF Recycle
      <3>2. /\ pull'[x].pc = "clearing" => pull'[x].names \subseteq pull[x].names
            /\ pull'[x].blank \subseteq pull[x].blank
        BY <1>2, <3>1 DEF PullRecord, NoPull
      <3> QED
        BY <1>2, <1>3, <1>a, <2>6, <3>2 DEF PullKept, Recycle
    <2> QED
      BY <2>1, <2>2, <2>3, <2>4, <2>5, <2>6 DEF DownloadFails, BatchRefused, FinishPull, CloseTab
  <1>8. \A f \in Files : place'[f] \in {"processed", "recycled"} => SafeToDrop(f, offered, rehearsed)
    <2>1. CASE UNCHANGED place
      BY <1>2, <2>1 DEF DiskKept
    <2>2. CASE Recycle(x)
      <3>1. PICK g \in pull[x].names : place' = [place EXCEPT ![g] = "recycled"] \/ UNCHANGED place
        BY <2>2 DEF Recycle
      <3>2. SafeToDrop(g, offered, rehearsed)
        BY <1>2, <2>2 DEF PullKept, Recycle
      <3> QED
        BY <1>2, <3>1, <3>2 DEF DiskKept, PlaceType
    <2> QED
      BY <2>1, <2>2 DEF StartPull, Download, DownloadFails, BatchRefused, FinishPull, CloseTab, files
  <1>9. DiskKept'
    <2>1. /\ VouchedBy(ledger, comments, offered, rehearsed)'
          /\ (isRunInProgress \/ PaidBy(ledger, comments, Spent))'
          /\ PostedOnce' /\ SeenIsLedgered'
      BY <1>2, <1>3, <1>4, <1>5 DEF DiskKept, PostedOnce, SeenIsLedgered
    <2>2. /\ \A f \in seen' : SafeToDrop(f, offered, rehearsed)'
          /\ \A f \in Files : place'[f] \in {"processed", "recycled"} => SafeToDrop(f, offered, rehearsed)'
      BY <1>2, <1>3, <1>8, <1>a DEF DiskKept
    <2> QED
      BY <2>1, <2>2 DEF DiskKept
  <1>10. \A y \in Pulls : PullKept(y)'
    BY <1>3, <1>6, <1>7, <1>a DEF Books, PullKept
  <1>11. OneRun'
    BY <1>3 DEF Books, OneRun
  <1>12. ASSUME NEW y \in Runners PROVE RunKept(y)'
    <2>1. RunKept(y) /\ run'[y] = run[y]
      BY <1>3 DEF Books
    <2>2. \A f : ToBePosted(y, f) => ToBePosted(y, f)'
      BY <1>3 DEF ToBePosted, Fresh, Parsed, HasNews, ParsedAs, ReadAs
    <2>3. \A f, K : SettledBy(f, K, offered, rehearsed) => SettledBy(f, K, offered, rehearsed)'
      BY <1>3 DEF SettledBy
    <2> QED
      BY <1>3, <1>5, <2>1, <2>2, <2>3 DEF RunKept
  <1> QED
    BY <1>1, <1>9, <1>10, <1>11, <1>12 DEF Books

\* Runs start with the books in order.
LEMMA StartKeepsBooks ==
    ASSUME Books, (\E x \in Sweeps : StartSweep(x)) \/ (\E x \in Pulls : IngestBatch(x))
    PROVE  Books'
  <1>1. TypeOK'
    BY OtherType DEF Books
  <1>2. pull \in [Pulls -> PullRecord]
    BY TypeParts DEF Books
  <1>3. ASSUME NEW x \in Sweeps, StartSweep(x) PROVE Books'
    <2> DEFINE todo == {f \in FolderFiles : place[f] = "inbox"}
    <2>1. todo \in SUBSET Files /\ Begin(x, todo, {}) /\ GuardFree /\ {} \subseteq emptied
      BY <1>3 DEF StartSweep, Files
    <2>2. x \in Runners /\ x \notin Pulls
      BY RunnersAssumption DEF Runners
    <2>3. UNCHANGED <<files, disk, jira, rehearsed, emptied, crashes, lostAnswers, failedWrites>> /\ UNCHANGED pull
      BY <1>3 DEF StartSweep, bounds
    <2> HIDE DEF todo
    <2> QED
      BY <1>1, <2>1, <2>2, <2>3, BeginKeepsBooks
  <1>4. ASSUME NEW x \in Pulls, IngestBatch(x) PROVE Books'
    <2>1. PICK batch \in SUBSET pull[x].left :
             /\ Begin(x, batch, pull[x].blank \cap batch)
             /\ pull' = [pull EXCEPT ![x].pc = "running", ![x].left = @ \ batch]
      BY <1>4 DEF IngestBatch
    <2>2. x \in Runners /\ batch \subseteq LibraryFiles /\ batch \in SUBSET Files /\ GuardFree
      BY <1>2, <1>4 DEF IngestBatch, Runners, PullRecord, Files
    <2>5. pull[x].blank \cap batch \in SUBSET LibraryFiles /\ pull[x].blank \cap batch \subseteq emptied
      BY <2>2 DEF Books, PullKept
    <2>3. \A y \in Pulls : /\ pull'[y].blank = pull[y].blank
                           /\ pull'[y].pc = "clearing" => pull'[y] = pull[y]
      <3> DEFINE p == [pull[x] EXCEPT !.pc = "running", !.left = @ \ batch]
      <3>1. pull' = [pull EXCEPT ![x] = p]
        BY <1>2, <2>1
      <3>2. p.pc = "running" /\ p.blank = pull[x].blank
        BY <1>2 DEF PullRecord
      <3> HIDE DEF p
      <3> QED
        BY <1>2, <3>1, <3>2
    <2>4. UNCHANGED <<files, disk, jira, rehearsed, emptied, crashes, lostAnswers, failedWrites>>
      BY <1>4 DEF IngestBatch, bounds
    <2> QED
      BY <1>1, <2>1, <2>2, <2>3, <2>4, <2>5, BeginKeepsBooks
  <1> QED
    BY <1>3, <1>4

\* Emails arrive and the mode is set without touching the books.
LEMMA SurroundingsKeepBooks ==
    ASSUME Books, (\E f \in Files : Arrive(f)) \/ (\E m \in Modes : SetMode(m)) \/ UNCHANGED vars
    PROVE  Books'
  <1>1. TypeOK' /\ PlaceType
    BY OtherType, TypeParts DEF Books
  <1>2. UNCHANGED <<ledger, seen, isRunInProgress, run, pull, comments, offered, rehearsed, emptied,
                    crashes, lostAnswers, failedWrites>>
    BY DEF Arrive, SetMode, vars, disk, jira, bounds
  <1>3. Spent' = Spent
    BY <1>2 DEF Spent
  <1>4. \A f \in Files : place'[f] \in {"processed", "recycled"} => SafeToDrop(f, offered, rehearsed)
    BY <1>1 DEF Books, DiskKept, Arrive, SetMode, vars, files, PlaceType
  <1>5. DiskKept'
    BY <1>2, <1>3, <1>4 DEF Books, DiskKept, PostedOnce, SeenIsLedgered, SafeToDrop
  <1>6. OneRun' /\ (\A y \in Runners : RunKept(y)') /\ (\A y \in Pulls : PullKept(y)')
    BY <1>2, <1>3 DEF Books, OneRun, RunKept, ToBePosted, Fresh, Parsed, HasNews, ParsedAs, ReadAs,
                      SettledBy, PullKept, SafeToDrop
  <1> QED
    BY <1>1, <1>5, <1>6 DEF Books

\* A crash forgets the run under way; the comment it may leave unrecorded is the one the
\* crash pays for.
LEMMA CrashKeepsBooks ==
    ASSUME Books, Crash
    PROVE  Books'
  <1>a. \A y \in Runners : run[y].pc = "posting" => EventIn(run[y].now) \in Events
    BY PostingShape
  <1>1. /\ TypeOK' /\ PlaceType /\ CountsType /\ CountsType' /\ DiskKept
        /\ comments \in [Events -> Nat] /\ comments' \in [Events -> Nat]
    <2>1. TypeOK' /\ CountsType'
      BY <1>a, CrashShape DEF Books
    <2>2. comments' \in [Events -> Nat]
      BY <2>1 DEF TypeOK
    <2> QED
      BY <2>1, <2>2, TypeParts DEF Books
  <1>2. /\ UNCHANGED <<place, ledger, seen, rehearsed, emptied, failedWrites>>
        /\ \A y \in Runners : run'[y].pc = "idle"
        /\ \A y \in Pulls : pull'[y] = NoPull
    BY DEF Crash, Restarted, files, disk, NoRun
  <1>3. Spent' = Spent + 1 /\ Spent \in Nat
    BY <1>1 DEF Crash, Restarted, Spent, CountsType
  <1>4. PICK acted \in SUBSET {run[x].now : x \in {y \in Runners : run[y].pc = "posting"}} :
           /\ \A e \in Events : comments'[e] = IF \E f \in acted : EventIn(f) = e
                                              THEN comments[e] + 1 ELSE comments[e]
           /\ \A e \in Events : e \in offered \/ (\E f \in acted : EventIn(f) = e) => e \in offered'
    BY <1>a, CrashShape DEF Books
  <1>b. offered \subseteq offered'
    BY DEF Crash
  <1>5. \A e \in Events : comments'[e] <= Spent'
    <2> SUFFICES ASSUME NEW e \in Events PROVE comments'[e] <= Spent'
      OBVIOUS
    <2>1. CASE \E f \in acted : EventIn(f) = e
      <3>1. PICK y \in Runners : run[y].pc = "posting" /\ EventIn(run[y].now) = e
        BY <1>4, <2>1
      <3>2. e \notin run[y].ledger /\ PaidBy(run[y].ledger, comments, Spent)
        BY <3>1, PostingShape DEF Books, RunKept
      <3>3. comments[e] <= Spent
        BY <3>2 DEF PaidBy
      <3> QED
        BY <1>1, <1>3, <1>4, <2>1, <3>3
    <2>2. CASE ~\E f \in acted : EventIn(f) = e
      <3>1. comments[e] <= 1 + Spent
        BY <1>1 DEF DiskKept, PostedOnce, Spent, CountsType
      <3> QED
        BY <1>1, <1>3, <1>4, <2>2, <3>1
    <2> QED
      BY <2>1, <2>2
  <1>6. Grows(comments, offered, rehearsed, comments', offered', rehearsed')
    BY <1>1, <1>2, <1>4, <1>b DEF Grows
  <1>7. VouchedBy(ledger, comments, offered, rehearsed)'
    BY <1>1, <1>2, <1>6, VouchedStays DEF DiskKept
  <1>8. \A f : HandledBy(f, offered, rehearsed) => HandledBy(f, offered', rehearsed')
    BY <1>6, HandledStays
  <1>9. PaidBy(ledger, comments, Spent)' /\ PostedOnce'
    <2>1. PaidBy(ledger, comments, Spent)'
      BY <1>5 DEF PaidBy
    <2>2. Spent' = crashes' + lostAnswers' + failedWrites' /\ Spent' \in Nat
      BY <1>3 DEF Spent
    <2>3. \A e \in Events : comments'[e] <= 1 + Spent'
      BY <1>1, <1>5, <2>2
    <2> QED
      BY <1>1, <2>1, <2>2, <2>3 DEF PostedOnce, CountsType
  <1>10. DiskKept'
    BY <1>1, <1>2, <1>7, <1>8, <1>9 DEF DiskKept, SeenIsLedgered, SafeToDrop
  <1>11. OneRun' /\ (\A y \in Runners : RunKept(y)') /\ (\A y \in Pulls : PullKept(y)')
    BY <1>2 DEF OneRun, RunKept, PullKept, NoPull
  <1> QED
    BY <1>1, <1>10, <1>11 DEF Books

LEMMA InitBooks ==
    ASSUME Init
    PROVE  Books
  <1>1. TypeOK
    <2>1. PlaceType /\ CountsType
      BY BoundsAssumption DEF Init, PlaceType, CountsType, Files
    <2> QED
      BY <2>1, TypeParts, EmptyRecords DEF Init
  <1>2. DiskKept
    BY DEF Init, DiskKept, VouchedBy, PaidBy, PostedOnce, SeenIsLedgered, Spent
  <1>3. OneRun /\ (\A x \in Runners : RunKept(x)) /\ (\A x \in Pulls : PullKept(x))
    BY DEF Init, OneRun, RunKept, PullKept, NoRun, NoPull
  <1> QED
    BY <1>1, <1>2, <1>3 DEF Books

LEMMA NextKeepsBooks ==
    ASSUME Books, [Next]_vars
    PROVE  Books'
  <1>1. CASE \E x \in Runners : RunStep(x)
    BY <1>1, ProcessKeepsBooks, AnswerKeepsBooks, FinishKeepsBooks DEF RunStep
  <1>2. CASE \E x \in Pulls : StartPull(x) \/ PullStep(x)
    BY <1>2, PullKeepsBooks, StartKeepsBooks DEF PullStep
  <1>3. CASE \E x \in TabPulls : CloseTab(x)
    BY <1>3, PullKeepsBooks DEF Pulls
  <1>4. CASE Crash \/ \E x \in Runners : CrashInWrite(x)
    BY <1>4, CrashKeepsBooks, CrashInWriteKeepsBooks
  <1> QED
    BY <1>1, <1>2, <1>3, <1>4, StartKeepsBooks, SurroundingsKeepBooks DEF Next

LEMMA BooksInOrder == Spec => []Books
  <1>1. Init => Books
    BY InitBooks
  <1>2. Books /\ [Next]_vars => Books'
    BY NextKeepsBooks
  <1> QED
    BY <1>1, <1>2, PTL DEF Spec
-----------------------------------------------------------------------------
(* What follows from the books.                                            *)

\* Every handler of the intake keeps its state well formed, and no more faults are
\* counted than may happen.
THEOREM TypeCorrect == Spec => []TypeOK
  <1>1. Books => TypeOK
    BY DEF Books
  <1> QED
    BY <1>1, BooksInOrder, PTL

\* Jira is driven once for an event, however sweeps and pulls overlap; each further
\* comment takes a crash, a lost answer or a lost ledger of its own.
THEOREM CommentedOnce == Spec => []PostedOnce
  <1>1. Books => PostedOnce
    BY DEF Books, DiskKept
  <1> QED
    BY <1>1, BooksInOrder, PTL

\* An event key on disk, which silences every later email about the event, stands for a
\* comment Jira carries.
THEOREM ClaimsAreBacked == Spec => []ClaimsAreTrue
  <1>1. Books => ClaimsAreTrue
    BY DEF Books, DiskKept, VouchedBy, ClaimsAreTrue
  <1> QED
    BY <1>1, BooksInOrder, PTL

\* Unless a ledger was lost to a failed or torn write, a name that is never downloaded
\* again belongs to an email on the ledger, to one that could not be parsed, or to a file
\* one of whose downloads came back without text.
THEOREM SeenNamesAreLedgered == Spec => []SeenIsLedgered
  <1>1. Books => SeenIsLedgered
    BY DEF Books, DiskKept
  <1> QED
    BY <1>1, BooksInOrder, PTL

\* No email with news is filed or recycled before its event was put to Jira or shown by
\* a dry run, whatever crashes, refuses, overlaps or is torn, unless one of its downloads
\* came back without text.
THEOREM NothingLost == Spec => []NothingVanishes
  <1>1. Books => NothingVanishes
    BY DEF Books, DiskKept, SafeToDrop, HandledBy, NothingVanishes
  <1> QED
    BY <1>1, BooksInOrder, PTL
=============================================================================

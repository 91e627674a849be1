-------------------------- MODULE SprintReleaseProofs --------------------------
(***************************************************************************)
(* Proofs about SprintRelease, for any number of cycles, issues, versions, *)
(* edits and troubles.                                                     *)
(***************************************************************************)
EXTENDS SprintRelease, FiniteSetTheorems, TLAPS

-----------------------------------------------------------------------------
(* Types, and what a cycle works on in each of its scans.                  *)

CycleRecord(t) == [pc : Pcs, item : Item \cup {None}, todo : SUBSET Item, stamp : 0..t, day : Nat]

Fits(c) ==
    /\ c.pc = "detecting" => c.todo \subseteq Event
    /\ c.pc \in {"closing", "commenting", "recording"} =>
          c.item \in Event /\ c.todo \subseteq Event /\ c.item \notin c.todo
    /\ c.pc \in {"finding", "moving"} => c.item \in Move /\ c.todo \subseteq Move
    /\ c.pc = "moving" => c.item.version \in Sprints
    /\ c.pc \in {"creating", "linking", "unlabelling"} =>
          c.item \in Intakes /\ c.todo \subseteq Intakes /\ c.item \notin c.todo
    /\ c.pc = "flagging" => c.item \in NotReady /\ c.todo \subseteq NotReady /\ c.item \notin c.todo

CyclesFit(cy, t) == cy \in [Cycles -> CycleRecord(t)] /\ \A n \in Cycles : Fits(cy[n])

WellFormed == TypeOK /\ CyclesFit(cycle, now)

Working == {"closing", "commenting", "recording", "finding", "moving", "creating", "linking", "unlabelling",
            "flagging"}

LEMMA AtFacts ==
    ASSUME NEW pc \in Pcs \ Working,
           NEW day \in Nat, now \in Nat
    PROVE  At(pc, day) \in CycleRecord(now) /\ Fits(At(pc, day)) /\ At(pc, day).pc = pc
  BY DEF At, CycleRecord, Fits, Pcs, Working

LEMMA TodayType == now \in 0..Horizon => Today \in Nat
  BY TimeAssumption DEF Today

\* What a step makes of cycle n when it goes on with another item, or with the next scan.
LEMMA NextItemFacts ==
    ASSUME NEW n \in Cycles, cycle \in [Cycles -> CycleRecord(now)], now \in Nat,
           NEW pc, NEW todo, NEW over, NextItem(n, pc, todo, over)
    PROVE  \/ todo = {} /\ cycle' = [cycle EXCEPT ![n] = At(over, 0)]
           \/ \E i \in todo, t \in 0..now :
                 /\ cycle' = [cycle EXCEPT ![n] = Taking(pc, i, todo, t, cycle[n].day)]
                 /\ pc = "closing" => t = now
  BY DEF NextItem

LEMMA CycleAfter ==
    ASSUME CyclesFit(cycle, now), NEW n \in Cycles, NEW c \in CycleRecord(now), Fits(c),
           cycle' = [cycle EXCEPT ![n] = c]
    PROVE  CyclesFit(cycle', now)
  BY DEF CyclesFit

\* The scans: where they look for items, what items are, and what comes after them.
Scan(pc, T, over) ==
    \/ pc = "closing" /\ T = Event /\ over = "versions"
    \/ pc = "finding" /\ T = Move /\ over = "intakes"
    \/ pc = "creating" /\ T = Intakes /\ over = "sprint"
    \/ pc = "flagging" /\ T = NotReady /\ over = "idle"

LEMMA NextItemFits ==
    ASSUME CyclesFit(cycle, now), now \in Nat, NEW n \in Cycles,
           NEW pc, NEW T, NEW over, Scan(pc, T, over), NEW todo \in SUBSET T, NextItem(n, pc, todo, over)
    PROVE  CyclesFit(cycle', now)
  <1>1. CASE todo = {} /\ cycle' = [cycle EXCEPT ![n] = At(over, 0)]
    <2>1. over \in Pcs \ Working
      BY DEF Scan, Pcs, Working
    <2> QED
      BY <1>1, <2>1, AtFacts, CycleAfter
  <1>2. ASSUME NEW i \in todo, NEW t \in 0..now,
               cycle' = [cycle EXCEPT ![n] = Taking(pc, i, todo, t, cycle[n].day)]
        PROVE  CyclesFit(cycle', now)
    <2>1. cycle[n].day \in Nat
      BY DEF CyclesFit, CycleRecord
    <2>2. T \subseteq Item /\ pc \in Pcs
      BY DEF Scan, Item, Pcs
    <2>3. Taking(pc, i, todo, t, cycle[n].day) \in CycleRecord(now)
      BY <2>1, <2>2 DEF Taking, CycleRecord
    <2>4. Fits(Taking(pc, i, todo, t, cycle[n].day))
      BY DEF Fits, Taking, Scan
    <2> QED
      BY <1>2, <2>3, <2>4, CycleAfter
  <1> QED
    BY <1>1, <1>2, NextItemFacts DEF CyclesFit

LEMMA NextIntakeFits ==
    ASSUME WellFormed, NEW n \in Cycles, NEW todo \in SUBSET Intakes, NextIntake(n, todo)
    PROVE  CyclesFit(cycle', now)
  <1>1. now \in Nat /\ CyclesFit(cycle, now) /\ Today \in Nat
    BY TodayType DEF WellFormed, TypeOK
  <1>2. CASE todo # {}
    BY <1>1, <1>2, NextItemFits DEF NextIntake, Scan
  <1>3. CASE todo = {} /\ lastDorScanDate = Today
    BY <1>1, <1>3, AtFacts, CycleAfter DEF NextIntake, Idle, Pcs, Working
  <1>4. CASE todo = {} /\ lastDorScanDate # Today
    BY <1>1, <1>4, AtFacts, CycleAfter DEF NextIntake, Pcs, Working
  <1> QED
    BY <1>2, <1>3, <1>4

LEMMA IdleFits ==
    ASSUME WellFormed, NEW n \in Cycles, cycle' = [cycle EXCEPT ![n] = Idle]
    PROVE  CyclesFit(cycle', now)
  <1>1. now \in Nat /\ CyclesFit(cycle, now)
    BY DEF WellFormed, TypeOK
  <1>2. "idle" \in Pcs \ Working
    BY DEF Pcs, Working
  <1>3. Idle \in CycleRecord(now) /\ Fits(Idle)
    BY <1>1, <1>2, AtFacts DEF Idle
  <1> QED
    BY <1>1, <1>3, CycleAfter

LEMMA NextFlagFits ==
    ASSUME WellFormed, NEW n \in Cycles, NEW todo \in SUBSET NotReady, NextFlag(n, todo)
    PROVE  /\ CyclesFit(cycle', now)
           /\ lastDorScanDate' \in Nat \cup {None}
  <1>1. now \in Nat /\ CyclesFit(cycle, now) /\ cycle[n].day \in Nat /\ lastDorScanDate \in Nat \cup {None}
    BY DEF WellFormed, TypeOK, CyclesFit, CycleRecord
  <1>2. CASE todo = {}
    BY <1>1, <1>2, IdleFits DEF NextFlag, dorScanDone
  <1>3. CASE todo # {}
    BY <1>1, <1>3, NextItemFits DEF NextFlag, Scan
  <1> QED
    BY <1>2, <1>3

\* A cycle that waits for the next answer about the same item.
LEMMA ContinueFits ==
    ASSUME WellFormed, NEW n \in Cycles, NEW pc, Continue(n, pc),
           \/ cycle[n].pc = "closing" /\ pc = "commenting"
           \/ cycle[n].pc = "commenting" /\ pc = "recording"
           \/ cycle[n].pc = "finding" /\ pc = "moving" /\ cycle[n].item.version \in Sprints
           \/ cycle[n].pc = "creating" /\ pc = "linking"
           \/ cycle[n].pc = "linking" /\ pc = "unlabelling"
    PROVE  CyclesFit(cycle', now)
  <1> DEFINE c == [cycle[n] EXCEPT !.pc = pc]
  <1>1. cycle[n] \in CycleRecord(now) /\ Fits(cycle[n]) /\ cycle \in [Cycles -> CycleRecord(now)]
    BY DEF WellFormed, CyclesFit
  <1>2. c \in CycleRecord(now)
    BY <1>1 DEF CycleRecord, Pcs
  <1>3. c.pc = pc /\ c.item = cycle[n].item /\ c.todo = cycle[n].todo
    BY <1>1 DEF CycleRecord
  <1>4. Fits(c)
    BY <1>1, <1>3 DEF Fits
  <1>5. cycle' = [cycle EXCEPT ![n] = c]
    BY <1>1 DEF Continue
  <1> HIDE DEF c
  <1> QED
    BY <1>2, <1>4, <1>5, CycleAfter DEF WellFormed

\* TypeOK, but for the cycles.
JiraType ==
    /\ sub \in [DevIssues -> [value : Kinds \cup {"other"}, at : Nat]]
    /\ updated \in [DevIssues \cup Intakes -> 0..Horizon] /\ unseen \subseteq DevIssues
    /\ labelled \subseteq Intakes
    /\ release \in [Versions -> Dates \cup {None}] /\ sprintEnd \in [Sprints -> Dates]

MemoryType ==
    /\ lastHandoff \in [DevIssues -> [Kinds -> 0..now]]
    /\ lastSeen \in [Versions -> Dates \cup {None}]
    /\ processed \subseteq Intakes
    /\ lastDorScanDate \in Nat \cup {None}
    /\ activeSprintName \in ActiveSprints \cup {None}

ToldType ==
    /\ comments \in [DevIssues -> Nat] /\ announced \subseteq DevIssues
    /\ defects \in [Intakes -> Nat] /\ flags \in [NotReady -> Nat] /\ noticed \subseteq Versions

TimeType ==
    /\ now \in 0..Horizon /\ due \in Nat /\ call \subseteq NotReady
    /\ searched \in 0..now /\ gapped \in BOOLEAN

BoundsType ==
    /\ edits \in Nat /\ misses \in Nat /\ lost \in Nat /\ overlaps \in Nat /\ midnights \in Nat
    /\ asked \in Nat /\ restarts \in Nat

DataType == JiraType /\ MemoryType /\ ToldType /\ TimeType /\ BoundsType

LEMMA Parts == WellFormed <=> DataType /\ CyclesFit(cycle, now)
  BY DEF WellFormed, TypeOK, DataType, JiraType, MemoryType, ToldType, TimeType, BoundsType,
         CyclesFit, CycleRecord

LEMMA PartsAfter ==
    JiraType' /\ MemoryType' /\ ToldType' /\ TimeType' /\ BoundsType' /\ CyclesFit(cycle', now') => WellFormed'
  BY DEF WellFormed, TypeOK, JiraType, MemoryType, ToldType, TimeType, BoundsType,
         CyclesFit, CycleRecord

LEMMA PartsStay ==
    ASSUME WellFormed
    PROVE  /\ UNCHANGED jira => JiraType'
           /\ UNCHANGED <<now, memory>> => MemoryType'
           /\ UNCHANGED told => ToldType'
           /\ UNCHANGED <<now, due, call, search>> => TimeType'
           /\ UNCHANGED bounds => BoundsType'
  BY Parts DEF DataType, JiraType, MemoryType, ToldType, TimeType, BoundsType,
               jira, memory, told, search, bounds

LEMMA NowType == WellFormed => now \in 0..Horizon /\ now \in Nat /\ Horizon \in Nat /\ CyclesFit(cycle, now)
  BY TimeAssumption DEF WellFormed, TypeOK

LEMMA UpdateType ==
    ASSUME WellFormed, NEW S, Update(S)
    PROVE  updated' \in [DevIssues \cup Intakes -> 0..Horizon] /\ unseen' \subseteq DevIssues
  <1>1. now \in 0..Horizon /\ updated \in [DevIssues \cup Intakes -> 0..Horizon] /\ unseen \subseteq DevIssues
    BY DEF WellFormed, TypeOK
  <1> QED
    BY <1>1 DEF Update

\* The latest sub-status change of issue i.
Latest(i) == [issue |-> i, kind |-> sub[i].value, at |-> sub[i].at]

\* What the searches find is what the scans work on.
LEMMA FoundType ==
    ASSUME WellFormed
    PROVE  /\ \A i \in DevIssues : sub[i].value \in Kinds => Latest(i) \in Event
           /\ detectFixVersionDateChange \in SUBSET Move
           /\ \A window : detectDefectIntakeLabels(window) \in SUBSET Intakes
  <1>1. \A i \in DevIssues : sub[i].value \in Kinds => Latest(i) \in Event
    BY DEF WellFormed, TypeOK, Latest, Event
  <1>2. detectFixVersionDateChange \in SUBSET Move
    BY DEF WellFormed, TypeOK, detectFixVersionDateChange, Changed, Move
  <1>3. \A window : detectDefectIntakeLabels(window) \in SUBSET Intakes
    BY DEF WellFormed, TypeOK, detectDefectIntakeLabels
  <1> QED
    BY <1>1, <1>2, <1>3

\* What is left of a scan is of its kind.
LEMMA LeftType ==
    ASSUME WellFormed, NEW n \in Cycles
    PROVE  /\ cycle[n].pc = "detecting" => cycle[n].todo \in SUBSET Event
           /\ cycle[n].pc \in {"closing", "commenting", "recording"} =>
                 /\ cycle[n].item \in Event /\ cycle[n].todo \in SUBSET Event
                 /\ cycle[n].item.issue \in DevIssues /\ cycle[n].item.kind \in Kinds
           /\ cycle[n].pc \in {"finding", "moving"} =>
                 /\ cycle[n].item \in Move /\ cycle[n].todo \in SUBSET Move
                 /\ cycle[n].item.version \in Versions /\ cycle[n].item.date \in Dates
           /\ cycle[n].pc \in {"creating", "linking", "unlabelling"} =>
                 cycle[n].item \in Intakes /\ cycle[n].todo \in SUBSET Intakes
           /\ cycle[n].pc = "flagging" => cycle[n].item \in NotReady /\ cycle[n].todo \in SUBSET NotReady
           /\ cycle[n].stamp \in 0..now /\ cycle[n].day \in Nat
  BY DEF WellFormed, CyclesFit, CycleRecord, Fits, Event, Move

\* What every step of a cycle leaves alone.
LEMMA StepLeaves ==
    ASSUME WellFormed, NEW n \in Cycles, CycleStep(n), misses' \in Nat, lost' \in Nat
    PROVE  BoundsType' /\ now' = now /\ (UNCHANGED search => TimeType')
  BY Parts, PartsStay DEF CycleStep, DataType, BoundsType

LEMMA MissesType ==
    ASSUME WellFormed
    PROVE  misses \in Nat /\ lost \in Nat /\ (Miss => misses' \in Nat) /\ (Fine => misses' \in Nat)
  BY DEF WellFormed, TypeOK, Miss, Fine

LEMMA SearchFits ==
    ASSUME WellFormed, NEW n \in Cycles, CycleStep(n), SearchHandoffs(n)
    PROVE  WellFormed'
  <1>0. now \in Nat /\ CyclesFit(cycle, now) /\ DataType
    BY Parts, NowType
  <1>1. PICK window \in PollWindows :
          /\ cycle' = [cycle EXCEPT ![n] =
                         [At("detecting", 0) EXCEPT
                            !.todo = {Latest(i) : i \in {j \in {k \in DevIssues : InWindow(k, window)} :
                                                           sub[j].value \in Kinds}}]]
          /\ unseen' = unseen \ {k \in DevIssues : InWindow(k, window)}
          /\ gapped' = (gapped \/ searched + window < now)
    BY DEF SearchHandoffs, Latest
  <1> DEFINE S == {Latest(i) : i \in {j \in {k \in DevIssues : InWindow(k, window)} : sub[j].value \in Kinds}}
             c == [At("detecting", 0) EXCEPT !.todo = S]
  <1>2. S \in SUBSET Event
    BY FoundType
  <1> HIDE DEF S
  <1>3. c \in CycleRecord(now) /\ Fits(c)
    BY <1>0, <1>2 DEF At, CycleRecord, Fits, Pcs, Item
  <1>4. cycle' = [cycle EXCEPT ![n] = c]
    BY <1>1 DEF S
  <1> HIDE DEF c
  <1>5. CyclesFit(cycle', now)
    BY <1>0, <1>3, <1>4, CycleAfter
  <1>6. now' = now /\ due' = due /\ call' = call /\ searched' = now
    BY DEF CycleStep, SearchHandoffs
  <1>7. TimeType'
    BY <1>0, <1>1, <1>6 DEF DataType, TimeType
  <1>8. JiraType'
    BY <1>0, <1>1 DEF SearchHandoffs, DataType, JiraType
  <1>9. MemoryType' /\ ToldType'
    BY <1>6, PartsStay DEF SearchHandoffs
  <1>10. BoundsType'
    BY MissesType, StepLeaves DEF SearchHandoffs
  <1> QED
    BY <1>5, <1>6, <1>7, <1>8, <1>9, <1>10, PartsAfter

LEMMA HandoffScanFits ==
    ASSUME WellFormed, NEW n \in Cycles, CycleStep(n),
           HandoffsFound(n) \/ Closed(n) \/ Commented(n) \/ Recorded(n)
    PROVE  WellFormed'
  <1>0. now \in Nat /\ CyclesFit(cycle, now) /\ DataType /\ now' = now
    BY Parts, NowType DEF CycleStep
  <1>1. UNCHANGED search
    BY DEF HandoffsFound, Closed, Commented, Recorded
  <1>2. ASSUME NEW todo \in SUBSET Event, NextHandoff(n, todo) PROVE CyclesFit(cycle', now')
    BY <1>0, <1>2, NextItemFits DEF NextHandoff, Scan
  <1>3. ASSUME HandoffsFound(n) PROVE WellFormed'
    <2>1. detectSubStatusChanges(n) \in SUBSET Event
      BY <1>3, LeftType DEF HandoffsFound, detectSubStatusChanges
    <2>2. CyclesFit(cycle', now')
      BY <1>2, <1>3, <2>1 DEF HandoffsFound
    <2>3. misses' \in Nat /\ lost' \in Nat
      BY <1>3, MissesType DEF HandoffsFound
    <2>4. UNCHANGED <<jira, memory, told>>
      BY <1>3 DEF HandoffsFound
    <2> QED
      BY <1>0, <1>1, <2>2, <2>3, <2>4, StepLeaves, PartsStay, PartsAfter
  <1>4. ASSUME Closed(n) PROVE WellFormed'
    <2>0. cycle[n].pc = "closing" /\ UNCHANGED told /\ misses' \in Nat /\ lost' \in Nat
      BY <1>4, MissesType DEF Closed
    <2>1. CyclesFit(cycle', now')
      BY <1>0, <1>2, <1>4, <2>0, LeftType, ContinueFits DEF Closed
    <2>2. JiraType'
      BY <1>0, <1>4, <2>0, UpdateType DEF Closed, DataType, JiraType
    <2>3. lastHandoff' \in [DevIssues -> [Kinds -> 0..now]]
      BY <1>0, <1>4, <2>0, LeftType DEF Closed, DataType, MemoryType
    <2>4. MemoryType'
      BY <1>0, <1>4, <2>3 DEF Closed, DataType, MemoryType
    <2> QED
      BY <1>1, <2>0, <2>1, <2>2, <2>4, StepLeaves, PartsStay, PartsAfter
  <1>5. ASSUME Commented(n) PROVE WellFormed'
    <2>0. cycle[n].pc = "commenting" /\ UNCHANGED memory /\ misses' \in Nat /\ lost' \in Nat
      BY <1>5, MissesType DEF Commented
    <2>1. CyclesFit(cycle', now')
      BY <1>0, <1>5, <2>0, ContinueFits DEF Commented
    <2>2. JiraType'
      BY <1>0, <1>5, <2>0, UpdateType DEF Commented, DataType, JiraType
    <2>3. ToldType'
      BY <1>0, <1>5, <2>0, LeftType DEF Commented, DataType, ToldType
    <2> QED
      BY <1>0, <1>1, <2>0, <2>1, <2>2, <2>3, StepLeaves, PartsStay, PartsAfter
  <1>6. ASSUME Recorded(n) PROVE WellFormed'
    <2>0. cycle[n].pc = "recording" /\ UNCHANGED <<jira, told>> /\ misses' \in Nat /\ lost' \in Nat
      BY <1>6, MissesType DEF Recorded
    <2>1. CyclesFit(cycle', now')
      BY <1>2, <1>6, <2>0, LeftType DEF Recorded
    <2>2. lastHandoff' \in [DevIssues -> [Kinds -> 0..now]]
      BY <1>0, <1>6, <2>0, LeftType DEF Recorded, recordHandoff, DataType, MemoryType
    <2>3. MemoryType'
      BY <1>0, <1>6, <2>2 DEF Recorded, DataType, MemoryType
    <2> QED
      BY <1>1, <2>0, <2>1, <2>3, StepLeaves, PartsStay, PartsAfter
  <1> QED
    BY <1>3, <1>4, <1>5, <1>6

LEMMA VersionScanFits ==
    ASSUME WellFormed, NEW n \in Cycles, CycleStep(n),
           VersionsFound(n) \/ SprintFound(n) \/ SprintMoved(n)
    PROVE  WellFormed'
  <1>0. now \in Nat /\ CyclesFit(cycle, now) /\ DataType /\ now' = now
    BY Parts, NowType DEF CycleStep
  <1>1. UNCHANGED search
    BY DEF VersionsFound, SprintFound, SprintMoved
  <1>2. ASSUME NEW todo \in SUBSET Move, NextMove(n, todo) PROVE CyclesFit(cycle', now')
    BY <1>0, <1>2, NextItemFits DEF NextMove, Scan
  <1>3. ASSUME VersionsFound(n) PROVE WellFormed'
    <2>0. UNCHANGED jira /\ misses' \in Nat /\ lost' \in Nat
      BY <1>3, MissesType DEF VersionsFound
    <2>1. CyclesFit(cycle', now')
      BY <1>2, <1>3, FoundType DEF VersionsFound
    <2>2. lastSeen' \in [Versions -> Dates \cup {None}]
      BY <1>0, <1>3 DEF VersionsFound, noteDates, DataType, JiraType, MemoryType
    <2>3. MemoryType'
      BY <1>0, <1>3, <2>2 DEF VersionsFound, DataType, MemoryType
    <2>4. noticed' \subseteq Versions
      BY <1>0, <1>3, FoundType DEF VersionsFound, DataType, ToldType, Move
    <2>5. ToldType'
      BY <1>0, <1>3, <2>4 DEF VersionsFound, DataType, ToldType
    <2> QED
      BY <1>1, <2>0, <2>1, <2>3, <2>5, StepLeaves, PartsStay, PartsAfter
  <1>4. ASSUME SprintFound(n) PROVE WellFormed'
    <2>0. cycle[n].pc = "finding" /\ UNCHANGED <<jira, told>> /\ misses' \in Nat /\ lost' \in Nat
      BY <1>4, MissesType DEF SprintFound, Fine
    <2>1. CyclesFit(cycle', now')
      BY <1>0, <1>2, <1>4, <2>0, LeftType, ContinueFits DEF SprintFound
    <2>2. activeSprintName' \in ActiveSprints \cup {None}
      BY <1>0, <1>4 DEF SprintFound, DataType, MemoryType
    <2>3. MemoryType'
      BY <1>0, <1>4, <2>2 DEF SprintFound, DataType, MemoryType
    <2> QED
      BY <1>1, <2>0, <2>1, <2>3, StepLeaves, PartsStay, PartsAfter
  <1>5. ASSUME SprintMoved(n) PROVE WellFormed'
    <2>0. cycle[n].pc = "moving" /\ UNCHANGED <<memory, told>> /\ misses' \in Nat /\ lost' \in Nat
      BY <1>5, MissesType DEF SprintMoved
    <2>1. CyclesFit(cycle', now')
      BY <1>2, <1>5, <2>0, LeftType DEF SprintMoved
    <2>2. sprintEnd' \in [Sprints -> Dates]
      BY <1>0, <1>5, <2>0, LeftType DEF SprintMoved, DataType, JiraType
    <2>3. JiraType'
      BY <1>0, <1>5, <2>2 DEF SprintMoved, DataType, JiraType
    <2> QED
      BY <1>0, <1>1, <2>0, <2>1, <2>3, StepLeaves, PartsStay, PartsAfter
  <1> QED
    BY <1>3, <1>4, <1>5

LEMMA IntakeScanFits ==
    ASSUME WellFormed, NEW n \in Cycles, CycleStep(n),
           IntakesFound(n) \/ DefectCreated(n) \/ Linked(n) \/ Unlabelled(n)
    PROVE  WellFormed'
  <1>0. now \in Nat /\ CyclesFit(cycle, now) /\ DataType /\ now' = now
    BY Parts, NowType DEF CycleStep
  <1>1. UNCHANGED search
    BY DEF IntakesFound, DefectCreated, Linked, Unlabelled
  <1>3. ASSUME IntakesFound(n) PROVE WellFormed'
    <2>0. UNCHANGED <<jira, memory, told>> /\ misses' \in Nat /\ lost' \in Nat
      BY <1>3, MissesType DEF IntakesFound
    <2>1. CyclesFit(cycle', now')
      BY <1>0, <1>3, FoundType, NextIntakeFits DEF IntakesFound
    <2> QED
      BY <1>0, <1>1, <2>0, <2>1, StepLeaves, PartsStay, PartsAfter
  <1>4. ASSUME DefectCreated(n) PROVE WellFormed'
    <2>0. cycle[n].pc = "creating" /\ UNCHANGED <<jira, memory>> /\ misses' \in Nat /\ lost' \in Nat
      BY <1>4, MissesType DEF DefectCreated
    <2>1. {} \in SUBSET Intakes /\ cycle[n].item \in Intakes /\ cycle[n].todo \in SUBSET Intakes
      BY <2>0, LeftType
    <2>2. CyclesFit(cycle', now')
      BY <1>0, <1>4, <2>0, <2>1, NextIntakeFits, ContinueFits DEF DefectCreated, NotCreated
    <2>3. ToldType'
      BY <1>0, <1>4, <2>1 DEF DefectCreated, DataType, ToldType
    <2> QED
      BY <1>0, <1>1, <2>0, <2>2, <2>3, StepLeaves, PartsStay, PartsAfter
  <1>5. ASSUME Linked(n) PROVE WellFormed'
    <2>0. cycle[n].pc = "linking" /\ UNCHANGED <<memory, told>> /\ misses' \in Nat /\ lost' \in Nat
      BY <1>5, MissesType DEF Linked
    <2>1. CyclesFit(cycle', now')
      BY <1>0, <1>5, <2>0, ContinueFits DEF Linked
    <2>2. JiraType'
      BY <1>0, <1>5, UpdateType DEF Linked, DataType, JiraType
    <2> QED
      BY <1>0, <1>1, <2>0, <2>1, <2>2, StepLeaves, PartsStay, PartsAfter
  <1>6. ASSUME Unlabelled(n) PROVE WellFormed'
    <2>0. cycle[n].pc = "unlabelling" /\ UNCHANGED told /\ misses' \in Nat /\ lost' \in Nat
      BY <1>6, MissesType DEF Unlabelled
    <2>1. CyclesFit(cycle', now')
      BY <1>0, <1>6, <2>0, LeftType, NextIntakeFits DEF Unlabelled
    <2>2. JiraType'
      BY <1>0, <1>6, UpdateType DEF Unlabelled, DataType, JiraType
    <2>3. MemoryType'
      BY <1>0, <1>6, <2>0, LeftType DEF Unlabelled, DataType, MemoryType
    <2> QED
      BY <1>1, <2>0, <2>1, <2>2, <2>3, StepLeaves, PartsStay, PartsAfter
  <1> QED
    BY <1>3, <1>4, <1>5, <1>6

LEMMA FlagType ==
    ASSUME WellFormed, NEW i, Flag(i)
    PROVE  flags' \in [NotReady -> Nat] /\ misses' \in Nat
  <1>1. flags \in [NotReady -> Nat]
    BY DEF WellFormed, TypeOK
  <1> QED
    BY <1>1, MissesType DEF Flag

LEMMA ReadyScanFits ==
    ASSUME WellFormed, NEW n \in Cycles, CycleStep(n), SprintRead(n) \/ Flagged(n)
    PROVE  WellFormed'
  <1>0. now \in Nat /\ CyclesFit(cycle, now) /\ DataType /\ now' = now
    BY Parts, NowType DEF CycleStep
  <1>1. UNCHANGED <<jira, search>>
    BY DEF SprintRead, Flagged
  <1>3. ASSUME SprintRead(n) PROVE WellFormed'
    <2>0. UNCHANGED told /\ misses' \in Nat /\ lost' \in Nat
      BY <1>3, MissesType DEF SprintRead
    <2>1. CyclesFit(cycle', now) /\ lastDorScanDate' \in Nat \cup {None}
      <3>1. NotReady \in SUBSET NotReady
        OBVIOUS
      <3> QED
        BY <1>0, <1>3, <3>1, NextFlagFits, IdleFits DEF SprintRead, ScanGivenUp, DataType, MemoryType
    <2>2. MemoryType'
      BY <1>0, <1>3, <2>1 DEF SprintRead, DataType, MemoryType
    <2> QED
      BY <1>0, <1>1, <2>0, <2>1, <2>2, StepLeaves, PartsStay, PartsAfter
  <1>4. ASSUME Flagged(n) PROVE WellFormed'
    <2>0. cycle[n].pc = "flagging" /\ lost' \in Nat
      BY <1>4, MissesType DEF Flagged
    <2>1. CyclesFit(cycle', now) /\ lastDorScanDate' \in Nat \cup {None}
      BY <1>4, <2>0, LeftType, NextFlagFits DEF Flagged
    <2>2. MemoryType'
      BY <1>0, <1>4, <2>1 DEF Flagged, DataType, MemoryType
    <2>3. ToldType' /\ misses' \in Nat
      BY <1>0, <1>4, FlagType DEF Flagged, DataType, ToldType
    <2> QED
      BY <1>0, <1>1, <2>0, <2>1, <2>2, <2>3, StepLeaves, PartsStay, PartsAfter
  <1> QED
    BY <1>3, <1>4

LEMMA InFlightCount == Cardinality(InFlight) \in Nat /\ IsFiniteSet(InFlight)
  BY TimeAssumption, FS_Subset, FS_CardinalityType DEF InFlight

LEMMA StartFits ==
    ASSUME WellFormed, NEW n \in Cycles, StartCycle(n), due' \in Nat
    PROVE  WellFormed'
  <1>0. now \in Nat /\ CyclesFit(cycle, now) /\ DataType
    BY Parts, NowType
  <1>1. CyclesFit(cycle', now) /\ now' = now
    BY <1>0, AtFacts, CycleAfter DEF StartCycle, Pcs, Working
  <1>2. overlaps' \in Nat
    BY <1>0, InFlightCount DEF StartCycle, DataType, BoundsType
  <1>3. BoundsType'
    BY <1>0, <1>2 DEF StartCycle, DataType, BoundsType
  <1>4. TimeType'
    BY <1>0 DEF StartCycle, search, DataType, TimeType
  <1>5. UNCHANGED <<jira, memory, told>>
    BY DEF StartCycle
  <1> QED
    BY <1>1, <1>3, <1>4, <1>5, PartsStay, PartsAfter

\* The clock moves on under the cycles.
LEMMA ClockFits ==
    ASSUME CyclesFit(cycle, now), now \in Nat
    PROVE  CyclesFit(cycle, now + 1)
  <1>1. 0..now \subseteq 0..(now + 1)
    OBVIOUS
  <1> QED
    BY <1>1 DEF CyclesFit, CycleRecord

Scanning == {n \in Cycles : cycle[n].pc \in {"sprint", "flagging"}}

LEMMA ScanningCount == Cardinality(Scanning) \in Nat /\ IsFiniteSet(Scanning)
  BY TimeAssumption, FS_Subset, FS_CardinalityType DEF Scanning

LEMMA TickTypes ==
    ASSUME WellFormed, Tick
    PROVE  /\ now' = now + 1 /\ now' \in 0..Horizon /\ 0..now \subseteq 0..now'
           /\ flags' \in [NotReady -> Nat] /\ midnights' \in Nat
           /\ CyclesFit(cycle, now')
  <1>0. now \in Nat /\ now \in 0..Horizon /\ Horizon \in Nat /\ CyclesFit(cycle, now) /\ DataType
    BY Parts, NowType
  <1>1. now' = now + 1 /\ now' \in 0..Horizon /\ 0..now \subseteq 0..now'
    BY <1>0 DEF Tick
  <1>2. flags' \in [NotReady -> Nat]
    BY <1>0 DEF Tick, DataType, ToldType
  <1>3. midnights' \in Nat
    BY <1>0, ScanningCount DEF Tick, Scanning, DataType, BoundsType
  <1> QED
    BY <1>0, <1>1, <1>2, <1>3, ClockFits

LEMMA LaterTypes ==
    ASSUME WellFormed, now' \in 0..Horizon, 0..now \subseteq 0..now', UNCHANGED <<memory, call, search>>,
           due' \in Nat
    PROVE  MemoryType' /\ TimeType'
  <1>0. DataType
    BY Parts
  <1>1. MemoryType'
    BY <1>0 DEF memory, DataType, MemoryType
  <1>2. TimeType'
    BY <1>0 DEF search, DataType, TimeType
  <1> QED
    BY <1>1, <1>2

LEMMA SubStatusFits ==
    ASSUME WellFormed, NEW i \in DevIssues, NEW value \in Kinds \cup {"other"}, SetSubStatus(i, value)
    PROVE  WellFormed'
  <1>0. now \in Nat /\ DataType
    BY Parts, NowType
  <1>1. /\ now' = now + 1 /\ now' \in 0..Horizon /\ 0..now \subseteq 0..now' /\ CyclesFit(cycle', now')
        /\ flags' \in [NotReady -> Nat] /\ midnights' \in Nat
    BY TickTypes DEF SetSubStatus
  <1>2. MemoryType' /\ TimeType'
    BY <1>0, <1>1, LaterTypes DEF SetSubStatus, DataType, TimeType
  <1>3. updated' \in [DevIssues \cup Intakes -> 0..Horizon] /\ unseen' \subseteq DevIssues
    BY <1>0, <1>1 DEF SetSubStatus, DataType, JiraType
  <1>4. JiraType'
    <2> DEFINE S == [value : Kinds \cup {"other"}, at : Nat]
    <2>1. [value |-> value, at |-> now + 1] \in S /\ sub \in [DevIssues -> S]
      BY <1>0 DEF DataType, JiraType
    <2> HIDE DEF S
    <2>2. sub' \in [DevIssues -> S]
      BY <2>1 DEF SetSubStatus
    <2> QED
      BY <1>0, <1>3, <2>2 DEF S, SetSubStatus, DataType, JiraType
  <1>5. ToldType'
    BY <1>0, <1>1 DEF SetSubStatus, DataType, ToldType
  <1>6. BoundsType'
    BY <1>0, <1>1 DEF SetSubStatus, Edit, DataType, BoundsType
  <1> QED
    BY <1>1, <1>2, <1>4, <1>5, <1>6, PartsAfter

LEMMA PeopleFit ==
    ASSUME WellFormed,
           \/ \E i \in DevIssues \cup Intakes : Touch(i)
           \/ \E i \in Intakes : Label(i)
           \/ \E v \in Versions, date \in Dates \cup {None} : Reschedule(v, date)
    PROVE  WellFormed'
  <1>0. now \in Nat /\ CyclesFit(cycle, now) /\ DataType
    BY Parts, NowType
  <1>1. UNCHANGED <<now, due, memory, cycle, call, told, search>>
    BY DEF Touch, Label, Reschedule
  <1>2. BoundsType'
    <2>1. /\ edits' = edits + 1
          /\ UNCHANGED <<misses, lost, overlaps, midnights, asked, restarts>>
      BY DEF Touch, Label, Reschedule, Edit
    <2> QED
      BY <1>0, <2>1 DEF DataType, BoundsType
  <1>3. ASSUME NEW i \in DevIssues \cup Intakes, Touch(i) PROVE JiraType'
    BY <1>0, <1>3, UpdateType DEF Touch, DataType, JiraType
  <1>4. ASSUME NEW i \in Intakes, Label(i) PROVE JiraType'
    BY <1>0, <1>4, UpdateType DEF Label, DataType, JiraType
  <1>5. ASSUME NEW v \in Versions, NEW date \in Dates \cup {None}, Reschedule(v, date) PROVE JiraType'
    BY <1>0, <1>5 DEF Reschedule, DataType, JiraType
  <1>6. JiraType'
    BY <1>3, <1>4, <1>5
  <1> QED
    BY <1>0, <1>1, <1>2, <1>6, PartsStay, PartsAfter

LEMMA CallFits ==
    ASSUME WellFormed, AskForViolations \/ AnswerViolation
    PROVE  WellFormed'
  <1>0. now \in Nat /\ CyclesFit(cycle, now) /\ DataType
    BY Parts, NowType
  <1>1. UNCHANGED <<now, due, jira, memory, cycle, search>>
    BY DEF AskForViolations, AnswerViolation
  <1>2. TimeType'
    BY <1>0, <1>1 DEF search, AskForViolations, AnswerViolation, DataType, TimeType
  <1>3. CASE AskForViolations
    <2>1. BoundsType'
      BY <1>0, <1>3 DEF AskForViolations, DataType, BoundsType
    <2>2. UNCHANGED told
      BY <1>3 DEF AskForViolations
    <2> QED
      BY <1>0, <1>1, <1>2, <2>1, <2>2, PartsStay, PartsAfter
  <1>4. CASE AnswerViolation
    <2>1. flags' \in [NotReady -> Nat] /\ misses' \in Nat
      BY <1>4, FlagType DEF AnswerViolation
    <2>2. BoundsType'
      BY <1>0, <1>4, <2>1 DEF AnswerViolation, DataType, BoundsType
    <2>3. ToldType'
      BY <1>0, <1>4, <2>1 DEF AnswerViolation, DataType, ToldType
    <2> QED
      BY <1>0, <1>1, <1>2, <2>2, <2>3, PartsStay, PartsAfter
  <1> QED
    BY <1>3, <1>4

LEMMA AllIdleFits ==
    ASSUME NEW t \in Nat
    PROVE  CyclesFit(AllIdle, t)
  <1>1. Idle \in CycleRecord(t) /\ Fits(Idle)
    BY DEF Idle, At, CycleRecord, Fits, Pcs
  <1> QED
    BY <1>1 DEF AllIdle, CyclesFit

LEMMA EmptyMemoryType ==
    ASSUME NEW t \in Nat
    PROVE  NoHandoff \in [DevIssues -> [Kinds -> 0..t]] /\ NoDate \in [Versions -> Dates \cup {None}]
  BY DEF NoHandoff, NoDate

LEMMA InitWellFormed == Init => WellFormed
  <1> SUFFICES ASSUME Init PROVE WellFormed
    OBVIOUS
  <1>1. CyclesFit(cycle, now)
    BY AllIdleFits DEF Init
  <1>2. MemoryType
    BY EmptyMemoryType DEF Init, MemoryType
  <1>3. JiraType
    BY PartsAssumption, TimeAssumption DEF Init, JiraType
  <1>4. ToldType
    BY DEF Init, ToldType
  <1>5. TimeType
    <2>1. now \in 0..Horizon /\ searched \in 0..now
      BY TimeAssumption DEF Init
    <2>2. due \in Nat /\ call \subseteq NotReady /\ gapped \in BOOLEAN
      BY TimeAssumption DEF Init
    <2> QED
      BY <2>1, <2>2 DEF TimeType
  <1>6. BoundsType
    BY DEF Init, BoundsType
  <1> QED
    BY <1>1, <1>2, <1>3, <1>4, <1>5, <1>6, Parts DEF DataType

LEMMA TimeAndRestartFit ==
    ASSUME WellFormed, TimePasses \/ Restart
    PROVE  WellFormed'
  <1>0. now \in Nat /\ CyclesFit(cycle, now) /\ DataType
    BY Parts, NowType
  <1>1. CASE TimePasses
    <2>1. /\ now' \in 0..Horizon /\ 0..now \subseteq 0..now' /\ CyclesFit(cycle', now')
          /\ flags' \in [NotReady -> Nat] /\ midnights' \in Nat
      BY <1>1, TickTypes DEF TimePasses
    <2>2. MemoryType' /\ TimeType'
      BY <1>0, <1>1, <2>1, LaterTypes DEF TimePasses, DataType, TimeType
    <2>3. ToldType' /\ BoundsType'
      BY <1>0, <1>1, <2>1 DEF TimePasses, DataType, ToldType, BoundsType
    <2>4. UNCHANGED jira
      BY <1>1 DEF TimePasses
    <2> QED
      BY <2>1, <2>2, <2>3, <2>4, PartsStay, PartsAfter
  <1>2. CASE Restart
    <2>1. CyclesFit(cycle', now') /\ UNCHANGED jira
      BY <1>0, <1>2, AllIdleFits DEF Restart
    <2>2. MemoryType'
      BY <1>0, <1>2, EmptyMemoryType DEF Restart, MemoryType
    <2>3. TimeType'
      BY <1>0, <1>2, TimeAssumption DEF Restart, search, DataType, TimeType
    <2>4. ToldType' /\ BoundsType'
      BY <1>0, <1>2 DEF Restart, DataType, ToldType, BoundsType
    <2> QED
      BY <2>1, <2>2, <2>3, <2>4, PartsStay, PartsAfter
  <1> QED
    BY <1>1, <1>2

LEMMA NextWellFormed == WellFormed /\ [Next]_vars => WellFormed'
  <1> SUFFICES ASSUME WellFormed, [Next]_vars PROVE WellFormed'
    OBVIOUS
  <1>1. CASE UNCHANGED vars
    <2>1. CyclesFit(cycle', now')
      BY <1>1, NowType DEF vars
    <2> QED
      BY <1>1, <2>1, PartsStay, PartsAfter DEF vars
  <1>2. CASE Poll \/ RunNow
    <2>1. due \in Nat /\ now + Interval \in Nat
      BY TimeAssumption, NowType DEF WellFormed, TypeOK
    <2> QED
      BY <1>2, <2>1, StartFits DEF Poll, RunNow
  <1>3. ASSUME NEW n \in Cycles, CycleStep(n) PROVE WellFormed'
    BY <1>3, SearchFits, HandoffScanFits, VersionScanFits, IntakeScanFits, ReadyScanFits DEF CycleStep
  <1>4. CASE \E i \in DevIssues, value \in Kinds \cup {"other"} : SetSubStatus(i, value)
    BY <1>4, SubStatusFits
  <1>5. CASE \/ \E i \in DevIssues \cup Intakes : Touch(i)
             \/ \E i \in Intakes : Label(i)
             \/ \E v \in Versions, date \in Dates \cup {None} : Reschedule(v, date)
    BY <1>5, PeopleFit
  <1>6. CASE AskForViolations \/ AnswerViolation
    BY <1>6, CallFits
  <1>7. CASE TimePasses \/ Restart
    BY <1>7, TimeAndRestartFit
  <1> QED
    BY <1>1, <1>2, <1>3, <1>4, <1>5, <1>6, <1>7 DEF Next

\* What Jira holds, what the process remembers and what every cycle works on keep their
\* types, whatever cycles overlap and whatever fails.
THEOREM TypeCorrect == Spec => []TypeOK
  <1>1. WellFormed => TypeOK
    BY DEF WellFormed
  <1> QED
    BY <1>1, InitWellFormed, NextWellFormed, PTL DEF Spec

-----------------------------------------------------------------------------
(* The steps, as far as defect intakes are concerned.                      *)

Early == {"handoffs", "detecting", "closing", "commenting", "recording", "versions", "finding", "moving",
          "intakes"}
Made  == {"linking", "unlabelling"}
Late  == {"idle", "sprint", "flagging"}

\* The items cycle c has on its list.
List(c) == {c.item} \cup c.todo

OthersStay(n) == \A m \in Cycles \ {n} : cycle'[m] = cycle[m]
FaultsStay    == overlaps' = overlaps /\ restarts' = restarts /\ lost' = lost

\* Cycle n goes on, with no defect created and no intake processed.
GoesAlong(n) ==
    /\ OthersStay(n) /\ FaultsStay /\ processed' = processed /\ defects' = defects
    /\ cycle[n].pc \notin {"idle"} \cup Made
    /\ \/ cycle[n].pc \in Early /\ cycle'[n].pc \in Early
       \/ cycle'[n].pc \in Late
       \/ cycle[n].pc = "intakes" /\ cycle'[n].pc = "creating" /\ List(cycle'[n]) \cap processed = {}
       \/ cycle[n].pc = "creating" /\ cycle'[n].pc = "creating" /\ List(cycle'[n]) \subseteq cycle[n].todo

Creates(n) ==
    /\ OthersStay(n) /\ FaultsStay /\ processed' = processed
    /\ cycle[n].pc = "creating" /\ cycle'[n].pc = "linking"
    /\ cycle'[n].item = cycle[n].item /\ cycle'[n].todo = cycle[n].todo
    /\ defects' = [defects EXCEPT ![cycle[n].item] = @ + 1]

\* The defect exists, and its name is lost.
Loses(n) ==
    /\ OthersStay(n) /\ processed' = processed
    /\ overlaps' = overlaps /\ restarts' = restarts /\ lost' = lost + 1
    /\ cycle[n].pc = "creating"
    /\ \/ cycle'[n].pc \in Late
       \/ cycle'[n].pc = "creating" /\ List(cycle'[n]) \subseteq cycle[n].todo
    /\ defects' = [defects EXCEPT ![cycle[n].item] = @ + 1]

Links(n) ==
    /\ OthersStay(n) /\ FaultsStay /\ processed' = processed /\ defects' = defects
    /\ cycle[n].pc = "linking" /\ cycle'[n].pc = "unlabelling"
    /\ cycle'[n].item = cycle[n].item /\ cycle'[n].todo = cycle[n].todo

Processes(n) ==
    /\ OthersStay(n) /\ FaultsStay /\ defects' = defects
    /\ processed' = processed \cup {cycle[n].item}
    /\ cycle[n].pc = "unlabelling"
    /\ \/ cycle'[n].pc \in Late
       \/ cycle'[n].pc = "creating" /\ List(cycle'[n]) \subseteq cycle[n].todo

Starts(n) ==
    /\ OthersStay(n) /\ processed' = processed /\ defects' = defects
    /\ cycle[n].pc = "idle" /\ cycle'[n].pc = "handoffs"
    /\ overlaps' = overlaps + Cardinality(InFlight) /\ restarts' = restarts /\ lost' = lost

StartsOver ==
    /\ processed' = {} /\ defects' = defects
    /\ \A n \in Cycles : cycle'[n].pc = "idle"
    /\ overlaps' = overlaps /\ restarts' = restarts + 1 /\ lost' = lost

StandsStill == cycle' = cycle /\ processed' = processed /\ defects' = defects /\ FaultsStay

\* A scan that goes on takes up one of its items, or the next scan begins.
LEMMA NextItemOutcome ==
    ASSUME WellFormed, NEW n \in Cycles, NEW pc, NEW todo, NEW over, NextItem(n, pc, todo, over)
    PROVE  /\ OthersStay(n)
           /\ \/ todo = {} /\ cycle'[n].pc = over
              \/ cycle'[n].pc = pc /\ List(cycle'[n]) = todo
  <1>1. now \in Nat /\ cycle \in [Cycles -> CycleRecord(now)]
    BY DEF WellFormed, TypeOK, CyclesFit
  <1>2. CASE todo = {} /\ cycle' = [cycle EXCEPT ![n] = At(over, 0)]
    BY <1>1, <1>2 DEF At, OthersStay
  <1>3. ASSUME NEW i \in todo, NEW t, cycle' = [cycle EXCEPT ![n] = Taking(pc, i, todo, t, cycle[n].day)]
        PROVE  OthersStay(n) /\ cycle'[n].pc = pc /\ List(cycle'[n]) = todo
    BY <1>1, <1>3 DEF Taking, OthersStay, List
  <1> QED
    BY <1>1, <1>2, <1>3, NextItemFacts

LEMMA NextIntakeOutcome ==
    ASSUME WellFormed, NEW n \in Cycles, NEW todo, NextIntake(n, todo)
    PROVE  /\ OthersStay(n)
           /\ \/ cycle'[n].pc \in Late
              \/ cycle'[n].pc = "creating" /\ List(cycle'[n]) \subseteq todo
  <1>1. CASE todo # {}
    BY <1>1, NextItemOutcome DEF NextIntake
  <1>2. CASE todo = {}
    BY <1>2 DEF NextIntake, Idle, At, OthersStay, Late, WellFormed, CyclesFit
  <1> QED
    BY <1>1, <1>2

LEMMA NextFlagOutcome ==
    ASSUME WellFormed, NEW n \in Cycles, NEW todo, NextFlag(n, todo)
    PROVE  OthersStay(n) /\ cycle'[n].pc \in Late
  <1>1. CASE todo # {}
    BY <1>1, NextItemOutcome DEF NextFlag, Late
  <1>2. CASE todo = {}
    BY <1>2 DEF NextFlag, Idle, At, OthersStay, Late, WellFormed, CyclesFit
  <1> QED
    BY <1>1, <1>2

LEMMA ContinueOutcome ==
    ASSUME WellFormed, NEW n \in Cycles, NEW pc, Continue(n, pc)
    PROVE  /\ OthersStay(n) /\ cycle'[n].pc = pc
           /\ cycle'[n].item = cycle[n].item /\ cycle'[n].todo = cycle[n].todo
           /\ cycle'[n].stamp = cycle[n].stamp
  <1>1. cycle \in [Cycles -> CycleRecord(now)]
    BY DEF WellFormed, CyclesFit
  <1>2. cycle[n] \in CycleRecord(now)
    BY <1>1
  <1>3. cycle' = [cycle EXCEPT ![n] = [cycle[n] EXCEPT !.pc = pc]]
    BY <1>1 DEF Continue
  <1>4. /\ [cycle[n] EXCEPT !.pc = pc].pc = pc
        /\ [cycle[n] EXCEPT !.pc = pc].item = cycle[n].item
        /\ [cycle[n] EXCEPT !.pc = pc].todo = cycle[n].todo
        /\ [cycle[n] EXCEPT !.pc = pc].stamp = cycle[n].stamp
    BY <1>2 DEF CycleRecord
  <1> QED
    BY <1>1, <1>3, <1>4 DEF OthersStay

LEMMA StepsOfCycle ==
    ASSUME WellFormed, NEW n \in Cycles, CycleStep(n)
    PROVE  GoesAlong(n) \/ Creates(n) \/ Loses(n) \/ Links(n) \/ Processes(n)
  <1>0. overlaps' = overlaps /\ restarts' = restarts
    BY DEF CycleStep
  <1>1. CASE SearchHandoffs(n) \/ HandoffsFound(n) \/ Closed(n) \/ Commented(n) \/ Recorded(n)
    <2>1. processed' = processed /\ defects' = defects /\ lost' = lost
      BY <1>1 DEF SearchHandoffs, HandoffsFound, Closed, Commented, Recorded, memory, told
    <2>2. cycle[n].pc \in {"handoffs", "detecting", "closing", "commenting", "recording"}
      BY <1>1 DEF SearchHandoffs, HandoffsFound, Closed, Commented, Recorded
    <2>3. CASE SearchHandoffs(n)
      <3>1. PICK todo : cycle' = [cycle EXCEPT ![n] = [At("detecting", 0) EXCEPT !.todo = todo]]
        BY <2>3 DEF SearchHandoffs
      <3>2. OthersStay(n) /\ cycle'[n].pc = "detecting"
        BY <3>1 DEF At, OthersStay, WellFormed, CyclesFit
      <3> QED
        BY <1>0, <2>1, <2>2, <3>2 DEF GoesAlong, Early, Made, FaultsStay
    <2>4. CASE ~SearchHandoffs(n)
      <3>1. OthersStay(n) /\ cycle'[n].pc \in {"closing", "commenting", "recording", "versions"}
        BY <1>1, <2>4, NextItemOutcome, ContinueOutcome
           DEF HandoffsFound, Closed, Commented, Recorded, NextHandoff
      <3> QED
        BY <1>0, <2>1, <2>2, <3>1 DEF GoesAlong, Early, Made, FaultsStay
    <2> QED
      BY <2>3, <2>4
  <1>2. CASE VersionsFound(n) \/ SprintFound(n) \/ SprintMoved(n)
    <2>1. processed' = processed /\ defects' = defects /\ lost' = lost
      BY <1>2 DEF VersionsFound, SprintFound, SprintMoved, memory, told
    <2>2. cycle[n].pc \in {"versions", "finding", "moving"}
      BY <1>2 DEF VersionsFound, SprintFound, SprintMoved
    <2>3. OthersStay(n) /\ cycle'[n].pc \in {"finding", "moving", "intakes"}
      BY <1>2, NextItemOutcome, ContinueOutcome DEF VersionsFound, SprintFound, SprintMoved, NextMove
    <2> QED
      BY <1>0, <2>1, <2>2, <2>3 DEF GoesAlong, Early, Made, FaultsStay
  <1>3. CASE IntakesFound(n)
    <2>1. processed' = processed /\ defects' = defects /\ lost' = lost /\ cycle[n].pc = "intakes"
      BY <1>3 DEF IntakesFound, memory, told
    <2>2. PICK todo : todo \cap processed = {} /\ NextIntake(n, todo)
      BY <1>3 DEF IntakesFound, detectDefectIntakeLabels
    <2>3. /\ OthersStay(n)
          /\ cycle'[n].pc \in Late \/ (cycle'[n].pc = "creating" /\ List(cycle'[n]) \subseteq todo)
      BY <2>2, NextIntakeOutcome
    <2> QED
      BY <1>0, <2>1, <2>2, <2>3 DEF GoesAlong, Made, FaultsStay
  <1>4. CASE DefectCreated(n)
    <2>1. processed' = processed /\ cycle[n].pc = "creating"
      BY <1>4 DEF DefectCreated, memory
    <2>2. CASE /\ Continue(n, "linking") /\ lost' = lost
               /\ defects' = [defects EXCEPT ![cycle[n].item] = @ + 1]
      BY <1>0, <2>1, <2>2, ContinueOutcome DEF Creates, FaultsStay
    <2>3. CASE (NotCreated(n) \/ NextIntake(n, {})) /\ defects' = defects /\ lost' = lost
      <3>1. PICK todo : todo \subseteq cycle[n].todo /\ NextIntake(n, todo)
        BY <2>3 DEF NotCreated
      <3>2. /\ OthersStay(n)
            /\ cycle'[n].pc \in Late \/ (cycle'[n].pc = "creating" /\ List(cycle'[n]) \subseteq todo)
        BY <3>1, NextIntakeOutcome
      <3>3. FaultsStay
        BY <1>0, <2>3 DEF FaultsStay
      <3> QED
        BY <2>1, <2>3, <3>1, <3>2, <3>3 DEF GoesAlong, Made
    <2>4. CASE /\ NotCreated(n) /\ lost' = lost + 1
               /\ defects' = [defects EXCEPT ![cycle[n].item] = @ + 1]
      BY <1>0, <2>1, <2>4, NextIntakeOutcome DEF NotCreated, Loses
    <2> QED
      BY <1>4, <2>2, <2>3, <2>4 DEF DefectCreated
  <1>5. CASE Linked(n)
    <2>1. processed' = processed /\ defects' = defects /\ lost' = lost /\ cycle[n].pc = "linking"
      BY <1>5 DEF Linked, memory, told
    <2> QED
      BY <1>0, <1>5, <2>1, ContinueOutcome DEF Linked, Links, FaultsStay
  <1>6. CASE Unlabelled(n)
    <2>1. /\ processed' = processed \cup {cycle[n].item} /\ defects' = defects /\ lost' = lost
          /\ cycle[n].pc = "unlabelling" /\ NextIntake(n, cycle[n].todo)
      BY <1>6 DEF Unlabelled, told
    <2> QED
      BY <1>0, <2>1, NextIntakeOutcome DEF Processes, FaultsStay
  <1>7. CASE SprintRead(n) \/ Flagged(n)
    <2>1. processed' = processed /\ defects' = defects /\ lost' = lost
      BY <1>7 DEF SprintRead, Flagged, told
    <2>2. cycle[n].pc \notin {"idle"} \cup Made
      BY <1>7 DEF SprintRead, Flagged, Made
    <2>3. OthersStay(n) /\ cycle'[n].pc \in Late
      <3>1. CASE cycle' = [cycle EXCEPT ![n] = Idle]
        BY <3>1 DEF Idle, At, OthersStay, Late, WellFormed, CyclesFit
      <3> QED
        BY <1>7, <3>1, NextFlagOutcome DEF SprintRead, ScanGivenUp, Flagged
    <2> QED
      BY <1>0, <2>1, <2>2, <2>3 DEF GoesAlong, FaultsStay
  <1> QED
    BY <1>1, <1>2, <1>3, <1>4, <1>5, <1>6, <1>7 DEF CycleStep

LEMMA IntakeSteps ==
    ASSUME WellFormed, [Next]_vars
    PROVE  \/ \E n \in Cycles : \/ GoesAlong(n) \/ Creates(n) \/ Loses(n) \/ Links(n) \/ Processes(n)
                                \/ Starts(n)
           \/ StartsOver \/ StandsStill
  <1>1. CASE UNCHANGED vars
    BY <1>1 DEF vars, memory, told, bounds, StandsStill, FaultsStay
  <1>2. ASSUME NEW n \in Cycles, StartCycle(n) PROVE Starts(n)
    BY <1>2 DEF StartCycle, memory, told, Starts, OthersStay, At, WellFormed, CyclesFit
  <1>3. ASSUME NEW n \in Cycles, CycleStep(n)
        PROVE  GoesAlong(n) \/ Creates(n) \/ Loses(n) \/ Links(n) \/ Processes(n)
    BY <1>3, StepsOfCycle
  <1>4. ASSUME \/ \E i \in DevIssues, value \in Kinds \cup {"other"} : SetSubStatus(i, value)
               \/ \E i \in DevIssues \cup Intakes : Touch(i)
               \/ \E i \in Intakes : Label(i)
               \/ \E v \in Versions, date \in Dates \cup {None} : Reschedule(v, date)
               \/ AskForViolations \/ AnswerViolation \/ TimePasses
        PROVE  StandsStill
    BY <1>4 DEF SetSubStatus, Touch, Label, Reschedule, AskForViolations, AnswerViolation, TimePasses,
                memory, told, StandsStill, FaultsStay
  <1>5. CASE Restart
    BY <1>5 DEF Restart, AllIdle, Idle, At, StartsOver
  <1> QED
    BY <1>1, <1>2, <1>3, <1>4, <1>5 DEF Next, Poll, RunNow

-----------------------------------------------------------------------------
(* An intake taken off the list has its defect.                            *)

\* So has one that is about to be.
HasDefects ==
    /\ \A i \in processed : defects[i] >= 1
    /\ \A n \in Cycles : cycle[n].pc \in Made => defects[cycle[n].item] >= 1

LEMMA NextHasDefects ==
    ASSUME WellFormed, HasDefects, [Next]_vars
    PROVE  HasDefects'
  <1>0. /\ defects \in [Intakes -> Nat] /\ processed \subseteq Intakes
        /\ \A n \in Cycles : cycle[n].pc \in {"creating"} \cup Made => cycle[n].item \in Intakes
    BY LeftType DEF WellFormed, TypeOK, Made
  <1>1. ASSUME NEW n \in Cycles, GoesAlong(n) PROVE HasDefects'
    BY <1>1 DEF GoesAlong, OthersStay, HasDefects, Early, Late, Made
  <1>2. ASSUME NEW n \in Cycles, Creates(n) \/ Loses(n) PROVE HasDefects'
    <2>0. /\ OthersStay(n) /\ processed' = processed /\ cycle[n].pc = "creating"
          /\ defects' = [defects EXCEPT ![cycle[n].item] = @ + 1]
          /\ cycle'[n].pc \in Made => cycle'[n].item = cycle[n].item
      BY <1>2 DEF Creates, Loses, Late, Made
    <2>1. \A i \in Intakes : defects'[i] >= defects[i]
      BY <1>0, <2>0
    <2>2. defects'[cycle[n].item] >= 1
      BY <1>0, <2>0
    <2>3. \A i \in processed' : defects'[i] >= 1
      BY <1>0, <2>0, <2>1 DEF HasDefects
    <2>4. ASSUME NEW m \in Cycles, cycle'[m].pc \in Made PROVE defects'[cycle'[m].item] >= 1
      <3>1. CASE m = n
        BY <2>0, <2>2, <2>4, <3>1
      <3>2. CASE m # n
        <4>1. cycle'[m] = cycle[m]
          BY <2>0, <3>2 DEF OthersStay
        <4>2. defects[cycle[m].item] >= 1 /\ cycle[m].item \in Intakes /\ defects[cycle[m].item] \in Nat
          BY <1>0, <2>4, <4>1 DEF HasDefects
        <4>3. defects'[cycle[m].item] \in Nat
          BY <1>0, <2>0, <4>2
        <4> QED
          BY <2>1, <4>1, <4>2, <4>3
      <3> QED
        BY <3>1, <3>2
    <2> QED
      BY <2>3, <2>4 DEF HasDefects
  <1>3. ASSUME NEW n \in Cycles, Links(n) PROVE HasDefects'
    BY <1>3 DEF Links, OthersStay, HasDefects, Made
  <1>4. ASSUME NEW n \in Cycles, Processes(n) PROVE HasDefects'
    BY <1>4 DEF Processes, OthersStay, HasDefects, Late, Made
  <1>5. ASSUME NEW n \in Cycles, Starts(n) PROVE HasDefects'
    BY <1>5 DEF Starts, OthersStay, HasDefects, Made
  <1>6. CASE StartsOver
    BY <1>6 DEF StartsOver, HasDefects, Made
  <1>7. CASE StandsStill
    BY <1>7 DEF StandsStill, HasDefects
  <1> QED
    BY <1>1, <1>2, <1>3, <1>4, <1>5, <1>6, <1>7, IntakeSteps

\* An intake is not taken off the list before its defect exists, whichever request fails.
THEOREM DefectBeforeTaken == Spec => []LabelTakenForDefect
  <1>1. Init => HasDefects
    BY DEF Init, AllIdle, Idle, At, HasDefects, Made
  <1>2. HasDefects => LabelTakenForDefect
    BY DEF HasDefects, LabelTakenForDefect
  <1> QED
    BY <1>1, <1>2, InitWellFormed, NextWellFormed, NextHasDefects, PTL DEF Spec

-----------------------------------------------------------------------------
(* Counting.                                                               *)

\* What was done, c times, and what the cycles of S may still do: once, and once more for
\* each of f faults.  It is zero times as long as it is not done and nobody is about to.
Owed(c, S, done, f) ==
    c + Cardinality(S) <= (IF done \/ S # {} THEN 1 ELSE 0) + f

LEMMA OwedFacts ==
    ASSUME NEW S \in SUBSET Cycles
    PROVE  IsFiniteSet(S) /\ Cardinality(S) \in Nat /\ (S = {} <=> Cardinality(S) = 0)
  BY TimeAssumption, FS_Subset, FS_CardinalityType, FS_EmptySet

\* Nobody joins, and what is done stays done.
LEMMA OwedStays ==
    ASSUME NEW c \in Nat, NEW f \in Nat, NEW S \in SUBSET Cycles, NEW T \in SUBSET S,
           NEW d \in BOOLEAN, NEW e \in BOOLEAN, d => e, Owed(c, S, d, f)
    PROVE  Owed(c, T, e, f)
  <1>1. /\ Cardinality(S) \in Nat /\ Cardinality(T) \in Nat /\ Cardinality(T) <= Cardinality(S)
        /\ S = {} <=> Cardinality(S) = 0
        /\ T = {} <=> Cardinality(T) = 0
    BY OwedFacts, FS_Subset
  <1> QED
    BY <1>1 DEF Owed

\* One leaves S, and either does nothing or does the thing once.
LEMMA OwedLeaves ==
    ASSUME NEW c \in Nat, NEW f \in Nat, NEW S \in SUBSET Cycles, NEW n \in S, NEW T \in SUBSET (S \ {n}),
           NEW d \in BOOLEAN, NEW e \in BOOLEAN, Owed(c, S, d, f),
           NEW b \in Nat, b = c \/ (b = c + 1 /\ e)
    PROVE  Owed(b, T, e, f)
  <1>1. Cardinality(S \ {n}) = Cardinality(S) - 1 /\ IsFiniteSet(S \ {n})
    BY OwedFacts, FS_RemoveElement
  <1>2. Cardinality(T) <= Cardinality(S \ {n}) /\ Cardinality(T) \in Nat /\ Cardinality(S) \in Nat
    BY <1>1, OwedFacts, FS_Subset
  <1>3. T = {} <=> Cardinality(T) = 0
    BY OwedFacts
  <1> QED
    BY <1>1, <1>2, <1>3 DEF Owed

\* One joins S beside k cycles in flight, and may have to pay for it.
LEMMA OwedJoins ==
    ASSUME NEW c \in Nat, NEW f \in Nat, NEW k \in Nat, NEW S \in SUBSET Cycles, NEW n \in Cycles,
           NEW T \in SUBSET (S \cup {n}), NEW d \in BOOLEAN, Owed(c, S, d, f),
           k = 0 => S = {} /\ (d => T = {})
    PROVE  Owed(c, T, d, f + k)
  <1>1. Cardinality(S \cup {n}) <= Cardinality(S) + 1 /\ Cardinality(S \cup {n}) \in Nat
    BY OwedFacts, FS_AddElement
  <1>2. Cardinality(T) <= Cardinality(S \cup {n}) /\ Cardinality(T) \in Nat /\ Cardinality(S) \in Nat
    BY <1>1, OwedFacts, FS_Subset
  <1>3. (T = {} <=> Cardinality(T) = 0) /\ (S = {} <=> Cardinality(S) = 0)
    BY OwedFacts
  <1>4. CASE k = 0
    BY <1>1, <1>2, <1>3, <1>4 DEF Owed
  <1>5. CASE k >= 1
    BY <1>1, <1>2, <1>3, <1>5 DEF Owed
  <1> QED
    BY <1>4, <1>5

\* One leaves S and does the thing, for one more fault.
LEMMA OwedWasted ==
    ASSUME NEW c \in Nat, NEW f \in Nat, NEW S \in SUBSET Cycles, NEW n \in S, NEW T \in SUBSET (S \ {n}),
           NEW d \in BOOLEAN, NEW e \in BOOLEAN, Owed(c, S, d, f)
    PROVE  Owed(c + 1, T, e, f + 1)
  <1>1. Cardinality(S \ {n}) = Cardinality(S) - 1 /\ IsFiniteSet(S \ {n})
    BY OwedFacts, FS_RemoveElement
  <1>2. Cardinality(T) <= Cardinality(S \ {n}) /\ Cardinality(T) \in Nat /\ Cardinality(S) \in Nat
    BY <1>1, OwedFacts, FS_Subset
  <1>3. T = {} <=> Cardinality(T) = 0
    BY OwedFacts
  <1> QED
    BY <1>1, <1>2, <1>3 DEF Owed

\* More faults have been paid for than there were.
LEMMA OwedMore ==
    ASSUME NEW c \in Nat, NEW f \in Nat, NEW g \in Nat, f <= g, NEW S \in SUBSET Cycles,
           NEW d \in BOOLEAN, Owed(c, S, d, f)
    PROVE  Owed(c, S, d, g)
  BY OwedFacts DEF Owed

\* All are forgotten, for one more fault.
LEMMA OwedForgotten ==
    ASSUME NEW c \in Nat, NEW f \in Nat, NEW S \in SUBSET Cycles,
           NEW d \in BOOLEAN, NEW e \in BOOLEAN, Owed(c, S, d, f)
    PROVE  Owed(c, {}, e, f + 1)
  <1>1. Cardinality(S) \in Nat /\ Cardinality({}) = 0
    BY OwedFacts, FS_EmptySet
  <1> QED
    BY <1>1 DEF Owed

\* A count that starts again.
LEMMA OwedAnew ==
    ASSUME NEW f \in Nat, NEW S \in SUBSET Cycles, NEW d \in BOOLEAN, Cardinality(S) <= 1 + f
    PROVE  Owed(0, S, d, f)
  BY OwedFacts DEF Owed

\* As many cycles are in flight as overlaps have been paid for, and one.
FewInFlight == Cardinality(InFlight) <= 1 + overlaps

LEMMA NextFewInFlight ==
    ASSUME WellFormed, FewInFlight, [Next]_vars
    PROVE  FewInFlight'
  <1>0. InFlight \in SUBSET Cycles /\ Cardinality(InFlight) \in Nat /\ IsFiniteSet(InFlight) /\ overlaps \in Nat
    BY InFlightCount DEF InFlight, WellFormed, TypeOK
  <1>1. ASSUME InFlight' \subseteq InFlight, overlaps' = overlaps PROVE FewInFlight'
    BY <1>0, <1>1, FS_Subset, FS_CardinalityType DEF FewInFlight
  <1>2. ASSUME NEW n \in Cycles, Starts(n) PROVE FewInFlight'
    <2>1. InFlight' \subseteq InFlight \cup {n}
      BY <1>2 DEF Starts, OthersStay, InFlight
    <2>2. Cardinality(InFlight \cup {n}) <= Cardinality(InFlight) + 1 /\ IsFiniteSet(InFlight \cup {n})
      BY InFlightCount, FS_AddElement
    <2>3. Cardinality(InFlight') <= Cardinality(InFlight \cup {n}) /\ Cardinality(InFlight') \in Nat
      BY <2>1, <2>2, FS_Subset, FS_CardinalityType
    <2>4. Cardinality(InFlight \cup {n}) \in Nat
      BY <2>2, FS_CardinalityType
    <2> QED
      BY <1>0, <1>2, <2>2, <2>3, <2>4 DEF Starts, FewInFlight
  <1>3. ASSUME NEW n \in Cycles, GoesAlong(n) \/ Creates(n) \/ Loses(n) \/ Links(n) \/ Processes(n)
        PROVE  FewInFlight'
    <2>1. OthersStay(n) /\ cycle[n].pc # "idle" /\ overlaps' = overlaps
      BY <1>3 DEF GoesAlong, Creates, Loses, Links, Processes, FaultsStay, Made
    <2> QED
      BY <1>1, <2>1 DEF OthersStay, InFlight
  <1>4. CASE StartsOver
    BY <1>1, <1>4 DEF StartsOver, InFlight
  <1>5. CASE StandsStill
    BY <1>1, <1>5 DEF StandsStill, FaultsStay, InFlight
  <1> QED
    BY <1>2, <1>3, <1>4, <1>5, IntakeSteps

-----------------------------------------------------------------------------
(* One defect for an intake.                                               *)

\* Cycle n may still create a defect for intake i.
MayCreate(n, i) ==
    \/ cycle[n].pc \in Early /\ i \notin processed
    \/ cycle[n].pc = "creating" /\ i \in List(cycle[n])
    \/ cycle[n].pc \in Made /\ i \in cycle[n].todo

Creators(i) == {n \in Cycles : MayCreate(n, i)}

\* Intake i has been dealt with, as far as this process knows.
DealtWith(i) == i \in processed \/ \E n \in Cycles : cycle[n].pc \in Made /\ cycle[n].item = i

\* A defect, made or to come, is the first one or is paid for by an overlap, a restart or a
\* lost answer.
Faults  == overlaps + restarts + lost
Paid(i) == Owed(defects[i], Creators(i), DealtWith(i), Faults)

AllPaid == \A i \in Intakes : Paid(i)

LEMMA PaidTypes ==
    ASSUME WellFormed, NEW i \in Intakes
    PROVE  /\ defects[i] \in Nat /\ overlaps \in Nat /\ restarts \in Nat /\ lost \in Nat /\ Faults \in Nat
           /\ Creators(i) \in SUBSET Cycles /\ DealtWith(i) \in BOOLEAN
  BY DEF WellFormed, TypeOK, Creators, DealtWith, Faults

LEMMA FaultsType == WellFormed => Faults \in Nat
  <1> SUFFICES ASSUME WellFormed PROVE Faults \in Nat
    OBVIOUS
  <1>1. overlaps \in Nat /\ restarts \in Nat /\ lost \in Nat
    BY DEF WellFormed, TypeOK
  <1> QED
    BY <1>1 DEF Faults

LEMMA FaultsTypeAfter == WellFormed' => (Faults \in Nat)'
  BY FaultsType, PTL

\* No new creators, and nothing that was dealt with is forgotten.
LEMMA NoMoreCreators ==
    ASSUME WellFormed, WellFormed', NEW i \in Intakes, Paid(i), Creators(i)' \subseteq Creators(i),
           DealtWith(i) => DealtWith(i)', defects'[i] = defects[i], Faults' >= Faults
    PROVE  Paid(i)'
  <1>1. DealtWith(i)' \in BOOLEAN /\ Creators(i)' \in SUBSET Creators(i) /\ Creators(i)' \in SUBSET Cycles
    BY DEF DealtWith, Creators
  <1>2. Faults' \in Nat
    BY FaultsTypeAfter
  <1>3. Owed(defects[i], Creators(i)', DealtWith(i)', Faults)
    BY <1>1, PaidTypes, OwedStays DEF Paid
  <1>4. Owed(defects[i], Creators(i)', DealtWith(i)', Faults')
    BY <1>1, <1>2, <1>3, PaidTypes, OwedMore
  <1> QED
    BY <1>4 DEF Paid, Owed

\* A cycle that goes on with what it has creates no more than it might have.
LEMMA NoNewCreators ==
    ASSUME NEW i \in Intakes, NEW n \in Cycles,
           GoesAlong(n) \/ Creates(n) \/ Loses(n) \/ Links(n) \/ Processes(n)
    PROVE  Creators(i)' \subseteq Creators(i)
  <1>1. OthersStay(n) /\ processed \subseteq processed'
    BY DEF GoesAlong, Creates, Loses, Links, Processes
  <1>2. ASSUME NEW m \in Cycles, MayCreate(m, i)' PROVE MayCreate(m, i)
    <2>1. CASE m # n
      BY <1>1, <1>2, <2>1 DEF OthersStay, MayCreate, List
    <2>2. CASE m = n /\ GoesAlong(n)
      BY <1>2, <2>2 DEF GoesAlong, MayCreate, List, Early, Late, Made
    <2>3. CASE m = n /\ (Creates(n) \/ Links(n))
      BY <1>2, <2>3 DEF Creates, Links, MayCreate, List, Early, Made
    <2>4. CASE m = n /\ (Loses(n) \/ Processes(n))
      BY <1>2, <2>4 DEF Loses, Processes, MayCreate, List, Early, Late, Made
    <2> QED
      BY <2>1, <2>2, <2>3, <2>4
  <1> QED
    BY <1>2 DEF Creators

LEMMA GoesAlongPaid ==
    ASSUME WellFormed, WellFormed', NEW i \in Intakes, Paid(i), NEW n \in Cycles, GoesAlong(n) \/ Links(n)
    PROVE  Paid(i)'
  <1>1. DealtWith(i) => DealtWith(i)'
    <2>1. CASE GoesAlong(n)
      BY <2>1 DEF GoesAlong, OthersStay, DealtWith, Made
    <2>2. CASE Links(n)
      BY <2>2 DEF Links, OthersStay, DealtWith, Made
    <2> QED
      BY <2>1, <2>2
  <1>2. Faults' = Faults /\ defects' = defects
    BY DEF GoesAlong, Links, FaultsStay, Faults
  <1> QED
    BY <1>1, <1>2, PaidTypes, NoNewCreators, NoMoreCreators

LEMMA ProcessesPaid ==
    ASSUME WellFormed, WellFormed', NEW i \in Intakes, Paid(i), NEW n \in Cycles, Processes(n)
    PROVE  Paid(i)'
  <1>1. DealtWith(i) => DealtWith(i)'
    <2>1. ASSUME NEW m \in Cycles, cycle[m].pc \in Made, cycle[m].item = i PROVE DealtWith(i)'
      BY <2>1 DEF Processes, OthersStay, DealtWith
    <2> QED
      BY <2>1 DEF Processes, DealtWith
  <1>2. Faults' = Faults /\ defects' = defects
    BY DEF Processes, FaultsStay, Faults
  <1> QED
    BY <1>1, <1>2, PaidTypes, NoNewCreators, NoMoreCreators

\* The creator of a defect is one no longer.
LEMMA CreatorLeaves ==
    ASSUME WellFormed, NEW n \in Cycles, Creates(n) \/ Loses(n), NEW i, cycle[n].item = i
    PROVE  i \in Intakes /\ n \in Creators(i) /\ Creators(i)' \in SUBSET (Creators(i) \ {n})
  <1>1. i \in Intakes /\ i \notin cycle[n].todo /\ cycle[n].pc = "creating"
    BY DEF WellFormed, CyclesFit, Fits, Creates, Loses
  <1>2. n \in Creators(i)
    BY <1>1 DEF Creators, MayCreate, List
  <1>3. ~MayCreate(n, i)'
    <2>1. CASE Creates(n)
      BY <1>1, <2>1 DEF Creates, MayCreate, List, Early, Made
    <2>2. CASE Loses(n)
      BY <1>1, <2>2 DEF Loses, MayCreate, List, Early, Late, Made
    <2> QED
      BY <2>1, <2>2
  <1>4. Creators(i)' \subseteq Creators(i)
    BY <1>1, NoNewCreators
  <1>5. n \notin Creators(i)'
    BY <1>3 DEF Creators
  <1> QED
    BY <1>1, <1>2, <1>4, <1>5

LEMMA CreatesPaid ==
    ASSUME WellFormed, WellFormed', NEW i \in Intakes, Paid(i), NEW n \in Cycles, Creates(n)
    PROVE  Paid(i)'
  <1>0. /\ Faults' = Faults /\ defects \in [Intakes -> Nat]
        /\ defects' = [defects EXCEPT ![cycle[n].item] = @ + 1]
        /\ OthersStay(n) /\ processed' = processed
        /\ cycle[n].pc = "creating" /\ cycle'[n].pc = "linking" /\ cycle'[n].item = cycle[n].item
    BY DEF Creates, FaultsStay, Faults, WellFormed, TypeOK
  <1>1. CASE cycle[n].item = i
    <2>1. n \in Creators(i) /\ Creators(i)' \in SUBSET (Creators(i) \ {n})
      BY <1>1, CreatorLeaves
    <2>2. DealtWith(i)'
      BY <1>0, <1>1 DEF DealtWith, Made
    <2>3. defects'[i] = defects[i] + 1 /\ defects'[i] \in Nat
      BY <1>0, <1>1
    <2>4. Owed(defects[i], Creators(i), DealtWith(i), Faults)
      BY DEF Paid
    <2>5. /\ defects'[i] \in Nat /\ DealtWith(i)' \in BOOLEAN
          /\ defects'[i] = defects[i] \/ (defects'[i] = defects[i] + 1 /\ DealtWith(i)')
      BY <2>2, <2>3 DEF DealtWith
    <2>6. Owed(defects'[i], Creators(i)', DealtWith(i)', Faults)
      BY <2>1, <2>4, <2>5, PaidTypes, OwedLeaves
    <2> QED
      BY <1>0, <2>6 DEF Paid, Owed
  <1>2. CASE cycle[n].item # i
    <2>1. defects'[i] = defects[i]
      BY <1>0, <1>2
    <2>2. DealtWith(i) => DealtWith(i)'
      BY <1>0 DEF OthersStay, DealtWith, Made
    <2> QED
      BY <1>0, <2>1, <2>2, PaidTypes, NoNewCreators, NoMoreCreators
  <1> QED
    BY <1>1, <1>2

LEMMA LosesPaid ==
    ASSUME WellFormed, WellFormed', NEW i \in Intakes, Paid(i), NEW n \in Cycles, Loses(n)
    PROVE  Paid(i)'
  <1>0. /\ Faults' = Faults + 1 /\ defects \in [Intakes -> Nat]
        /\ defects' = [defects EXCEPT ![cycle[n].item] = @ + 1]
        /\ OthersStay(n) /\ processed' = processed /\ cycle[n].pc = "creating"
    BY PaidTypes DEF Loses, Faults, WellFormed, TypeOK
  <1>1. DealtWith(i) => DealtWith(i)'
    BY <1>0 DEF OthersStay, DealtWith, Made
  <1>2. CASE cycle[n].item = i
    <2>1. n \in Creators(i) /\ Creators(i)' \in SUBSET (Creators(i) \ {n})
      BY <1>2, CreatorLeaves
    <2>2. Owed(defects[i], Creators(i), DealtWith(i), Faults)
      BY DEF Paid
    <2>3. DealtWith(i)' \in BOOLEAN
      BY DEF DealtWith
    <2>4. Owed(defects[i] + 1, Creators(i)', DealtWith(i)', Faults + 1)
      BY <2>1, <2>2, <2>3, PaidTypes, OwedWasted
    <2> QED
      BY <1>0, <1>2, <2>4 DEF Paid, Owed
  <1>3. CASE cycle[n].item # i
    <2>1. defects'[i] = defects[i]
      BY <1>0, <1>3
    <2>2. Faults' >= Faults
      BY <1>0, PaidTypes
    <2> QED
      BY <1>1, <2>1, <2>2, NoNewCreators, NoMoreCreators
  <1> QED
    BY <1>2, <1>3

\* A cycle that starts beside others is paid for by the overlap; one that starts alone
\* finds an intake dealt with, or is its first.
LEMMA StartsPaid ==
    ASSUME WellFormed, WellFormed', NEW i \in Intakes, Paid(i), NEW n \in Cycles, Starts(n)
    PROVE  Paid(i)'
  <1>0. /\ defects'[i] = defects[i] /\ Cardinality(InFlight) \in Nat
        /\ Faults' = Faults + Cardinality(InFlight)
    BY PaidTypes, InFlightCount DEF Starts, Faults
  <1>1. Creators(i)' \in SUBSET (Creators(i) \cup {n})
    BY DEF Starts, OthersStay, Creators, MayCreate, List, Early, Made
  <1>2. DealtWith(i)' <=> DealtWith(i)
    BY DEF Starts, OthersStay, DealtWith, Made
  <1>3. Cardinality(InFlight) = 0 => Creators(i) = {} /\ (DealtWith(i) => Creators(i)' = {})
    <2> SUFFICES ASSUME Cardinality(InFlight) = 0
                 PROVE  Creators(i) = {} /\ (DealtWith(i) => Creators(i)' = {})
      OBVIOUS
    <2>1. \A m \in Cycles : cycle[m].pc = "idle"
      BY InFlightCount, FS_EmptySet DEF InFlight
    <2>2. Creators(i) = {} /\ (DealtWith(i) => i \in processed)
      BY <2>1 DEF Creators, MayCreate, Early, Made, DealtWith
    <2> QED
      BY <1>1, <2>2 DEF Creators, MayCreate, Starts, Early, Made
  <1>4. Owed(defects[i], Creators(i)', DealtWith(i), Faults + Cardinality(InFlight))
    BY <1>0, <1>1, <1>3, PaidTypes, OwedJoins DEF Paid
  <1> QED
    BY <1>0, <1>2, <1>4 DEF Paid, Owed

LEMMA StartsOverPaid ==
    ASSUME WellFormed, NEW i \in Intakes, Paid(i), StartsOver
    PROVE  Paid(i)'
  <1>1. Creators(i)' = {} /\ DealtWith(i)' \in BOOLEAN
    BY DEF StartsOver, Creators, MayCreate, Early, Made, DealtWith
  <1>2. Owed(defects[i], {}, DealtWith(i)', Faults + 1)
    BY <1>1, PaidTypes, OwedForgotten DEF Paid
  <1>3. Faults' = Faults + 1
    BY PaidTypes DEF StartsOver, Faults
  <1> QED
    BY <1>1, <1>2, <1>3 DEF Paid, StartsOver

LEMMA NextAllPaid == WellFormed /\ WellFormed' /\ AllPaid /\ [Next]_vars => AllPaid'
  <1> SUFFICES ASSUME WellFormed, WellFormed', [Next]_vars, NEW i \in Intakes, Paid(i) PROVE Paid(i)'
    BY DEF AllPaid
  <1>1. CASE StandsStill
    BY <1>1 DEF StandsStill, FaultsStay, Faults, Paid, Owed, DealtWith, Creators, MayCreate, List
  <1> QED
    BY <1>1, IntakeSteps, GoesAlongPaid, CreatesPaid, LosesPaid, ProcessesPaid, StartsPaid, StartsOverPaid

LEMMA InitAllPaid == Init => AllPaid
  <1> SUFFICES ASSUME Init, NEW i \in Intakes PROVE Paid(i)
    BY DEF AllPaid
  <1>1. Creators(i) = {}
    BY DEF Init, AllIdle, Idle, At, Creators, MayCreate, Early
  <1>2. Cardinality(Creators(i)) = 0
    BY <1>1, FS_EmptySet
  <1> QED
    BY <1>1, <1>2 DEF Init, Faults, Paid, Owed

\* An intake gets another defect only by a cycle that ran beside another, after a restart
\* or for an answer that was lost, for any number of intakes, cycles and failed requests.
THEOREM OneDefectEach == Spec => []OneDefect
  <1>1. WellFormed /\ AllPaid => OneDefect
    <2> SUFFICES ASSUME WellFormed, AllPaid, NEW i \in Intakes PROVE defects[i] <= 1 + overlaps + restarts + lost
      BY DEF OneDefect
    <2>1. Cardinality(Creators(i)) \in Nat
      BY PaidTypes, OwedFacts
    <2> QED
      BY <2>1, PaidTypes DEF AllPaid, Paid, Owed, Faults
  <1> QED
    BY <1>1, InitWellFormed, NextWellFormed, InitAllPaid, NextAllPaid, PTL DEF Spec

-----------------------------------------------------------------------------
(* Sprints follow their release dates.                                     *)

IsMoving(c) == c.pc \in {"finding", "moving"}

\* A cycle is about to move the sprint of version v.
WillMove(v) == \E n \in Cycles : IsMoving(cycle[n]) /\ \E m \in List(cycle[n]) : m.version = v

\* A cycle alone and without failures moves sprints to the dates last seen, and leaves
\* none out whose date it has noticed.
Following ==
    misses = 0 /\ overlaps = 0 =>
        /\ \A m, n \in InFlight : m = n
        /\ \A n \in Cycles : IsMoving(cycle[n]) => \A m \in List(cycle[n]) : m.date = lastSeen[m.version]
        /\ \A v \in Sprints \cap noticed : sprintEnd[v] = lastSeen[v] \/ WillMove(v)

DatesStay == sprintEnd' = sprintEnd /\ lastSeen' = lastSeen /\ noticed' = noticed

\* A step of a cycle that is not about sprint dates.
Aside(n) ==
    /\ OthersStay(n) /\ DatesStay /\ overlaps' = overlaps /\ misses' >= misses
    /\ cycle[n].pc # "idle" /\ ~IsMoving(cycle[n]) /\ ~IsMoving(cycle'[n])

LEMMA SearchOutcome ==
    ASSUME WellFormed, NEW n \in Cycles, SearchHandoffs(n)
    PROVE  OthersStay(n) /\ cycle[n].pc = "handoffs" /\ cycle'[n].pc = "detecting"
  <1>1. PICK todo : cycle' = [cycle EXCEPT ![n] = [At("detecting", 0) EXCEPT !.todo = todo]]
    BY DEF SearchHandoffs
  <1> QED
    BY <1>1 DEF SearchHandoffs, At, OthersStay, WellFormed, CyclesFit

LEMMA StepsAside ==
    ASSUME WellFormed, NEW n \in Cycles, CycleStep(n),
           ~(VersionsFound(n) \/ SprintFound(n) \/ SprintMoved(n))
    PROVE  Aside(n)
  <1>0. overlaps' = overlaps /\ misses \in Nat
    BY DEF CycleStep, WellFormed, TypeOK
  <1>1. CASE SearchHandoffs(n) \/ HandoffsFound(n) \/ Closed(n) \/ Commented(n) \/ Recorded(n)
    <2>1. /\ DatesStay /\ misses' >= misses
          /\ cycle[n].pc \in {"handoffs", "detecting", "closing", "commenting", "recording"}
      BY <1>0, <1>1 DEF SearchHandoffs, HandoffsFound, Closed, Commented, Recorded, jira, memory, told,
                        DatesStay, Miss, Fine
    <2>2. /\ OthersStay(n)
          /\ cycle'[n].pc \in {"detecting", "closing", "commenting", "recording", "versions"}
      BY <1>1, SearchOutcome, NextItemOutcome, ContinueOutcome
         DEF HandoffsFound, Closed, Commented, Recorded, NextHandoff
    <2> QED
      BY <1>0, <2>1, <2>2 DEF Aside, IsMoving
  <1>2. CASE IntakesFound(n) \/ DefectCreated(n) \/ Linked(n) \/ Unlabelled(n)
    <2>1. /\ DatesStay /\ misses' >= misses
          /\ cycle[n].pc \in {"intakes", "creating", "linking", "unlabelling"}
      BY <1>0, <1>2 DEF IntakesFound, DefectCreated, Linked, Unlabelled, jira, memory, told, DatesStay,
                        Miss, Fine
    <2>2. OthersStay(n) /\ cycle'[n].pc \in Late \cup {"creating", "linking", "unlabelling"}
      BY <1>2, NextIntakeOutcome, ContinueOutcome
         DEF IntakesFound, DefectCreated, NotCreated, Linked, Unlabelled
    <2> QED
      BY <1>0, <2>1, <2>2 DEF Aside, IsMoving, Late
  <1>3. CASE SprintRead(n) \/ Flagged(n)
    <2>1. DatesStay /\ misses' >= misses /\ cycle[n].pc \in {"sprint", "flagging"}
      BY <1>0, <1>3 DEF SprintRead, Flagged, Flag, jira, told, DatesStay, Miss, Fine
    <2>2. OthersStay(n) /\ cycle'[n].pc \in Late
      <3>1. CASE cycle' = [cycle EXCEPT ![n] = Idle]
        BY <3>1 DEF Idle, At, OthersStay, Late, WellFormed, CyclesFit
      <3> QED
        BY <1>3, <3>1, NextFlagOutcome DEF SprintRead, ScanGivenUp, Flagged
    <2> QED
      BY <1>0, <2>1, <2>2 DEF Aside, IsMoving, Late
  <1> QED
    BY <1>1, <1>2, <1>3 DEF CycleStep

\* Without failures or overlaps after a step, there were none before it.
LEMMA NoTrouble ==
    ASSUME WellFormed, WellFormed', misses' = 0, overlaps' = 0, misses' >= misses, overlaps' >= overlaps
    PROVE  misses = 0 /\ overlaps = 0
  BY DEF WellFormed, TypeOK

LEMMA AsideFollows ==
    ASSUME WellFormed, WellFormed', Following, NEW n \in Cycles, Aside(n)
    PROVE  Following'
  <1> SUFFICES ASSUME misses' = 0, overlaps' = 0 PROVE Following'
    BY DEF Following
  <1>0. misses' >= misses /\ overlaps' = overlaps /\ overlaps \in Nat
    BY DEF Aside, WellFormed, TypeOK
  <1>1. misses = 0 /\ overlaps = 0
    BY <1>0, NoTrouble
  <1>2. \A m \in Cycles : cycle'[m].pc # "idle" => cycle[m].pc # "idle"
    BY DEF Aside, OthersStay
  <1>3. \A m, k \in InFlight' : m = k
    BY <1>1, <1>2 DEF Following, InFlight
  <1>4. \A m \in Cycles : IsMoving(cycle'[m]) => cycle'[m] = cycle[m]
    BY DEF Aside, OthersStay
  <1>5. \A m \in Cycles : IsMoving(cycle[m]) => cycle'[m] = cycle[m]
    BY DEF Aside, OthersStay
  <1>6. \A v : WillMove(v) => WillMove(v)'
    BY <1>5 DEF WillMove
  <1> QED
    BY <1>1, <1>3, <1>4, <1>6 DEF Following, Aside, DatesStay

\* The cycle that is alone notes the dates and puts every change it sees on its list.
LEMMA VersionsFollow ==
    ASSUME WellFormed, WellFormed', Following, NEW n \in Cycles, CycleStep(n), VersionsFound(n)
    PROVE  Following'
  <1> SUFFICES ASSUME misses' = 0, overlaps' = 0 PROVE Following'
    BY DEF Following
  <1> DEFINE moves == detectFixVersionDateChange
  <1>0. /\ misses \in Nat /\ overlaps \in Nat /\ misses' \in Nat /\ overlaps' = overlaps
        /\ lastSeen \in [Versions -> Dates \cup {None}] /\ sprintEnd \in [Sprints -> Dates]
        /\ release \in [Versions -> Dates \cup {None}]
    BY DEF WellFormed, TypeOK, CycleStep
  <1>1. misses = 0 /\ overlaps = 0 /\ misses' = misses
    <2>1. misses' >= misses
      BY <1>0 DEF VersionsFound, Miss, Fine
    <2> QED
      BY <1>0, <2>1, NoTrouble DEF VersionsFound, Miss, Fine
  <1>2. /\ NextMove(n, moves) /\ noteDates /\ sprintEnd' = sprintEnd
        /\ noticed' = noticed \cup {m.version : m \in moves}
    BY <1>0, <1>1 DEF VersionsFound, Miss, jira
  <1>3. /\ OthersStay(n)
        /\ \/ moves = {} /\ cycle'[n].pc = "intakes"
           \/ cycle'[n].pc = "finding" /\ List(cycle'[n]) = moves
    <2> HIDE DEF moves
    <2>1. NextItem(n, "finding", moves, "intakes")
      BY <1>2 DEF NextMove
    <2> QED
      BY <2>1, NextItemOutcome
  <1>4. cycle[n].pc = "versions"
    BY DEF VersionsFound
  <1>5. \A m \in Cycles \ {n} : cycle[m].pc = "idle" /\ cycle'[m].pc = "idle"
    BY <1>1, <1>3, <1>4 DEF Following, InFlight, OthersStay
  <1>6. \A m, k \in InFlight' : m = k
    BY <1>5 DEF InFlight
  <1>7. \A m \in moves : m.date = lastSeen'[m.version]
    BY <1>2 DEF detectFixVersionDateChange, Changed, noteDates
  <1>8. \A m \in Cycles : IsMoving(cycle'[m]) => \A k \in List(cycle'[m]) : k.date = lastSeen'[k.version]
    BY <1>3, <1>5, <1>7 DEF IsMoving
  <1>9. ASSUME NEW m \in moves PROVE WillMove(m.version)'
    BY <1>3, <1>9 DEF WillMove, IsMoving
  <1>10. ASSUME NEW v \in Sprints \cap noticed PROVE sprintEnd[v] = lastSeen[v]
    <2>1. ~WillMove(v)
      BY <1>4, <1>5 DEF WillMove, IsMoving
    <2> QED
      BY <1>1, <2>1 DEF Following
  <1>11. ASSUME NEW v \in Sprints \cap noticed, v \notin {m.version : m \in moves}
         PROVE  sprintEnd'[v] = lastSeen'[v]
    <2>1. sprintEnd[v] = lastSeen[v] /\ v \in Versions /\ lastSeen[v] # None
      BY <1>0, <1>10, PartsAssumption
    <2>2. release[v] \in {None, lastSeen[v]}
      <3> SUFFICES ASSUME release[v] \notin {None, lastSeen[v]} PROVE FALSE
        OBVIOUS
      <3>1. [version |-> v, date |-> release[v]] \in moves
        BY <2>1 DEF detectFixVersionDateChange, Changed
      <3>2. [version |-> v, date |-> release[v]].version = v
        OBVIOUS
      <3> QED
        BY <1>11, <3>1, <3>2
    <2> QED
      BY <1>2, <2>1, <2>2 DEF noteDates
  <1>12. \A v \in Sprints \cap noticed' : sprintEnd'[v] = lastSeen'[v] \/ WillMove(v)'
    BY <1>2, <1>9, <1>11
  <1> QED
    BY <1>6, <1>8, <1>12 DEF Following

\* A version without a sprint is passed over; any other waits to be moved.
LEMMA FoundFollows ==
    ASSUME WellFormed, WellFormed', Following, NEW n \in Cycles, CycleStep(n), SprintFound(n)
    PROVE  Following'
  <1> SUFFICES ASSUME misses' = 0, overlaps' = 0 PROVE Following'
    BY DEF Following
  <1>0. /\ misses \in Nat /\ overlaps \in Nat /\ overlaps' = overlaps /\ misses' >= misses
        /\ cycle[n].pc = "finding" /\ DatesStay
    BY DEF WellFormed, TypeOK, CycleStep, SprintFound, Fine, jira, told, DatesStay
  <1>1. misses = 0 /\ overlaps = 0
    BY <1>0, NoTrouble
  <1>2. \/ Continue(n, "moving")
        \/ cycle[n].item.version \notin Sprints /\ NextMove(n, cycle[n].todo)
    BY <1>0, <1>1 DEF SprintFound
  <1>3. /\ OthersStay(n) /\ cycle'[n].pc \in {"finding", "moving", "intakes"}
        /\ IsMoving(cycle'[n]) => List(cycle'[n]) \subseteq List(cycle[n])
        /\ \A m \in List(cycle[n]) :
              m.version \in Sprints => IsMoving(cycle'[n]) /\ m \in List(cycle'[n])
    <2>1. CASE Continue(n, "moving")
      BY <2>1, ContinueOutcome DEF List, IsMoving
    <2>2. CASE cycle[n].item.version \notin Sprints /\ NextMove(n, cycle[n].todo)
      <3>1. /\ OthersStay(n)
            /\ \/ cycle[n].todo = {} /\ cycle'[n].pc = "intakes"
               \/ cycle'[n].pc = "finding" /\ List(cycle'[n]) = cycle[n].todo
        BY <2>2, NextItemOutcome DEF NextMove
      <3> QED
        BY <2>2, <3>1 DEF List, IsMoving
    <2> QED
      BY <1>2, <2>1, <2>2
  <1>4. \A m, k \in InFlight' : m = k
    BY <1>0, <1>1, <1>3 DEF Following, InFlight, OthersStay
  <1>5. ASSUME NEW m \in Cycles, IsMoving(cycle'[m]), NEW k \in List(cycle'[m])
        PROVE  k.date = lastSeen'[k.version]
    <2>1. IsMoving(cycle[m]) /\ k \in List(cycle[m])
      BY <1>0, <1>3, <1>5 DEF OthersStay, IsMoving
    <2> QED
      BY <1>0, <1>1, <2>1 DEF Following, DatesStay
  <1>6. ASSUME NEW v \in Sprints, WillMove(v) PROVE WillMove(v)'
    <2>1. PICK m \in Cycles : IsMoving(cycle[m]) /\ \E k \in List(cycle[m]) : k.version = v
      BY <1>6 DEF WillMove
    <2>2. IsMoving(cycle'[m]) /\ \E k \in List(cycle'[m]) : k.version = v
      BY <1>3, <2>1 DEF OthersStay
    <2> QED
      BY <2>2 DEF WillMove
  <1>7. \A v \in Sprints \cap noticed' : sprintEnd'[v] = lastSeen'[v] \/ WillMove(v)'
    BY <1>0, <1>1, <1>6 DEF Following, DatesStay
  <1> QED
    BY <1>4, <1>5, <1>7 DEF Following

\* The sprint is moved to the date last seen, and the rest of the list stays.
LEMMA MovedFollows ==
    ASSUME WellFormed, WellFormed', Following, NEW n \in Cycles, CycleStep(n), SprintMoved(n)
    PROVE  Following'
  <1> SUFFICES ASSUME misses' = 0, overlaps' = 0 PROVE Following'
    BY DEF Following
  <1> DEFINE u == cycle[n].item.version
  <1>0. /\ misses \in Nat /\ overlaps' = overlaps /\ misses' >= misses
        /\ cycle[n].pc = "moving" /\ lastSeen' = lastSeen /\ noticed' = noticed
        /\ sprintEnd \in [Sprints -> Dates] /\ NextMove(n, cycle[n].todo)
    BY DEF WellFormed, TypeOK, CycleStep, SprintMoved, Miss, Fine, memory, told
  <1>1. misses = 0 /\ overlaps = 0
    BY <1>0, NoTrouble
  <1>2. sprintEnd' = [sprintEnd EXCEPT ![u] = cycle[n].item.date]
    BY <1>0, <1>1 DEF SprintMoved, Miss
  <1>3. cycle[n].item.date = lastSeen[u]
    BY <1>0, <1>1 DEF Following, IsMoving, List
  <1>4. /\ OthersStay(n)
        /\ \/ cycle[n].todo = {} /\ cycle'[n].pc = "intakes"
           \/ cycle'[n].pc = "finding" /\ List(cycle'[n]) = cycle[n].todo
    BY <1>0, NextItemOutcome DEF NextMove
  <1>5. \A m, k \in InFlight' : m = k
    BY <1>0, <1>1, <1>4 DEF Following, InFlight, OthersStay
  <1>6. ASSUME NEW m \in Cycles, IsMoving(cycle'[m]), NEW k \in List(cycle'[m])
        PROVE  k.date = lastSeen'[k.version]
    <2>1. IsMoving(cycle[m]) /\ k \in List(cycle[m])
      BY <1>0, <1>4, <1>6 DEF OthersStay, IsMoving, List
    <2> QED
      BY <1>0, <1>1, <2>1 DEF Following
  <1>7. ASSUME NEW v \in Sprints \cap noticed PROVE sprintEnd'[v] = lastSeen'[v] \/ WillMove(v)'
    <2>1. CASE v = u
      BY <1>0, <1>2, <1>3, <2>1
    <2>2. CASE v # u /\ sprintEnd[v] = lastSeen[v]
      BY <1>0, <1>2, <2>2
    <2>3. CASE v # u /\ WillMove(v)
      <3>1. PICK m \in Cycles : IsMoving(cycle[m]) /\ \E k \in List(cycle[m]) : k.version = v
        BY <2>3 DEF WillMove
      <3>2. IsMoving(cycle'[m]) /\ \E k \in List(cycle'[m]) : k.version = v
        <4>1. CASE m = n
          BY <1>4, <2>3, <3>1, <4>1 DEF List, IsMoving
        <4>2. CASE m # n
          BY <1>4, <3>1, <4>2 DEF OthersStay
        <4> QED
          BY <4>1, <4>2
      <3> QED
        BY <3>2 DEF WillMove
    <2> QED
      BY <1>1, <2>1, <2>2, <2>3 DEF Following
  <1> QED
    BY <1>0, <1>5, <1>6, <1>7 DEF Following

\* Without overlaps a cycle starts alone.
LEMMA StartFollows ==
    ASSUME WellFormed, WellFormed', Following, NEW n \in Cycles, StartCycle(n)
    PROVE  Following'
  <1> SUFFICES ASSUME misses' = 0, overlaps' = 0 PROVE Following'
    BY DEF Following
  <1>0. /\ misses' = misses /\ overlaps' = overlaps + Cardinality(InFlight) /\ DatesStay
        /\ cycle[n].pc = "idle" /\ cycle' = [cycle EXCEPT ![n] = At("handoffs", 0)]
        /\ overlaps \in Nat /\ Cardinality(InFlight) \in Nat
    BY InFlightCount DEF StartCycle, jira, memory, told, DatesStay, WellFormed, TypeOK
  <1>1. overlaps = 0 /\ Cardinality(InFlight) = 0
    BY <1>0
  <1>2. InFlight = {}
    BY <1>1, InFlightCount, FS_EmptySet
  <1>3. /\ \A m \in Cycles : ~IsMoving(cycle[m]) /\ ~IsMoving(cycle'[m])
        /\ \A m, k \in InFlight' : m = k
    BY <1>0, <1>2 DEF InFlight, IsMoving, At, WellFormed, CyclesFit
  <1>4. \A v \in Sprints \cap noticed : sprintEnd[v] = lastSeen[v]
    BY <1>0, <1>1, <1>3 DEF Following, WillMove
  <1> QED
    BY <1>0, <1>3, <1>4 DEF Following, DatesStay

LEMMA NextFollowing == WellFormed /\ WellFormed' /\ Following /\ [Next]_vars => Following'
  <1> SUFFICES ASSUME WellFormed, WellFormed', Following, [Next]_vars PROVE Following'
    OBVIOUS
  <1>1. ASSUME cycle' = cycle, misses' = misses, overlaps' = overlaps, DatesStay PROVE Following'
    BY <1>1 DEF Following, DatesStay, InFlight, IsMoving, List, WillMove
  <1>2. CASE UNCHANGED vars
    BY <1>1, <1>2 DEF vars, jira, memory, told, bounds, DatesStay
  <1>3. CASE \/ \E i \in DevIssues, value \in Kinds \cup {"other"} : SetSubStatus(i, value)
             \/ \E i \in DevIssues \cup Intakes : Touch(i)
             \/ \E i \in Intakes : Label(i)
             \/ \E v \in Versions, date \in Dates \cup {None} : Reschedule(v, date)
             \/ AskForViolations \/ TimePasses
    BY <1>1, <1>3
       DEF SetSubStatus, Touch, Label, Reschedule, AskForViolations, TimePasses, jira, memory, told,
           bounds, DatesStay
  <1>4. CASE Restart
    BY <1>4 DEF Restart, AllIdle, Idle, At, Following, InFlight, IsMoving
  <1>7. CASE AnswerViolation
    <2> SUFFICES ASSUME misses' = 0, overlaps' = 0 PROVE Following'
      BY DEF Following
    <2>1. /\ cycle' = cycle /\ misses' >= misses /\ overlaps' = overlaps /\ DatesStay
          /\ misses \in Nat /\ overlaps \in Nat
      BY <1>7 DEF AnswerViolation, Flag, Miss, Fine, jira, memory, DatesStay, WellFormed, TypeOK
    <2>2. misses' = misses
      BY <2>1, NoTrouble
    <2> QED
      BY <1>1, <2>1, <2>2
  <1>5. CASE Poll \/ RunNow
    BY <1>5, StartFollows DEF Poll, RunNow
  <1>6. ASSUME NEW n \in Cycles, CycleStep(n) PROVE Following'
    BY <1>6, StepsAside, AsideFollows, VersionsFollow, FoundFollows, MovedFollows
  <1> QED
    BY <1>2, <1>3, <1>4, <1>5, <1>6, <1>7 DEF Next

\* While no request fails and no cycles overlap, every sprint whose release date is seen to
\* change ends on the date last seen once the cycle is over.
THEOREM SprintsFollowReleases == Spec => []SprintFollows
  <1>1. Init => Following
    BY DEF Init, AllIdle, Idle, At, Following, InFlight, IsMoving
  <1>2. WellFormed /\ Following => SprintFollows
    <2> SUFFICES ASSUME WellFormed, Following, misses + overlaps = 0, InFlight = {},
                        NEW v \in Sprints \cap noticed
                 PROVE  sprintEnd[v] = lastSeen[v]
      BY DEF SprintFollows
    <2>1. misses \in Nat /\ overlaps \in Nat
      BY DEF WellFormed, TypeOK
    <2>2. misses = 0 /\ overlaps = 0
      BY <2>1
    <2>3. ~WillMove(v)
      BY DEF WillMove, IsMoving, InFlight
    <2> QED
      BY <2>2, <2>3 DEF Following
  <1> QED
    BY <1>1, <1>2, InitWellFormed, NextWellFormed, NextFollowing, PTL DEF Spec

-----------------------------------------------------------------------------
(* No handoff is missed.                                                   *)

Watched(i) == i \notin ConfigOnly /\ sub[i].value \in Kinds

\* Event e is about the sub-status that issue i has.
Calls(e, i) == e.issue = i /\ e.kind = sub[i].value

\* Cycle c is about to announce it.
PendingIn(c, i) ==
    \/ c.pc = "detecting" /\ Latest(i) \in c.todo
    \/ c.pc \in {"closing", "commenting"} /\ Calls(c.item, i)
    \/ c.pc \in {"closing", "commenting", "recording"} /\ \E e \in c.todo : Calls(e, i)

Pending(i) == \E n \in Cycles : PendingIn(cycle[n], i)

\* Whatever is recorded, or about to be, about a sub-status that has not been announced is
\* from before it was set.
Unrecorded(i) ==
    i \notin announced =>
        /\ lastHandoff[i][sub[i].value] < sub[i].at
        /\ \A n \in Cycles : cycle[n].pc = "recording" /\ Calls(cycle[n].item, i) => cycle[n].stamp < sub[i].at

Fresh(i) == i \in unseen /\ (updated[i] >= searched \/ gapped)
Found(i) == Fresh(i) \/ i \in announced \/ Pending(i)

Minded(i) == Unrecorded(i) /\ Found(i)
AllMinded == JiraAhead >= 0 /\ misses = 0 /\ restarts = 0 => \A i \in DevIssues : Watched(i) => Minded(i)

\* What is updated is in sight of the next search.
Touched(i) ==
    \/ updated'[i] = updated[i] /\ (i \in unseen => i \in unseen')
    \/ updated'[i] = now /\ i \in unseen'

TroublesGrow == misses' >= misses /\ restarts' >= restarts

\* A step under which issue i is fresh if it was.
LEMMA FreshStays ==
    ASSUME WellFormed, NEW i \in DevIssues, Touched(i), UNCHANGED search
    PROVE  Fresh(i) => Fresh(i)'
  <1>1. searched \in 0..now /\ now \in Nat /\ searched' = searched /\ gapped' = gapped
    BY DEF WellFormed, TypeOK, search
  <1>2. CASE updated'[i] = updated[i] /\ (i \in unseen => i \in unseen')
    BY <1>1, <1>2 DEF Fresh
  <1>3. CASE updated'[i] = now /\ i \in unseen'
    <2>1. now >= searched
      BY <1>1
    <2> QED
      BY <1>1, <1>3, <2>1 DEF Fresh
  <1> QED
    BY <1>2, <1>3 DEF Touched

LEMMA UpdateTouches ==
    ASSUME WellFormed, NEW S, Update(S), NEW i \in DevIssues
    PROVE  Touched(i)
  <1>1. i \in DevIssues \cup Intakes /\ updated \in [DevIssues \cup Intakes -> 0..Horizon]
    BY DEF WellFormed, TypeOK
  <1>2. CASE i \in S
    BY <1>1, <1>2 DEF Update, Touched
  <1>3. CASE i \notin S
    BY <1>1, <1>3 DEF Update, Touched
  <1> QED
    BY <1>2, <1>3

\* What cycle n makes of its list, when it goes on with the events of todo.
LEMMA TakesNext ==
    ASSUME WellFormed, NEW n \in Cycles, NEW todo, NextHandoff(n, todo)
    PROVE  /\ OthersStay(n)
           /\ \/ todo = {} /\ cycle'[n].pc = "versions"
              \/ /\ cycle'[n].pc = "closing" /\ cycle'[n].stamp = now
                 /\ cycle'[n].item \in todo /\ cycle'[n].todo = todo \ {cycle'[n].item}
  <1>1. cycle \in [Cycles -> CycleRecord(now)] /\ now \in Nat
    BY DEF WellFormed, TypeOK, CyclesFit
  <1>2. CASE todo = {} /\ cycle' = [cycle EXCEPT ![n] = At("versions", 0)]
    BY <1>1, <1>2 DEF At, OthersStay
  <1>3. ASSUME NEW i \in todo, cycle' = [cycle EXCEPT ![n] = Taking("closing", i, todo, now, cycle[n].day)]
        PROVE  /\ OthersStay(n)
               /\ cycle'[n].pc = "closing" /\ cycle'[n].stamp = now
               /\ cycle'[n].item \in todo /\ cycle'[n].todo = todo \ {cycle'[n].item}
    BY <1>1, <1>3 DEF Taking, OthersStay
  <1> QED
    BY <1>1, <1>2, <1>3, NextItemFacts DEF NextHandoff

HandoffsStay == sub' = sub /\ lastHandoff' = lastHandoff /\ announced' = announced /\ comments' = comments

\* A cycle that is not at work on handoffs, and a step of one.
IsElsewhere(c) ==
    c.pc \notin {"handoffs", "detecting", "closing", "commenting", "recording"}

Elsewhere(n) ==
    /\ OthersStay(n) /\ HandoffsStay /\ now' = now /\ UNCHANGED search /\ TroublesGrow
    /\ \A i \in DevIssues : Touched(i)
    /\ IsElsewhere(cycle[n])
    /\ IsElsewhere(cycle'[n]) \/ cycle'[n].pc = "handoffs"

LEMMA StepsElsewhere ==
    ASSUME WellFormed, NEW n \in Cycles, CycleStep(n),
           ~(SearchHandoffs(n) \/ HandoffsFound(n) \/ Closed(n) \/ Commented(n) \/ Recorded(n))
    PROVE  Elsewhere(n) /\ IsElsewhere(cycle'[n])
  <1>0. now' = now /\ restarts' = restarts /\ restarts \in Nat /\ misses \in Nat
    BY DEF CycleStep, WellFormed, TypeOK
  <1>1. CASE VersionsFound(n) \/ SprintFound(n) \/ SprintMoved(n)
    <2>1. /\ HandoffsStay /\ updated' = updated /\ unseen' = unseen /\ UNCHANGED search /\ misses' >= misses
          /\ cycle[n].pc \in {"versions", "finding", "moving"}
      BY <1>0, <1>1 DEF VersionsFound, SprintFound, SprintMoved, jira, memory, told, HandoffsStay, Miss, Fine
    <2>2. OthersStay(n) /\ cycle'[n].pc \in {"finding", "moving", "intakes"}
      BY <1>1, NextItemOutcome, ContinueOutcome DEF VersionsFound, SprintFound, SprintMoved, NextMove
    <2> QED
      BY <1>0, <2>1, <2>2 DEF Elsewhere, IsElsewhere, Touched, TroublesGrow
  <1>2. CASE IntakesFound(n) \/ DefectCreated(n) \/ Linked(n) \/ Unlabelled(n)
    <2>1. /\ HandoffsStay /\ UNCHANGED search /\ misses' >= misses
          /\ cycle[n].pc \in {"intakes", "creating", "linking", "unlabelling"}
      BY <1>0, <1>2 DEF IntakesFound, DefectCreated, Linked, Unlabelled, jira, memory, told, HandoffsStay,
                        Miss, Fine
    <2>2. OthersStay(n) /\ cycle'[n].pc \in Late \cup {"creating", "linking", "unlabelling"}
      BY <1>2, NextIntakeOutcome, ContinueOutcome
         DEF IntakesFound, DefectCreated, NotCreated, Linked, Unlabelled
    <2>3. (\E S : Update(S)) \/ (updated' = updated /\ unseen' = unseen)
      BY <1>2 DEF IntakesFound, DefectCreated, Linked, Unlabelled, jira
    <2>4. \A i \in DevIssues : Touched(i)
      BY <2>3, UpdateTouches DEF Touched
    <2> QED
      BY <1>0, <2>1, <2>2, <2>4 DEF Elsewhere, IsElsewhere, TroublesGrow, Late
  <1>3. CASE SprintRead(n) \/ Flagged(n)
    <2>1. /\ HandoffsStay /\ updated' = updated /\ unseen' = unseen /\ UNCHANGED search /\ misses' >= misses
          /\ cycle[n].pc \in {"sprint", "flagging"}
      BY <1>0, <1>3 DEF SprintRead, Flagged, Flag, jira, told, HandoffsStay, Miss, Fine
    <2>2. OthersStay(n) /\ cycle'[n].pc \in Late
      <3>1. CASE cycle' = [cycle EXCEPT ![n] = Idle]
        BY <3>1 DEF Idle, At, OthersStay, Late, WellFormed, CyclesFit
      <3> QED
        BY <1>3, <3>1, NextFlagOutcome DEF SprintRead, ScanGivenUp, Flagged
    <2> QED
      BY <1>0, <2>1, <2>2 DEF Elsewhere, IsElsewhere, Touched, TroublesGrow, Late
  <1> QED
    BY <1>1, <1>2, <1>3 DEF CycleStep

LEMMA StartsElsewhere ==
    ASSUME WellFormed, NEW n \in Cycles, StartCycle(n)
    PROVE  Elsewhere(n)
  <1>1. OthersStay(n) /\ cycle[n].pc = "idle" /\ cycle'[n].pc = "handoffs"
    BY DEF StartCycle, OthersStay, At, WellFormed, CyclesFit
  <1>2. HandoffsStay /\ now' = now /\ UNCHANGED search /\ updated' = updated /\ unseen' = unseen
    BY DEF StartCycle, jira, memory, told, HandoffsStay
  <1>3. TroublesGrow
    BY DEF StartCycle, TroublesGrow, WellFormed, TypeOK
  <1> QED
    BY <1>1, <1>2, <1>3 DEF Elsewhere, IsElsewhere, Touched

\* Without failures or restarts after a step, there were none before it.
LEMMA NoTroubleYet ==
    ASSUME WellFormed, WellFormed', misses' = 0, restarts' = 0, TroublesGrow
    PROVE  misses = 0 /\ restarts = 0
  BY DEF TroublesGrow, WellFormed, TypeOK

LEMMA PendingStays ==
    ASSUME NEW n \in Cycles, OthersStay(n), NEW i \in DevIssues, sub' = sub
    PROVE  (PendingIn(cycle[n], i) => PendingIn(cycle[n], i)') => (Pending(i) => Pending(i)')
  <1> SUFFICES ASSUME PendingIn(cycle[n], i) => PendingIn(cycle[n], i)', Pending(i) PROVE Pending(i)'
    OBVIOUS
  <1>1. PICK m \in Cycles : PendingIn(cycle[m], i)
    BY DEF Pending
  <1>2. CASE m = n
    BY <1>1, <1>2 DEF Pending
  <1>3. CASE m # n
    BY <1>1, <1>3 DEF OthersStay, Pending, PendingIn, Latest, Calls
  <1> QED
    BY <1>2, <1>3

\* The cycles of a state may be recording what the others were not.
LEMMA UnrecordedStays ==
    ASSUME NEW n \in Cycles, OthersStay(n), NEW i \in DevIssues, sub' = sub, announced' = announced,
           Unrecorded(i), lastHandoff'[i] = lastHandoff[i],
           cycle'[n].pc # "recording"
    PROVE  Unrecorded(i)'
  BY DEF OthersStay, Unrecorded, Calls

LEMMA ElsewhereMinded ==
    ASSUME WellFormed, WellFormed', AllMinded, NEW n \in Cycles, Elsewhere(n)
    PROVE  AllMinded'
  <1> SUFFICES ASSUME JiraAhead >= 0, misses' = 0, restarts' = 0, NEW i \in DevIssues, Watched(i)'
               PROVE  Minded(i)'
    BY DEF AllMinded
  <1>1. misses = 0 /\ restarts = 0
    BY NoTroubleYet DEF Elsewhere
  <1>2. Minded(i)
    BY <1>1 DEF AllMinded, Watched, Elsewhere, HandoffsStay
  <1>3. Unrecorded(i)'
    BY <1>2, UnrecordedStays DEF Minded, Elsewhere, HandoffsStay, IsElsewhere
  <1>4. Pending(i) => Pending(i)'
    BY PendingStays DEF Elsewhere, HandoffsStay, IsElsewhere, PendingIn
  <1>5. Fresh(i) => Fresh(i)'
    BY FreshStays DEF Elsewhere
  <1>6. Found(i)'
    BY <1>2, <1>4, <1>5 DEF Minded, Found, Elsewhere, HandoffsStay
  <1> QED
    BY <1>3, <1>6 DEF Minded

\* A search takes what it reaches, and leaves what is still fresh, or there is a gap.
LEMMA SearchMinded ==
    ASSUME WellFormed, WellFormed', AllMinded, NEW n \in Cycles, CycleStep(n), SearchHandoffs(n)
    PROVE  AllMinded'
  <1> SUFFICES ASSUME JiraAhead >= 0, misses' = 0, restarts' = 0, NEW i \in DevIssues, Watched(i)'
               PROVE  Minded(i)'
    BY DEF AllMinded
  <1>0. /\ misses' = misses /\ restarts' = restarts /\ HandoffsStay /\ updated' = updated /\ searched' = now
        /\ now \in Nat /\ searched \in 0..now /\ updated[i] \in Nat
    BY DEF CycleStep, SearchHandoffs, memory, told, HandoffsStay, WellFormed, TypeOK
  <1>1. Watched(i) /\ Minded(i)
    BY <1>0 DEF AllMinded, Watched, HandoffsStay
  <1>2. OthersStay(n) /\ cycle[n].pc = "handoffs" /\ cycle'[n].pc = "detecting"
    BY SearchOutcome
  <1>3. PICK window \in PollWindows :
           /\ cycle' = [cycle EXCEPT ![n] =
                         [At("detecting", 0) EXCEPT
                            !.todo = {[issue |-> j, kind |-> sub[j].value, at |-> sub[j].at] :
                                        j \in {k \in {l \in DevIssues : InWindow(l, window)} :
                                                 sub[k].value \in Kinds}}]]
           /\ unseen' = unseen \ {l \in DevIssues : InWindow(l, window)}
           /\ gapped' = (gapped \/ searched + window < now)
    BY DEF SearchHandoffs
  <1>4. window \in Nat
    BY TimeAssumption
  <1>5. Unrecorded(i)'
    BY <1>0, <1>1, <1>2, UnrecordedStays DEF Minded, HandoffsStay
  <1>6. CASE InWindow(i, window)
    <2>1. Latest(i) \in cycle'[n].todo
      BY <1>1, <1>3, <1>6 DEF Latest, Watched, At, WellFormed, CyclesFit
    <2>2. Latest(i)' = Latest(i)
      BY <1>0 DEF Latest, HandoffsStay
    <2>3. PendingIn(cycle[n], i)'
      BY <1>2, <2>1, <2>2 DEF PendingIn
    <2> QED
      BY <1>5, <2>3 DEF Minded, Found, Pending
  <1>7. CASE ~InWindow(i, window)
    <2>1. updated[i] + window < now
      BY <1>0, <1>4, <1>7 DEF InWindow
    <2>2. Fresh(i) => Fresh(i)'
      <3>1. CASE gapped
        BY <1>3, <1>7, <3>1 DEF Fresh
      <3>2. CASE updated[i] >= searched
        <4>1. searched + window < now
          BY <1>0, <1>4, <2>1, <3>2
        <4> QED
          BY <1>3, <1>7, <4>1 DEF Fresh
      <3> QED
        BY <3>1, <3>2 DEF Fresh
    <2>3. Pending(i) => Pending(i)'
      BY <1>0, <1>2, PendingStays DEF PendingIn, HandoffsStay
    <2> QED
      BY <1>0, <1>1, <1>5, <2>2, <2>3 DEF Minded, Found, HandoffsStay
  <1> QED
    BY <1>6, <1>7

\* What the process has on record does not hide a handoff that was not announced.
LEMMA FoundMinded ==
    ASSUME WellFormed, WellFormed', AllMinded, NEW n \in Cycles, CycleStep(n), HandoffsFound(n)
    PROVE  AllMinded'
  <1> SUFFICES ASSUME JiraAhead >= 0, misses' = 0, restarts' = 0, NEW i \in DevIssues, Watched(i)'
               PROVE  Minded(i)'
    BY DEF AllMinded
  <1>0. /\ HandoffsStay /\ updated' = updated /\ unseen' = unseen /\ UNCHANGED search /\ TroublesGrow
        /\ cycle[n].pc = "detecting"
    BY DEF CycleStep, HandoffsFound, jira, memory, told, HandoffsStay, Miss, Fine, TroublesGrow,
           WellFormed, TypeOK
  <1>1. misses = 0 /\ restarts = 0 /\ misses' # misses + 1
    <2>1. misses = 0 /\ restarts = 0
      BY <1>0, NoTroubleYet
    <2> QED
      BY <2>1
  <1>2. Watched(i) /\ Minded(i) /\ Latest(i)' = Latest(i)
    BY <1>0, <1>1 DEF AllMinded, Watched, HandoffsStay, Latest
  <1>3. NextHandoff(n, detectSubStatusChanges(n))
    BY <1>1 DEF HandoffsFound, Miss
  <1>4. /\ OthersStay(n)
        /\ \/ detectSubStatusChanges(n) = {} /\ cycle'[n].pc = "versions"
           \/ /\ cycle'[n].pc = "closing"
              /\ cycle'[n].item \in detectSubStatusChanges(n)
              /\ cycle'[n].todo = detectSubStatusChanges(n) \ {cycle'[n].item}
    BY <1>3, TakesNext
  <1>5. Unrecorded(i)'
    BY <1>0, <1>2, <1>4, UnrecordedStays DEF Minded, HandoffsStay
  <1>6. CASE i \in announced \/ Fresh(i)
    <2>1. Touched(i)
      BY <1>0 DEF Touched
    <2> QED
      BY <1>0, <1>5, <1>6, <2>1, FreshStays DEF Minded, Found, HandoffsStay
  <1>7. CASE i \notin announced /\ Pending(i)
    <2>1. PendingIn(cycle[n], i) => PendingIn(cycle[n], i)'
      <3> SUFFICES ASSUME Latest(i) \in cycle[n].todo PROVE PendingIn(cycle[n], i)'
        BY <1>0 DEF PendingIn
      <3>1. /\ lastHandoff[i][sub[i].value] < sub[i].at /\ lastHandoff[i][sub[i].value] \in Nat
            /\ sub[i].at \in Nat
        BY <1>2, <1>7 DEF Minded, Unrecorded, Watched, WellFormed, TypeOK
      <3>2. Latest(i).issue = i /\ Latest(i).kind = sub[i].value /\ Latest(i).at = sub[i].at
        BY DEF Latest
      <3>3. ~AlreadyHandedOver(Latest(i))
        BY <3>1, <3>2, TimeAssumption DEF AlreadyHandedOver
      <3>4. Latest(i) \in detectSubStatusChanges(n)
        BY <3>3 DEF detectSubStatusChanges
      <3>5. Calls(Latest(i), i) /\ sub' = sub
        BY <1>0, <3>2 DEF Calls, HandoffsStay
      <3> QED
        BY <1>4, <3>4, <3>5 DEF PendingIn, Calls
    <2>2. Pending(i)'
      BY <1>0, <1>4, <1>7, <2>1, PendingStays DEF HandoffsStay
    <2> QED
      BY <1>5, <2>2 DEF Minded, Found
  <1> QED
    BY <1>2, <1>6, <1>7 DEF Minded, Found

\* The list of cycle n without its item is on the list it goes on with.
LEMMA GoesOnPending ==
    ASSUME WellFormed, NEW n \in Cycles, NextHandoff(n, cycle[n].todo), sub' = sub, NEW i \in DevIssues,
           cycle[n].pc \in {"closing", "commenting", "recording"},
           PendingIn(cycle[n], i)
    PROVE  PendingIn(cycle[n], i)' \/ (cycle[n].pc \in {"closing", "commenting"} /\ Calls(cycle[n].item, i))
  <1>1. \/ cycle[n].todo = {} /\ cycle'[n].pc = "versions"
        \/ /\ cycle'[n].pc = "closing"
           /\ cycle'[n].item \in cycle[n].todo
           /\ cycle'[n].todo = cycle[n].todo \ {cycle'[n].item}
    BY TakesNext
  <1>2. CASE \E e \in cycle[n].todo : Calls(e, i)
    BY <1>1, <1>2 DEF PendingIn, Calls
  <1> QED
    BY <1>2 DEF PendingIn

LEMMA ClosedMinded ==
    ASSUME WellFormed, WellFormed', AllMinded, NEW n \in Cycles, CycleStep(n), Closed(n)
    PROVE  AllMinded'
  <1> SUFFICES ASSUME JiraAhead >= 0, misses' = 0, restarts' = 0, NEW i \in DevIssues, Watched(i)'
               PROVE  Minded(i)'
    BY DEF AllMinded
  <1>0. /\ misses' = misses /\ restarts' = restarts /\ sub' = sub /\ announced' = announced
        /\ UNCHANGED search /\ cycle[n].pc = "closing" /\ lastHandoff \in [DevIssues -> [Kinds -> 0..now]]
    BY DEF CycleStep, Closed, told, WellFormed, TypeOK
  <1>1. Watched(i) /\ Minded(i)
    BY <1>0 DEF AllMinded, Watched
  <1>2. Touched(i)
    BY UpdateTouches DEF Closed, Touched
  <1>3. /\ OthersStay(n) /\ cycle'[n].pc # "recording" /\ lastHandoff'[i] = lastHandoff[i]
        /\ PendingIn(cycle[n], i) => PendingIn(cycle[n], i)'
    <2>1. CASE cycle[n].item.issue \in ConfigOnly
      <3>1. /\ NextHandoff(n, cycle[n].todo) /\ cycle[n].item.issue # i
            /\ lastHandoff' = [lastHandoff EXCEPT ![cycle[n].item.issue]["QE"] = cycle[n].stamp]
        BY <1>1, <2>1 DEF Closed, Watched
      <3>2. lastHandoff'[i] = lastHandoff[i]
        BY <1>0, <3>1
      <3>3. OthersStay(n) /\ cycle'[n].pc # "recording"
        BY <3>1, TakesNext
      <3>4. PendingIn(cycle[n], i) => PendingIn(cycle[n], i)'
        BY <1>0, <3>1, GoesOnPending DEF Calls
      <3> QED
        BY <3>2, <3>3, <3>4
    <2>2. CASE cycle[n].item.issue \notin ConfigOnly
      <3>1. Continue(n, "commenting") /\ lastHandoff' = lastHandoff
        BY <2>2 DEF Closed
      <3>2. /\ OthersStay(n) /\ cycle'[n].pc = "commenting"
            /\ cycle'[n].item = cycle[n].item /\ cycle'[n].todo = cycle[n].todo
        BY <3>1, ContinueOutcome
      <3>3. PendingIn(cycle[n], i) => PendingIn(cycle[n], i)'
        BY <1>0, <3>2 DEF PendingIn, Calls
      <3> QED
        BY <3>1, <3>2, <3>3
    <2> QED
      BY <2>1, <2>2
  <1>4. Unrecorded(i)'
    BY <1>0, <1>1, <1>3, UnrecordedStays DEF Minded
  <1>5. Found(i)'
    BY <1>0, <1>1, <1>2, <1>3, FreshStays, PendingStays DEF Minded, Found
  <1> QED
    BY <1>4, <1>5 DEF Minded

\* The comment announces the sub-status its event is about.
LEMMA CommentedMinded ==
    ASSUME WellFormed, WellFormed', AllMinded, NEW n \in Cycles, CycleStep(n), Commented(n)
    PROVE  AllMinded'
  <1> SUFFICES ASSUME JiraAhead >= 0, misses' = 0, restarts' = 0, NEW i \in DevIssues, Watched(i)'
               PROVE  Minded(i)'
    BY DEF AllMinded
  <1> DEFINE e == cycle[n].item
  <1>0. /\ sub' = sub /\ lastHandoff' = lastHandoff /\ UNCHANGED search /\ TroublesGrow
        /\ cycle[n].pc = "commenting" /\ Continue(n, "recording")
    BY DEF CycleStep, Commented, memory, Miss, Fine, TroublesGrow, WellFormed, TypeOK
  <1>1. misses = 0 /\ restarts = 0 /\ misses' # misses + 1
    <2>1. misses = 0 /\ restarts = 0
      BY <1>0, NoTroubleYet
    <2> QED
      BY <2>1
  <1>2. /\ announced' = IF sub[e.issue].value = e.kind THEN announced \cup {e.issue} ELSE announced
        /\ Update({e.issue})
    BY <1>1 DEF Commented, Miss
  <1>3. Watched(i) /\ Minded(i)
    BY <1>0, <1>1 DEF AllMinded, Watched
  <1>4. /\ OthersStay(n) /\ cycle'[n].pc = "recording"
        /\ cycle'[n].item = cycle[n].item /\ cycle'[n].todo = cycle[n].todo
    BY <1>0, ContinueOutcome
  <1>5. CASE Calls(e, i)
    <2>1. i \in announced'
      BY <1>2, <1>5 DEF Calls
    <2> QED
      BY <2>1 DEF Minded, Unrecorded, Found
  <1>6. CASE ~Calls(e, i)
    <2>1. i \in announced' <=> i \in announced
      BY <1>2, <1>6 DEF Calls
    <2>2. \A m \in Cycles : (cycle[m].pc = "recording" /\ Calls(cycle[m].item, i))' => cycle'[m] = cycle[m]
      BY <1>0, <1>4, <1>6 DEF OthersStay, Calls
    <2>3. Unrecorded(i)'
      BY <1>0, <1>3, <2>1, <2>2 DEF Minded, Unrecorded, Calls
    <2>4. PendingIn(cycle[n], i) => PendingIn(cycle[n], i)'
      BY <1>0, <1>4, <1>6 DEF PendingIn, Calls
    <2>5. Touched(i)
      BY <1>2, UpdateTouches
    <2> QED
      BY <1>0, <1>3, <1>4, <2>1, <2>3, <2>4, <2>5, FreshStays, PendingStays DEF Minded, Found
  <1> QED
    BY <1>5, <1>6

LEMMA RecordedMinded ==
    ASSUME WellFormed, WellFormed', AllMinded, NEW n \in Cycles, CycleStep(n), Recorded(n)
    PROVE  AllMinded'
  <1> SUFFICES ASSUME JiraAhead >= 0, misses' = 0, restarts' = 0, NEW i \in DevIssues, Watched(i)'
               PROVE  Minded(i)'
    BY DEF AllMinded
  <1> DEFINE e == cycle[n].item
  <1>0. /\ misses' = misses /\ restarts' = restarts /\ sub' = sub /\ announced' = announced
        /\ updated' = updated /\ unseen' = unseen /\ UNCHANGED search
        /\ cycle[n].pc = "recording" /\ NextHandoff(n, cycle[n].todo)
        /\ lastHandoff' = [lastHandoff EXCEPT ![e.issue][e.kind] = cycle[n].stamp]
        /\ lastHandoff \in [DevIssues -> [Kinds -> 0..now]]
    BY DEF CycleStep, Recorded, recordHandoff, jira, told, WellFormed, TypeOK
  <1>1. Watched(i) /\ Minded(i) /\ sub[i].value \in Kinds
    BY <1>0 DEF AllMinded, Watched
  <1>2. OthersStay(n) /\ cycle'[n].pc # "recording" /\ e.issue \in DevIssues /\ e.kind \in Kinds
    BY <1>0, TakesNext, LeftType
  <1>3. ASSUME Calls(e, i) PROVE Unrecorded(i)'
    <2>1. lastHandoff'[i][sub[i].value] = cycle[n].stamp
      BY <1>0, <1>2, <1>3 DEF Calls
    <2>2. i \notin announced => cycle[n].stamp < sub[i].at
      BY <1>0, <1>1, <1>3 DEF Minded, Unrecorded
    <2> QED
      BY <1>0, <1>1, <1>2, <2>1, <2>2 DEF Minded, Unrecorded, Calls, OthersStay
  <1>4. ASSUME ~Calls(e, i) PROVE Unrecorded(i)'
    <2>1. lastHandoff'[i][sub[i].value] = lastHandoff[i][sub[i].value]
      BY <1>0, <1>1, <1>2, <1>4 DEF Calls
    <2> QED
      BY <1>0, <1>1, <1>2, <2>1 DEF Minded, Unrecorded, Calls, OthersStay
  <1>5. Touched(i)
    BY <1>0 DEF Touched
  <1>6. PendingIn(cycle[n], i) => PendingIn(cycle[n], i)'
    BY <1>0, GoesOnPending
  <1>7. Found(i)'
    BY <1>0, <1>1, <1>2, <1>5, <1>6, FreshStays, PendingStays DEF Minded, Found
  <1> QED
    BY <1>3, <1>4, <1>7 DEF Minded

\* A new sub-status is later than every moment noted so far.
LEMMA SubStatusMinded ==
    ASSUME WellFormed, WellFormed', AllMinded,
           NEW j \in DevIssues, NEW value \in Kinds \cup {"other"}, SetSubStatus(j, value)
    PROVE  AllMinded'
  <1> SUFFICES ASSUME JiraAhead >= 0, misses' = 0, restarts' = 0, NEW i \in DevIssues, Watched(i)'
               PROVE  Minded(i)'
    BY DEF AllMinded
  <1>0. /\ misses' = misses /\ restarts' = restarts /\ cycle' = cycle /\ UNCHANGED search
        /\ lastHandoff' = lastHandoff /\ now \in Nat /\ now' = now + 1
        /\ sub' = [sub EXCEPT ![j] = [value |-> value, at |-> now + 1]]
        /\ announced' = announced \ {j} /\ unseen' = unseen \cup {j}
        /\ updated' = [updated EXCEPT ![j] = now + 1]
    BY DEF SetSubStatus, Tick, memory, WellFormed, TypeOK
  <1>1. /\ lastHandoff \in [DevIssues -> [Kinds -> 0..now]]
        /\ updated \in [DevIssues \cup Intakes -> 0..Horizon]
        /\ sub \in [DevIssues -> [value : Kinds \cup {"other"}, at : Nat]]
        /\ searched \in 0..now
    BY DEF WellFormed, TypeOK
  <1>2. CASE i # j
    <2>1. sub'[i] = sub[i] /\ updated'[i] = updated[i] /\ (i \in announced' <=> i \in announced)
      BY <1>0, <1>1, <1>2
    <2>2. Watched(i) /\ Minded(i) /\ Latest(i)' = Latest(i)
      BY <1>0, <2>1 DEF AllMinded, Watched, Latest
    <2>3. Unrecorded(i)'
      BY <1>0, <2>1, <2>2 DEF Minded, Unrecorded, Calls
    <2>4. Pending(i)' <=> Pending(i)
      BY <1>0, <2>1, <2>2 DEF Pending, PendingIn, Calls
    <2>5. Fresh(i)' <=> Fresh(i)
      BY <1>0, <1>2, <2>1 DEF Fresh, search
    <2> QED
      BY <2>1, <2>2, <2>3, <2>4, <2>5 DEF Minded, Found
  <1>3. CASE i = j
    <2>1. sub'[i].at = now + 1 /\ sub'[i].value \in Kinds /\ updated'[i] = now + 1
      BY <1>0, <1>1, <1>3 DEF Watched
    <2>2. \A n \in Cycles : cycle[n].stamp < now + 1
      BY <1>0, LeftType
    <2>3. lastHandoff[i][sub'[i].value] \in 0..now
      BY <1>1, <2>1
    <2>4. lastHandoff[i][sub'[i].value] < now + 1
      BY <1>0, <2>3
    <2>5. Unrecorded(i)'
      BY <1>0, <2>1, <2>2, <2>4 DEF Unrecorded
    <2>6. now + 1 >= searched
      BY <1>0, <1>1
    <2>7. Fresh(i)'
      BY <1>0, <1>3, <2>1, <2>6 DEF Fresh, search
    <2> QED
      BY <2>5, <2>7 DEF Minded, Found
  <1> QED
    BY <1>2, <1>3

\* Whatever else happens while the cycles wait.
LEMMA BystandersMinded ==
    ASSUME WellFormed, WellFormed', AllMinded, HandoffsStay, cycle' = cycle, UNCHANGED search,
           TroublesGrow, \A i \in DevIssues : Touched(i)
    PROVE  AllMinded'
  <1> SUFFICES ASSUME JiraAhead >= 0, misses' = 0, restarts' = 0, NEW i \in DevIssues, Watched(i)'
               PROVE  Minded(i)'
    BY DEF AllMinded
  <1>1. misses = 0 /\ restarts = 0
    BY NoTroubleYet
  <1>2. Minded(i)
    BY <1>1 DEF AllMinded, Watched, HandoffsStay
  <1>3. Unrecorded(i)'
    BY <1>2 DEF Minded, Unrecorded, Calls, HandoffsStay
  <1>4. Pending(i)' <=> Pending(i)
    BY DEF Pending, PendingIn, Calls, Latest, HandoffsStay
  <1>5. Fresh(i) => Fresh(i)'
    BY FreshStays
  <1> QED
    BY <1>2, <1>3, <1>4, <1>5 DEF Minded, Found, HandoffsStay

LEMMA NextMinded == WellFormed /\ WellFormed' /\ AllMinded /\ [Next]_vars => AllMinded'
  <1> SUFFICES ASSUME WellFormed, WellFormed', AllMinded, [Next]_vars PROVE AllMinded'
    OBVIOUS
  <1>0. misses \in Nat /\ restarts \in Nat
    BY DEF WellFormed, TypeOK
  <1>1. ASSUME updated' = updated, unseen' = unseen PROVE \A i \in DevIssues : Touched(i)
    BY <1>1 DEF Touched
  <1>2. CASE UNCHANGED vars
    <2>1. /\ HandoffsStay /\ cycle' = cycle /\ UNCHANGED search /\ TroublesGrow
          /\ updated' = updated /\ unseen' = unseen
      BY <1>0, <1>2 DEF vars, jira, memory, told, bounds, HandoffsStay, TroublesGrow
    <2> QED
      BY <1>1, <2>1, BystandersMinded
  <1>3. CASE \E i \in DevIssues, value \in Kinds \cup {"other"} : SetSubStatus(i, value)
    BY <1>3, SubStatusMinded
  <1>4. CASE (\E i \in DevIssues \cup Intakes : Touch(i)) \/ (\E i \in Intakes : Label(i))
    <2>2. PICK i \in DevIssues \cup Intakes : Touch(i) \/ Label(i)
      BY <1>4
    <2>4. UNCHANGED <<sub, memory, cycle, told, search, misses, restarts>>
      BY <2>2 DEF Touch, Label
    <2>1. HandoffsStay /\ cycle' = cycle /\ UNCHANGED search /\ TroublesGrow
      BY <1>0, <2>4 DEF memory, told, HandoffsStay, TroublesGrow
    <2>3. \A j \in DevIssues : Touched(j)
      BY <2>2, UpdateTouches DEF Touch, Label
    <2> QED
      BY <2>1, <2>3, BystandersMinded
  <1>5. CASE \/ \E v \in Versions, date \in Dates \cup {None} : Reschedule(v, date)
             \/ AskForViolations \/ AnswerViolation \/ TimePasses
    <2>1. /\ HandoffsStay /\ cycle' = cycle /\ UNCHANGED search /\ updated' = updated /\ unseen' = unseen
      BY <1>5 DEF Reschedule, AskForViolations, AnswerViolation, TimePasses, jira, memory, told, HandoffsStay
    <2>2. TroublesGrow
      BY <1>0, <1>5 DEF Reschedule, AskForViolations, AnswerViolation, Flag, Miss, Fine, TimePasses, TroublesGrow
    <2> QED
      BY <1>1, <2>1, <2>2, BystandersMinded
  <1>7. CASE Restart
    <2>1. restarts' # 0
      BY <1>0, <1>7 DEF Restart
    <2> QED
      BY <2>1 DEF AllMinded
  <1>8. CASE Poll \/ RunNow
    BY <1>8, StartsElsewhere, ElsewhereMinded DEF Poll, RunNow
  <1>9. ASSUME NEW n \in Cycles, CycleStep(n) PROVE AllMinded'
    BY <1>9, StepsElsewhere, ElsewhereMinded, SearchMinded, FoundMinded, ClosedMinded, CommentedMinded,
       RecordedMinded
  <1> QED
    BY <1>2, <1>3, <1>4, <1>5, <1>7, <1>8, <1>9 DEF Next

\* Where Jira's stamps do not read behind UTC, no request fails and the process lives:
\* every handoff that a search has found is announced or about to be, and one that none has
\* found is younger than the latest search, unless a search came too late for its window.
\* So it is for any windows, any delays of the timer and whatever cycles overlap.
THEOREM NoHandoffMissed == Spec => []HandoffMade
  <1>1. Init => AllMinded
    BY DEF Init, AllMinded, Watched, Kinds
  <1>2. WellFormed /\ AllMinded => HandoffMade
    <2> SUFFICES ASSUME WellFormed, AllMinded, JiraAhead >= 0, misses = 0, restarts = 0,
                        NEW i \in DevIssues \ ConfigOnly, sub[i].value # "other",
                        ~(i \in unseen /\ (updated[i] >= searched \/ gapped)), i \notin announced
                 PROVE  HandoffUnderWay(i)
      BY DEF HandoffMade
    <2>1. sub[i].value \in Kinds
      BY DEF WellFormed, TypeOK
    <2>2. Pending(i)
      BY <2>1 DEF AllMinded, Watched, Minded, Found, Fresh
    <2>3. PICK n \in Cycles : PendingIn(cycle[n], i)
      BY <2>2 DEF Pending
    <2>4. Latest(i).issue = i /\ Latest(i).kind = sub[i].value
      BY DEF Latest
    <2> QED
      BY <2>3, <2>4 DEF PendingIn, Calls, HandoffUnderWay
  <1> QED
    BY <1>1, <1>2, InitWellFormed, NextWellFormed, NextMinded, PTL DEF Spec

-----------------------------------------------------------------------------
(* One announcement for a handoff.                                         *)

IsHanding(c) == c.pc \in {"closing", "commenting", "recording"}

\* Events on lists are sound: each is the latest change of its issue or an older one, a
\* list holds one for an issue, and the latest is taken up no earlier than it happened.
EventSound(e) == e.issue \in DevIssues /\ e.at <= now /\ (e.at = sub[e.issue].at => e = Latest(e.issue))

SoundEvents(todo) ==
    /\ \A e \in todo : EventSound(e)
    /\ \A e, f \in todo : e.issue = f.issue => e = f

HoldsSound(c) ==
    /\ c.pc = "detecting" => SoundEvents(c.todo)
    /\ IsHanding(c) =>
          /\ SoundEvents(List(c))
          /\ c.item.at = sub[c.item.issue].at => c.stamp >= c.item.at
          /\ c.pc # "closing" => c.item.issue \notin ConfigOnly

EventsSound ==
    /\ \A i \in DevIssues : sub[i].at <= now /\ (sub[i].value \in Kinds => sub[i].at >= 1)
    /\ \A n \in Cycles : HoldsSound(cycle[n])

\* The process has on record that it has announced the latest change of issue i.
Stored(i) == sub[i].value \in Kinds /\ lastHandoff[i][sub[i].value] >= sub[i].at

\* It has, or is about to.
OnRecord(i) == Stored(i) \/ \E n \in Cycles : cycle[n].pc = "recording" /\ cycle[n].item = Latest(i)

\* Cycle n holds an older change of issue i, and will make the process forget a later one.
Overtaken(n, i) ==
    /\ IsHanding(cycle[n]) /\ cycle[n].item.issue = i /\ cycle[n].item.kind = sub[i].value
    /\ cycle[n].item.at # sub[i].at /\ cycle[n].stamp < sub[i].at

MayAnnounce(n, i) ==
    \/ cycle[n].pc \in {"closing", "commenting"} /\ Latest(i) \in List(cycle[n])
    \/ cycle[n].pc = "recording" /\ Latest(i) \in cycle[n].todo
    \/ Overtaken(n, i)
    \/ /\ cycle[n].pc = "handoffs" \/ (cycle[n].pc = "detecting" /\ Latest(i) \in cycle[n].todo)
       /\ ~Stored(i) \/ \E m \in Cycles : Overtaken(m, i)

Announcers(i) == {n \in Cycles : MayAnnounce(n, i)}

\* A config-only issue gets no announcement at all.
Announced(i) ==
    IF i \in ConfigOnly THEN comments[i] = 0
    ELSE Owed(comments[i], Announcers(i), OnRecord(i), overlaps + restarts)

AllAnnounced == JiraAhead <= 0 => EventsSound /\ \A i \in DevIssues : Announced(i)

LEMMA AnnouncedTypes ==
    ASSUME WellFormed, NEW i \in DevIssues
    PROVE  /\ comments[i] \in Nat /\ overlaps \in Nat /\ restarts \in Nat /\ overlaps + restarts \in Nat
           /\ OnRecord(i) \in BOOLEAN /\ Announcers(i) \in SUBSET Cycles
           /\ sub[i].at \in Nat
  BY DEF WellFormed, TypeOK, OnRecord, Announcers

\* Going on with a sound list, as of now.
LEMMA TakesSound ==
    ASSUME WellFormed, EventsSound, sub' = sub, now' = now,
           NEW n \in Cycles, NEW todo, NextHandoff(n, todo), SoundEvents(todo)
    PROVE  EventsSound' /\ \A i \in DevIssues : ~Overtaken(n, i)'
  <1>1. /\ OthersStay(n)
        /\ \/ todo = {} /\ cycle'[n].pc = "versions"
           \/ /\ cycle'[n].pc = "closing" /\ cycle'[n].stamp = now
              /\ cycle'[n].item \in todo /\ cycle'[n].todo = todo \ {cycle'[n].item}
    BY TakesNext
  <1>2. HoldsSound(cycle[n])'
    <2>1. CASE cycle'[n].pc = "versions"
      BY <2>1 DEF HoldsSound, IsHanding
    <2>2. CASE cycle'[n].pc = "closing"
      <3>1. cycle'[n].stamp = now /\ cycle'[n].item \in todo /\ List(cycle[n])' = todo
        BY <1>1, <2>2 DEF List
      <3>2. EventSound(cycle'[n].item) /\ SoundEvents(todo)'
        BY <3>1 DEF SoundEvents, EventSound, Latest
      <3>3. cycle'[n].item.at <= now
        BY <3>2 DEF EventSound
      <3>4. cycle'[n].item.at = sub'[cycle'[n].item.issue].at => cycle'[n].stamp >= cycle'[n].item.at
        BY <3>1, <3>3
      <3> QED
        BY <2>2, <3>1, <3>2, <3>4 DEF HoldsSound, IsHanding
    <2> QED
      BY <1>1, <2>1, <2>2
  <1>3. ASSUME NEW m \in Cycles \ {n} PROVE HoldsSound(cycle[m])'
    <2>1. cycle'[m] = cycle[m] /\ HoldsSound(cycle[m])
      BY <1>1 DEF OthersStay, EventsSound
    <2> QED
      BY <2>1 DEF HoldsSound, SoundEvents, EventSound, Latest
  <1>4. EventsSound'
    BY <1>2, <1>3 DEF EventsSound
  <1>5. ASSUME NEW i \in DevIssues, Overtaken(n, i)' PROVE FALSE
    <2>1. cycle'[n].pc = "closing" /\ cycle'[n].stamp < sub[i].at
      BY <1>1, <1>5 DEF Overtaken, IsHanding
    <2>2. sub[i].at <= now /\ sub[i].at \in Nat /\ now \in Nat
      BY AnnouncedTypes, NowType DEF EventsSound
    <2> QED
      BY <1>1, <2>1, <2>2
  <1> QED
    BY <1>4, <1>5

\* Other cycles are announcers only if they were.
LEMMA OthersAnnounce ==
    ASSUME sub' = sub, NEW n \in Cycles, OthersStay(n), NEW i \in DevIssues,
           Overtaken(n, i)' => Overtaken(n, i), Stored(i) => Stored(i)' \/ Overtaken(n, i)
    PROVE  \A m \in Cycles \ {n} : MayAnnounce(m, i)' => MayAnnounce(m, i)
  <1> SUFFICES ASSUME NEW m \in Cycles \ {n}, MayAnnounce(m, i)' PROVE MayAnnounce(m, i)
    OBVIOUS
  <1>1. \A k \in Cycles : Overtaken(k, i)' => Overtaken(k, i)
    BY DEF OthersStay, Overtaken
  <1>2. cycle'[m] = cycle[m] /\ Latest(i)' = Latest(i)
    BY DEF OthersStay, Latest
  <1> QED
    BY <1>1, <1>2 DEF MayAnnounce, Overtaken

\* The debt for issue i does not grow.
LEMMA NoneJoins ==
    ASSUME WellFormed, WellFormed', NEW i \in DevIssues, Announced(i), comments'[i] = comments[i],
           overlaps' = overlaps, restarts' = restarts,
           i \notin ConfigOnly => (OnRecord(i) => OnRecord(i)') /\ Announcers(i)' \subseteq Announcers(i)
    PROVE  Announced(i)'
  <1>1. CASE i \in ConfigOnly
    BY <1>1 DEF Announced
  <1>2. CASE i \notin ConfigOnly
    <2>1. OnRecord(i)' \in BOOLEAN /\ Announcers(i)' \in SUBSET Announcers(i) /\ (OnRecord(i) => OnRecord(i)')
      BY <1>2 DEF OnRecord
    <2>2. Owed(comments[i], Announcers(i), OnRecord(i), overlaps + restarts)
      BY <1>2 DEF Announced
    <2>3. Owed(comments[i], Announcers(i)', OnRecord(i)', overlaps + restarts)
      BY <2>1, <2>2, AnnouncedTypes, OwedStays
    <2> QED
      BY <1>2, <2>3 DEF Announced
  <1> QED
    BY <1>1, <1>2

\* One announcer of issue i leaves, with an announcement or without.
LEMMA OneLeaves ==
    ASSUME WellFormed, NEW i \in DevIssues \ ConfigOnly, Announced(i), NEW n \in Announcers(i),
           overlaps' = overlaps, restarts' = restarts, Announcers(i)' \subseteq Announcers(i) \ {n},
           comments'[i] \in Nat,
           comments'[i] = comments[i] \/ (comments'[i] = comments[i] + 1 /\ OnRecord(i)')
    PROVE  Announced(i)'
  <1>1. Owed(comments[i], Announcers(i), OnRecord(i), overlaps + restarts)
    BY DEF Announced
  <1>2. Announcers(i)' \in SUBSET (Announcers(i) \ {n}) /\ OnRecord(i)' \in BOOLEAN
    BY DEF OnRecord
  <1>3. Owed(comments'[i], Announcers(i)', OnRecord(i)', overlaps + restarts)
    BY <1>1, <1>2, AnnouncedTypes, OwedLeaves
  <1> QED
    BY <1>3 DEF Announced

\* A search sees the latest change of an issue, whether it is on record or not.
LEMMA SearchAnnounced ==
    ASSUME WellFormed, WellFormed', AllAnnounced, JiraAhead <= 0,
           NEW n \in Cycles, CycleStep(n), SearchHandoffs(n)
    PROVE  AllAnnounced'
  <1>0. /\ sub' = sub /\ now' = now /\ lastHandoff' = lastHandoff /\ comments' = comments
        /\ overlaps' = overlaps /\ restarts' = restarts
    BY DEF CycleStep, SearchHandoffs, memory, told
  <1>1. PICK S \in SUBSET DevIssues :
           cycle' = [cycle EXCEPT ![n] = [At("detecting", 0) EXCEPT
                        !.todo = {[issue |-> j, kind |-> sub[j].value, at |-> sub[j].at] : j \in S}]]
    <2>1. PICK window \in PollWindows :
             cycle' = [cycle EXCEPT ![n] = [At("detecting", 0) EXCEPT
                          !.todo = {[issue |-> j, kind |-> sub[j].value, at |-> sub[j].at] :
                                      j \in {k \in {l \in DevIssues : InWindow(l, window)} :
                                               sub[k].value \in Kinds}}]]
      BY DEF SearchHandoffs
    <2>2. {k \in {l \in DevIssues : InWindow(l, window)} : sub[k].value \in Kinds} \in SUBSET DevIssues
      OBVIOUS
    <2> QED
      BY <2>1, <2>2
  <1>2. OthersStay(n) /\ cycle[n].pc = "handoffs" /\ cycle'[n].pc = "detecting"
    BY SearchOutcome
  <1>3. cycle'[n].todo = {[issue |-> j, kind |-> sub[j].value, at |-> sub[j].at] : j \in S}
    BY <1>1 DEF At, WellFormed, CyclesFit
  <1>4. SoundEvents(cycle'[n].todo)
    <2>1. \A j \in DevIssues : sub[j].at <= now
      BY DEF AllAnnounced, EventsSound
    <2>2. ASSUME NEW j \in S PROVE EventSound([issue |-> j, kind |-> sub[j].value, at |-> sub[j].at])
      BY <2>1 DEF EventSound, Latest
    <2> QED
      BY <1>3, <2>2 DEF SoundEvents
  <1>5. EventsSound'
    <2>1. HoldsSound(cycle[n])'
      BY <1>0, <1>2, <1>4 DEF HoldsSound, IsHanding, SoundEvents, EventSound, Latest
    <2>2. ASSUME NEW m \in Cycles \ {n} PROVE HoldsSound(cycle[m])'
      <3>1. cycle'[m] = cycle[m] /\ HoldsSound(cycle[m])
        BY <1>2 DEF OthersStay, AllAnnounced, EventsSound
      <3> QED
        BY <1>0, <3>1 DEF HoldsSound, SoundEvents, EventSound, Latest
    <2> QED
      BY <1>0, <2>1, <2>2 DEF AllAnnounced, EventsSound
  <1>6. ASSUME NEW i \in DevIssues PROVE Announced(i)'
    <2>1. ~Overtaken(n, i)' /\ (Stored(i)' <=> Stored(i)) /\ Latest(i)' = Latest(i)
      BY <1>0, <1>2 DEF Overtaken, IsHanding, Stored, Latest
    <2>2. OnRecord(i) => OnRecord(i)'
      BY <1>2, <2>1 DEF OnRecord, OthersStay
    <2>3. \A k \in Cycles : Overtaken(k, i)' => Overtaken(k, i)
      BY <1>0, <1>2, <2>1 DEF OthersStay, Overtaken
    <2>4. MayAnnounce(n, i)' => MayAnnounce(n, i)
      BY <1>2, <2>1, <2>3 DEF MayAnnounce
    <2>5. Announcers(i)' \subseteq Announcers(i)
      BY <1>0, <1>2, <2>1, <2>4, OthersAnnounce DEF Announcers
    <2> QED
      BY <1>0, <2>2, <2>5, NoneJoins DEF AllAnnounced
  <1> QED
    BY <1>5, <1>6 DEF AllAnnounced

\* What is on record is not taken up.
LEMMA FoundAnnounced ==
    ASSUME WellFormed, WellFormed', AllAnnounced, JiraAhead <= 0,
           NEW n \in Cycles, CycleStep(n), HandoffsFound(n)
    PROVE  AllAnnounced'
  <1>0. /\ sub' = sub /\ now' = now /\ lastHandoff' = lastHandoff /\ comments' = comments
        /\ overlaps' = overlaps /\ restarts' = restarts /\ cycle[n].pc = "detecting"
        /\ EventsSound /\ SoundEvents(cycle[n].todo)
    BY DEF CycleStep, HandoffsFound, jira, memory, told, AllAnnounced, EventsSound, HoldsSound
  <1>1. PICK todo \in SUBSET detectSubStatusChanges(n) : NextHandoff(n, todo)
    BY DEF HandoffsFound
  <1>2. todo \subseteq cycle[n].todo /\ SoundEvents(todo)
    BY <1>0 DEF detectSubStatusChanges, SoundEvents
  <1>3. EventsSound' /\ \A i \in DevIssues : ~Overtaken(n, i)'
    BY <1>0, <1>1, <1>2, TakesSound
  <1>4. /\ OthersStay(n)
        /\ \/ todo = {} /\ cycle'[n].pc = "versions"
           \/ cycle'[n].pc = "closing" /\ List(cycle'[n]) = todo
    BY <1>1, TakesNext DEF List
  <1>5. ASSUME NEW i \in DevIssues PROVE Announced(i)'
    <2>1. (Stored(i)' <=> Stored(i)) /\ Latest(i)' = Latest(i)
      BY <1>0 DEF Stored, Latest
    <2>2. OnRecord(i) => OnRecord(i)'
      BY <1>0, <1>4, <2>1 DEF OnRecord, OthersStay
    <2>3. ASSUME Latest(i) \in todo PROVE ~Stored(i)
      <3>1. ~AlreadyHandedOver(Latest(i))
        BY <2>3 DEF detectSubStatusChanges
      <3>2. Latest(i).issue = i /\ Latest(i).kind = sub[i].value /\ Latest(i).at = sub[i].at
        BY DEF Latest
      <3>3. sub[i].value \in Kinds =>
               lastHandoff[i][sub[i].value] \in Nat /\ sub[i].at \in Nat /\ sub[i].at >= 1
        BY <1>0 DEF EventsSound, WellFormed, TypeOK
      <3> QED
        BY <3>1, <3>2, <3>3, TimeAssumption DEF AlreadyHandedOver, Stored
    <2>4. MayAnnounce(n, i)' => MayAnnounce(n, i)
      <3>1. MayAnnounce(n, i)' => Latest(i) \in todo
        BY <1>3, <1>4, <2>1 DEF MayAnnounce
      <3> QED
        BY <1>0, <1>2, <2>3, <3>1 DEF MayAnnounce
    <2>5. Announcers(i)' \subseteq Announcers(i)
      BY <1>0, <1>3, <1>4, <2>1, <2>4, OthersAnnounce DEF Announcers
    <2> QED
      BY <1>0, <2>2, <2>5, NoneJoins DEF AllAnnounced
  <1> QED
    BY <1>3, <1>5 DEF AllAnnounced

\* A change that is being dealt with is not announced yet.
LEMMA CloseAnnounced ==
    ASSUME WellFormed, WellFormed', AllAnnounced, JiraAhead <= 0, NEW n \in Cycles, CycleStep(n), Closed(n)
    PROVE  AllAnnounced'
  <1>0. /\ sub' = sub /\ now' = now /\ comments' = comments
        /\ overlaps' = overlaps /\ restarts' = restarts /\ cycle[n].pc = "closing"
        /\ EventsSound /\ HoldsSound(cycle[n])
    BY DEF CycleStep, Closed, told, AllAnnounced, EventsSound
  <1>1. CASE cycle[n].item.issue \in ConfigOnly
    <2>0. /\ NextHandoff(n, cycle[n].todo)
          /\ lastHandoff' = [lastHandoff EXCEPT ![cycle[n].item.issue]["QE"] = cycle[n].stamp]
      BY <1>1 DEF Closed
    <2>1. SoundEvents(cycle[n].todo)
      BY <1>0 DEF HoldsSound, IsHanding, SoundEvents, List
    <2>2. EventsSound' /\ \A i \in DevIssues : ~Overtaken(n, i)'
      BY <1>0, <2>0, <2>1, TakesSound
    <2>3. /\ OthersStay(n)
          /\ \/ cycle[n].todo = {} /\ cycle'[n].pc = "versions"
             \/ cycle'[n].pc = "closing" /\ List(cycle'[n]) = cycle[n].todo
      BY <2>0, TakesNext DEF List
    <2>4. ASSUME NEW i \in DevIssues \ ConfigOnly
          PROVE  (OnRecord(i) => OnRecord(i)') /\ Announcers(i)' \subseteq Announcers(i)
      <3>1. lastHandoff'[i] = lastHandoff[i]
        BY <1>1, <2>0 DEF WellFormed, TypeOK
      <3>2. (Stored(i) <=> Stored(i)') /\ Latest(i)' = Latest(i)
        BY <1>0, <3>1 DEF Stored, Latest
      <3>3. OnRecord(i) => OnRecord(i)'
        BY <1>0, <2>3, <3>2 DEF OnRecord, OthersStay
      <3>4. MayAnnounce(n, i)' => MayAnnounce(n, i)
        BY <1>0, <2>2, <2>3, <3>2 DEF MayAnnounce, List
      <3> QED
        BY <1>0, <2>2, <2>3, <3>2, <3>3, <3>4, OthersAnnounce DEF Announcers
    <2>5. \A i \in DevIssues : Announced(i)'
      BY <1>0, <2>4, NoneJoins DEF AllAnnounced
    <2> QED
      BY <2>2, <2>5 DEF AllAnnounced
  <1>2. CASE cycle[n].item.issue \notin ConfigOnly
    <2>1. Continue(n, "commenting") /\ lastHandoff' = lastHandoff
      BY <1>2 DEF Closed
    <2>2. /\ OthersStay(n) /\ cycle'[n].pc = "commenting" /\ cycle'[n].stamp = cycle[n].stamp
          /\ cycle'[n].item = cycle[n].item /\ cycle'[n].todo = cycle[n].todo
      BY <2>1, ContinueOutcome
    <2>3. EventsSound'
      <3>1. HoldsSound(cycle[n])'
        BY <1>0, <1>2, <2>2 DEF HoldsSound, IsHanding, SoundEvents, EventSound, Latest, List
      <3>2. ASSUME NEW m \in Cycles \ {n} PROVE HoldsSound(cycle[m])'
        <4>1. cycle'[m] = cycle[m] /\ HoldsSound(cycle[m])
          BY <1>0, <2>2 DEF OthersStay, EventsSound
        <4> QED
          BY <1>0, <4>1 DEF HoldsSound, SoundEvents, EventSound, Latest
      <3> QED
        BY <1>0, <3>1, <3>2 DEF EventsSound
    <2>4. ASSUME NEW i \in DevIssues
          PROVE  (OnRecord(i) => OnRecord(i)') /\ Announcers(i)' \subseteq Announcers(i)
      <3>1. (Stored(i)' <=> Stored(i)) /\ Latest(i)' = Latest(i)
        BY <1>0, <2>1 DEF Stored, Latest
      <3>2. OnRecord(i) => OnRecord(i)'
        BY <1>0, <2>2, <3>1 DEF OnRecord, OthersStay
      <3>3. Overtaken(n, i)' => Overtaken(n, i)
        BY <1>0, <2>2 DEF Overtaken, IsHanding
      <3>4. MayAnnounce(n, i)' => MayAnnounce(n, i)
        BY <1>0, <2>2, <3>1, <3>3 DEF MayAnnounce, List
      <3> QED
        BY <1>0, <2>2, <3>1, <3>2, <3>3, <3>4, OthersAnnounce DEF Announcers
    <2>5. \A i \in DevIssues : Announced(i)'
      BY <1>0, <2>4, NoneJoins DEF AllAnnounced
    <2> QED
      BY <2>3, <2>5 DEF AllAnnounced
  <1> QED
    BY <1>1, <1>2

\* The announcement of the latest change is about to be put on record.
LEMMA CommentAnnounced ==
    ASSUME WellFormed, WellFormed', AllAnnounced, JiraAhead <= 0,
           NEW n \in Cycles, CycleStep(n), Commented(n)
    PROVE  AllAnnounced'
  <1> DEFINE e == cycle[n].item
  <1>0. /\ sub' = sub /\ now' = now /\ overlaps' = overlaps /\ restarts' = restarts
        /\ cycle[n].pc = "commenting" /\ Continue(n, "recording") /\ lastHandoff' = lastHandoff
        /\ EventsSound /\ HoldsSound(cycle[n])
    BY DEF CycleStep, Commented, memory, AllAnnounced, EventsSound
  <1>1. /\ e \in Event /\ e \notin cycle[n].todo /\ e.issue \in DevIssues
        /\ e \in List(cycle[n]) /\ e.issue \notin ConfigOnly /\ SoundEvents(List(cycle[n]))
    BY <1>0 DEF WellFormed, CyclesFit, Fits, Event, List, HoldsSound, IsHanding
  <1>2. \/ comments' = [comments EXCEPT ![e.issue] = IF sub[e.issue].at = e.at THEN @ + 1 ELSE @]
        \/ comments' = comments
    BY DEF Commented
  <1>3. /\ OthersStay(n) /\ cycle'[n].pc = "recording" /\ cycle'[n].stamp = cycle[n].stamp
        /\ cycle'[n].item = cycle[n].item /\ cycle'[n].todo = cycle[n].todo
    BY <1>0, ContinueOutcome
  <1>4. EventsSound'
    <2>1. HoldsSound(cycle[n])'
      BY <1>0, <1>3 DEF HoldsSound, IsHanding, SoundEvents, EventSound, Latest, List
    <2>2. ASSUME NEW m \in Cycles \ {n} PROVE HoldsSound(cycle[m])'
      <3>1. cycle'[m] = cycle[m] /\ HoldsSound(cycle[m])
        BY <1>0, <1>3 DEF OthersStay, EventsSound
      <3> QED
        BY <1>0, <3>1 DEF HoldsSound, SoundEvents, EventSound, Latest
    <2> QED
      BY <1>0, <2>1, <2>2 DEF EventsSound
  <1>5. \A f \in cycle[n].todo : f.issue # e.issue
    BY <1>1 DEF SoundEvents, List
  <1>6. ASSUME NEW i \in DevIssues PROVE Announced(i)'
    <2>0. Announced(i) /\ comments \in [DevIssues -> Nat]
      BY DEF AllAnnounced, WellFormed, TypeOK
    <2>1. (Stored(i)' <=> Stored(i)) /\ Latest(i)' = Latest(i)
      BY <1>0 DEF Stored, Latest
    <2>2. Overtaken(n, i)' <=> Overtaken(n, i)
      BY <1>0, <1>3 DEF Overtaken, IsHanding
    <2>3. \A m \in Cycles \ {n} : MayAnnounce(m, i)' => MayAnnounce(m, i)
      BY <1>0, <1>3, <2>1, <2>2, OthersAnnounce
    <2>4. OnRecord(i) => OnRecord(i)'
      BY <1>0, <1>3, <2>1 DEF OnRecord, OthersStay
    <2>5. CASE e = Latest(i)
      <3>1. e.issue = i /\ e.at = sub[i].at
        BY <2>5 DEF Latest
      <3>2. OnRecord(i)'
        BY <1>3, <2>1, <2>5 DEF OnRecord
      <3>3. n \in Announcers(i)
        BY <1>0, <1>1, <2>5 DEF Announcers, MayAnnounce
      <3>4. ~MayAnnounce(n, i)'
        <4>1. Latest(i) \notin cycle[n].todo
          BY <1>1, <2>5
        <4>2. ~Overtaken(n, i)
          BY <3>1 DEF Overtaken
        <4> QED
          BY <1>3, <2>1, <2>2, <4>1, <4>2 DEF MayAnnounce
      <3>5. Announcers(i)' \subseteq Announcers(i) \ {n}
        BY <2>3, <3>4 DEF Announcers
      <3>6. comments'[i] \in Nat /\ (comments'[i] = comments[i] \/ comments'[i] = comments[i] + 1)
        BY <1>2, <2>0, <3>1
      <3> QED
        BY <1>0, <1>1, <2>0, <3>1, <3>2, <3>3, <3>5, <3>6, OneLeaves
    <2>6. CASE e # Latest(i)
      <3>1. comments'[i] = comments[i]
        <4>1. CASE e.issue # i
          BY <1>2, <2>0, <4>1
        <4>2. CASE e.issue = i
          <5>1. e.at # sub[i].at
            BY <1>1, <2>6, <4>2 DEF SoundEvents, EventSound
          <5> QED
            BY <1>2, <2>0, <4>2, <5>1
        <4> QED
          BY <4>1, <4>2
      <3>2. MayAnnounce(n, i)' => MayAnnounce(n, i)
        BY <1>0, <1>3, <2>1, <2>2 DEF MayAnnounce, List
      <3>3. Announcers(i)' \subseteq Announcers(i)
        BY <2>3, <3>2 DEF Announcers
      <3> QED
        BY <1>0, <2>0, <2>4, <3>1, <3>3, NoneJoins
    <2> QED
      BY <2>5, <2>6
  <1> QED
    BY <1>4, <1>6 DEF AllAnnounced

\* The record of an older change may take the place of the latest one's, which was paid for
\* by the overlap that made it older.
LEMMA RecordAnnounced ==
    ASSUME WellFormed, WellFormed', AllAnnounced, JiraAhead <= 0, NEW n \in Cycles, CycleStep(n), Recorded(n)
    PROVE  AllAnnounced'
  <1> DEFINE e == cycle[n].item
  <1>0. /\ sub' = sub /\ now' = now /\ overlaps' = overlaps /\ restarts' = restarts /\ comments' = comments
        /\ cycle[n].pc = "recording" /\ NextHandoff(n, cycle[n].todo)
        /\ lastHandoff' = [lastHandoff EXCEPT ![e.issue][e.kind] = cycle[n].stamp]
        /\ EventsSound /\ HoldsSound(cycle[n])
    BY DEF CycleStep, Recorded, recordHandoff, jira, told, AllAnnounced, EventsSound
  <1>1. /\ e \in Event /\ e \notin cycle[n].todo /\ e.issue \in DevIssues /\ e.kind \in Kinds
        /\ e \in List(cycle[n]) /\ e.issue \notin ConfigOnly /\ IsHanding(cycle[n])
    BY <1>0 DEF WellFormed, CyclesFit, Fits, Event, List, HoldsSound, IsHanding
  <1>2. SoundEvents(cycle[n].todo) /\ \A f \in cycle[n].todo : f.issue # e.issue
    BY <1>0, <1>1 DEF HoldsSound, SoundEvents, List
  <1>3. EventsSound' /\ \A i \in DevIssues : ~Overtaken(n, i)'
    BY <1>0, <1>2, TakesSound
  <1>4. /\ OthersStay(n)
        /\ \/ cycle[n].todo = {} /\ cycle'[n].pc = "versions"
           \/ cycle'[n].pc = "closing" /\ List(cycle'[n]) = cycle[n].todo
    BY <1>0, TakesNext DEF List
  <1>5. ASSUME NEW i \in DevIssues PROVE Announced(i)'
    <2>0. Announced(i) /\ Latest(i)' = Latest(i)
      BY <1>0 DEF AllAnnounced, Latest
    <2>1. /\ lastHandoff \in [DevIssues -> [Kinds -> 0..now]] /\ sub[i].at \in Nat
          /\ cycle[n].stamp \in Nat /\ comments[i] \in Nat
      BY LeftType, AnnouncedTypes DEF WellFormed, TypeOK
    <2>2. MayAnnounce(n, i)' => MayAnnounce(n, i)
      BY <1>0, <1>3, <1>4, <2>0 DEF MayAnnounce
    <2>3. ASSUME Stored(i) => Stored(i)', e = Latest(i) => Stored(i)' PROVE Announced(i)'
      <3>1. OnRecord(i) => OnRecord(i)'
        BY <1>0, <1>4, <2>0, <2>3 DEF OnRecord, OthersStay
      <3>2. Announcers(i)' \subseteq Announcers(i)
        BY <1>0, <1>3, <1>4, <2>2, <2>3, OthersAnnounce DEF Announcers
      <3> QED
        BY <1>0, <2>0, <3>1, <3>2, NoneJoins
    <2>4. CASE e.issue # i \/ e.kind # sub[i].value
      <3>1. sub[i].value \in Kinds => lastHandoff'[i][sub[i].value] = lastHandoff[i][sub[i].value]
        BY <1>0, <1>1, <2>1, <2>4
      <3>2. Stored(i)' <=> Stored(i)
        BY <1>0, <3>1 DEF Stored
      <3>3. e # Latest(i)
        BY <2>4 DEF Latest
      <3> QED
        BY <2>3, <3>2, <3>3
    <2>5. CASE e.issue = i /\ e.kind = sub[i].value /\ cycle[n].stamp >= sub[i].at
      <3>1. lastHandoff'[i][sub[i].value] = cycle[n].stamp
        BY <1>0, <1>1, <2>1, <2>5
      <3>2. Stored(i)'
        BY <1>0, <1>1, <2>5, <3>1 DEF Stored
      <3> QED
        BY <2>3, <3>2
    <2>6. CASE e.issue = i /\ e.kind = sub[i].value /\ cycle[n].stamp < sub[i].at
      <3>1. e.at # sub[i].at
        BY <1>0, <1>1, <2>1, <2>6 DEF HoldsSound
      <3>2. Overtaken(n, i)
        BY <1>1, <2>6, <3>1 DEF Overtaken
      <3>3. n \in Announcers(i) /\ i \notin ConfigOnly
        BY <1>1, <2>6, <3>2 DEF Announcers, MayAnnounce
      <3>4. ~MayAnnounce(n, i)'
        BY <1>2, <1>3, <1>4, <2>0, <2>6 DEF MayAnnounce, Latest
      <3>5. Announcers(i)' \subseteq Announcers(i) \ {n}
        BY <1>0, <1>3, <1>4, <3>2, <3>4, OthersAnnounce DEF Announcers
      <3> QED
        BY <1>0, <2>0, <2>1, <3>3, <3>5, OneLeaves
    <2> QED
      BY <2>1, <2>4, <2>5, <2>6
  <1> QED
    BY <1>3, <1>5 DEF AllAnnounced

LEMMA ElsewhereAnnounced ==
    ASSUME WellFormed, WellFormed', AllAnnounced, JiraAhead <= 0,
           NEW n \in Cycles, CycleStep(n), Elsewhere(n), IsElsewhere(cycle'[n])
    PROVE  AllAnnounced'
  <1>0. /\ sub' = sub /\ now' = now /\ lastHandoff' = lastHandoff /\ comments' = comments
        /\ overlaps' = overlaps /\ restarts' = restarts
    BY DEF CycleStep, Elsewhere, HandoffsStay
  <1>1. \A m \in Cycles : \/ cycle'[m] = cycle[m]
                          \/ IsElsewhere(cycle[m]) /\ IsElsewhere(cycle'[m])
    BY DEF Elsewhere, OthersStay
  <1>2. EventsSound'
    BY <1>0, <1>1
       DEF AllAnnounced, EventsSound, HoldsSound, IsHanding, SoundEvents, EventSound, Latest, IsElsewhere
  <1>3. ASSUME NEW i \in DevIssues PROVE Announced(i)'
    <2>1. \A m \in Cycles : Overtaken(m, i)' <=> Overtaken(m, i)
      BY <1>0, <1>1 DEF Overtaken, IsElsewhere, IsHanding
    <2>2. (Stored(i)' <=> Stored(i)) /\ Latest(i)' = Latest(i)
      BY <1>0 DEF Stored, Latest
    <2>3. OnRecord(i) => OnRecord(i)'
      BY <1>1, <2>2 DEF OnRecord, IsElsewhere
    <2>4. Announcers(i)' \subseteq Announcers(i)
      BY <1>1, <2>1, <2>2 DEF Announcers, MayAnnounce, IsElsewhere
    <2> QED
      BY <1>0, <2>3, <2>4, NoneJoins DEF AllAnnounced
  <1> QED
    BY <1>2, <1>3 DEF AllAnnounced

\* A cycle that starts alone will announce only what is not on record.
LEMMA StartAnnounced ==
    ASSUME WellFormed, WellFormed', AllAnnounced, JiraAhead <= 0, NEW n \in Cycles, StartCycle(n)
    PROVE  AllAnnounced'
  <1>0. /\ sub' = sub /\ now' = now /\ lastHandoff' = lastHandoff /\ comments' = comments
        /\ overlaps' = overlaps + Cardinality(InFlight) /\ restarts' = restarts
        /\ cycle[n].pc = "idle" /\ cycle'[n].pc = "handoffs" /\ OthersStay(n)
    BY DEF StartCycle, jira, memory, told, OthersStay, At, WellFormed, CyclesFit
  <1>1. \A m \in Cycles : cycle'[m] = cycle[m] \/ cycle'[m].pc = "handoffs"
    BY <1>0 DEF OthersStay
  <1>2. EventsSound'
    BY <1>0, <1>1 DEF AllAnnounced, EventsSound, HoldsSound, SoundEvents, EventSound, Latest, IsHanding
  <1>3. ASSUME NEW i \in DevIssues PROVE Announced(i)'
    <2>0. /\ Announced(i) /\ Cardinality(InFlight) \in Nat
          /\ comments[i] \in Nat /\ overlaps \in Nat /\ restarts \in Nat /\ overlaps + restarts \in Nat
          /\ OnRecord(i) \in BOOLEAN /\ Announcers(i) \in SUBSET Cycles
      BY InFlightCount, AnnouncedTypes DEF AllAnnounced
    <2>1. \A m \in Cycles : Overtaken(m, i)' <=> Overtaken(m, i)
      BY <1>0 DEF Overtaken, IsHanding, OthersStay
    <2>2. (Stored(i)' <=> Stored(i)) /\ Latest(i)' = Latest(i)
      BY <1>0 DEF Stored, Latest
    <2>3. OnRecord(i)' <=> OnRecord(i)
      BY <1>0, <2>2 DEF OnRecord, OthersStay
    <2>4. Announcers(i)' \in SUBSET (Announcers(i) \cup {n})
      BY <1>0, <2>1, <2>2 DEF Announcers, MayAnnounce, OthersStay
    <2>5. Cardinality(InFlight) = 0 => Announcers(i) = {} /\ (OnRecord(i) => Announcers(i)' = {})
      <3> SUFFICES ASSUME Cardinality(InFlight) = 0
                   PROVE  Announcers(i) = {} /\ (OnRecord(i) => Announcers(i)' = {})
        OBVIOUS
      <3>1. \A m \in Cycles : cycle[m].pc = "idle"
        BY InFlightCount, FS_EmptySet DEF InFlight
      <3>2. \A m \in Cycles : ~Overtaken(m, i)
        BY <3>1 DEF Overtaken, IsHanding
      <3>3. Announcers(i) = {} /\ (OnRecord(i) => Stored(i))
        BY <3>1, <3>2 DEF Announcers, MayAnnounce, OnRecord
      <3>4. \A m \in Cycles : cycle'[m].pc \in {"idle", "handoffs"}
        BY <1>0, <3>1 DEF OthersStay
      <3>5. Stored(i) => Announcers(i)' = {}
        BY <2>1, <2>2, <3>2, <3>4 DEF Announcers, MayAnnounce
      <3> QED
        BY <3>3, <3>5
    <2>6. CASE i \in ConfigOnly
      BY <1>0, <2>0, <2>6 DEF Announced
    <2>7. CASE i \notin ConfigOnly
      <3>1. Owed(comments[i], Announcers(i), OnRecord(i), overlaps + restarts)
        BY <2>0, <2>7 DEF Announced
      <3>2. Owed(comments[i], Announcers(i)', OnRecord(i), overlaps + restarts + Cardinality(InFlight))
        <4>1. comments[i] \in Nat /\ overlaps + restarts \in Nat /\ Cardinality(InFlight) \in Nat
          BY <2>0
        <4> QED
          BY <2>0, <2>4, <2>5, <3>1, <4>1, OwedJoins
      <3>3. overlaps' + restarts' = overlaps + restarts + Cardinality(InFlight)
        BY <1>0, <2>0
      <3> QED
        BY <1>0, <2>3, <2>7, <3>2, <3>3 DEF Announced, Owed
    <2> QED
      BY <2>6, <2>7
  <1> QED
    BY <1>2, <1>3 DEF AllAnnounced

\* Another change of the sub-status starts the count again.
LEMMA SubStatusAnnounced ==
    ASSUME WellFormed, WellFormed', AllAnnounced, JiraAhead <= 0, FewInFlight,
           NEW j \in DevIssues, NEW value \in Kinds \cup {"other"}, SetSubStatus(j, value)
    PROVE  AllAnnounced'
  <1>0. /\ cycle' = cycle /\ lastHandoff' = lastHandoff /\ overlaps' = overlaps /\ restarts' = restarts
        /\ now' = now + 1 /\ now \in Nat
        /\ sub' = [sub EXCEPT ![j] = [value |-> value, at |-> now + 1]]
        /\ comments' = [comments EXCEPT ![j] = 0]
        /\ sub \in [DevIssues -> [value : Kinds \cup {"other"}, at : Nat]] /\ comments \in [DevIssues -> Nat]
        /\ EventsSound
    BY NowType DEF SetSubStatus, Tick, memory, WellFormed, TypeOK, AllAnnounced
  <1>1. sub'[j].at = now + 1 /\ \A i \in DevIssues \ {j} : sub'[i] = sub[i] /\ comments'[i] = comments[i]
    BY <1>0
  <1>2. ASSUME NEW e, EventSound(e), e.at \in Nat PROVE EventSound(e)'
    BY <1>0, <1>1, <1>2 DEF EventSound, Latest
  <1>3. ASSUME NEW n \in Cycles PROVE HoldsSound(cycle[n])'
    <2>0. HoldsSound(cycle[n]) /\ cycle'[n] = cycle[n]
      BY <1>0 DEF EventsSound
    <2>1. ASSUME cycle[n].pc = "detecting" PROVE SoundEvents(cycle[n].todo)'
      <3>1. \A e \in cycle[n].todo : e.at \in Nat /\ EventSound(e)
        BY <2>0, <2>1, LeftType DEF HoldsSound, SoundEvents, Event
      <3> QED
        BY <1>2, <2>0, <2>1, <3>1 DEF HoldsSound, SoundEvents
    <2>2. ASSUME IsHanding(cycle[n])
          PROVE  /\ SoundEvents(List(cycle[n]))'
                 /\ cycle[n].item.at = sub'[cycle[n].item.issue].at => cycle[n].stamp >= cycle[n].item.at
      <3>1. \A e \in List(cycle[n]) : e.at \in Nat /\ EventSound(e)
        BY <2>0, <2>2, LeftType DEF HoldsSound, SoundEvents, Event, List, IsHanding
      <3>2. SoundEvents(List(cycle[n]))'
        BY <1>2, <2>0, <2>2, <3>1 DEF HoldsSound, SoundEvents, List
      <3>3. cycle[n].item \in List(cycle[n])
        BY DEF List
      <3>4. cycle[n].item.issue \in DevIssues /\ cycle[n].item.at <= now /\ cycle[n].item.at \in Nat
        BY <3>1, <3>3 DEF EventSound
      <3>5. cycle[n].item.at = sub'[cycle[n].item.issue].at => cycle[n].item.issue # j
        BY <1>0, <1>1, <3>4
      <3> QED
        BY <1>1, <2>0, <2>2, <3>2, <3>4, <3>5 DEF HoldsSound
    <2> QED
      BY <2>0, <2>1, <2>2 DEF HoldsSound, IsHanding
  <1>4. EventsSound'
    <2>1. ASSUME NEW i \in DevIssues PROVE sub'[i].at <= now' /\ (sub'[i].value \in Kinds => sub'[i].at >= 1)
      <3>1. CASE i = j
        BY <1>0, <1>1, <3>1
      <3>2. CASE i # j
        BY <1>0, <1>1, <3>2 DEF EventsSound
      <3> QED
        BY <3>1, <3>2
    <2> QED
      BY <1>3, <2>1 DEF EventsSound
  <1>5. ASSUME NEW i \in DevIssues PROVE Announced(i)'
    <2>1. CASE i # j
      <3>1. sub'[i] = sub[i] /\ comments'[i] = comments[i]
        BY <1>1, <2>1
      <3>2. \A m \in Cycles : Overtaken(m, i)' <=> Overtaken(m, i)
        BY <1>0, <3>1 DEF Overtaken
      <3>3. (Stored(i)' <=> Stored(i)) /\ Latest(i)' = Latest(i)
        BY <1>0, <3>1 DEF Stored, Latest
      <3>4. OnRecord(i) => OnRecord(i)'
        BY <1>0, <3>3 DEF OnRecord
      <3>5. Announcers(i)' \subseteq Announcers(i)
        BY <1>0, <3>2, <3>3 DEF Announcers, MayAnnounce
      <3> QED
        BY <1>0, <3>1, <3>4, <3>5, NoneJoins DEF AllAnnounced
    <2>2. CASE i = j
      <3>1. Announcers(i)' \subseteq InFlight
        BY <1>0 DEF Announcers, MayAnnounce, Overtaken, InFlight, IsHanding
      <3>2. Cardinality(Announcers(i)') <= Cardinality(InFlight) /\ Cardinality(Announcers(i)') \in Nat
        BY <3>1, InFlightCount, FS_Subset, FS_CardinalityType
      <3>3. Cardinality(InFlight) \in Nat /\ overlaps \in Nat /\ restarts \in Nat
        BY InFlightCount, AnnouncedTypes
      <3>4. Cardinality(Announcers(i)') <= 1 + (overlaps + restarts) /\ overlaps + restarts \in Nat
        BY <3>2, <3>3 DEF FewInFlight
      <3>5. Announcers(i)' \in SUBSET Cycles /\ OnRecord(i)' \in BOOLEAN
        BY DEF Announcers, OnRecord
      <3>6. Owed(0, Announcers(i)', OnRecord(i)', overlaps + restarts)
        BY <3>4, <3>5, OwedAnew
      <3>7. comments'[i] = 0
        BY <1>0, <2>2
      <3> QED
        BY <1>0, <3>6, <3>7 DEF Announced
    <2> QED
      BY <2>1, <2>2
  <1> QED
    BY <1>4, <1>5 DEF AllAnnounced

\* The clock and everybody else.
LEMMA BystandersAnnounced ==
    ASSUME WellFormed, WellFormed', AllAnnounced, JiraAhead <= 0,
           sub' = sub, now' \in Nat, now' >= now, lastHandoff' = lastHandoff, comments' = comments,
           cycle' = cycle, overlaps' = overlaps, restarts' = restarts
    PROVE  AllAnnounced'
  <1>1. EventsSound /\ now \in Nat
    BY NowType DEF AllAnnounced
  <1>2. ASSUME NEW e, EventSound(e), e.at \in Nat PROVE EventSound(e)'
    BY <1>1, <1>2 DEF EventSound, Latest
  <1>3. ASSUME NEW n \in Cycles PROVE HoldsSound(cycle[n])'
    <2>0. HoldsSound(cycle[n])
      BY <1>1 DEF EventsSound
    <2>1. ASSUME cycle[n].pc = "detecting" PROVE SoundEvents(cycle[n].todo)'
      <3>1. \A e \in cycle[n].todo : e.at \in Nat /\ EventSound(e)
        BY <2>0, <2>1, LeftType DEF HoldsSound, SoundEvents, Event
      <3> QED
        BY <1>2, <2>0, <2>1, <3>1 DEF HoldsSound, SoundEvents
    <2>2. ASSUME IsHanding(cycle[n]) PROVE SoundEvents(List(cycle[n]))'
      <3>1. \A e \in List(cycle[n]) : e.at \in Nat /\ EventSound(e)
        BY <2>0, <2>2, LeftType DEF HoldsSound, SoundEvents, Event, List, IsHanding
      <3> QED
        BY <1>2, <2>0, <2>2, <3>1 DEF HoldsSound, SoundEvents, List
    <2> QED
      BY <2>0, <2>1, <2>2 DEF HoldsSound, IsHanding
  <1>4. EventsSound'
    <2>1. ASSUME NEW i \in DevIssues PROVE sub'[i].at <= now' /\ (sub'[i].value \in Kinds => sub'[i].at >= 1)
      BY <1>1, AnnouncedTypes DEF EventsSound
    <2> QED
      BY <1>3, <2>1 DEF EventsSound
  <1>5. ASSUME NEW i \in DevIssues PROVE Announced(i)'
    BY <1>1 DEF AllAnnounced, Announced, Announcers, MayAnnounce, Overtaken, Stored, OnRecord, Latest, IsHanding
  <1> QED
    BY <1>4, <1>5 DEF AllAnnounced

LEMMA RestartAnnounced ==
    ASSUME WellFormed, WellFormed', AllAnnounced, JiraAhead <= 0, Restart
    PROVE  AllAnnounced'
  <1>0. /\ sub' = sub /\ now' = now /\ comments' = comments
        /\ overlaps' = overlaps /\ restarts' = restarts + 1 /\ \A n \in Cycles : cycle'[n].pc = "idle"
    BY DEF Restart, jira, AllIdle, Idle, At
  <1>1. EventsSound'
    BY <1>0 DEF AllAnnounced, EventsSound, HoldsSound, IsHanding
  <1>2. ASSUME NEW i \in DevIssues PROVE Announced(i)'
    <2>1. Announcers(i)' = {} /\ OnRecord(i)' \in BOOLEAN
      BY <1>0 DEF Announcers, MayAnnounce, Overtaken, IsHanding, OnRecord
    <2>2. CASE i \in ConfigOnly
      BY <1>0, <2>2 DEF AllAnnounced, Announced
    <2>3. CASE i \notin ConfigOnly
      <3>1. Owed(comments[i], Announcers(i), OnRecord(i), overlaps + restarts)
        BY <2>3 DEF AllAnnounced, Announced
      <3>2. Owed(comments[i], {}, OnRecord(i)', overlaps + restarts + 1)
        BY <2>1, <3>1, AnnouncedTypes, OwedForgotten
      <3>3. overlaps' + restarts' = overlaps + restarts + 1
        BY <1>0, AnnouncedTypes
      <3> QED
        BY <1>0, <2>1, <2>3, <3>2, <3>3 DEF Announced
    <2> QED
      BY <2>2, <2>3
  <1> QED
    BY <1>1, <1>2 DEF AllAnnounced

LEMMA NextAnnounced ==
    ASSUME WellFormed, WellFormed', FewInFlight, AllAnnounced, [Next]_vars
    PROVE  AllAnnounced'
  <1> SUFFICES ASSUME JiraAhead <= 0 PROVE AllAnnounced'
    BY DEF AllAnnounced
  <1>0. now \in Nat
    BY NowType
  <1>1. CASE UNCHANGED vars
    BY <1>0, <1>1, BystandersAnnounced DEF vars, jira, memory, told, bounds
  <1>2. CASE \E i \in DevIssues, value \in Kinds \cup {"other"} : SetSubStatus(i, value)
    BY <1>2, SubStatusAnnounced
  <1>3. CASE \/ \E i \in DevIssues \cup Intakes : Touch(i)
             \/ \E i \in Intakes : Label(i)
             \/ \E v \in Versions, date \in Dates \cup {None} : Reschedule(v, date)
             \/ AskForViolations \/ AnswerViolation \/ TimePasses
    <2>1. UNCHANGED <<sub, lastHandoff, comments, cycle, overlaps, restarts>>
      BY <1>3 DEF Touch, Label, Reschedule, AskForViolations, AnswerViolation, TimePasses, jira, memory, told
    <2>2. now' = now \/ now' = now + 1
      BY <1>3 DEF Touch, Label, Reschedule, AskForViolations, AnswerViolation, TimePasses, Tick
    <2>3. now' \in Nat /\ now' >= now
      BY <1>0, <2>2
    <2> QED
      BY <2>1, <2>3, BystandersAnnounced
  <1>4. CASE Restart
    BY <1>4, RestartAnnounced
  <1>5. CASE Poll \/ RunNow
    BY <1>5, StartAnnounced DEF Poll, RunNow
  <1>6. ASSUME NEW n \in Cycles, CycleStep(n) PROVE AllAnnounced'
    BY <1>6, StepsElsewhere, ElsewhereAnnounced, SearchAnnounced, FoundAnnounced, CloseAnnounced,
       CommentAnnounced, RecordAnnounced
  <1> QED
    BY <1>1, <1>2, <1>3, <1>4, <1>5, <1>6 DEF Next

\* Where Jira's stamps do not read ahead of UTC, a handoff is announced again only by a
\* cycle that ran beside another, or by a process that has forgotten, for any number of
\* cycles, issues and failed requests.
THEOREM OneHandoffEach == Spec => []HandoffOnce
  <1>1. Init => AllAnnounced /\ FewInFlight
    <2> SUFFICES ASSUME Init PROVE AllAnnounced /\ FewInFlight
      OBVIOUS
    <2>1. \A n \in Cycles : cycle[n].pc = "idle"
      BY DEF Init, AllIdle, Idle, At
    <2>2. EventsSound
      BY <2>1 DEF Init, EventsSound, HoldsSound, IsHanding, Kinds
    <2>3. ASSUME NEW i \in DevIssues PROVE Announced(i)
      <3>1. Announcers(i) = {}
        BY <2>1 DEF Announcers, MayAnnounce, Overtaken, IsHanding
      <3> QED
        BY <3>1, FS_EmptySet DEF Init, Announced, Owed
    <2>4. InFlight = {}
      BY <2>1 DEF InFlight
    <2> QED
      BY <2>2, <2>3, <2>4, FS_EmptySet DEF Init, AllAnnounced, FewInFlight
  <1>2. WellFormed /\ AllAnnounced => HandoffOnce
    <2> SUFFICES ASSUME WellFormed, AllAnnounced, JiraAhead <= 0, NEW i \in DevIssues
                 PROVE  comments[i] <= 1 + overlaps + restarts
      BY DEF HandoffOnce
    <2>1. Announcers(i) \in SUBSET Cycles /\ comments[i] \in Nat /\ overlaps \in Nat /\ restarts \in Nat
      BY AnnouncedTypes
    <2>2. Cardinality(Announcers(i)) \in Nat
      BY <2>1, OwedFacts
    <2> QED
      BY <2>1, <2>2 DEF AllAnnounced, Announced, Owed
  <1> QED
    BY <1>1, <1>2, InitWellFormed, NextWellFormed, NextFewInFlight, NextAnnounced, PTL DEF Spec

-----------------------------------------------------------------------------
(* One definition-of-ready comment in a day.                               *)

\* A cycle that has not come to the daily scan yet.
Ahead(c) == c.pc \in Early \cup {"creating"} \cup Made

IsScanning(c) == c.pc \in {"sprint", "flagging"}

ScanDone == lastDorScanDate = Today

\* Cycle n scans for a day gone by, and will note that day as the one last scanned.
Behind(n) == IsScanning(cycle[n]) /\ cycle[n].day # Today

\* Cycle n may comment on issue i for today's scan, or have it scanned for anew.
MayFlag(n, i) ==
    \/ cycle[n].pc = "sprint"
    \/ cycle[n].pc = "flagging" /\ (i \in List(cycle[n]) \/ cycle[n].day # Today)
    \/ Ahead(cycle[n]) /\ (~ScanDone \/ \E m \in Cycles : Behind(m))

Flaggers(i) == {n \in Cycles : MayFlag(n, i)}

HasFlagged(n, i) == cycle[n].pc = "flagging" /\ cycle[n].day = Today /\ i \notin List(cycle[n])

\* Issue i was looked at today, as far as this process knows.
LookedAt(i) == ScanDone \/ \E n \in Cycles : HasFlagged(n, i)

\* Cycle n has yet to comment on issue i for a day gone by.
Belated(n, i)   == Behind(n) /\ (cycle[n].pc = "sprint" \/ i \in List(cycle[n]))
BelatedOnes(i)  == {n \in Cycles : Belated(n, i)}
Called(i)       == IF i \in call THEN 1 ELSE 0

\* The comments of today, and those to come from scans of another day and from a call.
Pledged(i) == flags[i] + Cardinality(BelatedOnes(i)) + Called(i)

Excuses     == overlaps + restarts + midnights + asked
Flagging(i) == Owed(Pledged(i), Flaggers(i), LookedAt(i), Excuses)
AllFlagging == (call # {} => asked >= 1) /\ \A i \in NotReady : Flagging(i)

\* What is owed for c is owed for no more than c, and for d more faults for c + d.
LEMMA OwedSlack ==
    ASSUME NEW c \in Nat, NEW b \in Nat, NEW f \in Nat, NEW g \in Nat, b + f <= c + g,
           NEW S \in SUBSET Cycles, NEW d \in BOOLEAN, Owed(c, S, d, f)
    PROVE  Owed(b, S, d, g)
  BY OwedFacts DEF Owed

LEMMA FlagTypes ==
    ASSUME WellFormed, NEW i \in NotReady
    PROVE  /\ flags[i] \in Nat /\ overlaps \in Nat /\ restarts \in Nat /\ midnights \in Nat /\ asked \in Nat
           /\ Excuses \in Nat /\ Called(i) \in 0..1 /\ Cardinality(BelatedOnes(i)) \in Nat
           /\ Pledged(i) \in Nat
           /\ Flaggers(i) \in SUBSET Cycles /\ LookedAt(i) \in BOOLEAN
  <1>1. flags[i] \in Nat /\ overlaps \in Nat /\ restarts \in Nat /\ midnights \in Nat /\ asked \in Nat
    BY DEF WellFormed, TypeOK
  <1>2. Called(i) \in 0..1
    BY DEF Called
  <1>3. Cardinality(BelatedOnes(i)) \in Nat
    BY OwedFacts DEF BelatedOnes
  <1>4. Flaggers(i) \in SUBSET Cycles /\ LookedAt(i) \in BOOLEAN
    BY DEF Flaggers, LookedAt, ScanDone
  <1> QED
    BY <1>1, <1>2, <1>3, <1>4 DEF Excuses, Pledged

FlagTyped(i) ==
    /\ flags[i] \in Nat /\ Excuses \in Nat /\ Called(i) \in 0..1
    /\ Cardinality(BelatedOnes(i)) \in Nat /\ Pledged(i) \in Nat
    /\ Flaggers(i) \in SUBSET Cycles /\ LookedAt(i) \in BOOLEAN

LEMMA AllFlagTyped == WellFormed => \A i \in NotReady : FlagTyped(i)
  BY FlagTypes DEF FlagTyped

LEMMA AllFlagTypedAfter == WellFormed' => (\A i \in NotReady : FlagTyped(i))'
  BY AllFlagTyped, PTL

LEMMA FlagTypesAfter ==
    ASSUME WellFormed', NEW i \in NotReady
    PROVE  /\ flags'[i] \in Nat /\ Excuses' \in Nat /\ Called(i)' \in 0..1
           /\ Cardinality(BelatedOnes(i)') \in Nat /\ Pledged(i)' \in Nat
           /\ Flaggers(i)' \in SUBSET Cycles /\ LookedAt(i)' \in BOOLEAN
  BY AllFlagTypedAfter DEF FlagTyped

\* Nothing more is pledged than before, and nobody may flag who might not.
LEMMA NoneFlags ==
    ASSUME WellFormed, WellFormed', NEW i \in NotReady, Flagging(i), Pledged(i)' <= Pledged(i),
           Excuses' = Excuses, LookedAt(i) => LookedAt(i)', Flaggers(i)' \subseteq Flaggers(i)
    PROVE  Flagging(i)'
  <1>0. /\ Pledged(i) \in Nat /\ Excuses \in Nat /\ LookedAt(i) \in BOOLEAN /\ Flaggers(i) \in SUBSET Cycles
        /\ Pledged(i)' \in Nat /\ LookedAt(i)' \in BOOLEAN /\ Flaggers(i)' \in SUBSET Flaggers(i)
        /\ Flaggers(i)' \in SUBSET Cycles
    BY FlagTypes, FlagTypesAfter
  <1>1. Owed(Pledged(i), Flaggers(i)', LookedAt(i)', Excuses)
    BY <1>0, OwedStays DEF Flagging
  <1>2. Owed(Pledged(i)', Flaggers(i)', LookedAt(i)', Excuses)
    BY <1>0, <1>1, OwedSlack
  <1> QED
    BY <1>2 DEF Flagging

\* Cycle n flags the issue, or gives up the right to.
LEMMA OneFlags ==
    ASSUME WellFormed, WellFormed', NEW i \in NotReady, Flagging(i), NEW n \in Flaggers(i),
           Pledged(i)' <= Pledged(i) \/ (Pledged(i)' <= Pledged(i) + 1 /\ LookedAt(i)'),
           Excuses' = Excuses, Flaggers(i)' \subseteq Flaggers(i) \ {n}
    PROVE  Flagging(i)'
  <1>0. /\ Pledged(i) \in Nat /\ Excuses \in Nat /\ LookedAt(i) \in BOOLEAN /\ Flaggers(i) \in SUBSET Cycles
        /\ Pledged(i)' \in Nat /\ LookedAt(i)' \in BOOLEAN /\ Flaggers(i)' \in SUBSET (Flaggers(i) \ {n})
        /\ Flaggers(i)' \in SUBSET Cycles
    BY FlagTypes, FlagTypesAfter
  <1>1. PICK b \in Nat : Pledged(i)' <= b /\ (b = Pledged(i) \/ (b = Pledged(i) + 1 /\ LookedAt(i)'))
    <2>1. CASE Pledged(i)' <= Pledged(i)
      BY <1>0, <2>1
    <2>2. CASE Pledged(i)' <= Pledged(i) + 1 /\ LookedAt(i)'
      <3>1. Pledged(i) + 1 \in Nat
        BY <1>0
      <3> QED
        BY <2>2, <3>1
    <2> QED
      BY <2>1, <2>2
  <1>2. Owed(b, Flaggers(i)', LookedAt(i)', Excuses)
    BY <1>0, <1>1, OwedLeaves DEF Flagging
  <1>3. Owed(Pledged(i)', Flaggers(i)', LookedAt(i)', Excuses)
    BY <1>0, <1>1, <1>2, OwedSlack
  <1> QED
    BY <1>3 DEF Flagging

\* With no more comments and no more calls, no more is pledged unless a scan falls behind.
LEMMA PledgesStay ==
    ASSUME WellFormed, WellFormed', NEW i \in NotReady, flags'[i] = flags[i], call' = call,
           BelatedOnes(i)' \subseteq BelatedOnes(i)
    PROVE  Pledged(i)' <= Pledged(i)
  <1>1. /\ BelatedOnes(i) \in SUBSET Cycles
        /\ Cardinality(BelatedOnes(i)) \in Nat /\ Cardinality(BelatedOnes(i)') \in Nat
        /\ Cardinality(BelatedOnes(i)') <= Cardinality(BelatedOnes(i))
    BY OwedFacts, FS_Subset DEF BelatedOnes
  <1>2. Called(i)' = Called(i) /\ Called(i) \in Nat /\ flags[i] \in Nat
    BY FlagTypes DEF Called
  <1> QED
    BY <1>1, <1>2 DEF Pledged

\* Other cycles may flag an issue only if they might before.
LEMMA OthersFlag ==
    ASSUME NEW n \in Cycles, OthersStay(n), now' = now, NEW i,
           Behind(n)' => Behind(n), ScanDone => ScanDone' \/ Behind(n)
    PROVE  \A m \in Cycles \ {n} : (MayFlag(m, i)' => MayFlag(m, i)) /\ (Belated(m, i)' <=> Belated(m, i))
  <1> SUFFICES ASSUME NEW m \in Cycles \ {n}
               PROVE  (MayFlag(m, i)' => MayFlag(m, i)) /\ (Belated(m, i)' <=> Belated(m, i))
    OBVIOUS
  <1>1. Today' = Today
    BY DEF Today
  <1>2. \A k \in Cycles : Behind(k)' => Behind(k)
    BY <1>1 DEF OthersStay, Behind
  <1>3. cycle'[m] = cycle[m]
    BY DEF OthersStay
  <1> QED
    BY <1>1, <1>2, <1>3 DEF MayFlag, Behind, Belated

\* A cycle on its way to the daily scan begins it unless the day has been scanned.
GoesAhead(n) ==
    /\ OthersStay(n) /\ flags' = flags /\ lastDorScanDate' = lastDorScanDate /\ Ahead(cycle[n])
    /\ \/ Ahead(cycle'[n])
       \/ ScanDone /\ cycle'[n].pc = "idle"
       \/ ~ScanDone /\ cycle'[n].pc = "sprint" /\ cycle'[n].day = Today

LEMMA IntakesGoAhead ==
    ASSUME WellFormed, NEW n \in Cycles, NEW todo, NextIntake(n, todo)
    PROVE  /\ OthersStay(n)
           /\ \/ cycle'[n].pc = "creating"
              \/ ScanDone /\ cycle'[n].pc = "idle"
              \/ ~ScanDone /\ cycle'[n].pc = "sprint" /\ cycle'[n].day = Today
  <1>1. CASE todo # {}
    BY <1>1, NextItemOutcome DEF NextIntake
  <1>2. CASE todo = {}
    BY <1>2 DEF NextIntake, Idle, At, OthersStay, ScanDone, WellFormed, CyclesFit
  <1> QED
    BY <1>1, <1>2

LEMMA StepsAhead ==
    ASSUME WellFormed, NEW n \in Cycles, CycleStep(n), ~(SprintRead(n) \/ Flagged(n))
    PROVE  GoesAhead(n)
  <1>1. CASE SearchHandoffs(n) \/ HandoffsFound(n) \/ Closed(n) \/ Commented(n) \/ Recorded(n)
    <2>1. flags' = flags /\ lastDorScanDate' = lastDorScanDate /\ Ahead(cycle[n])
      BY <1>1 DEF SearchHandoffs, HandoffsFound, Closed, Commented, Recorded, memory, told, Ahead, Early
    <2>2. OthersStay(n) /\ cycle'[n].pc \in {"detecting", "closing", "commenting", "recording", "versions"}
      BY <1>1, SearchOutcome, NextItemOutcome, ContinueOutcome
         DEF HandoffsFound, Closed, Commented, Recorded, NextHandoff
    <2> QED
      BY <2>1, <2>2 DEF GoesAhead, Ahead, Early
  <1>2. CASE VersionsFound(n) \/ SprintFound(n) \/ SprintMoved(n)
    <2>1. flags' = flags /\ lastDorScanDate' = lastDorScanDate /\ Ahead(cycle[n])
      BY <1>2 DEF VersionsFound, SprintFound, SprintMoved, memory, told, Ahead, Early
    <2>2. OthersStay(n) /\ cycle'[n].pc \in {"finding", "moving", "intakes"}
      BY <1>2, NextItemOutcome, ContinueOutcome DEF VersionsFound, SprintFound, SprintMoved, NextMove
    <2> QED
      BY <2>1, <2>2 DEF GoesAhead, Ahead, Early
  <1>3. CASE IntakesFound(n) \/ DefectCreated(n) \/ Linked(n) \/ Unlabelled(n)
    <2>1. flags' = flags /\ lastDorScanDate' = lastDorScanDate /\ Ahead(cycle[n])
      BY <1>3 DEF IntakesFound, DefectCreated, Linked, Unlabelled, memory, told, Ahead, Early, Made
    <2>2. \/ \E pc \in Made : Continue(n, pc)
          \/ \E todo : NextIntake(n, todo)
      BY <1>3 DEF IntakesFound, DefectCreated, NotCreated, Linked, Unlabelled, Made
    <2>3. ASSUME NEW pc \in Made, Continue(n, pc) PROVE GoesAhead(n)
      BY <2>1, <2>3, ContinueOutcome DEF GoesAhead, Ahead
    <2>4. ASSUME NEW todo, NextIntake(n, todo) PROVE GoesAhead(n)
      BY <2>1, <2>4, IntakesGoAhead DEF GoesAhead, Ahead
    <2> QED
      BY <2>2, <2>3, <2>4
  <1> QED
    BY <1>1, <1>2, <1>3 DEF CycleStep

\* What a step of a cycle leaves as it is.
LEMMA StepsExcuse ==
    ASSUME NEW n \in Cycles, CycleStep(n)
    PROVE  now' = now /\ Today' = Today /\ call' = call /\ asked' = asked /\ Excuses' = Excuses
  BY DEF CycleStep, Today, Excuses

LEMMA AheadFlagging ==
    ASSUME WellFormed, WellFormed', AllFlagging, NEW n \in Cycles, CycleStep(n), GoesAhead(n)
    PROVE  AllFlagging'
  <1>1. ASSUME NEW i \in NotReady PROVE Flagging(i)'
    <2>0. /\ now' = now /\ Excuses' = Excuses /\ Today' = Today /\ call' = call
          /\ (ScanDone' <=> ScanDone) /\ OthersStay(n) /\ flags' = flags /\ Flagging(i)
      BY StepsExcuse DEF GoesAhead, ScanDone, AllFlagging
    <2>1. ~Behind(n)' /\ ~Behind(n) /\ ~HasFlagged(n, i)
      BY <2>0 DEF GoesAhead, Ahead, Early, Made, Behind, IsScanning, HasFlagged
    <2>2. \A m \in Cycles : Behind(m)' <=> Behind(m)
      BY <2>0, <2>1 DEF OthersStay, Behind
    <2>3. MayFlag(n, i)' => MayFlag(n, i)
      BY <2>0, <2>2 DEF GoesAhead, MayFlag, Ahead, Early, Made
    <2>4. Flaggers(i)' \subseteq Flaggers(i)
      BY <2>0, <2>1, <2>3, OthersFlag DEF Flaggers
    <2>5. BelatedOnes(i)' \subseteq BelatedOnes(i)
      BY <2>0, <2>1, OthersFlag DEF BelatedOnes, Belated
    <2>6. LookedAt(i) => LookedAt(i)'
      BY <2>0, <2>1 DEF LookedAt, HasFlagged, OthersStay
    <2>7. Pledged(i)' <= Pledged(i)
      BY <2>0, <2>5, PledgesStay
    <2> QED
      BY <2>0, <2>4, <2>6, <2>7, NoneFlags
  <1> QED
    BY <1>1, StepsExcuse DEF AllFlagging

\* What a scan makes of its list, when it goes on with the issues of todo.
LEMMA FlagsNext ==
    ASSUME WellFormed, NEW n \in Cycles, NEW todo, NextFlag(n, todo)
    PROVE  /\ OthersStay(n)
           /\ \/ /\ todo = {} /\ cycle'[n].pc = "idle" /\ lastDorScanDate' = cycle[n].day
              \/ /\ todo # {} /\ cycle'[n].pc = "flagging" /\ lastDorScanDate' = lastDorScanDate
                 /\ List(cycle'[n]) = todo /\ cycle'[n].day = cycle[n].day
  <1>1. cycle \in [Cycles -> CycleRecord(now)] /\ now \in Nat
    BY NowType DEF CyclesFit
  <1>2. CASE todo = {}
    BY <1>1, <1>2 DEF NextFlag, dorScanDone, Idle, At, OthersStay
  <1>3. CASE todo # {}
    <2>1. PICK j \in todo, t \in 0..now :
             cycle' = [cycle EXCEPT ![n] = Taking("flagging", j, todo, t, cycle[n].day)]
      BY <1>1, <1>3, NextItemFacts DEF NextFlag
    <2> QED
      BY <1>1, <1>3, <2>1 DEF NextFlag, Taking, OthersStay, List
  <1> QED
    BY <1>2, <1>3

LEMMA ReadFlagging ==
    ASSUME WellFormed, WellFormed', AllFlagging, NEW n \in Cycles, CycleStep(n), SprintRead(n)
    PROVE  AllFlagging'
  <1>1. ASSUME NEW i \in NotReady PROVE Flagging(i)'
    <2>0. /\ now' = now /\ Excuses' = Excuses /\ Today' = Today /\ call' = call
          /\ flags' = flags /\ cycle[n].pc = "sprint" /\ Flagging(i) /\ n \in Flaggers(i)
      BY StepsExcuse DEF SprintRead, told, AllFlagging, Flaggers, MayFlag
    <2>1. ASSUME NEW some \in SUBSET NotReady, some # {}, NextFlag(n, some) PROVE Flagging(i)'
      <3>1. /\ OthersStay(n) /\ cycle'[n].pc = "flagging" /\ lastDorScanDate' = lastDorScanDate
            /\ List(cycle'[n]) = some /\ cycle'[n].day = cycle[n].day
        BY <2>1, FlagsNext
      <3>2. (Behind(n)' => Behind(n)) /\ (ScanDone' <=> ScanDone)
        BY <2>0, <3>1 DEF Behind, IsScanning, ScanDone
      <3>3. Flaggers(i)' \subseteq Flaggers(i)
        BY <2>0, <3>1, <3>2, OthersFlag DEF Flaggers
      <3>4. BelatedOnes(i)' \subseteq BelatedOnes(i)
        BY <2>0, <3>1, <3>2, OthersFlag DEF BelatedOnes, Belated
      <3>5. LookedAt(i) => LookedAt(i)'
        BY <2>0, <3>1, <3>2 DEF LookedAt, HasFlagged, OthersStay
      <3>6. Pledged(i)' <= Pledged(i)
        BY <2>0, <3>4, PledgesStay
      <3> QED
        BY <2>0, <3>3, <3>5, <3>6, NoneFlags
    <2>2. ASSUME OthersStay(n), cycle'[n].pc = "idle",
                 lastDorScanDate' = lastDorScanDate \/ lastDorScanDate' = cycle[n].day
          PROVE  Flagging(i)'
      <3>1. ~Behind(n)' /\ (ScanDone => ScanDone' \/ Behind(n))
        BY <2>0, <2>2 DEF Behind, IsScanning, ScanDone
      <3>2. ~MayFlag(n, i)' /\ ~Belated(n, i)'
        BY <2>2, <3>1 DEF MayFlag, Ahead, Early, Made, Belated
      <3>3. Flaggers(i)' \subseteq Flaggers(i) \ {n}
        BY <2>0, <2>2, <3>1, <3>2, OthersFlag DEF Flaggers
      <3>4. BelatedOnes(i)' \subseteq BelatedOnes(i)
        BY <2>0, <2>2, <3>1, <3>2, OthersFlag DEF BelatedOnes
      <3>5. Pledged(i)' <= Pledged(i)
        BY <2>0, <3>4, PledgesStay
      <3> QED
        BY <2>0, <3>3, <3>5, OneFlags
    <2>3. CASE ScanGivenUp(n)
      <3>1. OthersStay(n) /\ cycle'[n].pc = "idle" /\ lastDorScanDate' = lastDorScanDate
        BY <2>3 DEF ScanGivenUp, Idle, At, OthersStay, WellFormed, CyclesFit
      <3> QED
        BY <2>2, <3>1
    <2>4. CASE NextFlag(n, {})
      BY <2>2, <2>4, FlagsNext
    <2> QED
      <3>1. \/ \E some \in SUBSET NotReady : NextFlag(n, some)
            \/ ScanGivenUp(n)
        BY DEF SprintRead
      <3> QED
        BY <2>1, <2>3, <2>4, <3>1
  <1> QED
    BY <1>1, StepsExcuse DEF AllFlagging

\* A comment is made or missed; the last one notes the day of the scan.
LEMMA FlaggedFlagging ==
    ASSUME WellFormed, WellFormed', AllFlagging, NEW n \in Cycles, CycleStep(n), Flagged(n)
    PROVE  AllFlagging'
  <1> DEFINE todo == cycle[n].todo
             item == cycle[n].item
  <1>1. ASSUME NEW i \in NotReady PROVE Flagging(i)'
    <2>0. /\ now' = now /\ Excuses' = Excuses /\ Today' = Today /\ call' = call
          /\ cycle[n].pc = "flagging" /\ Flagging(i) /\ NextFlag(n, todo)
          /\ flags' = [flags EXCEPT ![item] = @ + 1] \/ flags' = flags
      BY StepsExcuse DEF Flagged, Flag, AllFlagging
    <2>1. item \in NotReady /\ item \notin todo /\ flags \in [NotReady -> Nat]
      BY <2>0 DEF WellFormed, TypeOK, CyclesFit, Fits
    <2>2. /\ flags'[i] # flags[i] => i = item
          /\ flags'[i] = flags[i] \/ flags'[i] = flags[i] + 1
      BY <2>0, <2>1
    <2>3. /\ OthersStay(n)
          /\ \/ /\ todo = {} /\ cycle'[n].pc = "idle" /\ lastDorScanDate' = cycle[n].day
             \/ /\ todo # {} /\ cycle'[n].pc = "flagging" /\ lastDorScanDate' = lastDorScanDate
                /\ List(cycle'[n]) = todo /\ cycle'[n].day = cycle[n].day
      BY <2>0, FlagsNext
    <2>4. (Behind(n)' => Behind(n)) /\ (ScanDone => ScanDone' \/ Behind(n))
      BY <2>0, <2>3 DEF Behind, IsScanning, ScanDone
    <2>5. MayFlag(n, i)' => MayFlag(n, i)
      BY <2>0, <2>3 DEF MayFlag, Ahead, Early, Made, List
    <2>6. Flaggers(i)' \subseteq Flaggers(i)
      BY <2>0, <2>3, <2>4, <2>5, OthersFlag DEF Flaggers
    <2>7. Belated(n, i)' => Belated(n, i) /\ i # item
      BY <2>0, <2>1, <2>3, <2>4 DEF Belated, Behind, IsScanning, List
    <2>8. BelatedOnes(i)' \subseteq BelatedOnes(i)
      BY <2>0, <2>3, <2>4, <2>7, OthersFlag DEF BelatedOnes
    <2>9. i # item => Pledged(i)' <= Pledged(i)
      BY <2>0, <2>2, <2>8, PledgesStay
    <2>10. CASE cycle[n].day = Today /\ i = item
      <3>1. n \in Flaggers(i) /\ ~MayFlag(n, i)'
        BY <2>0, <2>1, <2>3, <2>10 DEF Flaggers, MayFlag, List, Ahead, Early, Made
      <3>2. Flaggers(i)' \subseteq Flaggers(i) \ {n}
        BY <2>6, <3>1 DEF Flaggers
      <3>3. LookedAt(i)'
        BY <2>0, <2>1, <2>3, <2>10 DEF LookedAt, ScanDone, HasFlagged
      <3>4. Pledged(i)' <= Pledged(i) + 1
        <4>1. /\ Cardinality(BelatedOnes(i)) \in Nat /\ Cardinality(BelatedOnes(i)') \in Nat
              /\ Cardinality(BelatedOnes(i)') <= Cardinality(BelatedOnes(i))
          <5>1. BelatedOnes(i) \in SUBSET Cycles
            BY DEF BelatedOnes
          <5> QED
            BY <2>8, <5>1, OwedFacts, FS_Subset
        <4>2. Called(i)' = Called(i) /\ Called(i) \in Nat /\ flags[i] \in Nat
          BY <2>0, FlagTypes DEF Called
        <4> QED
          BY <2>2, <4>1, <4>2 DEF Pledged
      <3> QED
        BY <2>0, <3>1, <3>2, <3>3, <3>4, OneFlags
    <2>11. CASE cycle[n].day = Today /\ i # item
      <3>1. LookedAt(i) => LookedAt(i)'
        <4>1. ScanDone => ScanDone'
          BY <2>0, <2>3, <2>11 DEF ScanDone
        <4>2. HasFlagged(n, i) => LookedAt(i)'
          BY <2>0, <2>3, <2>11 DEF HasFlagged, LookedAt, ScanDone, List
        <4>3. \A m \in Cycles \ {n} : HasFlagged(m, i) => HasFlagged(m, i)'
          BY <2>0, <2>3 DEF HasFlagged, OthersStay
        <4> QED
          BY <4>1, <4>2, <4>3 DEF LookedAt
      <3> QED
        BY <2>0, <2>6, <2>9, <2>11, <3>1, NoneFlags
    <2>12. CASE cycle[n].day # Today
      <3>1. Pledged(i)' <= Pledged(i)
        <4>1. CASE i # item
          BY <2>9, <4>1
        <4>2. CASE i = item
          <5>1. n \in BelatedOnes(i) /\ BelatedOnes(i)' \subseteq BelatedOnes(i) \ {n}
            BY <2>0, <2>7, <2>8, <2>12, <4>2 DEF BelatedOnes, Belated, Behind, IsScanning, List
          <5>2. BelatedOnes(i) \in SUBSET Cycles /\ BelatedOnes(i) \ {n} \in SUBSET Cycles
            BY DEF BelatedOnes
          <5>3. /\ Cardinality(BelatedOnes(i)) \in Nat /\ Cardinality(BelatedOnes(i)') \in Nat
                /\ Cardinality(BelatedOnes(i) \ {n}) = Cardinality(BelatedOnes(i)) - 1
                /\ Cardinality(BelatedOnes(i)') <= Cardinality(BelatedOnes(i) \ {n})
            BY <5>1, <5>2, OwedFacts, FS_RemoveElement, FS_Subset
          <5>4. Called(i)' = Called(i) /\ Called(i) \in Nat /\ flags[i] \in Nat
            BY <2>0, FlagTypes DEF Called
          <5> QED
            BY <2>2, <5>3, <5>4 DEF Pledged
        <4> QED
          BY <4>1, <4>2
      <3>2. CASE todo = {}
        <4>1. n \in Flaggers(i) /\ ~MayFlag(n, i)'
          BY <2>0, <2>3, <2>12, <3>2 DEF Flaggers, MayFlag, Ahead, Early, Made
        <4>2. Flaggers(i)' \subseteq Flaggers(i) \ {n}
          BY <2>6, <4>1 DEF Flaggers
        <4> QED
          BY <2>0, <3>1, <4>1, <4>2, OneFlags
      <3>3. CASE todo # {}
        <4>1. LookedAt(i) => LookedAt(i)'
          BY <2>0, <2>3, <2>12, <3>3 DEF LookedAt, ScanDone, HasFlagged, OthersStay
        <4> QED
          BY <2>0, <2>6, <3>1, <4>1, NoneFlags
      <3> QED
        BY <3>2, <3>3
    <2> QED
      BY <2>10, <2>11, <2>12
  <1> QED
    BY <1>1, StepsExcuse DEF AllFlagging

\* A cycle that starts alone will scan only if the day has not been.
LEMMA StartFlagging ==
    ASSUME WellFormed, WellFormed', AllFlagging, NEW n \in Cycles, StartCycle(n)
    PROVE  AllFlagging'
  <1>0. call' = call /\ asked' = asked
    BY DEF StartCycle
  <1>1. ASSUME NEW i \in NotReady PROVE Flagging(i)'
    <2>0. /\ now' = now /\ Today' = Today /\ flags' = flags /\ lastDorScanDate' = lastDorScanDate
          /\ overlaps' = overlaps + Cardinality(InFlight) /\ restarts' = restarts
          /\ midnights' = midnights /\ asked' = asked
          /\ cycle[n].pc = "idle" /\ cycle'[n].pc = "handoffs" /\ OthersStay(n) /\ Flagging(i)
      BY DEF StartCycle, memory, told, Today, OthersStay, At, AllFlagging, WellFormed, CyclesFit
    <2>1. ~Behind(n)' /\ (ScanDone' <=> ScanDone) /\ (LookedAt(i) <=> LookedAt(i)')
      BY <2>0 DEF Behind, IsScanning, ScanDone, LookedAt, HasFlagged, OthersStay
    <2>2. Flaggers(i)' \in SUBSET (Flaggers(i) \cup {n})
      BY <2>0, <2>1, OthersFlag DEF Flaggers
    <2>3. Cardinality(InFlight) = 0 => Flaggers(i) = {} /\ (LookedAt(i) => Flaggers(i)' = {})
      <3> SUFFICES ASSUME Cardinality(InFlight) = 0
                   PROVE  Flaggers(i) = {} /\ (LookedAt(i) => Flaggers(i)' = {})
        OBVIOUS
      <3>1. \A m \in Cycles : cycle[m].pc = "idle"
        BY InFlightCount, FS_EmptySet DEF InFlight
      <3>2. Flaggers(i) = {} /\ ~(\E m \in Cycles : HasFlagged(m, i))
        BY <3>1 DEF Flaggers, MayFlag, Ahead, Early, Made, HasFlagged
      <3>3. \A m \in Cycles : ~Behind(m)'
        BY <2>0, <2>1, <3>1 DEF Behind, IsScanning, OthersStay
      <3>4. ScanDone => ~MayFlag(n, i)'
        BY <2>0, <2>1, <3>3 DEF MayFlag
      <3>5. \A m \in Cycles \ {n} : ~MayFlag(m, i)'
        BY <2>0, <3>1 DEF MayFlag, Ahead, Early, Made, OthersStay
      <3> QED
        BY <3>2, <3>4, <3>5 DEF Flaggers, LookedAt
    <2>4. Cardinality(InFlight) \in Nat
      BY InFlightCount
    <2>5. Owed(Pledged(i), Flaggers(i)', LookedAt(i), Excuses + Cardinality(InFlight))
      BY <2>0, <2>2, <2>3, <2>4, FlagTypes, OwedJoins DEF Flagging
    <2>6. Excuses' = Excuses + Cardinality(InFlight)
      BY <2>0, <2>4, FlagTypes DEF Excuses
    <2>7. BelatedOnes(i)' \subseteq BelatedOnes(i)
      BY <2>0, <2>1, OthersFlag DEF BelatedOnes, Belated
    <2>8. Pledged(i)' <= Pledged(i)
      BY <1>0, <2>0, <2>7, PledgesStay
    <2>9. /\ Pledged(i) \in Nat /\ Pledged(i)' \in Nat /\ Excuses + Cardinality(InFlight) \in Nat
          /\ Flaggers(i)' \in SUBSET Cycles /\ LookedAt(i) \in BOOLEAN
      BY <2>4, FlagTypes, FlagTypesAfter
    <2>10. Owed(Pledged(i)', Flaggers(i)', LookedAt(i), Excuses + Cardinality(InFlight))
      BY <2>5, <2>8, <2>9, OwedSlack
    <2> QED
      BY <2>1, <2>6, <2>10 DEF Flagging, Owed
  <1> QED
    BY <1>0, <1>1 DEF AllFlagging

\* A new day starts the count again: the scans under way are paid for by the midnight.
LEMMA TickFlagging ==
    ASSUME WellFormed, WellFormed', AllFlagging, FewInFlight, Tick,
           cycle' = cycle, lastDorScanDate' = lastDorScanDate, call' = call,
           overlaps' = overlaps, restarts' = restarts, asked' = asked
    PROVE  AllFlagging'
  <1>0. now' = now + 1
    BY DEF Tick
  <1>1. ASSUME NEW i \in NotReady PROVE Flagging(i)'
    <2>1. CASE Today' = Today
      <3>1. flags' = flags /\ midnights' = midnights
        BY <1>0, <2>1 DEF Tick, Today
      <3>2. Flagging(i)
        BY DEF AllFlagging
      <3>3. Pledged(i)' = Pledged(i) /\ Excuses' = Excuses
        BY <2>1, <3>1 DEF Pledged, BelatedOnes, Belated, Behind, Called, Excuses
      <3>4. Flaggers(i)' = Flaggers(i) /\ (LookedAt(i)' <=> LookedAt(i))
        BY <2>1 DEF Flaggers, MayFlag, Behind, ScanDone, LookedAt, HasFlagged
      <3> QED
        BY <3>2, <3>3, <3>4 DEF Flagging, Owed
    <2>2. CASE Today' # Today
      <3>1. flags'[i] = 0 /\ midnights' = midnights + Cardinality(Scanning)
        BY <1>0, <2>2 DEF Tick, Today, Scanning
      <3>2. Flaggers(i)' \subseteq InFlight /\ BelatedOnes(i)' \subseteq Scanning
        BY DEF Flaggers, MayFlag, Ahead, Early, Made, InFlight, BelatedOnes, Belated, Behind, IsScanning,
               Scanning
      <3>3. Cardinality(Flaggers(i)') <= Cardinality(InFlight) /\ Cardinality(Flaggers(i)') \in Nat
        BY <3>2, InFlightCount, FS_Subset, FS_CardinalityType
      <3>4. Cardinality(BelatedOnes(i)') <= Cardinality(Scanning) /\ Cardinality(BelatedOnes(i)') \in Nat
        BY <3>2, ScanningCount, FS_Subset, FS_CardinalityType
      <3>5. Cardinality(InFlight) \in Nat /\ Cardinality(InFlight) <= 1 + overlaps
        BY InFlightCount DEF FewInFlight
      <3>6. Called(i)' \in 0..1 /\ (Called(i)' = 1 => asked >= 1)
        BY DEF Called, AllFlagging
      <3>7. overlaps \in Nat /\ restarts \in Nat /\ midnights \in Nat /\ asked \in Nat
        BY FlagTypes
      <3>8. Cardinality(Scanning) \in Nat
        BY ScanningCount
      <3>9. Flaggers(i)' # {} => Pledged(i)' + Cardinality(Flaggers(i)') <= 1 + Excuses'
        BY <3>1, <3>3, <3>4, <3>5, <3>6, <3>7, <3>8 DEF Pledged, Excuses
      <3>10. Flaggers(i)' = {} => Pledged(i)' + Cardinality(Flaggers(i)') <= Excuses'
        <4>1. Cardinality({}) = 0
          BY FS_EmptySet
        <4> QED
          BY <3>1, <3>4, <3>6, <3>7, <3>8, <4>1 DEF Pledged, Excuses
      <3>11. Pledged(i)' \in Nat /\ Excuses' \in Nat
        BY FlagTypesAfter
      <3> QED
        BY <3>3, <3>9, <3>10, <3>11 DEF Flagging, Owed
    <2> QED
      BY <2>1, <2>2
  <1> QED
    BY <1>1 DEF AllFlagging

\* A call makes one comment on an issue, which it pays for itself.
LEMMA AskFlagging ==
    ASSUME WellFormed, WellFormed', AllFlagging, AskForViolations
    PROVE  AllFlagging'
  <1>0. /\ now' = now /\ flags' = flags /\ lastDorScanDate' = lastDorScanDate /\ cycle' = cycle
        /\ overlaps' = overlaps /\ restarts' = restarts /\ midnights' = midnights /\ asked' = asked + 1
        /\ call = {}
    BY DEF AskForViolations, memory, told
  <1>1. asked \in Nat
    BY DEF WellFormed, TypeOK
  <1>2. ASSUME NEW i \in NotReady PROVE Flagging(i)'
    <2>1. /\ Pledged(i) \in Nat /\ Pledged(i)' \in Nat /\ Excuses \in Nat /\ Excuses' \in Nat
          /\ Flaggers(i) \in SUBSET Cycles /\ LookedAt(i) \in BOOLEAN /\ flags[i] \in Nat
          /\ Cardinality(BelatedOnes(i)) \in Nat
          /\ overlaps \in Nat /\ restarts \in Nat /\ midnights \in Nat
      BY FlagTypes, FlagTypesAfter
    <2>2. BelatedOnes(i)' = BelatedOnes(i) /\ Flaggers(i)' = Flaggers(i) /\ (LookedAt(i)' <=> LookedAt(i))
      BY <1>0 DEF BelatedOnes, Belated, Behind, Flaggers, MayFlag, LookedAt, HasFlagged, ScanDone, Today
    <2>3. Called(i) = 0 /\ Called(i)' \in 0..1
      BY <1>0 DEF Called
    <2>4. Pledged(i)' <= Pledged(i) + 1
      BY <1>0, <2>1, <2>2, <2>3 DEF Pledged
    <2>5. Excuses' = Excuses + 1
      BY <1>0, <1>1, <2>1 DEF Excuses
    <2>6. Owed(Pledged(i)', Flaggers(i), LookedAt(i), Excuses')
      BY <2>1, <2>4, <2>5, OwedSlack DEF AllFlagging, Flagging
    <2> QED
      BY <2>2, <2>6 DEF Flagging, Owed
  <1> QED
    BY <1>0, <1>1, <1>2 DEF AllFlagging

LEMMA AnswerFlagging ==
    ASSUME WellFormed, WellFormed', AllFlagging, AnswerViolation
    PROVE  AllFlagging'
  <1>0. /\ now' = now /\ lastDorScanDate' = lastDorScanDate /\ cycle' = cycle
        /\ Excuses' = Excuses /\ asked' = asked
    BY DEF AnswerViolation, memory, Excuses
  <1>1. PICK j \in call : Flag(j) /\ call' = call \ {j}
    BY DEF AnswerViolation
  <1>2. ASSUME NEW i \in NotReady PROVE Flagging(i)'
    <2>1. /\ flags \in [NotReady -> Nat] /\ flags[i] \in Nat /\ Cardinality(BelatedOnes(i)) \in Nat
          /\ Called(i) \in 0..1 /\ Flagging(i)
      BY FlagTypes DEF AllFlagging, WellFormed, TypeOK
    <2>2. BelatedOnes(i)' = BelatedOnes(i) /\ Flaggers(i)' = Flaggers(i) /\ (LookedAt(i)' <=> LookedAt(i))
      BY <1>0 DEF BelatedOnes, Belated, Behind, Flaggers, MayFlag, LookedAt, HasFlagged, ScanDone, Today
    <2>3. flags'[i] + Called(i)' <= flags[i] + Called(i)
      <3>1. CASE i = j
        <4>1. Called(i) = 1 /\ Called(i)' = 0
          BY <1>1, <3>1 DEF Called
        <4>2. flags'[i] = flags[i] \/ flags'[i] = flags[i] + 1
          BY <1>1, <2>1, <3>1 DEF Flag
        <4> QED
          BY <2>1, <4>1, <4>2
      <3>2. CASE i # j
        <4>1. Called(i)' = Called(i)
          BY <1>1, <3>2 DEF Called
        <4>2. flags'[i] = flags[i]
          BY <1>1, <2>1, <3>2 DEF Flag
        <4> QED
          BY <2>1, <4>1, <4>2
      <3> QED
        BY <3>1, <3>2
    <2>4. flags'[i] \in Nat /\ Called(i)' \in 0..1
      BY FlagTypesAfter
    <2>5. Pledged(i)' <= Pledged(i)
      BY <2>1, <2>2, <2>3, <2>4 DEF Pledged
    <2> QED
      BY <1>0, <2>1, <2>2, <2>5, NoneFlags
  <1> QED
    BY <1>0, <1>1, <1>2 DEF AllFlagging

LEMMA NextFlagging ==
    ASSUME WellFormed, WellFormed', FewInFlight, AllFlagging, [Next]_vars
    PROVE  AllFlagging'
  <1>1. ASSUME now' = now, flags' = flags, lastDorScanDate' = lastDorScanDate, cycle' = cycle, call' = call,
               overlaps' = overlaps, restarts' = restarts, midnights' = midnights, asked' = asked
        PROVE  AllFlagging'
    BY <1>1 DEF AllFlagging, Flagging, Flaggers, LookedAt, MayFlag, Ahead, Behind, HasFlagged, ScanDone, Today,
                Pledged, BelatedOnes, Belated, Called, Excuses
  <1>2. CASE UNCHANGED vars
    BY <1>1, <1>2 DEF vars, memory, told, bounds
  <1>3. CASE \/ \E i \in DevIssues \cup Intakes : Touch(i)
             \/ \E i \in Intakes : Label(i)
             \/ \E v \in Versions, date \in Dates \cup {None} : Reschedule(v, date)
    BY <1>1, <1>3 DEF Touch, Label, Reschedule, memory, told
  <1>4. CASE TimePasses \/ \E i \in DevIssues, value \in Kinds \cup {"other"} : SetSubStatus(i, value)
    BY <1>4, TickFlagging DEF TimePasses, SetSubStatus, memory
  <1>5. CASE Restart
    <2>0. /\ flags' = flags /\ overlaps' = overlaps /\ restarts' = restarts + 1 /\ call' = {}
          /\ midnights' = midnights /\ asked' = asked /\ \A n \in Cycles : cycle'[n].pc = "idle"
      BY <1>5 DEF Restart, AllIdle, Idle, At
    <2>1. ASSUME NEW i \in NotReady PROVE Flagging(i)'
      <3>1. Flaggers(i)' = {} /\ BelatedOnes(i)' = {} /\ Called(i)' = 0
        BY <2>0 DEF Flaggers, MayFlag, Ahead, Early, Made, BelatedOnes, Belated, Behind, IsScanning, Called
      <3>2. Cardinality(BelatedOnes(i)') = 0
        BY <3>1, FS_EmptySet
      <3>3. /\ Pledged(i) \in Nat /\ Pledged(i)' \in Nat /\ Excuses \in Nat /\ LookedAt(i)' \in BOOLEAN
            /\ Flaggers(i) \in SUBSET Cycles /\ LookedAt(i) \in BOOLEAN
            /\ flags[i] \in Nat /\ Called(i) \in 0..1 /\ Cardinality(BelatedOnes(i)) \in Nat
        BY FlagTypes, FlagTypesAfter
      <3>4. Pledged(i)' <= Pledged(i)
        BY <2>0, <3>1, <3>2, <3>3 DEF Pledged
      <3>5. Excuses' = Excuses + 1
        BY <2>0, FlagTypes DEF Excuses
      <3>6. Owed(Pledged(i), {}, LookedAt(i)', Excuses + 1)
        BY <3>3, OwedForgotten DEF AllFlagging, Flagging
      <3>7. Owed(Pledged(i)', {}, LookedAt(i)', Excuses + 1)
        BY <3>3, <3>4, <3>6, OwedSlack
      <3> QED
        BY <3>1, <3>5, <3>7 DEF Flagging
    <2> QED
      BY <2>0, <2>1 DEF AllFlagging
  <1>6. CASE Poll \/ RunNow
    BY <1>6, StartFlagging DEF Poll, RunNow
  <1>7. ASSUME NEW n \in Cycles, CycleStep(n) PROVE AllFlagging'
    BY <1>7, StepsAhead, AheadFlagging, ReadFlagging, FlaggedFlagging
  <1>8. CASE AskForViolations \/ AnswerViolation
    BY <1>8, AskFlagging, AnswerFlagging
  <1> QED
    BY <1>2, <1>3, <1>4, <1>5, <1>6, <1>7, <1>8 DEF Next

\* An issue that is not ready gets a second comment in a day only by a cycle that ran
\* beside another, after a restart, by a scan that ran past midnight or by a call of
\* dor-violations, for any number of cycles, issues, failures and calls.
THEOREM OneFlagADay == Spec => []FlaggedOncePerDay
  <1>1. Init => AllFlagging /\ FewInFlight
    <2> SUFFICES ASSUME Init PROVE AllFlagging /\ FewInFlight
      OBVIOUS
    <2>1. call = {} /\ \A n \in Cycles : cycle[n].pc = "idle"
      BY DEF Init, AllIdle, Idle, At
    <2>2. InFlight = {} /\ Cardinality({}) = 0
      BY <2>1, FS_EmptySet DEF InFlight
    <2>3. ASSUME NEW i \in NotReady PROVE Flagging(i)
      <3>1. Flaggers(i) = {} /\ BelatedOnes(i) = {} /\ Called(i) = 0 /\ LookedAt(i) \in BOOLEAN
        BY <2>1 DEF Flaggers, MayFlag, Ahead, Early, Made, BelatedOnes, Belated, Behind, IsScanning, Called,
                    LookedAt, ScanDone
      <3>2. Pledged(i) = 0 /\ Excuses = 0
        BY <2>2, <3>1 DEF Init, Pledged, Excuses
      <3> QED
        BY <2>2, <3>1, <3>2 DEF Flagging, Owed
    <2> QED
      BY <2>1, <2>2, <2>3 DEF Init, AllFlagging, FewInFlight
  <1>2. WellFormed /\ AllFlagging => FlaggedOncePerDay
    <2> SUFFICES ASSUME WellFormed, AllFlagging, NEW i \in NotReady
                 PROVE  flags[i] <= 1 + overlaps + restarts + midnights + asked
      BY DEF FlaggedOncePerDay
    <2>1. Cardinality(Flaggers(i)) \in Nat
      BY FlagTypes, OwedFacts
    <2>2. /\ flags[i] \in Nat /\ Cardinality(BelatedOnes(i)) \in Nat /\ Called(i) \in 0..1
          /\ overlaps \in Nat /\ restarts \in Nat /\ midnights \in Nat /\ asked \in Nat
      BY FlagTypes
    <2>3. Pledged(i) + Cardinality(Flaggers(i)) <= 1 + Excuses
      BY <2>1, <2>2 DEF AllFlagging, Flagging, Owed, Pledged, Excuses
    <2> QED
      BY <2>1, <2>2, <2>3 DEF Pledged, Excuses
  <1> QED
    BY <1>1, <1>2, InitWellFormed, NextWellFormed, NextFewInFlight, NextFlagging, PTL DEF Spec

-----------------------------------------------------------------------------
(* A day that counts as scanned has been.                                  *)

\* No scan is for a day to come, and no such day was noted.
DaysPast ==
    /\ lastDorScanDate \in Nat => lastDorScanDate <= Today
    /\ \A n \in Cycles : IsScanning(cycle[n]) => cycle[n].day <= Today

\* Days do not go back.
LEMMA TodayGrows ==
    ASSUME NEW t \in Nat
    PROVE  t \div DayLength \in Nat /\ t \div DayLength <= (t + 1) \div DayLength
  BY TimeAssumption

LEMMA NextDaysPast ==
    ASSUME WellFormed, WellFormed', DaysPast, [Next]_vars
    PROVE  DaysPast'
  <1>0. /\ now \in Nat /\ Today \in Nat /\ cycle \in [Cycles -> CycleRecord(now)]
        /\ lastDorScanDate \in Nat \cup {None} /\ None \notin Nat
    BY NowType, TodayType, PartsAssumption DEF WellFormed, TypeOK, CyclesFit
  <1>1. ASSUME now' = now, lastDorScanDate' = lastDorScanDate, cycle' = cycle PROVE DaysPast'
    BY <1>1 DEF DaysPast, Today
  <1>2. CASE UNCHANGED vars
    BY <1>1, <1>2 DEF vars, memory
  <1>3. CASE \/ \E i \in DevIssues \cup Intakes : Touch(i)
             \/ \E i \in Intakes : Label(i)
             \/ \E v \in Versions, date \in Dates \cup {None} : Reschedule(v, date)
             \/ AskForViolations \/ AnswerViolation
    BY <1>1, <1>3 DEF Touch, Label, Reschedule, AskForViolations, AnswerViolation, memory
  <1>4. CASE TimePasses \/ \E i \in DevIssues, value \in Kinds \cup {"other"} : SetSubStatus(i, value)
    <2>1. now' = now + 1 /\ cycle' = cycle /\ lastDorScanDate' = lastDorScanDate
      BY <1>4 DEF TimePasses, SetSubStatus, Tick, memory
    <2>2. Today <= Today' /\ Today' \in Nat
      BY <1>0, <2>1, TodayGrows DEF Today
    <2>3. \A n \in Cycles : cycle[n].day \in Nat
      BY <1>0 DEF CycleRecord
    <2> QED
      BY <1>0, <2>1, <2>2, <2>3 DEF DaysPast
  <1>5. CASE Restart
    <2>1. lastDorScanDate' = None /\ \A n \in Cycles : cycle'[n].pc = "idle"
      BY <1>5 DEF Restart, AllIdle, Idle, At
    <2> QED
      BY <1>0, <2>1 DEF DaysPast, IsScanning
  <1>6. ASSUME NEW n \in Cycles, OthersStay(n), now' = now,
               IsScanning(cycle'[n]) => cycle'[n].day = Today \/ (IsScanning(cycle[n]) /\ cycle'[n].day = cycle[n].day),
               \/ lastDorScanDate' = lastDorScanDate
               \/ IsScanning(cycle[n]) /\ lastDorScanDate' = cycle[n].day
        PROVE  DaysPast'
    BY <1>0, <1>6 DEF DaysPast, OthersStay, Today
  <1>7. ASSUME NEW n \in Cycles, StartCycle(n) PROVE DaysPast'
    <2>1. now' = now /\ lastDorScanDate' = lastDorScanDate /\ OthersStay(n) /\ cycle'[n].pc = "handoffs"
      BY <1>7 DEF StartCycle, memory, OthersStay, At, WellFormed, CyclesFit
    <2> QED
      BY <1>6, <2>1 DEF IsScanning
  <1>8. ASSUME NEW n \in Cycles, CycleStep(n) PROVE DaysPast'
    <2>1. now' = now
      BY <1>8 DEF CycleStep
    <2>2. CASE ~(SprintRead(n) \/ Flagged(n))
      <3>1. GoesAhead(n)
        BY <1>8, <2>2, StepsAhead
      <3> QED
        BY <1>6, <2>1, <3>1 DEF GoesAhead, IsScanning, Ahead, Early, Made
    <2>3. ASSUME NEW todo, NextFlag(n, todo), IsScanning(cycle[n]) PROVE DaysPast'
      BY <1>6, <2>1, <2>3, FlagsNext DEF IsScanning
    <2>4. CASE ScanGivenUp(n)
      <3>1. OthersStay(n) /\ cycle'[n].pc = "idle" /\ lastDorScanDate' = lastDorScanDate
        BY <2>4 DEF ScanGivenUp, Idle, At, OthersStay, WellFormed, CyclesFit
      <3> QED
        BY <1>6, <2>1, <3>1 DEF IsScanning
    <2>5. CASE SprintRead(n) \/ Flagged(n)
      BY <2>3, <2>4, <2>5 DEF SprintRead, Flagged, IsScanning
    <2> QED
      BY <2>2, <2>5
  <1> QED
    BY <1>2, <1>3, <1>4, <1>5, <1>7, <1>8 DEF Next, Poll, RunNow

\* While nothing fails, what was looked at today was flagged today.
AllLookedAtFlagged == misses = 0 => \A i \in NotReady : LookedAt(i) => flags[i] >= 1

LEMMA FlaggedStays ==
    ASSUME AllLookedAtFlagged, misses' = 0 => misses = 0, flags' = flags,
           \A i \in NotReady : LookedAt(i)' => LookedAt(i)
    PROVE  AllLookedAtFlagged'
  BY DEF AllLookedAtFlagged

\* Cycle n does not scan, before or after.
LEMMA NotLookedAt ==
    ASSUME NEW n \in Cycles, OthersStay(n), now' = now, lastDorScanDate' = lastDorScanDate,
           cycle'[n].pc # "flagging", NEW i
    PROVE  LookedAt(i)' => LookedAt(i)
  BY DEF LookedAt, ScanDone, HasFlagged, OthersStay, Today

LEMMA FlaggedLooked ==
    ASSUME WellFormed, WellFormed', AllLookedAtFlagged, NEW n \in Cycles, CycleStep(n), Flagged(n)
    PROVE  AllLookedAtFlagged'
  <1> DEFINE todo == cycle[n].todo
             item == cycle[n].item
  <1>0. /\ now' = now /\ Today' = Today /\ misses \in Nat
        /\ cycle[n].pc = "flagging" /\ NextFlag(n, todo)
        /\ item \in NotReady /\ item \notin todo /\ flags \in [NotReady -> Nat]
    BY DEF CycleStep, Flagged, Today, WellFormed, TypeOK, CyclesFit, Fits
  <1>1. CASE misses' # 0
    BY <1>1 DEF AllLookedAtFlagged
  <1>2. CASE misses' = 0
    <2>1. /\ misses = 0
          /\ flags' = [flags EXCEPT ![item] = @ + 1]
      BY <1>0, <1>2 DEF Flagged, Flag, Miss, Fine
    <2>2. /\ OthersStay(n)
          /\ \/ /\ todo = {} /\ cycle'[n].pc = "idle" /\ lastDorScanDate' = cycle[n].day
             \/ /\ todo # {} /\ cycle'[n].pc = "flagging" /\ lastDorScanDate' = lastDorScanDate
                /\ List(cycle'[n]) = todo /\ cycle'[n].day = cycle[n].day
      BY <1>0, FlagsNext
    <2>3. ASSUME NEW i \in NotReady, LookedAt(i)' PROVE flags'[i] >= 1
      <3>1. flags[i] \in Nat /\ flags'[i] \in Nat /\ flags'[i] >= flags[i]
        BY <1>0, <2>1
      <3>2. LookedAt(i) => flags[i] >= 1
        BY <2>1 DEF AllLookedAtFlagged
      <3>3. CASE i = item /\ cycle[n].day = Today
        BY <1>0, <2>1, <3>1, <3>3
      <3>4. CASE cycle[n].day # Today
        <4>1. ScanDone' => ScanDone
          BY <1>0, <2>2, <3>4 DEF ScanDone
        <4>2. \A m \in Cycles : HasFlagged(m, i)' => HasFlagged(m, i)
          BY <1>0, <2>2, <3>4 DEF HasFlagged, OthersStay
        <4> QED
          BY <2>3, <3>1, <3>2, <4>1, <4>2 DEF LookedAt
      <3>5. CASE i # item /\ cycle[n].day = Today
        <4>1. i \notin todo => HasFlagged(n, i)
          BY <1>0, <3>5 DEF HasFlagged, List
        <4>2. ScanDone' => ScanDone \/ HasFlagged(n, i)
          BY <1>0, <2>2, <4>1 DEF ScanDone
        <4>3. HasFlagged(n, i)' => HasFlagged(n, i)
          BY <2>2, <4>1 DEF HasFlagged
        <4>4. \A m \in Cycles \ {n} : HasFlagged(m, i)' => HasFlagged(m, i)
          BY <1>0, <2>2 DEF HasFlagged, OthersStay
        <4> QED
          BY <2>3, <3>1, <3>2, <4>2, <4>3, <4>4 DEF LookedAt
      <3> QED
        BY <3>3, <3>4, <3>5
    <2> QED
      BY <2>3 DEF AllLookedAtFlagged
  <1> QED
    BY <1>1, <1>2

LEMMA ReadLooked ==
    ASSUME WellFormed, WellFormed', AllLookedAtFlagged, NEW n \in Cycles, CycleStep(n), SprintRead(n)
    PROVE  AllLookedAtFlagged'
  <1>0. /\ now' = now /\ Today' = Today /\ misses \in Nat /\ flags' = flags
        /\ misses' = 0 => misses = 0
    BY DEF CycleStep, SprintRead, told, Today, Miss, Fine, WellFormed, TypeOK
  <1>1. CASE misses' # 0
    BY <1>1 DEF AllLookedAtFlagged
  <1>2. CASE ScanGivenUp(n)
    <2>1. OthersStay(n) /\ cycle'[n].pc = "idle" /\ lastDorScanDate' = lastDorScanDate
      BY <1>2 DEF ScanGivenUp, Idle, At, OthersStay, WellFormed, CyclesFit
    <2> QED
      BY <1>0, <2>1, NotLookedAt, FlaggedStays
  <1>3. CASE NextFlag(n, NotReady)
    <2>1. /\ OthersStay(n)
          /\ NotReady # {} => /\ lastDorScanDate' = lastDorScanDate
                              /\ cycle'[n].pc = "flagging" /\ List(cycle'[n]) = NotReady
      BY <1>3, FlagsNext
    <2>2. ASSUME NEW i \in NotReady, LookedAt(i)' PROVE LookedAt(i)
      <3>1. ~HasFlagged(n, i)' /\ (ScanDone' <=> ScanDone)
        BY <1>0, <2>1 DEF HasFlagged, ScanDone
      <3>2. \A m \in Cycles \ {n} : HasFlagged(m, i)' => HasFlagged(m, i)
        BY <1>0, <2>1 DEF HasFlagged, OthersStay
      <3> QED
        BY <2>2, <3>1, <3>2 DEF LookedAt
    <2> QED
      BY <1>0, <2>2, FlaggedStays
  <1>4. \/ ScanGivenUp(n) \/ NextFlag(n, NotReady) \/ misses' # 0
    BY <1>0 DEF SprintRead, Miss
  <1> QED
    BY <1>1, <1>2, <1>3, <1>4

LEMMA NextLookedAt ==
    ASSUME WellFormed, WellFormed', DaysPast, AllLookedAtFlagged, [Next]_vars
    PROVE  AllLookedAtFlagged'
  <1>0. /\ misses \in Nat /\ None \notin Nat /\ Today \in Nat /\ now \in Nat
        /\ cycle \in [Cycles -> CycleRecord(now)]
    BY TodayType, PartsAssumption DEF WellFormed, TypeOK, CyclesFit
  <1>1. ASSUME now' = now, flags' = flags, lastDorScanDate' = lastDorScanDate, cycle' = cycle, misses' = misses
        PROVE  AllLookedAtFlagged'
    BY <1>1 DEF AllLookedAtFlagged, LookedAt, HasFlagged, ScanDone, Today
  <1>2. CASE UNCHANGED vars
    BY <1>1, <1>2 DEF vars, memory, told, bounds
  <1>3. CASE \/ \E i \in DevIssues \cup Intakes : Touch(i)
             \/ \E i \in Intakes : Label(i)
             \/ \E v \in Versions, date \in Dates \cup {None} : Reschedule(v, date)
             \/ AskForViolations
    BY <1>1, <1>3 DEF Touch, Label, Reschedule, AskForViolations, memory, told
  <1>4. CASE TimePasses \/ \E i \in DevIssues, value \in Kinds \cup {"other"} : SetSubStatus(i, value)
    <2>1. /\ now' = now + 1 /\ cycle' = cycle /\ lastDorScanDate' = lastDorScanDate /\ misses' = misses
          /\ Today' = Today => flags' = flags
      BY <1>4 DEF TimePasses, SetSubStatus, Tick, memory, Today
    <2>2. CASE Today' = Today
      BY <2>1, <2>2 DEF AllLookedAtFlagged, LookedAt, HasFlagged, ScanDone
    <2>3. CASE Today' # Today
      <3>1. Today' \in Nat /\ Today' > Today
        <4>1. Today' \in Nat /\ Today <= Today'
          BY <1>0, <2>1, TodayGrows DEF Today
        <4> QED
          BY <1>0, <2>3, <4>1
      <3>2. ~ScanDone'
        <4>1. lastDorScanDate \in Nat => lastDorScanDate <= Today
          BY DEF DaysPast
        <4>2. ASSUME lastDorScanDate = Today' PROVE FALSE
          BY <1>0, <3>1, <4>1, <4>2
        <4> QED
          BY <2>1, <4>2 DEF ScanDone
      <3>3. \A n \in Cycles : \A i : ~HasFlagged(n, i)'
        <4>1. ASSUME NEW n \in Cycles, cycle[n].pc = "flagging", cycle[n].day = Today' PROVE FALSE
          <5>1. cycle[n].day <= Today
            BY <4>1 DEF DaysPast, IsScanning
          <5> QED
            BY <1>0, <3>1, <4>1, <5>1
        <4> QED
          BY <2>1, <4>1 DEF HasFlagged
      <3> QED
        BY <3>2, <3>3 DEF AllLookedAtFlagged, LookedAt
    <2> QED
      BY <2>2, <2>3
  <1>5. CASE Restart
    <2>1. lastDorScanDate' = None /\ now' = now /\ \A n \in Cycles : cycle'[n].pc = "idle"
      BY <1>5 DEF Restart, AllIdle, Idle, At
    <2>2. Today' = Today
      BY <2>1 DEF Today
    <2> QED
      BY <1>0, <2>1, <2>2 DEF AllLookedAtFlagged, LookedAt, ScanDone, HasFlagged
  <1>8. CASE AnswerViolation
    <2>1. PICK j \in call : Flag(j)
      BY <1>8 DEF AnswerViolation
    <2>2. /\ now' = now /\ lastDorScanDate' = lastDorScanDate /\ cycle' = cycle
          /\ flags \in [NotReady -> Nat] /\ flags' \in [NotReady -> Nat]
      BY <1>8 DEF AnswerViolation, memory, WellFormed, TypeOK
    <2>3. misses' = 0 => misses = 0
      BY <1>0, <2>1 DEF Flag, Miss, Fine
    <2>4. \A i \in NotReady : flags'[i] >= flags[i]
      BY <2>1, <2>2 DEF Flag
    <2>5. \A i : LookedAt(i)' => LookedAt(i)
      BY <2>2 DEF LookedAt, ScanDone, HasFlagged, Today
    <2>6. ASSUME misses' = 0, NEW i \in NotReady, LookedAt(i)' PROVE flags'[i] >= 1
      <3>1. flags[i] >= 1
        BY <2>3, <2>5, <2>6 DEF AllLookedAtFlagged
      <3> QED
        BY <2>2, <2>4, <3>1
    <2> QED
      BY <2>6 DEF AllLookedAtFlagged
  <1>6. ASSUME NEW n \in Cycles, StartCycle(n) PROVE AllLookedAtFlagged'
    <2>1. /\ now' = now /\ lastDorScanDate' = lastDorScanDate /\ OthersStay(n)
          /\ cycle'[n].pc = "handoffs" /\ flags' = flags /\ misses' = misses
      BY <1>6 DEF StartCycle, memory, told, OthersStay, At, WellFormed, CyclesFit
    <2> QED
      BY <2>1, NotLookedAt, FlaggedStays
  <1>7. ASSUME NEW n \in Cycles, CycleStep(n), ~(SprintRead(n) \/ Flagged(n)) PROVE AllLookedAtFlagged'
    <2>1. GoesAhead(n)
      BY <1>7, StepsAhead
    <2>2. now' = now /\ (misses' = 0 => misses = 0)
      BY <1>0, <1>7
         DEF CycleStep, SearchHandoffs, HandoffsFound, Closed, Commented, Recorded, VersionsFound,
             SprintFound, SprintMoved, IntakesFound, DefectCreated, Linked, Unlabelled, Miss, Fine
    <2>3. cycle'[n].pc # "flagging"
      BY <2>1 DEF GoesAhead, Ahead, Early, Made
    <2> QED
      BY <2>1, <2>2, <2>3, NotLookedAt, FlaggedStays DEF GoesAhead
  <1> QED
    BY <1>2, <1>3, <1>4, <1>5, <1>6, <1>7, <1>8, ReadLooked, FlaggedLooked DEF Next, Poll, RunNow

\* A day is only ever noted as scanned by a cycle that went through the issues of the sprint
\* on that day, whatever cycles overlap, restarts come between and sprints are unknown.
THEOREM ScansLeaveNobodyOut == Spec => []ScannedMeansFlagged
  <1>1. Init => DaysPast /\ AllLookedAtFlagged
    <2> SUFFICES ASSUME Init PROVE DaysPast /\ AllLookedAtFlagged
      OBVIOUS
    <2>1. /\ lastDorScanDate = None /\ \A n \in Cycles : cycle[n].pc = "idle"
          /\ Today \in Nat /\ None \notin Nat
      BY TodayType, PartsAssumption, TimeAssumption DEF Init, AllIdle, Idle, At
    <2> QED
      BY <2>1 DEF DaysPast, AllLookedAtFlagged, LookedAt, ScanDone, HasFlagged, IsScanning
  <1>2. AllLookedAtFlagged => ScannedMeansFlagged
    BY DEF AllLookedAtFlagged, LookedAt, ScanDone, ScannedMeansFlagged
  <1> QED
    BY <1>1, <1>2, InitWellFormed, NextWellFormed, NextDaysPast, NextLookedAt, PTL DEF Spec

===============================================================================

------------------------- MODULE ReportCoverageProofs -------------------------
(***************************************************************************)
(* What reaches the pages: nothing on a page is lost, and nothing that     *)
(* happened before a watermark was left out.                               *)
(***************************************************************************)
EXTENDS ReportSchedulesProofs

\* The copy a run is about to write back is the page, or Confluence will refuse it.
CopiesKept == \A x \in runs : x.pc = "writing" /\ ~x.isStale => x.copy = page[PageOf[x.report]]

\* The pages after a step of run x.
LEMMA PagesAfterStep ==
    ASSUME WellFormed, CopiesKept, NEW x \in runs, RunStep(x)
    PROVE  /\ \A p \in Places : page[p] \subseteq page'[p]
           /\ \/ page' = page
              \/ /\ PageOf[x.report] \in Places
                 /\ page' = [page EXCEPT ![PageOf[x.report]] = @ \cup x.found]
                 /\ Posted(x) \/ PageWritten(x)
  <1>1. x.pc # "working" => PageOf[x.report] \in Places
    BY ConfigurationAssumption DEF WellFormed, RunsInOrder
  <1>2. page \in [Places -> SUBSET Entry]
    BY DEF WellFormed, TypeOK
  <1>3. CASE Posted(x)
    <2>1. PageOf[x.report] = NewPost /\ page' = [page EXCEPT ![NewPost] = @ \cup x.found]
      BY <1>3 DEF Posted, WellFormed, RunsInOrder
    <2> QED
      BY <1>1, <1>2, <1>3, <2>1 DEF Posted
  <1>4. CASE PageWritten(x)
    <2>1. CASE PutAccepted(x)
      <3>1. x.copy = page[PageOf[x.report]]
        BY <1>4, <2>1 DEF PageWritten, PutAccepted, CopiesKept
      <3>2. page' = [page EXCEPT ![PageOf[x.report]] = @ \cup x.found]
        BY <1>4, <2>1, <3>1 DEF PageWritten
      <3> QED
        BY <1>1, <1>2, <1>4, <3>2 DEF PageWritten
    <2>2. CASE ~PutAccepted(x)
      BY <1>4, <2>2 DEF PageWritten
    <2> QED
      BY <2>1, <2>2
  <1> QED
    BY <1>3, <1>4 DEF RunStep, QueryAnswered, RequestFails, PageRead, WorkDone

\* A run's step spoils no copy that is still good.
LEMMA StepKeepsCopies ==
    ASSUME WellFormed, CopiesKept, NEW x \in runs, RunStep(x)
    PROVE  CopiesKept'
  <1>1. runs \subseteq Run /\ x \in Run
    BY DEF WellFormed, TypeOK
  <1>2. CASE Posted(x)
    <2>1. runs' = runs \ {x} /\ page' = [page EXCEPT ![NewPost] = @ \cup x.found]
      BY <1>2 DEF Posted, Over
    <2>2. \A y \in runs : y.pc = "writing" => PageOf[y.report] # NewPost
      BY DEF WellFormed, RunsInOrder
    <2> QED
      BY <2>1, <2>2 DEF CopiesKept, WellFormed, TypeOK
  <1>3. CASE PageWritten(x) /\ PutAccepted(x)
    <2> DEFINE p == PageOf[x.report]
               others == runs \ {x}
    <2>1. others \in SUBSET Run /\ runs' = Outdated(others, p)
      BY <1>1, <1>3 DEF PageWritten, PutAccepted
    <2>2. page' = page \/ page' = [page EXCEPT ![p] = @ \cup x.found]
      BY PagesAfterStep
    <2> HIDE DEF p, others
    <2>3. \A z \in runs' : \E y \in others :
             /\ SameRun(y, z) /\ z.pc = y.pc /\ z.copy = y.copy
             /\ z = y \/ z.isStale
             /\ y.pc = "writing" /\ PageOf[y.report] = p => z.isStale
      BY <2>1, OutdatedShape
    <2> USE DEF others
    <2>4. ASSUME NEW z \in runs', z.pc = "writing", ~z.isStale
          PROVE  z.copy = page'[PageOf[z.report]]
      <3>1. z \in runs /\ PageOf[z.report] # p
        BY <2>3, <2>4
      <3>2. PageOf[z.report] \in Places
        BY <2>4, <3>1, ConfigurationAssumption DEF WellFormed, RunsInOrder
      <3> QED
        BY <2>2, <2>4, <3>1, <3>2 DEF CopiesKept, WellFormed, TypeOK
    <2> QED
      BY <2>4 DEF CopiesKept
  <1>4. CASE ~Posted(x) /\ ~(PageWritten(x) /\ PutAccepted(x))
    <2>1. page' = page
      BY <1>4 DEF RunStep, QueryAnswered, RequestFails, PageRead, PageWritten, WorkDone
    <2>2. \/ runs' = runs \ {x}
          \/ \E y : /\ runs' = (runs \ {x}) \cup {y}
                    /\ y.pc = "writing" => y.copy = page[PageOf[y.report]]
      <3>1. CASE QueryAnswered(x)
        <4>1. PICK found : Found(x, found)
          BY <3>1 DEF QueryAnswered
        <4> DEFINE y == [x EXCEPT !.found = found, !.hidden = Withheld(x, found),
                         !.pc = IF PageOf[x.report] = NewPost THEN "posting" ELSE "reading"]
        <4>2. Over(x) \/ GoesOn(x, y)
          BY <4>1 DEF Found
        <4>3. y.pc # "writing"
          BY <1>1 DEF Run
        <4> QED
          BY <4>2, <4>3 DEF Over, GoesOn
      <3>2. CASE PageRead(x)
        <4> DEFINE y == [x EXCEPT !.pc = "writing", !.copy = page[PageOf[x.report]], !.isStale = FALSE]
        <4>1. Over(x) \/ GoesOn(x, y)
          BY <3>2 DEF PageRead
        <4>2. y.copy = page[PageOf[y.report]]
          BY <1>1 DEF Run
        <4> QED
          BY <4>1, <4>2 DEF Over, GoesOn
      <3>3. CASE PageWritten(x) /\ ~PutAccepted(x)
        <4> DEFINE y == [x EXCEPT !.pc = "reading", !.copy = {}, !.attempt = 2]
        <4>1. Over(x) \/ GoesOn(x, y)
          BY <3>3 DEF PageWritten
        <4>2. y.pc # "writing"
          BY <1>1 DEF Run
        <4> QED
          BY <4>1, <4>2 DEF Over, GoesOn
      <3> QED
        BY <1>4, <3>1, <3>2, <3>3 DEF RunStep, RequestFails, WorkDone, Over
    <2> QED
      BY <2>1, <2>2 DEF CopiesKept
  <1> QED
    BY <1>2, <1>3, <1>4

\* Somebody's edit makes the copies of its page old.
LEMMA EditKeepsCopies ==
    ASSUME WellFormed, CopiesKept, NEW p \in Pages, EditPage(p)
    PROVE  CopiesKept' /\ \A q \in Places : page[q] \subseteq page'[q]
  <1>1. /\ runs' = Outdated(runs, p) /\ runs \in SUBSET Run
        /\ page' = [page EXCEPT ![p] = @ \cup {[owner |-> Human, at |-> now]}]
        /\ page \in [Places -> SUBSET Entry]
    BY DEF EditPage, WellFormed, TypeOK
  <1>2. \A z \in runs' : \E y \in runs :
           /\ SameRun(y, z) /\ z.pc = y.pc /\ z.copy = y.copy
           /\ z = y \/ z.isStale
           /\ y.pc = "writing" /\ PageOf[y.report] = p => z.isStale
    BY <1>1, OutdatedShape
  <1>3. ASSUME NEW z \in runs', z.pc = "writing", ~z.isStale
        PROVE  z.copy = page'[PageOf[z.report]]
    <2>1. z \in runs /\ PageOf[z.report] # p
      BY <1>2, <1>3
    <2> QED
      BY <1>1, <1>3, <2>1 DEF CopiesKept
  <1> QED
    BY <1>1, <1>3 DEF CopiesKept

\* All other steps leave the pages alone, and start at most runs that have no copy.
LEMMA OthersKeepPages ==
    ASSUME WellFormed, CopiesKept,
           \/ Tick
           \/ \E r \in ByHand \cap enabled : RunNow(r)
           \/ \E k \in CoverageKeys : JiraChanges(k)
           \/ TimePasses \/ Boot \/ Crash \/ UNCHANGED vars
    PROVE  page' = page /\ CopiesKept'
  <1>1. CASE Tick
    <2> DEFINE due == {r \in enabled : Due(r)}
    <2>1. runs' = runs \cup {NewRun(r, "scheduled") : r \in due} /\ page' = page
      BY <1>1 DEF Tick
    <2>2. \A r \in due : NewRun(r, "scheduled").pc # "writing"
      BY NewRunType DEF WellFormed, TypeOK
    <2> QED
      BY <2>1, <2>2 DEF CopiesKept
  <1>2. ASSUME NEW r \in ByHand \cap enabled, RunNow(r) PROVE page' = page /\ CopiesKept'
    <2>1. runs' = runs \cup {NewRun(r, "manual")} /\ page' = page
      BY <1>2 DEF RunNow
    <2>2. NewRun(r, "manual").pc # "writing"
      BY NewRunType, ConfigurationAssumption DEF WellFormed
    <2> QED
      BY <2>1, <2>2 DEF CopiesKept
  <1>3. CASE Crash
    BY <1>3 DEF Crash, CopiesKept
  <1>4. CASE \/ \E k \in CoverageKeys : JiraChanges(k)
             \/ TimePasses \/ Boot \/ UNCHANGED vars
    BY <1>4 DEF JiraChanges, TimePasses, Boot, vars, CopiesKept
  <1> QED
    BY <1>1, <1>2, <1>3, <1>4

LEMMA NextKeepsCopies ==
    WellFormed /\ CopiesKept /\ [Next]_vars
        => CopiesKept' /\ [\A p \in Places : page[p] \subseteq page'[p]]_vars
  <1> SUFFICES ASSUME WellFormed, CopiesKept, [Next]_vars
               PROVE  CopiesKept' /\ \A p \in Places : page[p] \subseteq page'[p]
    OBVIOUS
  <1>1. ASSUME NEW x \in runs, RunStep(x)
        PROVE  CopiesKept' /\ \A p \in Places : page[p] \subseteq page'[p]
    BY <1>1, PagesAfterStep, StepKeepsCopies
  <1>2. ASSUME NEW q \in Pages, EditPage(q)
        PROVE  CopiesKept' /\ \A p \in Places : page[p] \subseteq page'[p]
    BY <1>2, EditKeepsCopies
  <1> QED
    BY <1>1, <1>2, OthersKeepPages, ConfigurationAssumption DEF Next

LEMMA InitKeepsCopies == Init => CopiesKept
  BY DEF Init, CopiesKept

\* Reports, PI refreshes and people write to the same pages; since Confluence refuses a
\* version that is not based on the last one, none of them undoes what another one wrote.
THEOREM NothingOverwritten == Spec => PagesOnlyGrow
  BY InitWellFormed, NextWellFormed, InitKeepsCopies, NextKeepsCopies, PTL
     DEF Spec, PagesOnlyGrow
-----------------------------------------------------------------------------
(* Coverage.                                                               *)

\* Runs, watermarks and changes are of the past, and a window that is not excused reaches
\* back to the watermark.
RunTimely(x) ==
    /\ x.started <= now /\ x.mark <= x.started
    /\ x.report \in ChangeReports /\ ~Excused(x) => x.from <= x.mark

Timely ==
    /\ \A k \in CoverageKeys : watermark[k] <= now /\ \A c \in changes[k] : c <= now
    /\ \A x \in runs : RunTimely(x)

\* The window of a new run: resolveCoverageCutoff never lies after the watermark, and the
\* UTC date of the query does so only when it is the next day's.
LEMMA NewRunTimely ==
    ASSUME TypeOK, Timely, NEW r \in Reports, NEW trigger \in {"scheduled", "manual"}
    PROVE  RunTimely(NewRun(r, trigger))
  <1> DEFINE mark   == IF r \in ChangeReports THEN watermark[KeyOf[r]] ELSE Never
             cutoff == resolveCoverageCutoff(mark)
  <1>1. mark \in -1..Horizon /\ mark <= now /\ mark \in Int /\ now \in Nat
    BY TimeAssumption, ConfigurationAssumption DEF TypeOK, Timely, Never
  <1>2. cutoff \in Int /\ WindowStart(cutoff) \in Int
    BY <1>1, WindowType DEF TypeOK
  <1>3. /\ NewRun(r, trigger).started = now /\ NewRun(r, trigger).report = r
        /\ NewRun(r, trigger).mark = mark
        /\ NewRun(r, trigger).from = WindowStart(cutoff)
    BY DEF NewRun
  <1>4. ASSUME mark # Never, now - mark <= Phases * MaxLookbackDays, Day(mark + UtcAhead) <= Day(mark)
        PROVE  WindowStart(cutoff) <= mark
    <2>1. getPreviousBusinessDayCutoff \in Int
      BY <1>1, DayFacts DEF getPreviousBusinessDayCutoff, DaysBack, Phases
    <2>2. cutoff <= mark
      BY <1>1, <1>4, <2>1, TimeAssumption DEF resolveCoverageCutoff, MaxOf, MinOf, Phases
    <2>3. Day(cutoff + UtcAhead) <= Day(mark + UtcAhead)
      BY <1>1, <1>2, <2>2, DayMonotone, TimeAssumption
    <2>4. /\ Day(cutoff + UtcAhead) \in Int /\ Day(mark + UtcAhead) \in Int
          /\ Day(mark) \in Int /\ Phases * Day(mark) <= mark
      BY <1>1, <1>2, DayInt, TimeAssumption
    <2>5. Phases * Day(cutoff + UtcAhead) <= mark
      BY <1>1, <1>4, <2>3, <2>4 DEF Phases
    <2> HIDE DEF cutoff
    <2> QED
      BY <1>2, <2>2, <2>5 DEF WindowStart, cutoffDateString, MaxOf
  <1> HIDE DEF mark, cutoff
  <1>5. /\ Day(mark + UtcAhead) \in Int /\ Day(mark) \in Int /\ Phases * MaxLookbackDays \in Int
    BY <1>1, DayInt, TimeAssumption DEF Phases
  <1>6. ~Excused(NewRun(r, trigger)) => WindowStart(cutoff) <= mark
    BY <1>1, <1>3, <1>4, <1>5 DEF Excused
  <1> QED
    BY <1>1, <1>3, <1>6 DEF RunTimely

LEMMA SameRunTimely ==
    ASSUME NEW x, NEW y, RunTimely(x), SameRun(x, y)
    PROVE  RunTimely(y)
  BY DEF RunTimely, SameRun, Excused

\* The runs after a step: new ones, and old ones further on.
LEMMA RunsAfterStep ==
    ASSUME WellFormed, [Next]_vars
    PROVE  \A z \in runs' : \/ \E y \in runs : SameRun(y, z)
                            \/ \E r \in Reports, t \in {"scheduled", "manual"} : z = NewRun(r, t)
  <1>1. ASSUME NEW x \in runs, RunStep(x)
        PROVE  \A z \in runs' : \E y \in runs : SameRun(y, z)
    <2>1. runs \ {x} \in SUBSET Run /\ \A y : SameRun(y, y)
      BY DEF WellFormed, TypeOK, SameRun
    <2>2. CASE runs' = Outdated(runs \ {x}, PageOf[x.report])
      BY <2>1, <2>2, OutdatedShape
    <2> QED
      BY <1>1, <2>1, <2>2, RunStepShape DEF Over, GoesOn
  <1>2. ASSUME NEW p, EditPage(p)
        PROVE  \A z \in runs' : \E y \in runs : SameRun(y, z)
    BY <1>2, OutdatedShape DEF EditPage, WellFormed, TypeOK
  <1>3. CASE Tick
    BY <1>3 DEF Tick, WellFormed, TypeOK, SameRun
  <1>4. ASSUME NEW r \in ByHand, RunNow(r)
        PROVE  \A z \in runs' : z \in runs \/ z = NewRun(r, "manual")
    BY <1>4 DEF RunNow
  <1>5. CASE \/ \E k \in CoverageKeys : JiraChanges(k)
             \/ TimePasses \/ Boot \/ Crash \/ UNCHANGED vars
    BY <1>5 DEF JiraChanges, TimePasses, Boot, Crash, vars, SameRun
  <1>6. \A y : SameRun(y, y)
    BY DEF SameRun
  <1> QED
    BY <1>1, <1>2, <1>3, <1>4, <1>5, <1>6, ConfigurationAssumption DEF Next

\* Run x confirms coverage, whatever was kept from it.
Confirms(x) == \E hidden \in SUBSET (0..Horizon) : Confirm(x, hidden)

\* What a step may do to the data coverage is about.
LEMMA DataAfterStep ==
    ASSUME WellFormed, [Next]_vars
    PROVE  /\ now' \in Nat /\ now <= now'
           /\ \A k \in CoverageKeys :
                /\ changes'[k] \subseteq changes[k] \cup {now}
                /\ forgiven[k] \subseteq forgiven'[k]
                /\ \/ watermark'[k] = watermark[k] \/ watermark'[k] = Never
                   \/ \E x \in runs : /\ RunStep(x) /\ Confirms(x) /\ x.report \in Reporters(k)
                                      /\ watermark'[k] = x.started
  <1>1. now \in Nat
    BY DEF WellFormed, TypeOK
  <1>2. ASSUME NEW x \in runs, RunStep(x)
        PROVE  /\ UNCHANGED <<now, changes>>
               /\ Confirms(x) \/ UNCHANGED <<watermark, forgiven>>
    <2>1. UNCHANGED <<now, changes>>
      BY <1>2 DEF RunStep
    <2>2. \A found : Withheld(x, found) \in SUBSET (0..Horizon)
      BY DEF Withheld
    <2>3. x.hidden \in SUBSET (0..Horizon)
      BY DEF WellFormed, TypeOK, Run
    <2>4. CASE QueryAnswered(x)
      BY <2>1, <2>2, <2>4 DEF QueryAnswered, Found, Confirms
    <2>5. CASE Posted(x)
      BY <2>1, <2>3, <2>5 DEF Posted, Confirms
    <2>6. CASE PageWritten(x)
      BY <2>1, <2>3, <2>6 DEF PageWritten, Confirms
    <2> QED
      BY <1>2, <2>1, <2>4, <2>5, <2>6 DEF RunStep, RequestFails, PageRead, WorkDone
  <1>3. ASSUME NEW x \in runs, RunStep(x), NEW k \in CoverageKeys
        PROVE  /\ forgiven[k] \subseteq forgiven'[k]
               /\ \/ watermark'[k] = watermark[k]
                  \/ Confirms(x) /\ x.report \in Reporters(k) /\ watermark'[k] = x.started
    <2>1. CASE UNCHANGED <<watermark, forgiven>>
      BY <2>1
    <2>2. CASE Confirms(x) /\ x.report \in ChangeReports
      <3>1. PICK hidden \in SUBSET (0..Horizon) : Confirm(x, hidden)
        BY <2>2 DEF Confirms
      <3> DEFINE h    == KeyOf[x.report]
                 more == {c \in changes[h] : Excused(x) /\ c < x.from}
      <3>2. /\ watermark' = [watermark EXCEPT ![h] = x.started]
            /\ forgiven' = [forgiven EXCEPT ![h] = @ \cup hidden \cup more]
        BY <2>2, <3>1 DEF Confirm, setCoverageWatermark
      <3> HIDE DEF more
      <3>3. /\ watermark \in [CoverageKeys -> -1..Horizon]
            /\ forgiven \in [CoverageKeys -> SUBSET (0..Horizon)]
        BY DEF WellFormed, TypeOK
      <3>4. h = k => x.report \in Reporters(k)
        BY <2>2 DEF Reporters
      <3> HIDE DEF h
      <3> QED
        BY <2>2, <3>2, <3>3, <3>4
    <2>3. CASE Confirms(x) /\ x.report \notin ChangeReports
      BY <2>3 DEF Confirms, Confirm
    <2> QED
      BY <1>2, <1>3, <2>1, <2>2, <2>3
  <1>4. CASE \E x \in runs : RunStep(x)
    BY <1>1, <1>2, <1>3, <1>4
  <1>5. ASSUME NEW s \in CoverageKeys, JiraChanges(s)
        PROVE  \A k \in CoverageKeys : changes'[k] \subseteq changes[k] \cup {now}
    BY <1>5 DEF JiraChanges, WellFormed, TypeOK
  <1>6. CASE \E s \in CoverageKeys : JiraChanges(s)
    BY <1>1, <1>5, <1>6 DEF JiraChanges, disk, bounds
  <1>7. CASE TimePasses
    BY <1>1, <1>7 DEF TimePasses, disk, bounds
  <1>8. CASE Boot \/ Crash
    BY <1>1, <1>8 DEF Boot, Crash, disk, bounds
  <1>9. CASE \/ Tick \/ \E r \in ByHand \cap enabled : RunNow(r)
             \/ \E p \in Pages \cap {PageOf[r] : r \in enabled \cap PageReports} : EditPage(p)
             \/ UNCHANGED vars
    BY <1>1, <1>9 DEF Tick, RunNow, EditPage, vars, disk, bounds
  <1> QED
    BY <1>4, <1>6, <1>7, <1>8, <1>9, ConfigurationAssumption DEF Next

LEMMA NextKeepsTimely == WellFormed /\ Timely /\ [Next]_vars => Timely'
  <1> SUFFICES ASSUME WellFormed, Timely, [Next]_vars PROVE Timely'
    OBVIOUS
  <1>1. now \in Nat /\ now' \in Nat /\ now <= now'
    BY DataAfterStep DEF WellFormed, TypeOK
  <1>2. ASSUME NEW k \in CoverageKeys
        PROVE  watermark'[k] <= now' /\ \A c \in changes'[k] : c <= now'
    <2>1. watermark[k] \in Int /\ changes[k] \subseteq Nat /\ \A x \in runs : x.started \in Nat
      BY TimeAssumption DEF WellFormed, TypeOK, Run
    <2>2. watermark'[k] <= now'
      BY <1>1, <2>1, DataAfterStep DEF Timely, RunTimely, Never
    <2> QED
      BY <1>1, <2>1, <2>2, DataAfterStep DEF Timely
  <1>3. ASSUME NEW z \in runs' PROVE RunTimely(z)'
    <2>1. RunTimely(z)
      BY RunsAfterStep, NewRunTimely, SameRunTimely DEF Timely, WellFormed
    <2>2. z.started \in Nat
      BY NextWellFormed, TimeAssumption DEF WellFormed, TypeOK, Run
    <2> QED
      BY <1>1, <2>1, <2>2 DEF RunTimely, Excused
  <1> QED
    BY <1>2, <1>3 DEF Timely

\* Change c of key k is on the page of one of its reports, or there is a reason why not.
Accounted(k, c) == Reported(k, c) \/ c \in forgiven[k]

\* Everything of key k before moment t is accounted for.
CoveredTo(k, t) == \A c \in changes[k] : c < t => Accounted(k, c)

\* What run x has to deliver is in what it found, or was kept from it.
HasFound(x) ==
    \A c \in changes[KeyOf[x.report]] :
        x.from <= c /\ c < x.started => [owner |-> x.report, at |-> c] \in x.found \/ c \in x.hidden

RunCovers(x) ==
    x.report \in ChangeReports =>
        /\ CoveredTo(KeyOf[x.report], x.mark)
        /\ x.pc \in {"reading", "writing", "posting"} => HasFound(x)

\* The watermark stands for the changes before it, and so does the one a run began with.
Coverage ==
    /\ \A k \in CoverageKeys : CoveredTo(k, watermark[k])
    /\ \A x \in runs : RunCovers(x)

\* What is accounted for stays so: pages and what is forgiven only grow.
LEMMA AccountedStays ==
    ASSUME WellFormed, CopiesKept, [Next]_vars, NEW k \in CoverageKeys
    PROVE  \A c : Accounted(k, c) => Accounted(k, c)'
  <1>1. \A r \in Reporters(k) : PageOf[r] \in Places
    BY ConfigurationAssumption DEF Reporters, PageReports
  <1>2. \A r \in Reporters(k) : page[PageOf[r]] \subseteq page'[PageOf[r]]
    BY <1>1, NextKeepsCopies DEF vars
  <1>3. forgiven[k] \subseteq forgiven'[k]
    BY DataAfterStep
  <1> QED
    BY <1>2, <1>3 DEF Accounted, Reported

\* And the new changes are of now.
LEMMA CoveredStays ==
    ASSUME WellFormed, CopiesKept, [Next]_vars, NEW k \in CoverageKeys,
           NEW t \in Int, t <= now, CoveredTo(k, t)
    PROVE  CoveredTo(k, t)'
  <1>1. changes'[k] \subseteq changes[k] \cup {now}
    BY DataAfterStep
  <1>2. now \in Int
    BY DEF WellFormed, TypeOK
  <1> QED
    BY <1>1, <1>2, AccountedStays DEF CoveredTo

\* A run that goes on to a page or a post takes along what it found.
LEMMA FindingsKept ==
    ASSUME WellFormed, CopiesKept, [Next]_vars, NEW z \in runs', NEW y \in runs, SameRun(y, z),
           RunTimely(y), RunCovers(y),
           z.pc \in {"reading", "writing", "posting"},
           y.pc \in {"reading", "writing", "posting"}, z.found = y.found, z.hidden = y.hidden,
           z.report \in ChangeReports
    PROVE  HasFound(z)'
  <1>1. changes'[KeyOf[z.report]] \subseteq changes[KeyOf[z.report]] \cup {now}
    BY DataAfterStep, ConfigurationAssumption
  <1>2. now \in Int /\ y.started \in Int
    BY DEF WellFormed, TypeOK, Run
  <1> QED
    BY <1>1, <1>2 DEF SameRun, RunTimely, RunCovers, HasFound

\* The runs after a step and their findings.
LEMMA FindingsAfterStep ==
    ASSUME WellFormed, [Next]_vars
    PROVE  \A z \in runs' :
              \/ z.pc \notin {"reading", "writing", "posting"} /\ \E y \in runs : SameRun(y, z)
              \/ \E y \in runs : /\ SameRun(y, z) /\ z.found = y.found /\ z.hidden = y.hidden
                                /\ y.pc \in {"reading", "writing", "posting"}
              \/ \E y \in runs : /\ SameRun(y, z) /\ z.hidden = Withheld(y, z.found)
                                /\ UNCHANGED <<changes, now>>
              \/ \E r \in Reports, t \in {"scheduled", "manual"} : z = NewRun(r, t)
  <1>1. runs \subseteq Run /\ \A y : SameRun(y, y)
    BY DEF WellFormed, TypeOK, SameRun
  <1> DEFINE Old(z) ==
               \E y \in runs : /\ SameRun(y, z) /\ z.pc = y.pc
                               /\ z.found = y.found /\ z.hidden = y.hidden
  <1>2. ASSUME NEW x \in runs, RunStep(x), NEW z \in runs'
        PROVE  \/ Old(z)
               \/ \E y \in runs : /\ SameRun(y, z) /\ z.found = y.found /\ z.hidden = y.hidden
                                 /\ y.pc \in {"reading", "writing", "posting"}
               \/ \E y \in runs : /\ SameRun(y, z) /\ z.hidden = Withheld(y, z.found)
                                 /\ UNCHANGED <<changes, now>>
    <2>1. CASE QueryAnswered(x)
      <3>1. PICK found : Found(x, found)
        BY <2>1 DEF QueryAnswered
      <3> DEFINE y == [x EXCEPT !.found = found, !.hidden = Withheld(x, found),
                       !.pc = IF PageOf[x.report] = NewPost THEN "posting" ELSE "reading"]
      <3>2. runs' = runs \ {x} \/ runs' = (runs \ {x}) \cup {y}
        BY <3>1 DEF Found, Over, GoesOn
      <3>3. SameRun(x, y) /\ y.hidden = Withheld(x, y.found)
        BY <1>1 DEF Run, SameRun
      <3>4. UNCHANGED <<changes, now>>
        BY <1>2 DEF RunStep
      <3> HIDE DEF y
      <3> QED
        BY <1>1, <1>2, <3>1, <3>2, <3>3, <3>4
    <2>2. CASE PageRead(x)
      <3> DEFINE y == [x EXCEPT !.pc = "writing", !.copy = page[PageOf[x.report]], !.isStale = FALSE]
      <3>1. runs' = runs \ {x} \/ runs' = (runs \ {x}) \cup {y}
        BY <2>2 DEF PageRead, Over, GoesOn
      <3>2. SameRun(x, y) /\ y.found = x.found /\ y.hidden = x.hidden /\ x.pc = "reading"
        BY <1>1, <2>2 DEF Run, SameRun, PageRead
      <3> HIDE DEF y
      <3> QED
        BY <1>1, <1>2, <3>1, <3>2
    <2>3. CASE PageWritten(x) /\ ~PutAccepted(x)
      <3> DEFINE y == [x EXCEPT !.pc = "reading", !.copy = {}, !.attempt = 2]
      <3>1. runs' = runs \ {x} \/ runs' = (runs \ {x}) \cup {y}
        BY <2>3 DEF PageWritten, Over, GoesOn
      <3>2. SameRun(x, y) /\ y.found = x.found /\ y.hidden = x.hidden /\ x.pc = "writing"
        BY <1>1, <2>3 DEF Run, SameRun, PageWritten
      <3> HIDE DEF y
      <3> QED
        BY <1>1, <1>2, <3>1, <3>2
    <2>4. CASE PageWritten(x) /\ PutAccepted(x)
      <3>1. runs' = Outdated(runs \ {x}, PageOf[x.report]) /\ runs \ {x} \in SUBSET Run
        BY <1>1, <2>4 DEF PageWritten, PutAccepted
      <3>2. Old(z)
        BY <1>2, <3>1, OutdatedShape
      <3> QED
        BY <3>2
    <2> QED
      BY <1>1, <1>2, <2>1, <2>2, <2>3, <2>4 DEF RunStep, RequestFails, Posted, WorkDone, Over
  <1>3. ASSUME NEW p, EditPage(p), NEW z \in runs' PROVE Old(z)
    BY <1>1, <1>3, OutdatedShape DEF EditPage
  <1>4. CASE Tick
    BY <1>1, <1>4 DEF Tick, WellFormed, TypeOK
  <1>5. ASSUME NEW r \in ByHand, RunNow(r), NEW z \in runs' PROVE z \in runs \/ z = NewRun(r, "manual")
    BY <1>5 DEF RunNow
  <1>6. CASE \/ \E k \in CoverageKeys : JiraChanges(k)
             \/ TimePasses \/ Boot \/ Crash \/ UNCHANGED vars
    BY <1>1, <1>6 DEF JiraChanges, TimePasses, Boot, Crash, vars
  <1> QED
    BY <1>1, <1>2, <1>3, <1>4, <1>5, <1>6, ConfigurationAssumption DEF Next

\* A full answer is all a run has to deliver.
LEMMA AnswerIsFull ==
    ASSUME NEW x, x.report \in ChangeReports
    PROVE  \A c \in changes[KeyOf[x.report]] : x.from <= c => [owner |-> x.report, at |-> c] \in Answer(x)
  BY DEF Answer

\* A run that confirms coverage has delivered: everything before its start is accounted for.
LEMMA ConfirmCovers ==
    ASSUME WellFormed, CopiesKept, Timely, Coverage,
           NEW x \in runs, RunStep(x), Confirms(x), x.report \in ChangeReports
    PROVE  CoveredTo(KeyOf[x.report], x.started)'
  <1> DEFINE r == x.report
             k == KeyOf[r]
  <1>1. RunCovers(x) /\ RunTimely(x)
    BY DEF Coverage, Timely
  <1>2. /\ changes' = changes /\ PageOf[r] \in Places /\ r \notin PiTeams
        /\ k \in CoverageKeys /\ r \in Reporters(k)
        /\ x.from \in Int /\ x.mark \in Int /\ x.started \in Int
        /\ changes[k] \subseteq 0..Horizon /\ \A c \in changes[k] : c \in Int
    BY ConfigurationAssumption, KindsAssumption, TimeAssumption
       DEF RunStep, PageReports, WellFormed, TypeOK, Run, Reporters
  <1>3. \A c : Accounted(k, c) => Accounted(k, c)'
    BY <1>2, AccountedStays DEF Next
  <1>4. /\ forgiven[k] \subseteq forgiven'[k]
        /\ {c \in changes[k] : Excused(x) /\ c < x.from} \subseteq forgiven'[k]
        /\ \A hidden : Confirm(x, hidden) => hidden \subseteq forgiven'[k]
    BY <1>2 DEF Confirms, Confirm, WellFormed, TypeOK
  <1>5. CASE UNCHANGED <<watermark, forgiven>>
    <2>1. watermark[k] = x.started
      BY <1>2, <1>5 DEF Confirms, Confirm, setCoverageWatermark, WellFormed, TypeOK
    <2>2. CoveredTo(k, x.started)
      BY <1>2, <2>1 DEF Coverage
    <2>3. [Next]_vars /\ x.started <= now
      BY <1>1 DEF Next, RunTimely
    <2> QED
      BY <1>2, <2>2, <2>3, CoveredStays
  <1>6. ASSUME ~UNCHANGED <<watermark, forgiven>>, NEW c \in changes[k], x.from <= c, c < x.started
        PROVE  Accounted(k, c)'
    <2>1. CASE Posted(x) \/ PageWritten(x)
      <3>1. HasFound(x)
        BY <1>1, <2>1 DEF RunCovers, Posted, PageWritten
      <3>2. [owner |-> r, at |-> c] \in x.found \/ c \in x.hidden
        BY <1>6, <3>1 DEF HasFound
      <3>3. Confirm(x, x.hidden)
        BY <1>6, <2>1 DEF Posted, PageWritten
      <3>4. x.found \subseteq page'[PageOf[r]]
        <4>1. CASE Posted(x)
          <5>1. page' = [page EXCEPT ![PageOf[r]] = @ \cup x.found]
            BY <4>1 DEF Posted, WellFormed, RunsInOrder
          <5> QED
            BY <1>2, <5>1 DEF WellFormed, TypeOK
        <4>2. CASE PageWritten(x)
          <5>1. PutAccepted(x)
            BY <4>2, <1>6 DEF PageWritten
          <5>2. page' = [page EXCEPT ![PageOf[r]] = x.copy \cup x.found]
            BY <4>2, <5>1 DEF PageWritten
          <5> QED
            BY <1>2, <5>2 DEF WellFormed, TypeOK
        <4> QED
          BY <2>1, <4>1, <4>2
      <3> QED
        BY <1>2, <1>4, <3>2, <3>3, <3>4 DEF Accounted, Reported
    <2>2. CASE QueryAnswered(x)
      <3>1. PICK found : Found(x, found)
        BY <2>2 DEF QueryAnswered
      <3>2. found = {} /\ Confirm(x, Withheld(x, found))
        BY <1>6, <3>1 DEF Found
      <3>3. c \in Withheld(x, found)
        BY <1>2, <1>6, <3>2, AnswerIsFull DEF Withheld
      <3> QED
        BY <1>4, <3>2, <3>3 DEF Accounted
    <2> QED
      BY <1>6, <2>1, <2>2 DEF RunStep, RequestFails, PageRead, WorkDone
  <1>7. ASSUME ~UNCHANGED <<watermark, forgiven>>, NEW c \in changes[k], c < x.started
        PROVE  Accounted(k, c)'
    <2>1. CASE x.from <= c
      BY <1>6, <1>7, <2>1
    <2>2. CASE c < x.from /\ Excused(x)
      BY <1>4, <2>2 DEF Accounted
    <2>3. CASE c < x.from /\ ~Excused(x)
      <3>1. Accounted(k, c)
        BY <1>1, <1>2, <1>7, <2>3 DEF RunTimely, RunCovers, CoveredTo
      <3> QED
        BY <1>3, <3>1
    <2> QED
      BY <1>2, <2>1, <2>2, <2>3
  <1> QED
    BY <1>2, <1>5, <1>7 DEF CoveredTo

LEMMA NextKeepsCoverage ==
    WellFormed /\ CopiesKept /\ Timely /\ Coverage /\ [Next]_vars => Coverage'
  <1> SUFFICES ASSUME WellFormed, CopiesKept, Timely, Coverage, [Next]_vars
               PROVE  /\ \A k \in CoverageKeys : CoveredTo(k, watermark[k])'
                      /\ \A z \in runs' : RunCovers(z)'
    BY DEF Coverage
  <1>1. /\ \A k \in CoverageKeys : CoveredTo(k, watermark[k])
        /\ \A x \in runs : RunCovers(x) /\ RunTimely(x)
    BY DEF Coverage, Timely
  <1>2. /\ runs \subseteq Run /\ \A k \in CoverageKeys : watermark[k] \in Int /\ watermark[k] <= now
        /\ now \in Int
    BY TimeAssumption DEF WellFormed, TypeOK, Timely
  <1>3. WellFormed' /\ Timely'
    BY NextWellFormed, NextKeepsTimely
  <1>4. ASSUME NEW k \in CoverageKeys PROVE CoveredTo(k, watermark[k])'
    <2>1. CASE watermark'[k] = watermark[k]
      <3>1. CoveredTo(k, watermark[k]) /\ watermark[k] \in Int /\ watermark[k] <= now
        BY <1>1, <1>2
      <3> DEFINE t == watermark[k]
      <3> HIDE DEF t
      <3>2. ASSUME NEW u \in Int, u <= now, CoveredTo(k, u), watermark'[k] = u PROVE CoveredTo(k, watermark[k])'
        BY <3>2, CoveredStays DEF CoveredTo, Accounted, Reported
      <3> QED
        BY <2>1, <3>1, <3>2
    <2>2. CASE watermark'[k] = Never
      <3>1. \A c \in changes'[k] : c \in Nat
        BY <1>3 DEF WellFormed, TypeOK
      <3> QED
        BY <2>2, <3>1 DEF CoveredTo, Never
    <2>3. CASE \E x \in runs : RunStep(x) /\ Confirms(x) /\ x.report \in Reporters(k) /\ watermark'[k] = x.started
      <3>1. PICK x \in runs : RunStep(x) /\ Confirms(x) /\ x.report \in Reporters(k) /\ watermark'[k] = x.started
        BY <2>3
      <3>2. KeyOf[x.report] = k /\ x.report \in ChangeReports /\ CoveredTo(KeyOf[x.report], x.started)'
        BY <3>1, ConfirmCovers DEF Reporters
      <3> QED
        BY <3>1, <3>2 DEF CoveredTo, Accounted, Reported
    <2> QED
      BY <2>1, <2>2, <2>3, DataAfterStep
  <1>5. ASSUME NEW z \in runs', z.report \in ChangeReports PROVE CoveredTo(KeyOf[z.report], z.mark)'
    <2>1. CASE \E y \in runs : SameRun(y, z)
      <3>1. PICK y \in runs : SameRun(y, z)
        BY <2>1
      <3>2. /\ CoveredTo(KeyOf[z.report], z.mark) /\ z.mark \in Int
            /\ y.mark <= y.started /\ y.started <= now /\ y.started \in Int
        BY <1>1, <1>2, <1>5, <3>1, TimeAssumption DEF RunCovers, SameRun, RunTimely, Run
      <3>3. z.mark <= now
        BY <1>2, <3>1, <3>2 DEF SameRun
      <3> QED
        BY <1>5, <3>2, <3>3, ConfigurationAssumption, CoveredStays
    <2>2. CASE \E r \in Reports, t \in {"scheduled", "manual"} : z = NewRun(r, t)
      <3>1. z.mark = watermark[KeyOf[z.report]]
        BY <1>5, <2>2 DEF NewRun
      <3>2. CoveredTo(KeyOf[z.report], z.mark) /\ z.mark \in Int /\ z.mark <= now
        BY <1>1, <1>2, <1>5, <3>1, ConfigurationAssumption
      <3> QED
        BY <1>5, <3>2, ConfigurationAssumption, CoveredStays
    <2> QED
      BY <2>1, <2>2, RunsAfterStep
  <1>6. ASSUME NEW z \in runs', z.report \in ChangeReports, z.pc \in {"reading", "writing", "posting"}
        PROVE  HasFound(z)'
    <2>1. CASE \E y \in runs : /\ SameRun(y, z) /\ z.found = y.found /\ z.hidden = y.hidden
                              /\ y.pc \in {"reading", "writing", "posting"}
      BY <1>1, <1>6, <2>1, FindingsKept
    <2>2. CASE \E y \in runs : /\ SameRun(y, z) /\ z.hidden = Withheld(y, z.found)
                              /\ UNCHANGED <<changes, now>>
      <3>1. PICK y \in runs : /\ SameRun(y, z) /\ z.hidden = Withheld(y, z.found)
                             /\ UNCHANGED <<changes, now>>
        BY <2>2
      <3>2. ASSUME NEW c \in changes[KeyOf[z.report]], z.from <= c
            PROVE  [owner |-> z.report, at |-> c] \in z.found \/ c \in z.hidden
        <4>1. c \in 0..Horizon
          BY <1>6, <3>2, ConfigurationAssumption DEF WellFormed, TypeOK
        <4>2. [owner |-> z.report, at |-> c] \in Answer(y) /\ y.report = z.report
          BY <1>6, <3>1, <3>2, AnswerIsFull DEF SameRun
        <4> QED
          BY <3>1, <4>1, <4>2 DEF Withheld
      <3> QED
        BY <3>1, <3>2 DEF HasFound
    <2>3. CASE \E r \in Reports, t \in {"scheduled", "manual"} : z = NewRun(r, t)
      BY <1>6, <2>3, NewRunType DEF WellFormed
    <2> QED
      BY <1>6, <2>1, <2>2, <2>3, FindingsAfterStep
  <1> QED
    BY <1>4, <1>5, <1>6 DEF RunCovers

LEMMA InitCovers == Init => Timely /\ Coverage
  BY TimeAssumption DEF Init, Timely, Coverage, CoveredTo, Never

\* Header of reportCoverage.js: missed days self-heal.  Whatever is missed, fails or is
\* restarted, a change from before a watermark is on the page of a report of its key or was
\* out of the reach of a window for a reason the code gives, or was kept from the run that
\* confirmed it.
THEOREM NothingFallsBetween == Spec => []NoGap
  <1>1. Coverage => NoGap
    BY DEF Coverage, CoveredTo, Accounted, NoGap
  <1> QED
    BY <1>1, InitWellFormed, NextWellFormed, InitKeepsCopies, NextKeepsCopies, InitCovers,
       NextKeepsTimely, NextKeepsCoverage, PTL DEF Spec
=============================================================================

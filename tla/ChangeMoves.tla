----------------------------- MODULE ChangeMoves -----------------------------
(***************************************************************************)
(* Booked change moves: the bookings file, the 60-second runner and the    *)
(* "run now" endpoint that perform what has come due                       *)
(* (src/src/services/changeMoveScheduler.js, changeMoveBookings.js and     *)
(* src/src/routes/changeMoves.js), over a relay whose requests may be      *)
(* refused, dropped, or carried out after their caller gave up.            *)
(*                                                                         *)
(* A run awaits one relay call after another; everything between two       *)
(* awaits, file reads and writes included, is one step.                    *)
(***************************************************************************)
EXTENDS Naturals, Sequences, FiniteSets, SequencesExt

CONSTANTS
    Bookings,            \* ids of bookings (crypto.randomUUID, one per booking)
    ChangeOf,            \* the change each booking moves
    DueAt,               \* the moment each booking is for
    Ticker,              \* the run the 60-second tick may have in flight
    NowRuns,             \* runs started by POST run-now, each its own
    MAX_STORED_BOOKINGS, \* most bookings kept in the file
    AbandonedMayAct,     \* a PATCH whose caller gave up may still be carried out
    MaxTime,             \* bound: the last moment of the clock
    MaxClosures,         \* bound: how often the relay closes
    MaxCrashes,          \* bound: how often the server stops
    MaxDiskFailures,     \* bound: how often a write of the file fails
    MaxDamages,          \* bound: how often a write of the file is cut short
    MaxOverlaps          \* bound: how often a run begins beside another one

Runs == {Ticker} \cup NowRuns
Statuses == {"pending", "done", "failed", "cancelled"}

ASSUME BookingAssumption ==
    /\ DueAt \in [Bookings -> Nat]
    /\ DOMAIN ChangeOf = Bookings
    /\ Ticker \notin NowRuns /\ IsFiniteSet(NowRuns)
    /\ MAX_STORED_BOOKINGS \in Nat \ {0}
    /\ AbandonedMayAct \in BOOLEAN
    /\ {MaxTime, MaxClosures, MaxCrashes, MaxDiskFailures, MaxDamages, MaxOverlaps} \subseteq Nat

VARIABLES
    now,            \* the clock
    file,           \* what change-move-bookings.json reads as: [id, status], newest first
    booked,         \* the ids handed out so far
    pushedOff,      \* the bookings a full file dropped while they were pending
    damages,        \* how often a write was cut short: a damaged file reads as none
    queue,          \* what is left of each run's snapshot, the current booking first
    phase,          \* "idle", or the relay call a run awaits: "lookup", "patch"
    patch,          \* a run's PATCH: "none", "sent", or "acted" on by ServiceNow
    taken,          \* the whole snapshot of each run, the settled bookings included
    abandoned,      \* how many PATCHes nobody waits for may still act, for each booking
    relayReady,     \* getBridgeStatus('snow')
    landed,         \* the moves ServiceNow made, oldest first, each with its run's snapshot
    closures, crashes, diskFailures,
    overlaps        \* how often a run began beside another one

fileVars  == <<file, booked, pushedOff, damages>>
runVars   == <<queue, phase, patch, taken>>
boundVars == <<closures, crashes, diskFailures>>
vars == <<now, fileVars, runVars, abandoned, relayReady, landed, boundVars, overlaps>>

StoredBookings == [id : Bookings, status : Statuses]

TypeOK ==
    /\ now \in 0..MaxTime
    /\ file \in Seq(StoredBookings)
    /\ Len(file) <= MAX_STORED_BOOKINGS
    /\ booked \subseteq Bookings
    /\ pushedOff \subseteq Bookings
    /\ damages \in 0..MaxDamages
    /\ queue \in [Runs -> Seq(Bookings)]
    /\ phase \in [Runs -> {"idle", "lookup", "patch"}]
    /\ patch \in [Runs -> {"none", "sent", "acted"}]
    /\ taken \in [Runs -> SUBSET Bookings]
    /\ abandoned \in [Bookings -> Nat]
    /\ relayReady \in BOOLEAN
    /\ landed \in Seq([id : Bookings, beside : SUBSET Bookings])
    /\ closures \in 0..MaxClosures
    /\ crashes \in 0..MaxCrashes
    /\ diskFailures \in 0..MaxDiskFailures
    /\ overlaps \in 0..MaxOverlaps

Init ==
    /\ now = 0
    /\ file = <<>>
    /\ booked = {}
    /\ pushedOff = {}
    /\ damages = 0
    /\ queue = [r \in Runs |-> <<>>]
    /\ phase = [r \in Runs |-> "idle"]
    /\ patch = [r \in Runs |-> "none"]
    /\ taken = [r \in Runs |-> {}]
    /\ abandoned = [b \in Bookings |-> 0]
    /\ relayReady = FALSE
    /\ landed = <<>>
    /\ closures = 0
    /\ crashes = 0
    /\ diskFailures = 0
    /\ overlaps = 0

-----------------------------------------------------------------------------
(* The file and the pure rules over it.                                    *)

HasStatus(b, s) == \E k \in DOMAIN file : file[k] = [id |-> b, status |-> s]

Pending(bookings, k) == bookings[k].status = "pending"
Moment(bookings, k) == DueAt[bookings[k].id]

\* A slip for writeBookings: the list is not bounded.
writeAllBookings(bookings) ==
    file' = bookings /\ UNCHANGED <<pushedOff, damages, diskFailures>>

\* writeFileSync truncates before it writes: cut short by a full disk or by the end of
\* the process, it leaves a damaged file, and readBookings takes that for an empty list.
LeaveDamaged ==
    /\ damages < MaxDamages
    /\ damages' = damages + 1
    /\ file' = <<>>
    /\ UNCHANGED pushedOff

\* writeBookings: the newest MAX_STORED_BOOKINGS are kept, whatever the status of the
\* others.  The result is ignored: a write that fails before it begins leaves the file
\* as it was, one that fails later leaves it damaged.
writeBookings(bookings) ==
    \/ LET kept == IF Len(bookings) <= MAX_STORED_BOOKINGS
                   THEN Len(bookings) ELSE MAX_STORED_BOOKINGS
       IN  /\ file' = SubSeq(bookings, 1, kept)
           /\ pushedOff' = pushedOff \cup
                  {bookings[k].id : k \in {i \in DOMAIN bookings : i > kept /\ Pending(bookings, i)}}
           /\ UNCHANGED <<damages, diskFailures>>
    \/ /\ diskFailures < MaxDiskFailures
       /\ diskFailures' = diskFailures + 1
       /\ UNCHANGED <<file, pushedOff, damages>>
    \/ /\ LeaveDamaged
       /\ UNCHANGED diskFailures

\* The ids at the places S of a list, by moment.  Array.prototype.sort is stable, so
\* bookings for one moment keep the list's order: there is one such sequence.
ByMoment(bookings, S) ==
    {[k \in DOMAIN at |-> bookings[at[k]].id] :
        at \in {a \in SetToSeqs(S) :
                  \A i, j \in DOMAIN a : i < j =>
                      \/ Moment(bookings, a[i]) < Moment(bookings, a[j])
                      \/ Moment(bookings, a[i]) = Moment(bookings, a[j]) /\ a[i] < a[j]}}

\* Four slips for listDueBookings: in any order, whatever the moment, whatever the
\* status, or only once the moment has passed.
listDueUnsorted(bookings, moment) ==
    LET due == {k \in DOMAIN bookings : Pending(bookings, k) /\ Moment(bookings, k) <= moment}
    IN  {[k \in DOMAIN at |-> bookings[at[k]].id] : at \in SetToSeqs(due)}

listAllPending(bookings, moment) ==
    ByMoment(bookings, {k \in DOMAIN bookings : Pending(bookings, k)})

listDueAnyStatus(bookings, moment) ==
    ByMoment(bookings, {k \in DOMAIN bookings : Moment(bookings, k) <= moment})

listOverdue(bookings, moment) ==
    ByMoment(bookings, {k \in DOMAIN bookings :
                           Pending(bookings, k) /\ Moment(bookings, k) < moment})

\* listDueBookings: pending and due, by moment; the set of its one result.
listDueBookings(bookings, moment) ==
    ByMoment(bookings, {k \in DOMAIN bookings :
                           Pending(bookings, k) /\ Moment(bookings, k) <= moment})

\* A slip for applyBookingOutcome: a failure is retried.
retryFailures(bookings, S, status) ==
    [k \in DOMAIN bookings |->
        IF bookings[k].id \in S
        THEN [bookings[k] EXCEPT !.status = IF status = "failed" THEN "pending" ELSE status]
        ELSE bookings[k]]

\* applyBookingOutcome, for every booking of S: whatever the status was, it is replaced.
applyBookingOutcome(bookings, S, status) ==
    [k \in DOMAIN bookings |->
        IF bookings[k].id \in S THEN [bookings[k] EXCEPT !.status = status] ELSE bookings[k]]

\* cancelBooking: only a pending booking is withdrawn.
cancelBooking(bookings, b) ==
    [k \in DOMAIN bookings |->
        IF bookings[k] = [id |-> b, status |-> "pending"]
        THEN [bookings[k] EXCEPT !.status = "cancelled"] ELSE bookings[k]]

-----------------------------------------------------------------------------
(* What people do.                                                         *)

\* addBooking.
Book(b) ==
    /\ b \notin booked
    /\ booked' = booked \cup {b}
    /\ writeBookings(<<[id |-> b, status |-> "pending"]>> \o file)
    /\ UNCHANGED <<now, runVars, abandoned, relayReady, landed, closures, crashes, overlaps>>

\* removeBooking.
Withdraw(b) ==
    /\ HasStatus(b, "pending")
    /\ writeBookings(cancelBooking(file, b))
    /\ UNCHANGED <<now, booked, runVars, abandoned, relayReady, landed, closures, crashes, overlaps>>

-----------------------------------------------------------------------------
(* A run.                                                                  *)

Idle(r) ==
    /\ queue' = [queue EXCEPT ![r] = <<>>]
    /\ phase' = [phase EXCEPT ![r] = "idle"]
    /\ patch' = [patch EXCEPT ![r] = "none"]
    /\ taken' = [taken EXCEPT ![r] = {}]

\* The rest of the loop body after a booking came out as status: record it in the
\* file as it now is, and ask for the next booking's sys_id.  With the relay closed
\* submitRelayRequest throws at once for every booking left, and each is recorded
\* as failed before anything else can run.
Conclude(r, status) ==
    LET recorded == applyBookingOutcome(file, {Head(queue[r])}, status)
        rest     == Tail(queue[r])
    IN  IF rest # <<>> /\ relayReady
        THEN /\ writeBookings(recorded)
             /\ queue' = [queue EXCEPT ![r] = rest]
             /\ phase' = [phase EXCEPT ![r] = "lookup"]
             /\ patch' = [patch EXCEPT ![r] = "none"]
             /\ UNCHANGED taken
        ELSE /\ writeBookings(applyBookingOutcome(recorded, ToSet(rest), "failed"))
             /\ Idle(r)

\* runDueChangeMoves up to its first relay call.  With nothing due, or the relay
\* closed, a run leaves no trace.
StartRun(r) ==
    /\ relayReady
    /\ \E due \in listDueBookings(file, now) :
       /\ due # <<>>
       /\ queue' = [queue EXCEPT ![r] = due]
       /\ taken' = [taken EXCEPT ![r] = ToSet(due)]
    /\ phase' = [phase EXCEPT ![r] = "lookup"]
    /\ overlaps' = overlaps + (IF \E q \in Runs : phase[q] # "idle" THEN 1 ELSE 0)
    /\ overlaps' <= MaxOverlaps
    /\ UNCHANGED <<now, fileVars, patch, abandoned, relayReady, landed, boundVars>>

\* The tick: isRunInFlight stops it while a run of its own is under way.
checkAndRunDueChangeMoves ==
    /\ phase[Ticker] = "idle"
    /\ StartRun(Ticker)

\* POST run-now: no run in flight stops it; each member of NowRuns is one call.
RunNow(r) ==
    /\ phase[r] = "idle"
    /\ StartRun(r)

\* fetchChangeSysId found the change; writeChangeState submits the PATCH, which
\* throws when the relay closed meanwhile.
LookupAnswered(r) ==
    /\ phase[r] = "lookup"
    /\ \/ /\ relayReady
          /\ phase' = [phase EXCEPT ![r] = "patch"]
          /\ patch' = [patch EXCEPT ![r] = "sent"]
          /\ UNCHANGED <<file, pushedOff, damages, queue, taken, diskFailures>>
       \/ /\ ~relayReady
          /\ Conclude(r, "failed")
    /\ UNCHANGED <<now, booked, abandoned, relayReady, landed, closures, crashes, overlaps>>

\* A slip for LookupFails: an empty sys_id does not throw.
LookupFailureIgnored(r) ==
    /\ phase[r] = "lookup"
    /\ Conclude(r, "done")
    /\ UNCHANGED <<now, booked, abandoned, relayReady, landed, closures, crashes, overlaps>>

\* The lookup found no such change, was refused, or timed out.
LookupFails(r) ==
    /\ phase[r] = "lookup"
    /\ Conclude(r, "failed")
    /\ UNCHANGED <<now, booked, abandoned, relayReady, landed, closures, crashes, overlaps>>

\* ServiceNow carries a PATCH out.
Land(b, beside) == landed' = Append(landed, [id |-> b, beside |-> beside])

PatchActs(r) ==
    /\ phase[r] = "patch"
    /\ patch[r] = "sent"
    /\ patch' = [patch EXCEPT ![r] = "acted"]
    /\ Land(Head(queue[r]), taken[r])
    /\ UNCHANGED <<now, fileVars, queue, phase, taken, abandoned, relayReady, boundVars, overlaps>>

\* writeChangeState resolves.
PatchAnswered(r) ==
    /\ phase[r] = "patch"
    /\ patch[r] = "acted"
    /\ Conclude(r, "done")
    /\ UNCHANGED <<now, booked, abandoned, relayReady, landed, closures, crashes, overlaps>>

\* The PATCHes of the runs R, which nobody waits for any more: each is still with the
\* relay, or gone.
LeaveBehind(R) ==
    \E Q \in SUBSET (IF AbandonedMayAct THEN R ELSE {}) :
        abandoned' = [b \in Bookings |->
                         abandoned[b] + Cardinality({r \in Q : Head(queue[r]) = b})]

\* writeChangeState rejects: refused, or timed out with the request still queued or
\* with a tab, or acted on and the answer lost.
PatchFails(r) ==
    /\ phase[r] = "patch"
    /\ Conclude(r, "failed")
    /\ LeaveBehind(IF patch[r] = "sent" THEN {r} ELSE {})
    /\ UNCHANGED <<now, booked, relayReady, landed, closures, crashes, overlaps>>

-----------------------------------------------------------------------------
(* The relay, the clock, the process.                                      *)

\* A request whose caller gave up is carried out all the same.
AbandonedActs(b) ==
    /\ abandoned[b] > 0
    /\ abandoned' = [abandoned EXCEPT ![b] = @ - 1]
    /\ Land(b, {})
    /\ UNCHANGED <<now, fileVars, runVars, relayReady, boundVars, overlaps>>

RelayOpens ==
    /\ ~relayReady
    /\ relayReady' = TRUE
    /\ UNCHANGED <<now, fileVars, runVars, abandoned, landed, boundVars, overlaps>>

RelayCloses ==
    /\ relayReady
    /\ closures < MaxClosures
    /\ closures' = closures + 1
    /\ relayReady' = FALSE
    /\ UNCHANGED <<now, fileVars, runVars, abandoned, landed, crashes, diskFailures, overlaps>>

Advance ==
    /\ now < MaxTime
    /\ now' = now + 1
    /\ UNCHANGED <<fileVars, runVars, abandoned, relayReady, landed, boundVars, overlaps>>

\* The server stops and starts: runs and the relay's memory are gone, the file stays
\* unless the stop cut a write short, and a PATCH a browser tab already holds may still
\* be carried out.
Restart ==
    /\ crashes < MaxCrashes
    /\ crashes' = crashes + 1
    /\ LeaveDamaged \/ UNCHANGED <<file, pushedOff, damages>>
    /\ relayReady' = FALSE
    /\ queue' = [r \in Runs |-> <<>>]
    /\ phase' = [r \in Runs |-> "idle"]
    /\ patch' = [r \in Runs |-> "none"]
    /\ taken' = [r \in Runs |-> {}]
    /\ LeaveBehind({r \in Runs : patch[r] = "sent"})
    /\ UNCHANGED <<now, booked, landed, closures, diskFailures, overlaps>>

-----------------------------------------------------------------------------
RunStep(r) ==
    \/ LookupAnswered(r) \/ LookupFails(r)
    \/ PatchActs(r) \/ PatchAnswered(r) \/ PatchFails(r)

Next ==
    \/ \E b \in Bookings : Book(b) \/ Withdraw(b) \/ AbandonedActs(b)
    \/ checkAndRunDueChangeMoves
    \/ \E r \in NowRuns : RunNow(r)
    \/ \E r \in Runs : RunStep(r)
    \/ RelayOpens \/ RelayCloses \/ Advance \/ Restart

Spec == Init /\ [][Next]_vars

\* Every relay call is answered or times out, the tick keeps coming, the clock runs,
\* and somebody clicks the bookmarklet again after the relay closed.
Fairness ==
    /\ \A r \in Runs : WF_vars(RunStep(r))
    /\ SF_vars(checkAndRunDueChangeMoves)
    /\ WF_vars(Advance)
    /\ WF_vars(RelayOpens)

FairSpec == Spec /\ Fairness

-----------------------------------------------------------------------------
(* What must hold.                                                         *)

TimesLanded(b) == Cardinality({k \in DOMAIN landed : landed[k].id = b})

\* A booking shown as done was carried out: no run, overlap, restart or failed write
\* makes the panel claim a move that did not happen.
DoneMeansMoved == \A b \in Bookings : HasStatus(b, "done") => TimesLanded(b) > 0

\* No change is moved before its booked moment, however late the PATCH was sent.
NeverEarly == \A k \in DOMAIN landed : DueAt[landed[k].id] <= now

\* What may become of a stored booking in one step.  An outcome replaces whatever the
\* status was, a withdrawal or another run's outcome included.
MayBecome(booking, status) ==
    \/ status = booking.status
    \/ booking.status = "pending" /\ status = "cancelled"
    \/ status \in {"done", "failed"} /\ \E r \in Runs : booking.id \in ToSet(queue[r])

\* Every write of the file starts from a list read some time before.  While runs, new
\* bookings and withdrawals interleave, a stored booking leaves the file only off its
\* end, when a new one meets a full file, or with a write that was cut short; only a
\* run that took the booking records an outcome for it, only a pending one is
\* withdrawn, and none becomes pending again.
NoLostUpdate ==
    [][\A k \in DOMAIN file :
        \/ \E l \in DOMAIN file' :
              file'[l].id = file[k].id /\ MayBecome(file[k], file'[l].status)
        \/ k = MAX_STORED_BOOKINGS /\ booked' # booked
        \/ damages' # damages]_vars

\* "A booking that comes due without it is late, not lost" (runDueChangeMoves): a
\* pending booking is done, failed or withdrawn in the end, however often the relay closes
\* or the server restarts, unless MAX_STORED_BOOKINGS newer bookings push it off the file
\* or the file is damaged while it waits.
Settled(b) == \E status \in Statuses \ {"pending"} : HasStatus(b, status)

LateNotLost ==
    \A b \in Bookings : \A n \in 0..MaxDamages :
        HasStatus(b, "pending") /\ damages = n
            ~> Settled(b) \/ b \in pushedOff \/ damages > n

\* A booking is carried out at most once, for as long as the process lives and its
\* writes succeed; a PATCH that timed out is given up for good, not repeated.
MovedAtMostOnce ==
    crashes = 0 /\ diskFailures = 0 => \A b \in Bookings : TimesLanded(b) <= 1

\* Whatever runs, restarts and failed writes cross, a booking is carried out once, and each
\* further time has a cause of its own: a run that began beside another one, a restart or
\* a write that failed.  A PATCH that outlives its run is no cause.
EachRepeatHasACause ==
    \A b \in Bookings : TimesLanded(b) <= 1 + overlaps + crashes + diskFailures

\* A booking withdrawn while no run had taken it stays out of every later run: the
\* only way a withdrawn booking is carried out is a run that was already under way.
WithdrawnInTime(b) ==
    /\ HasStatus(b, "cancelled")
    /\ abandoned[b] = 0
    /\ \A r \in Runs : b \notin taken[r]

WithdrawnInTimeNeverRuns ==
    [][\A b \in Bookings : WithdrawnInTime(b) =>
          /\ TimesLanded(b)' = TimesLanded(b)
          /\ \A r \in Runs : b \notin taken'[r]
          /\ ~HasStatus(b, "done")']_vars

\* What the panel shows of a booking.
StatusOf(b) ==
    IF \E s \in Statuses : HasStatus(b, s) THEN CHOOSE s \in Statuses : HasStatus(b, s)
    ELSE IF b \in booked THEN "lost" ELSE "unknown"

\* A booking is open while it is pending, a run has it in its hands, or a PATCH that
\* nobody waits for may still move it.
Open(b) ==
    \/ HasStatus(b, "pending")
    \/ abandoned[b] > 0
    \/ \E r \in Runs : b \in ToSet(queue[r])

\* The runner, the panel and their file keep the promise of BookingPromise: only what is
\* open is moved or settled, when it is due, and nothing that closed opens again.
Promise == INSTANCE BookingPromise WITH
    status <- [b \in Bookings |-> StatusOf(b)],
    open <- {b \in Bookings : Open(b)},
    moves <- [b \in Bookings |-> TimesLanded(b)],
    troubles <- overlaps + crashes + diskFailures,
    losses <- damages
KeepsBookings == Promise!PromiseSpec

\* "a pair that was late does not land back to front" (listDueBookings): of two
\* bookings for one change that came due together and were carried out while their
\* run waited, the one for the earlier moment came first.  A failed write excuses the
\* runner: the earlier booking, still pending in the file, is then tried again.
LandsInOrder ==
    diskFailures = 0 => \A k, l \in DOMAIN landed :
        LET first == landed[k].id
            next  == landed[l].id
        IN  k < l /\ ChangeOf[first] = ChangeOf[next]
              /\ next \in landed[k].beside /\ first \in landed[l].beside
              => DueAt[first] <= DueAt[next]

-----------------------------------------------------------------------------
(* What the source's comments say, and the code does not do.               *)

\* "A booking that comes due while the relay is closed is NOT failed": no booking
\* becomes failed in a step taken with the relay closed.
ClosedRelayFailsNothing ==
    [][~relayReady => \A b \in Bookings : HasStatus(b, "failed")' => HasStatus(b, "failed")]_vars
=============================================================================

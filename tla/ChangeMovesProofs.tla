-------------------------- MODULE ChangeMovesProofs --------------------------
(***************************************************************************)
(* Proofs about ChangeMoves, for any number of bookings, run-now calls and *)
(* faults.                                                                 *)
(***************************************************************************)
EXTENDS ChangeMoves, FiniteSetTheorems, SequenceTheorems, TLAPS

\* Cap(bookings) is what writeBookings stores.
Cap(bookings) == SubSeq(bookings, 1, IF Len(bookings) <= MAX_STORED_BOOKINGS
                                     THEN Len(bookings) ELSE MAX_STORED_BOOKINGS)

\* The newest bookings are stored, each where it was.
LEMMA CapFacts ==
    ASSUME NEW s \in Seq(StoredBookings)
    PROVE  /\ Cap(s) \in Seq(StoredBookings)
           /\ Len(Cap(s)) <= MAX_STORED_BOOKINGS
           /\ Len(s) <= MAX_STORED_BOOKINGS => Cap(s) = s
           /\ DOMAIN Cap(s) \subseteq DOMAIN s
           /\ \A k \in DOMAIN Cap(s) : Cap(s)[k] = s[k]
  BY BookingAssumption DEF Cap

LEMMA RecordFacts ==
    ASSUME NEW s \in Seq(StoredBookings), NEW S, NEW status \in Statuses
    PROVE  /\ applyBookingOutcome(s, S, status) \in Seq(StoredBookings)
           /\ Len(applyBookingOutcome(s, S, status)) = Len(s)
           /\ DOMAIN applyBookingOutcome(s, S, status) = DOMAIN s
           /\ \A k \in DOMAIN s :
                 /\ applyBookingOutcome(s, S, status)[k].id = s[k].id
                 /\ applyBookingOutcome(s, S, status)[k].status
                      = IF s[k].id \in S THEN status ELSE s[k].status
  <1> DEFINE e(k) == IF s[k].id \in S THEN [s[k] EXCEPT !.status = status] ELSE s[k]
             t    == [k \in DOMAIN s |-> e(k)]
  <1>1. \A k \in DOMAIN s : s[k] \in StoredBookings
    OBVIOUS
  <1>2. \A k \in DOMAIN s : /\ e(k) \in StoredBookings /\ e(k).id = s[k].id
                            /\ e(k).status = IF s[k].id \in S THEN status ELSE s[k].status
    BY <1>1 DEF StoredBookings
  <1>3. applyBookingOutcome(s, S, status) = t
    BY DEF applyBookingOutcome
  <1> HIDE DEF e
  <1>4. t \in Seq(StoredBookings) /\ Len(t) = Len(s) /\ DOMAIN t = DOMAIN s
    BY <1>2
  <1> QED
    BY <1>2, <1>3, <1>4

LEMMA CancelFacts ==
    ASSUME NEW s \in Seq(StoredBookings), NEW b
    PROVE  /\ cancelBooking(s, b) \in Seq(StoredBookings)
           /\ Len(cancelBooking(s, b)) = Len(s)
           /\ DOMAIN cancelBooking(s, b) = DOMAIN s
           /\ \A k \in DOMAIN s :
                 /\ cancelBooking(s, b)[k].id = s[k].id
                 /\ \/ cancelBooking(s, b)[k].status = s[k].status
                    \/ s[k].status = "pending" /\ cancelBooking(s, b)[k].status = "cancelled"
  BY DEF cancelBooking, StoredBookings, Statuses

LEMMA BookFacts ==
    ASSUME NEW s \in Seq(StoredBookings), NEW b \in Bookings
    PROVE  LET t == <<[id |-> b, status |-> "pending"]>> \o s
           IN  /\ t \in Seq(StoredBookings)
               /\ Len(t) = Len(s) + 1
               /\ t[1] = [id |-> b, status |-> "pending"]
               /\ \A k \in DOMAIN s : t[k + 1] = s[k]
               /\ \A k \in DOMAIN t \ {1} : k - 1 \in DOMAIN s /\ t[k] = s[k - 1]
  BY DEF StoredBookings, Statuses

\* What a run takes: pending bookings that are due, each once, by moment.
LEMMA DueFacts ==
    ASSUME NEW s \in Seq(StoredBookings), NEW moment \in Nat,
           NEW due \in listDueBookings(s, moment)
    PROVE  /\ due \in Seq(Bookings)
           /\ \A i \in DOMAIN due : \E k \in DOMAIN s :
                 s[k] = [id |-> due[i], status |-> "pending"] /\ DueAt[due[i]] <= moment
           /\ \A i, j \in DOMAIN due : i < j => DueAt[due[i]] <= DueAt[due[j]]
           /\ (\A i, j \in DOMAIN s : s[i].id = s[j].id => i = j)
                => \A i, j \in DOMAIN due : due[i] = due[j] => i = j
  <1> DEFINE S == {k \in DOMAIN s : Pending(s, k) /\ Moment(s, k) <= moment}
  <1>1. PICK at \in SetToSeqs(S) :
           /\ due = [k \in DOMAIN at |-> s[at[k]].id]
           /\ \A i, j \in DOMAIN at : i < j =>
                 \/ Moment(s, at[i]) < Moment(s, at[j])
                 \/ Moment(s, at[i]) = Moment(s, at[j]) /\ at[i] < at[j]
    BY DEF listDueBookings, ByMoment
  <1>2. IsFiniteSet(S) /\ Cardinality(S) \in Nat
    <2>1. IsFiniteSet(1..Len(s))
      BY FS_Interval
    <2> QED
      BY <2>1, FS_Subset, FS_CardinalityType
  <1>3. /\ at \in [1..Cardinality(S) -> S] /\ DOMAIN at = 1..Cardinality(S)
        /\ \A i, j \in DOMAIN at : i # j => at[i] # at[j]
    BY DEF SetToSeqs
  <1>4. \A k \in S : /\ k \in DOMAIN s /\ s[k] \in StoredBookings /\ s[k].id \in Bookings
                     /\ s[k] = [id |-> s[k].id, status |-> "pending"]
                     /\ DueAt[s[k].id] <= moment /\ DueAt[s[k].id] \in Nat
    <2>1. \A k \in DOMAIN s : s[k] \in StoredBookings
      OBVIOUS
    <2>2. \A e \in StoredBookings : e.id \in Bookings /\ e = [id |-> e.id, status |-> e.status]
      BY DEF StoredBookings
    <2> QED
      BY <2>1, <2>2, BookingAssumption DEF Pending, Moment
  <1> HIDE DEF S
  <1>5. /\ DOMAIN due = DOMAIN at
        /\ \A i \in DOMAIN at : at[i] \in S /\ due[i] = s[at[i]].id
    BY <1>1, <1>3
  <1>6. due \in Seq(Bookings)
    <2>1. due \in [1..Cardinality(S) -> Bookings]
      BY <1>1, <1>3, <1>4, <1>5
    <2> QED
      BY <1>2, <2>1
  <1>7. \A i, j \in DOMAIN due : i < j => DueAt[due[i]] <= DueAt[due[j]]
    <2> SUFFICES ASSUME NEW i \in DOMAIN at, NEW j \in DOMAIN at, i < j
                 PROVE  DueAt[s[at[i]].id] <= DueAt[s[at[j]].id]
      BY <1>5
    <2>1. DueAt[s[at[i]].id] \in Nat /\ DueAt[s[at[j]].id] \in Nat
      BY <1>4, <1>5
    <2>2. \/ DueAt[s[at[i]].id] < DueAt[s[at[j]].id]
          \/ DueAt[s[at[i]].id] = DueAt[s[at[j]].id]
      BY <1>1 DEF Moment
    <2> QED
      BY <2>1, <2>2
  <1>8. \A i \in DOMAIN due : \E k \in DOMAIN s :
           s[k] = [id |-> due[i], status |-> "pending"] /\ DueAt[due[i]] <= moment
    BY <1>4, <1>5
  <1>9. (\A i, j \in DOMAIN s : s[i].id = s[j].id => i = j)
          => \A i, j \in DOMAIN due : due[i] = due[j] => i = j
    <2> SUFFICES ASSUME \A i, j \in DOMAIN s : s[i].id = s[j].id => i = j,
                        NEW i \in DOMAIN due, NEW j \in DOMAIN due, due[i] = due[j]
                 PROVE  i = j
      OBVIOUS
    <2>1. at[i] \in DOMAIN s /\ at[j] \in DOMAIN s /\ s[at[i]].id = s[at[j]].id
      BY <1>4, <1>5
    <2>2. at[i] = at[j]
      BY <2>1
    <2> QED
      BY <1>3, <1>5, <2>2
  <1> QED
    BY <1>6, <1>7, <1>8, <1>9
-----------------------------------------------------------------------------
(* The invariant of the file and the runs.                                 *)

\* The moves l contain one of booking b.
Moved(l, b) == \E k \in DOMAIN l : l[k].id = b

QueuedIn(r) == {queue[r][i] : i \in DOMAIN queue[r]}

\* A booking is in the file once, and only after it was booked.
FileSound ==
    /\ \A j, k \in DOMAIN file : file[j].id = file[k].id => j = k
    /\ \A k \in DOMAIN file : file[k].id \in booked

\* A run works on what it took, which was booked and has come due; a PATCH it knows to
\* have acted has acted.
RunSound(r) ==
    /\ phase[r] = "idle" => queue[r] = <<>> /\ taken[r] = {}
    /\ phase[r] # "idle" => queue[r] # <<>>
    /\ phase[r] = "patch" <=> patch[r] # "none"
    /\ QueuedIn(r) \subseteq taken[r]
    /\ taken[r] \subseteq booked
    /\ \A b \in taken[r] : DueAt[b] <= now
    /\ patch[r] = "acted" => Moved(landed, Head(queue[r]))

\* What ServiceNow did, or may still do, had come due.
FarSideSound ==
    /\ \A b \in Bookings : abandoned[b] > 0 => b \in booked /\ DueAt[b] <= now
    /\ \A k \in DOMAIN landed :
          DueAt[landed[k].id] <= now /\ landed[k].id \in booked /\ landed[k].beside \subseteq booked

DoneIsBacked == \A k \in DOMAIN file : file[k].status = "done" => Moved(landed, file[k].id)

Sound ==
    /\ TypeOK /\ FileSound /\ FarSideSound /\ DoneIsBacked
    /\ \A r \in Runs : RunSound(r)

-----------------------------------------------------------------------------
(* What the steps do.                                                      *)

FileType ==
    /\ file \in Seq(StoredBookings)
    /\ Len(file) <= MAX_STORED_BOOKINGS
    /\ pushedOff \subseteq Bookings
    /\ damages \in 0..MaxDamages
    /\ diskFailures \in 0..MaxDiskFailures

\* A write cut short: the file reads as empty.
Damaged == file' = <<>> /\ damages' = damages + 1 /\ damages' # damages

LEMMA NothingStored == <<>> \in Seq(StoredBookings) /\ Len(<<>>) = 0 /\ DOMAIN <<>> = {}
  OBVIOUS

LEMMA DamageShape ==
    ASSUME TypeOK, LeaveDamaged
    PROVE  /\ Damaged
           /\ file' \in Seq(StoredBookings) /\ Len(file') <= MAX_STORED_BOOKINGS
           /\ damages' \in 0..MaxDamages /\ pushedOff' \subseteq Bookings
  <1>1. /\ damages < MaxDamages /\ damages' = damages + 1 /\ file' = <<>> /\ pushedOff' = pushedOff
    BY DEF LeaveDamaged
  <1>2. MaxDamages \in Nat /\ damages \in 0..MaxDamages /\ pushedOff \subseteq Bookings
        /\ MAX_STORED_BOOKINGS \in Nat
    BY BookingAssumption DEF TypeOK
  <1>3. damages' \in 0..MaxDamages /\ damages' # damages
    BY <1>1, <1>2
  <1> QED
    BY <1>1, <1>2, <1>3, NothingStored DEF Damaged

LEMMA WriteShape ==
    ASSUME TypeOK, NEW t \in Seq(StoredBookings), writeBookings(t)
    PROVE  /\ FileType'
           /\ \/ file' = Cap(t) /\ diskFailures' = diskFailures /\ damages' = damages
              \/ file' = file /\ diskFailures' = diskFailures + 1 /\ damages' = damages
              \/ Damaged /\ diskFailures' = diskFailures
  <1>1. CASE /\ file' = Cap(t) /\ diskFailures' = diskFailures /\ damages' = damages
             /\ \E S \in SUBSET (DOMAIN t) : pushedOff' = pushedOff \cup {t[k].id : k \in S}
    <2>1. PICK S \in SUBSET (DOMAIN t) : pushedOff' = pushedOff \cup {t[k].id : k \in S}
      BY <1>1
    <2>2. \A k \in DOMAIN t : t[k].id \in Bookings
      <3>1. \A k \in DOMAIN t : t[k] \in StoredBookings
        OBVIOUS
      <3>2. \A e \in StoredBookings : e.id \in Bookings
        BY DEF StoredBookings
      <3> QED
        BY <3>1, <3>2
    <2>3. pushedOff' \subseteq Bookings
      <3>1. {t[k].id : k \in S} \subseteq Bookings /\ pushedOff \subseteq Bookings
        BY <2>2 DEF TypeOK
      <3> QED
        BY <2>1, <3>1
    <2>4. file' \in Seq(StoredBookings) /\ Len(file') <= MAX_STORED_BOOKINGS
      BY <1>1, CapFacts
    <2> QED
      BY <1>1, <2>3, <2>4 DEF TypeOK, FileType
  <1>2. CASE /\ diskFailures < MaxDiskFailures /\ diskFailures' = diskFailures + 1
             /\ file' = file /\ pushedOff' = pushedOff /\ damages' = damages
    <2>1. diskFailures' \in 0..MaxDiskFailures
      BY <1>2, BookingAssumption DEF TypeOK
    <2> QED
      BY <1>2, <2>1 DEF TypeOK, FileType
  <1>3. CASE LeaveDamaged /\ diskFailures' = diskFailures
    BY <1>3, DamageShape DEF TypeOK, FileType
  <1>4. \/ LeaveDamaged /\ diskFailures' = diskFailures
        \/ /\ diskFailures < MaxDiskFailures /\ diskFailures' = diskFailures + 1
           /\ file' = file /\ pushedOff' = pushedOff /\ damages' = damages
        \/ /\ file' = Cap(t) /\ diskFailures' = diskFailures /\ damages' = damages
           /\ \E S \in SUBSET (DOMAIN t) : pushedOff' = pushedOff \cup {t[k].id : k \in S}
    <2> DEFINE kept == IF Len(t) <= MAX_STORED_BOOKINGS THEN Len(t) ELSE MAX_STORED_BOOKINGS
               S == {i \in DOMAIN t : i > kept /\ Pending(t, i)}
    <2>1. S \in SUBSET (DOMAIN t)
      OBVIOUS
    <2>2. \/ LeaveDamaged /\ diskFailures' = diskFailures
          \/ /\ diskFailures < MaxDiskFailures /\ diskFailures' = diskFailures + 1
             /\ file' = file /\ pushedOff' = pushedOff /\ damages' = damages
          \/ /\ file' = Cap(t) /\ diskFailures' = diskFailures /\ damages' = damages
             /\ pushedOff' = pushedOff \cup {t[k].id : k \in S}
      BY Zenon DEF writeBookings, Cap
    <2> HIDE DEF S
    <2> QED
      BY <2>1, <2>2
  <1> QED
    BY <1>1, <1>2, <1>3, <1>4

\* The write after a booking of run r came out as status.  Unless the file is damaged the
\* ids stay where they are, and whatever leaves the queue is settled, as done only if it is
\* the one that came out so.
WrittenFor(r, status) ==
    /\ FileType'
    /\ (DOMAIN file' = DOMAIN file /\ damages' = damages) \/ Damaged
    /\ DOMAIN file' \subseteq DOMAIN file
    /\ \A k \in DOMAIN file' :
          /\ file'[k].id = file[k].id
          /\ \/ file'[k].status = file[k].status
             \/ file[k].id \in QueuedIn(r) /\ file'[k].status = "failed"
             \/ file[k].id = Head(queue[r]) /\ file'[k].status = status
          /\ file[k].id \in QueuedIn(r) \ QueuedIn(r)' /\ diskFailures' = diskFailures
                => file'[k].status # "pending"

\* The other runs are left alone.
OthersKept(r) ==
    \A q \in Runs \ {r} : /\ queue'[q] = queue[q] /\ phase'[q] = phase[q]
                          /\ patch'[q] = patch[q] /\ taken'[q] = taken[q]

RunTypes ==
    /\ queue \in [Runs -> Seq(Bookings)]
    /\ phase \in [Runs -> {"idle", "lookup", "patch"}]
    /\ patch \in [Runs -> {"none", "sent", "acted"}]
    /\ taken \in [Runs -> SUBSET Bookings]

LEMMA RunsFinite == IsFiniteSet(Runs) /\ \A S \in SUBSET Runs : IsFiniteSet(S) /\ Cardinality(S) \in Nat
  BY BookingAssumption, FS_Singleton, FS_Union, FS_Subset, FS_CardinalityType DEF Runs

LEMMA QueueParts ==
    ASSUME NEW q \in Seq(Bookings), q # <<>>
    PROVE  /\ Head(q) \in Bookings /\ Tail(q) \in Seq(Bookings)
           /\ Head(q) = q[1] /\ 1 \in DOMAIN q
           /\ {q[i] : i \in DOMAIN q} = {Head(q)} \cup {Tail(q)[i] : i \in DOMAIN Tail(q)}
           /\ Len(Tail(q)) = Len(q) - 1 /\ Len(q) \in Nat
           /\ \A i \in DOMAIN Tail(q) : i + 1 \in DOMAIN q /\ Tail(q)[i] = q[i + 1]
  <1>1. /\ Head(q) \in Bookings /\ Tail(q) \in Seq(Bookings) /\ Head(q) = q[1] /\ 1 \in DOMAIN q
        /\ Len(Tail(q)) = Len(q) - 1 /\ Len(q) \in Nat /\ DOMAIN q = 1..Len(q)
        /\ \A i \in DOMAIN Tail(q) : i + 1 \in DOMAIN q /\ Tail(q)[i] = q[i + 1]
    OBVIOUS
  <1>2. ASSUME NEW i \in DOMAIN q PROVE q[i] \in {Head(q)} \cup {Tail(q)[j] : j \in DOMAIN Tail(q)}
    <2>1. CASE i = 1
      BY <1>1, <2>1
    <2>2. CASE i # 1
      <3>1. i - 1 \in DOMAIN Tail(q)
        BY <1>1, <2>2
      <3>2. Tail(q)[i - 1] = q[i]
        BY <1>1, <2>2, <3>1
      <3> QED
        BY <3>1, <3>2
    <2> QED
      BY <2>1, <2>2
  <1> QED
    BY <1>1, <1>2

LEMMA ConcludeShape ==
    ASSUME TypeOK, NEW r \in Runs, queue[r] # <<>>, NEW status \in {"done", "failed"},
           Conclude(r, status)
    PROVE  /\ WrittenFor(r, status) /\ OthersKept(r) /\ RunTypes'
           /\ patch'[r] = "none"
           /\ \/ /\ queue'[r] = Tail(queue[r]) /\ queue'[r] # <<>>
                 /\ phase'[r] = "lookup" /\ taken'[r] = taken[r]
              \/ queue'[r] = <<>> /\ phase'[r] = "idle" /\ taken'[r] = {}
  <1> DEFINE q == queue[r]
             recorded == applyBookingOutcome(file, {Head(q)}, status)
             final == applyBookingOutcome(recorded, ToSet(Tail(q)), "failed")
  <1>1. /\ q \in Seq(Bookings) /\ q # <<>> /\ RunTypes
        /\ file \in Seq(StoredBookings) /\ Len(file) <= MAX_STORED_BOOKINGS
        /\ status \in Statuses /\ "failed" \in Statuses
    BY DEF TypeOK, RunTypes, Statuses
  <1>2. /\ Tail(q) \in Seq(Bookings) /\ Head(q) \in QueuedIn(r)
        /\ QueuedIn(r) = {Head(q)} \cup ToSet(Tail(q))
    BY <1>1, QueueParts DEF QueuedIn, ToSet
  <1>3. /\ recorded \in Seq(StoredBookings) /\ Len(recorded) = Len(file) /\ DOMAIN recorded = DOMAIN file
        /\ \A k \in DOMAIN file :
              /\ recorded[k].id = file[k].id
              /\ recorded[k].status = IF file[k].id = Head(q) THEN status ELSE file[k].status
    BY <1>1, RecordFacts
  <1> HIDE DEF recorded
  <1>4. /\ final \in Seq(StoredBookings) /\ Len(final) = Len(file) /\ DOMAIN final = DOMAIN file
        /\ \A k \in DOMAIN file :
              /\ final[k].id = file[k].id
              /\ final[k].status = IF file[k].id \in ToSet(Tail(q)) THEN "failed" ELSE recorded[k].status
    BY <1>1, <1>3, RecordFacts
  <1> HIDE DEF final
  <1>5. ASSUME NEW t \in {recorded, final}, writeBookings(t)
        PROVE  /\ FileType'
               /\ \/ file' = t /\ damages' = damages
                  \/ file' = file /\ diskFailures' # diskFailures /\ damages' = damages
                  \/ Damaged
    <2>1. t \in Seq(StoredBookings) /\ Cap(t) = t
      BY <1>1, <1>3, <1>4, CapFacts
    <2>2. diskFailures \in Nat
      BY BookingAssumption DEF TypeOK
    <2>3. /\ FileType'
          /\ \/ file' = Cap(t) /\ diskFailures' = diskFailures /\ damages' = damages
             \/ file' = file /\ diskFailures' = diskFailures + 1 /\ damages' = damages
             \/ Damaged /\ diskFailures' = diskFailures
      BY <1>5, <2>1, WriteShape
    <2> QED
      BY <2>1, <2>2, <2>3
  <1>8. Damaged => DOMAIN file' = {}
    BY DEF Damaged
  <1>9. DOMAIN recorded = DOMAIN file /\ DOMAIN final = DOMAIN file
    BY <1>3, <1>4
  <1>6. CASE /\ writeBookings(recorded)
             /\ queue' = [queue EXCEPT ![r] = Tail(q)] /\ Tail(q) # <<>>
             /\ phase' = [phase EXCEPT ![r] = "lookup"]
             /\ patch' = [patch EXCEPT ![r] = "none"]
             /\ UNCHANGED taken
    <2>1. /\ RunTypes' /\ OthersKept(r) /\ patch'[r] = "none" /\ queue'[r] = Tail(q)
          /\ phase'[r] = "lookup" /\ taken'[r] = taken[r]
      BY <1>1, <1>2, <1>6 DEF RunTypes, OthersKept
    <2>2. QueuedIn(r) \ QueuedIn(r)' \subseteq {Head(q)}
      BY <1>2, <2>1 DEF QueuedIn, ToSet
    <2>3. WrittenFor(r, status)
      <3>1. CASE file' = recorded /\ damages' = damages
        BY <1>2, <1>3, <1>5, <1>6, <2>2, <3>1 DEF WrittenFor
      <3>2. CASE file' = file /\ diskFailures' # diskFailures /\ damages' = damages
        BY <1>5, <1>6, <3>2 DEF WrittenFor
      <3>3. CASE Damaged
        BY <1>5, <1>6, <1>8, <3>3 DEF WrittenFor
      <3> QED
        BY <1>5, <1>6, <3>1, <3>2, <3>3
    <2> QED
      BY <1>6, <2>1, <2>3
  <1>7. CASE writeBookings(final) /\ Idle(r)
    <2>1. /\ RunTypes' /\ OthersKept(r) /\ patch'[r] = "none" /\ queue'[r] = <<>>
          /\ phase'[r] = "idle" /\ taken'[r] = {}
      BY <1>1, <1>7 DEF RunTypes, OthersKept, Idle
    <2>2. WrittenFor(r, status)
      <3>1. ASSUME NEW k \in DOMAIN file
            PROVE  /\ final[k].id = file[k].id
                   /\ \/ final[k].status = file[k].status
                      \/ file[k].id \in QueuedIn(r) /\ final[k].status = "failed"
                      \/ file[k].id = Head(q) /\ final[k].status = status
                   /\ file[k].id \in QueuedIn(r) => final[k].status \in {"failed", status}
        BY <1>2, <1>3, <1>4
      <3>2. CASE file' = final /\ damages' = damages
        BY <1>5, <1>7, <1>9, <3>1, <3>2 DEF WrittenFor
      <3>3. CASE file' = file /\ diskFailures' # diskFailures /\ damages' = damages
        BY <1>5, <1>7, <3>3 DEF WrittenFor
      <3>4. CASE Damaged
        BY <1>5, <1>7, <1>8, <3>4 DEF WrittenFor
      <3> QED
        BY <1>5, <1>7, <3>2, <3>3, <3>4
    <2> QED
      BY <2>1, <2>2
  <1> QED
    BY <1>6, <1>7 DEF Conclude, recorded, final

\* What is left behind was on its way for a run that gives up.
LEMMA LeaveBehindFacts ==
    ASSUME abandoned \in [Bookings -> Nat], NEW R \in SUBSET Runs, LeaveBehind(R)
    PROVE  /\ abandoned' \in [Bookings -> Nat]
           /\ \A b \in Bookings :
                 abandoned'[b] <= abandoned[b] + Cardinality({r \in R : Head(queue[r]) = b})
           /\ \A b \in Bookings :
                 abandoned'[b] > 0 => abandoned[b] > 0 \/ \E r \in R : Head(queue[r]) = b
  <1> DEFINE Of(Q, b) == {r \in Q : Head(queue[r]) = b}
  <1>1. PICK Q \in SUBSET R :
           abandoned' = [b \in Bookings |-> abandoned[b] + Cardinality(Of(Q, b))]
    BY DEF LeaveBehind
  <1>2. ASSUME NEW b \in Bookings
        PROVE  /\ Cardinality(Of(Q, b)) \in Nat /\ Cardinality(Of(R, b)) \in Nat
               /\ Cardinality(Of(Q, b)) <= Cardinality(Of(R, b))
               /\ Cardinality(Of(Q, b)) > 0 => \E r \in R : Head(queue[r]) = b
    <2>1. Of(Q, b) \subseteq Of(R, b) /\ Of(R, b) \subseteq Runs
      OBVIOUS
    <2>2. IsFiniteSet(Of(R, b)) /\ IsFiniteSet(Of(Q, b))
      BY <2>1, RunsFinite, FS_Subset
    <2>3. Cardinality(Of(Q, b)) > 0 => Of(Q, b) # {}
      BY FS_EmptySet
    <2> QED
      BY <2>1, <2>2, <2>3, FS_Subset, FS_CardinalityType
  <1> HIDE DEF Of
  <1>3. \A b \in Bookings : abandoned'[b] = abandoned[b] + Cardinality(Of(Q, b)) /\ abandoned[b] \in Nat
    BY <1>1
  <1>4. abandoned' \in [Bookings -> Nat]
    BY <1>1, <1>2
  <1>5. ASSUME NEW b \in Bookings
        PROVE  /\ abandoned'[b] <= abandoned[b] + Cardinality(Of(R, b))
               /\ abandoned'[b] > 0 => abandoned[b] > 0 \/ \E r \in R : Head(queue[r]) = b
    <2>1. /\ abandoned'[b] = abandoned[b] + Cardinality(Of(Q, b)) /\ abandoned[b] \in Nat
          /\ Cardinality(Of(Q, b)) \in Nat /\ Cardinality(Of(R, b)) \in Nat
          /\ Cardinality(Of(Q, b)) <= Cardinality(Of(R, b))
      BY <1>2, <1>3
    <2>2. abandoned'[b] > 0 => abandoned[b] > 0 \/ Cardinality(Of(Q, b)) > 0
      BY <2>1
    <2>3. abandoned'[b] <= abandoned[b] + Cardinality(Of(R, b))
      BY <2>1
    <2> QED
      BY <1>2, <2>2, <2>3
  <1> QED
    BY <1>4, <1>5 DEF Of

OtherTypes ==
    /\ now \in 0..MaxTime /\ booked \subseteq Bookings /\ abandoned \in [Bookings -> Nat]
    /\ relayReady \in BOOLEAN /\ landed \in Seq([id : Bookings, beside : SUBSET Bookings])
    /\ closures \in 0..MaxClosures /\ crashes \in 0..MaxCrashes /\ overlaps \in 0..MaxOverlaps

LEMMA TypeParts == TypeOK <=> FileType /\ RunTypes /\ OtherTypes
  BY DEF TypeOK, FileType, RunTypes, OtherTypes

LEMMA Limits ==
    /\ MaxTime \in Nat /\ MaxClosures \in Nat /\ MaxCrashes \in Nat /\ MaxDiskFailures \in Nat
    /\ MaxDamages \in Nat /\ MaxOverlaps \in Nat /\ MAX_STORED_BOOKINGS \in Nat \ {0}
  BY BookingAssumption

LEMMA EntriesOfSeq ==
    ASSUME NEW T, NEW s \in Seq(T)
    PROVE  \A k \in DOMAIN s : s[k] \in T
  OBVIOUS

MoveRecord == [id : Bookings, beside : SUBSET Bookings]

LEMMA LandedFacts ==
    ASSUME landed \in Seq(MoveRecord)
    PROVE  \A k \in DOMAIN landed : landed[k].id \in Bookings /\ landed[k].beside \subseteq Bookings
  <1> SUFFICES ASSUME NEW k \in DOMAIN landed
               PROVE  landed[k].id \in Bookings /\ landed[k].beside \subseteq Bookings
    OBVIOUS
  <1>1. landed[k] \in MoveRecord
    BY EntriesOfSeq
  <1> QED
    BY <1>1 DEF MoveRecord

LEMMA TypePartsNext ==
    ASSUME FileType', RunTypes', OtherTypes'
    PROVE  TypeOK'
  BY DEF TypeOK, FileType, RunTypes, OtherTypes

\* A move that was made stays made.
LEMMA MovedStays ==
    ASSUME landed \in Seq([id : Bookings, beside : SUBSET Bookings]),
           \/ UNCHANGED landed
           \/ \E b \in Bookings, S \in SUBSET Bookings : Land(b, S)
    PROVE  \A b : Moved(landed, b) => Moved(landed', b)
  <1>1. CASE \E b \in Bookings, S \in SUBSET Bookings : Land(b, S)
    <2>1. PICK b \in Bookings, S \in SUBSET Bookings : landed' = Append(landed, [id |-> b, beside |-> S])
      BY <1>1 DEF Land
    <2>2. \A k \in DOMAIN landed : k \in DOMAIN landed' /\ landed'[k] = landed[k]
      BY <2>1
    <2> QED
      BY <2>2 DEF Moved
  <1> QED
    BY <1>1 DEF Moved

\* What booking does to the file.
LEMMA BookShape ==
    ASSUME Sound, NEW b \in Bookings, Book(b)
    PROVE  /\ FileType' /\ FileSound'
           /\ \A k \in DOMAIN file' :
                 \/ file'[k] = [id |-> b, status |-> "pending"]
                 \/ \E j \in DOMAIN file : file'[k] = file[j]
           /\ \/ Damaged
              \/ \A j \in DOMAIN file :
                    j < MAX_STORED_BOOKINGS => \E k \in DOMAIN file' : file'[k] = file[j]
  <1> DEFINE t == <<[id |-> b, status |-> "pending"]>> \o file
  <1>1. /\ file \in Seq(StoredBookings) /\ Len(file) <= MAX_STORED_BOOKINGS /\ FileSound
        /\ writeBookings(t) /\ b \notin booked /\ booked' = booked \cup {b}
    BY DEF Sound, TypeOK, Book
  <1>2. /\ t \in Seq(StoredBookings) /\ Len(t) = Len(file) + 1
        /\ t[1] = [id |-> b, status |-> "pending"]
        /\ \A k \in DOMAIN file : t[k + 1] = file[k]
        /\ \A k \in DOMAIN t \ {1} : k - 1 \in DOMAIN file /\ t[k] = file[k - 1]
    BY <1>1, BookFacts
  <1> HIDE DEF t
  <1>3. /\ Cap(t) \in Seq(StoredBookings)
        /\ Len(t) <= MAX_STORED_BOOKINGS => Cap(t) = t
        /\ DOMAIN Cap(t) \subseteq DOMAIN t
        /\ \A k \in DOMAIN Cap(t) : Cap(t)[k] = t[k]
        /\ \A k \in DOMAIN t : k <= MAX_STORED_BOOKINGS => k \in DOMAIN Cap(t)
    BY <1>2, CapFacts, Limits DEF Cap
  <1>4. FileType'
    BY <1>1, <1>2, WriteShape DEF Sound
  <1>5. CASE file' = Cap(t)
    <2>1. \A k \in DOMAIN t : \/ k = 1 /\ t[k] = [id |-> b, status |-> "pending"]
                              \/ k # 1 /\ k - 1 \in DOMAIN file /\ t[k] = file[k - 1]
      BY <1>2
    <2>2. \A j \in DOMAIN file : file[j].id # b /\ file[j].id \in booked
      BY <1>1 DEF FileSound
    <2>3. \A j, k \in DOMAIN t : t[j].id = t[k].id => j = k
      <3> SUFFICES ASSUME NEW j \in DOMAIN t, NEW k \in DOMAIN t, t[j].id = t[k].id PROVE j = k
        OBVIOUS
      <3>1. DOMAIN t \subseteq Nat
        BY <1>2
      <3>2. CASE j # 1 /\ k # 1
        <4>1. j - 1 = k - 1
          BY <1>1, <2>1, <3>2 DEF FileSound
        <4> QED
          BY <3>1, <4>1
      <3> QED
        BY <2>1, <2>2, <3>2
    <2>4. \A k \in DOMAIN t : t[k].id \in booked \cup {b}
      BY <2>1, <2>2
    <2>5. FileSound'
      BY <1>1, <1>3, <1>5, <2>3, <2>4 DEF FileSound
    <2>6. ASSUME NEW j \in DOMAIN file, j < MAX_STORED_BOOKINGS
          PROVE  \E k \in DOMAIN file' : file'[k] = file[j]
      <3>1. j + 1 \in DOMAIN t /\ t[j + 1] = file[j] /\ j + 1 <= MAX_STORED_BOOKINGS
        BY <1>1, <1>2, <2>6, BookingAssumption
      <3> QED
        BY <1>3, <1>5, <3>1
    <2> QED
      BY <1>3, <1>4, <1>5, <2>1, <2>5, <2>6
  <1>6. CASE file' = file
    BY <1>1, <1>4, <1>6 DEF FileSound
  <1>7. CASE Damaged
    BY <1>4, <1>7 DEF FileSound, Damaged
  <1>8. file' = Cap(t) \/ file' = file \/ Damaged
    BY <1>1, <1>2, WriteShape DEF Sound
  <1> QED
    BY <1>5, <1>6, <1>7, <1>8

\* What withdrawing does to the file.
LEMMA WithdrawShape ==
    ASSUME Sound, NEW b \in Bookings, Withdraw(b)
    PROVE  /\ FileType' /\ FileSound'
           /\ DOMAIN file' = DOMAIN file \/ Damaged
           /\ DOMAIN file' \subseteq DOMAIN file
           /\ \A k \in DOMAIN file' :
                 /\ file'[k].id = file[k].id
                 /\ \/ file'[k].status = file[k].status
                    \/ file[k].status = "pending" /\ file'[k].status = "cancelled"
  <1> DEFINE t == cancelBooking(file, b)
  <1>1. /\ file \in Seq(StoredBookings) /\ Len(file) <= MAX_STORED_BOOKINGS /\ FileSound
        /\ writeBookings(t) /\ booked' = booked
    BY DEF Sound, TypeOK, Withdraw
  <1>2. /\ t \in Seq(StoredBookings) /\ Len(t) = Len(file) /\ DOMAIN t = DOMAIN file
        /\ \A k \in DOMAIN file :
              /\ t[k].id = file[k].id
              /\ \/ t[k].status = file[k].status
                 \/ file[k].status = "pending" /\ t[k].status = "cancelled"
    BY <1>1, CancelFacts
  <1> HIDE DEF t
  <1>3. Cap(t) = t
    BY <1>1, <1>2, CapFacts
  <1>4. FileType' /\ (file' = t \/ file' = file \/ Damaged)
    BY <1>1, <1>2, <1>3, WriteShape DEF Sound
  <1>5. CASE Damaged
    BY <1>4, <1>5 DEF FileSound, Damaged
  <1> QED
    BY <1>1, <1>2, <1>4, <1>5 DEF FileSound

-----------------------------------------------------------------------------
(* Every step keeps the file and the runs sound.                           *)

LEMMA DueStays ==
    ASSUME NEW b \in Bookings, DueAt[b] <= now, now \in Nat, now' \in Nat, now <= now'
    PROVE  DueAt[b] <= now'
  BY BookingAssumption

LEMMA RunStays ==
    ASSUME Sound, NEW r \in Runs, booked \subseteq booked', now' \in Nat, now <= now',
           queue'[r] = queue[r], phase'[r] = phase[r], patch'[r] = patch[r], taken'[r] = taken[r],
           \A b : Moved(landed, b) => Moved(landed', b)
    PROVE  RunSound(r)'
  <1>1. /\ RunSound(r) /\ taken[r] \subseteq Bookings /\ now \in Nat
    BY BookingAssumption DEF Sound, TypeOK
  <1>2. \A b \in taken[r] : DueAt[b] <= now'
    BY <1>1, DueStays DEF RunSound
  <1>3. QueuedIn(r)' = QueuedIn(r)
    BY DEF QueuedIn
  <1>4. patch'[r] = "acted" => Moved(landed', Head(queue'[r]))
    BY <1>1 DEF RunSound
  <1> QED
    BY <1>1, <1>2, <1>3, <1>4 DEF RunSound

LEMMA FarSideStays ==
    ASSUME Sound, booked \subseteq booked', now' \in Nat, now <= now', UNCHANGED landed,
           UNCHANGED abandoned
    PROVE  FarSideSound'
  <1>1. /\ FarSideSound /\ now \in Nat
        /\ landed \in Seq([id : Bookings, beside : SUBSET Bookings])
    BY BookingAssumption DEF Sound, TypeOK
  <1>2. \A k \in DOMAIN landed : landed[k].id \in Bookings
    BY LandedFacts DEF Sound, TypeOK, MoveRecord
  <1> QED
    BY <1>1, <1>2, DueStays DEF FarSideSound

\* Booking and withdrawing.
LEMMA PeopleSound ==
    ASSUME Sound, NEW b \in Bookings, Book(b) \/ Withdraw(b)
    PROVE  Sound'
  <1>1. /\ FileType' /\ FileSound'
        /\ \A k \in DOMAIN file' :
              file'[k].status = "done" => \E j \in DOMAIN file : file[j].status = "done" /\ file[j].id = file'[k].id
    BY BookShape, WithdrawShape
  <1>2. /\ UNCHANGED <<now, queue, phase, patch, taken, abandoned, relayReady, landed, closures, crashes, overlaps>>
        /\ booked \subseteq booked' /\ booked' \subseteq booked \cup {b}
    BY DEF Book, Withdraw, runVars
  <1>3. TypeOK' /\ now \in Nat
    <2>1. RunTypes /\ OtherTypes /\ now \in Nat
      BY TypeParts, BookingAssumption DEF Sound, OtherTypes
    <2>2. RunTypes'
      BY <1>2, <2>1 DEF RunTypes
    <2>3. OtherTypes'
      BY <1>2, <2>1 DEF OtherTypes
    <2> QED
      BY <1>1, <2>1, <2>2, <2>3, TypePartsNext
  <1>4. \A c : Moved(landed, c) => Moved(landed', c)
    BY <1>2 DEF Moved
  <1>5. FarSideSound' /\ \A r \in Runs : RunSound(r)'
    BY <1>2, <1>3, <1>4, RunStays, FarSideStays
  <1>6. DoneIsBacked'
    BY <1>1, <1>2, <1>4 DEF Sound, DoneIsBacked, Moved
  <1> QED
    BY <1>1, <1>3, <1>5, <1>6 DEF Sound

\* The outcome of a booking, as done only when its PATCH is known to have acted.
LEMMA ConcludeSound ==
    ASSUME Sound, NEW r \in Runs, phase[r] # "idle", NEW status \in {"done", "failed"},
           Conclude(r, status),
           status = "done" => patch[r] = "acted",
           UNCHANGED <<now, booked, relayReady, landed, closures, crashes, overlaps>>,
           abandoned' \in [Bookings -> Nat],
           \A b \in Bookings : abandoned'[b] > 0 => abandoned[b] > 0 \/ b \in QueuedIn(r)
    PROVE  Sound'
  <1>1. /\ RunSound(r) /\ FileSound /\ DoneIsBacked /\ FarSideSound /\ TypeOK
        /\ RunTypes /\ OtherTypes /\ queue[r] # <<>> /\ queue[r] \in Seq(Bookings)
        /\ now \in Nat
    <2>1. RunSound(r) /\ FileSound /\ DoneIsBacked /\ FarSideSound /\ TypeOK
      BY DEF Sound
    <2>2. RunTypes /\ OtherTypes
      BY <2>1, TypeParts
    <2>3. queue[r] # <<>>
      BY <2>1 DEF RunSound
    <2>4. queue[r] \in Seq(Bookings)
      BY <2>2 DEF RunTypes
    <2>5. now \in Nat
      BY <2>2, Limits DEF OtherTypes
    <2> QED
      BY <2>1, <2>2, <2>3, <2>4, <2>5
  <1>2. /\ WrittenFor(r, status) /\ OthersKept(r) /\ RunTypes'
        /\ patch'[r] = "none"
        /\ \/ /\ queue'[r] = Tail(queue[r]) /\ queue'[r] # <<>>
              /\ phase'[r] = "lookup" /\ taken'[r] = taken[r]
           \/ queue'[r] = <<>> /\ phase'[r] = "idle" /\ taken'[r] = {}
    BY <1>1, ConcludeShape
  <1>3. QueuedIn(r) \subseteq Bookings /\ QueuedIn(r) \subseteq booked
        /\ \A b \in QueuedIn(r) : DueAt[b] <= now
    BY <1>1 DEF RunSound, QueuedIn
  <1>4. TypeOK'
    <2>1. FileType'
      BY <1>2 DEF WrittenFor
    <2>2. OtherTypes'
      BY <1>1, <1>3 DEF OtherTypes
    <2> QED
      BY <1>2, <2>1, <2>2, TypePartsNext
  <1>5. FileSound'
    BY <1>1, <1>2 DEF FileSound, WrittenFor
  <1>6. landed' = landed
    BY DEF Moved
  <1>7. FarSideSound'
    BY <1>1, <1>3 DEF FarSideSound
  <1>8. DoneIsBacked'
    <2> SUFFICES ASSUME NEW k \in DOMAIN file', file'[k].status = "done"
                 PROVE  Moved(landed', file'[k].id)
      BY DEF DoneIsBacked
    <2>1. k \in DOMAIN file /\ file'[k].id = file[k].id
      BY <1>2 DEF WrittenFor
    <2>2. CASE file[k].status = "done"
      BY <1>1, <1>6, <2>1, <2>2 DEF DoneIsBacked, Moved
    <2>3. CASE file[k].id = Head(queue[r]) /\ status = "done"
      BY <1>1, <1>6, <2>1, <2>3 DEF RunSound, Moved
    <2> QED
      BY <1>2, <2>1, <2>2, <2>3 DEF WrittenFor
  <1>9. ASSUME NEW q \in Runs PROVE RunSound(q)'
    <2>1. CASE q = r
      <3>1. QueuedIn(r)' \subseteq QueuedIn(r)
        <4>1. CASE queue'[r] = <<>>
          BY <4>1 DEF QueuedIn
        <4>2. CASE queue'[r] = Tail(queue[r])
          BY <1>1, <4>2, QueueParts DEF QueuedIn
        <4> QED
          BY <1>2, <4>1, <4>2
      <3>2. taken'[r] = taken[r] \/ (taken'[r] = {} /\ queue'[r] = <<>>)
        BY <1>2
      <3>3. QueuedIn(r)' \subseteq taken'[r]
        <4>1. CASE taken'[r] = taken[r]
          BY <1>1, <3>1, <4>1 DEF RunSound
        <4>2. CASE queue'[r] = <<>>
          BY <4>2 DEF QueuedIn
        <4> QED
          BY <3>2, <4>1, <4>2
      <3> QED
        BY <1>1, <1>2, <2>1, <3>2, <3>3 DEF RunSound
    <2>2. CASE q # r
      BY <1>1, <1>2, <1>6, <2>2, RunStays DEF OthersKept
    <2> QED
      BY <2>1, <2>2
  <1> QED
    BY <1>4, <1>5, <1>7, <1>8, <1>9 DEF Sound

\* A run begins: what it takes is in the file and has come due.
LEMMA StartSound ==
    ASSUME Sound, NEW r \in Runs, phase[r] = "idle", StartRun(r)
    PROVE  Sound'
  <1>1. /\ RunSound(r) /\ FileSound /\ TypeOK /\ RunTypes /\ OtherTypes /\ now \in Nat
        /\ file \in Seq(StoredBookings)
    BY TypeParts, BookingAssumption DEF Sound, TypeOK
  <1>2. PICK due \in listDueBookings(file, now) :
           /\ due # <<>>
           /\ queue' = [queue EXCEPT ![r] = due]
           /\ taken' = [taken EXCEPT ![r] = ToSet(due)]
    BY DEF StartRun
  <1>3. /\ due \in Seq(Bookings)
        /\ \A i \in DOMAIN due : due[i] \in booked /\ DueAt[due[i]] <= now
    <2>1. /\ due \in Seq(Bookings)
          /\ \A i \in DOMAIN due : \E k \in DOMAIN file :
                file[k] = [id |-> due[i], status |-> "pending"] /\ DueAt[due[i]] <= now
      BY <1>1, DueFacts
    <2> QED
      BY <1>1, <2>1 DEF FileSound
  <1>4. /\ phase' = [phase EXCEPT ![r] = "lookup"]
        /\ UNCHANGED <<now, file, booked, pushedOff, damages, patch, abandoned, relayReady, landed, closures, crashes, diskFailures>>
        /\ overlaps' \in 0..MaxOverlaps
    <2>1. overlaps \in Nat /\ overlaps' \in {overlaps, overlaps + 1} /\ overlaps' <= MaxOverlaps
      BY <1>1, Limits DEF StartRun, OtherTypes
    <2> QED
      BY <2>1, Limits DEF StartRun, fileVars, boundVars
  <1>5. ToSet(due) \subseteq Bookings /\ ToSet(due) = {due[i] : i \in DOMAIN due}
    BY <1>3, EntriesOfSeq DEF ToSet
  <1>6. TypeOK'
    <2>1. RunTypes'
      BY <1>1, <1>2, <1>3, <1>4, <1>5 DEF RunTypes
    <2>2. FileType' /\ OtherTypes'
      BY <1>1, <1>4, TypeParts DEF Sound, FileType, OtherTypes
    <2> QED
      BY <2>1, <2>2, TypePartsNext
  <1>7. FileSound' /\ DoneIsBacked' /\ FarSideSound'
    BY <1>4 DEF Sound, FileSound, DoneIsBacked, FarSideSound
  <1>8. ASSUME NEW q \in Runs PROVE RunSound(q)'
    <2>1. CASE q = r
      <3>1. /\ queue'[r] = due /\ phase'[r] = "lookup" /\ patch'[r] = "none" /\ taken'[r] = ToSet(due)
        BY <1>1, <1>2, <1>4 DEF RunTypes, RunSound
      <3>2. QueuedIn(r)' = ToSet(due)
        BY <1>5, <3>1 DEF QueuedIn
      <3> QED
        BY <1>2, <1>3, <1>4, <1>5, <2>1, <3>1, <3>2 DEF RunSound
    <2>2. CASE q # r
      <3>1. /\ queue'[q] = queue[q] /\ phase'[q] = phase[q] /\ patch'[q] = patch[q] /\ taken'[q] = taken[q]
        BY <1>1, <1>2, <1>4, <2>2 DEF RunTypes
      <3> QED
        BY <1>1, <1>4, <3>1, RunStays
    <2> QED
      BY <2>1, <2>2
  <1> QED
    BY <1>6, <1>7, <1>8 DEF Sound

\* A PATCH is sent.
LEMMA SendSound ==
    ASSUME Sound, NEW r \in Runs, phase[r] = "lookup",
           phase' = [phase EXCEPT ![r] = "patch"], patch' = [patch EXCEPT ![r] = "sent"],
           UNCHANGED <<now, file, booked, pushedOff, damages, queue, taken, abandoned, relayReady, landed, closures,
                       crashes, diskFailures, overlaps>>
    PROVE  Sound'
  <1>5. TypeOK
    BY DEF Sound
  <1>6. RunTypes /\ OtherTypes
    BY <1>5, TypeParts
  <1>1. /\ TypeOK /\ RunTypes /\ now \in Nat
    BY <1>5, <1>6, Limits DEF OtherTypes
  <1>2. TypeOK'
    BY <1>1 DEF TypeOK
  <1>3. FileSound' /\ DoneIsBacked' /\ FarSideSound'
    BY DEF Sound, FileSound, DoneIsBacked, FarSideSound
  <1>4. ASSUME NEW q \in Runs PROVE RunSound(q)'
    <2>1. CASE q = r
      <3>1. phase'[r] = "patch" /\ patch'[r] = "sent"
        BY <1>1 DEF RunTypes
      <3>2. QueuedIn(r)' = QueuedIn(r)
        BY DEF QueuedIn
      <3> QED
        BY <2>1, <3>1, <3>2 DEF Sound, RunSound
    <2>2. CASE q # r
      <3>1. /\ queue'[q] = queue[q] /\ phase'[q] = phase[q] /\ patch'[q] = patch[q] /\ taken'[q] = taken[q]
        BY <1>1, <2>2 DEF RunTypes
      <3> QED
        BY <1>1, <3>1, RunStays
    <2> QED
      BY <2>1, <2>2
  <1> QED
    BY <1>2, <1>3, <1>4 DEF Sound

\* What the far side does when it moves a booking.
LEMMA LandShape ==
    ASSUME landed \in Seq(MoveRecord), NEW b \in Bookings, NEW S \in SUBSET Bookings, Land(b, S)
    PROVE  /\ landed' \in Seq(MoveRecord) /\ Len(landed') = Len(landed) + 1
           /\ DOMAIN landed' = DOMAIN landed \cup {Len(landed) + 1} /\ Len(landed) + 1 \notin DOMAIN landed
           /\ landed'[Len(landed) + 1].id = b /\ landed'[Len(landed) + 1].beside = S
           /\ \A k \in DOMAIN landed : landed'[k] = landed[k]
           /\ \A c : Moved(landed', c) <=> Moved(landed, c) \/ c = b
  <1> DEFINE e == [id |-> b, beside |-> S]
  <1>1. e \in MoveRecord /\ e.id = b /\ e.beside = S
    BY DEF MoveRecord
  <1>2. landed' = Append(landed, e)
    BY DEF Land
  <1> HIDE DEF e
  <1>3. /\ landed' \in Seq(MoveRecord) /\ Len(landed') = Len(landed) + 1
        /\ DOMAIN landed' = DOMAIN landed \cup {Len(landed) + 1} /\ Len(landed) + 1 \notin DOMAIN landed
        /\ landed'[Len(landed) + 1] = e
        /\ \A k \in DOMAIN landed : landed'[k] = landed[k]
    BY <1>1, <1>2
  <1>4. \A c : Moved(landed', c) <=> Moved(landed, c) \/ c = b
    BY <1>1, <1>3 DEF Moved
  <1> QED
    BY <1>1, <1>3, <1>4

\* ServiceNow carries out a PATCH, its run still waiting or long gone.
LEMMA ActsSound ==
    ASSUME Sound, (\E r \in Runs : PatchActs(r)) \/ (\E b \in Bookings : AbandonedActs(b))
    PROVE  Sound'
  <1>1. /\ TypeOK /\ RunTypes /\ OtherTypes /\ now \in Nat /\ landed \in Seq(MoveRecord) /\ FarSideSound
    BY TypeParts, BookingAssumption DEF Sound, TypeOK, MoveRecord
  <1>2. PICK b \in Bookings, S \in SUBSET Bookings :
           /\ Land(b, S)
           /\ DueAt[b] <= now /\ b \in booked /\ S \subseteq booked
           /\ \A q \in Runs : patch'[q] = patch[q] \/ (patch[q] = "sent" /\ patch'[q] = "acted" /\ b = Head(queue[q]))
           /\ patch' \in [Runs -> {"none", "sent", "acted"}]
    <2>1. CASE \E r \in Runs : PatchActs(r)
      <3>1. PICK r \in Runs : PatchActs(r)
        BY <2>1
      <3>2. queue[r] \in Seq(Bookings) /\ queue[r] # <<>> /\ RunSound(r) /\ taken[r] \in SUBSET Bookings
        BY <1>1, <3>1 DEF Sound, RunSound, RunTypes, PatchActs
      <3>3. Head(queue[r]) \in Bookings /\ Head(queue[r]) \in taken[r]
        BY <3>2, QueueParts DEF RunSound, QueuedIn
      <3> QED
        BY <1>1, <3>1, <3>2, <3>3 DEF PatchActs, RunTypes, RunSound
    <2>2. CASE \E b \in Bookings : AbandonedActs(b)
      <3>1. PICK b \in Bookings : AbandonedActs(b)
        BY <2>2
      <3>2. abandoned[b] > 0 /\ Land(b, {}) /\ patch' = patch
        BY <3>1 DEF AbandonedActs, runVars
      <3> QED
        BY <1>1, <3>2 DEF FarSideSound, RunTypes
    <2> QED
      BY <2>1, <2>2
  <1>3. abandoned' \in [Bookings -> Nat] /\ \A c \in Bookings : abandoned'[c] > 0 => abandoned[c] > 0
    <2>1. CASE abandoned' = abandoned
      BY <1>1, <2>1 DEF OtherTypes
    <2>2. ASSUME NEW c \in Bookings, AbandonedActs(c) PROVE <1>3!1 /\ <1>3!2
      <3>1. abandoned \in [Bookings -> Nat] /\ abandoned[c] > 0 /\ abandoned' = [abandoned EXCEPT ![c] = @ - 1]
        BY <1>1, <2>2 DEF AbandonedActs, OtherTypes
      <3> QED
        BY <3>1
    <2> QED
      BY <2>1, <2>2 DEF PatchActs
  <1>9. UNCHANGED <<now, file, booked, pushedOff, damages, queue, phase, taken, relayReady, closures, crashes, diskFailures, overlaps>>
    BY DEF PatchActs, AbandonedActs, fileVars, runVars, boundVars
  <1>4. /\ landed' \in Seq(MoveRecord)
        /\ DOMAIN landed' = DOMAIN landed \cup {Len(landed) + 1}
        /\ landed'[Len(landed) + 1].id = b /\ landed'[Len(landed) + 1].beside = S
        /\ \A k \in DOMAIN landed : landed'[k] = landed[k]
        /\ \A c : Moved(landed', c) <=> Moved(landed, c) \/ c = b
    BY <1>1, <1>2, LandShape
  <1>5. TypeOK'
    <2>1. RunTypes' /\ FileType'
      BY <1>1, <1>2, <1>9, TypeParts DEF RunTypes, FileType
    <2>2. OtherTypes'
      BY <1>1, <1>2, <1>3, <1>9, <1>4, TypeParts DEF OtherTypes, MoveRecord
    <2> QED
      BY <2>1, <2>2, TypePartsNext
  <1>6. FileSound' /\ DoneIsBacked'
    BY <1>9, <1>4 DEF Sound, FileSound, DoneIsBacked
  <1>7. FarSideSound'
    BY <1>1, <1>2, <1>3, <1>4, <1>9 DEF FarSideSound
  <1>8. ASSUME NEW q \in Runs PROVE RunSound(q)'
    <2>1. CASE patch'[q] = patch[q]
      BY <1>1, <1>9, <1>4, <2>1, RunStays
    <2>2. CASE patch[q] = "sent" /\ patch'[q] = "acted" /\ b = Head(queue[q])
      <3>1. QueuedIn(q)' = QueuedIn(q)
        BY <1>9 DEF QueuedIn
      <3> QED
        BY <1>9, <1>4, <2>2, <3>1 DEF Sound, RunSound
    <2> QED
      BY <1>2, <2>1, <2>2
  <1> QED
    BY <1>5, <1>6, <1>7, <1>8 DEF Sound

\* The relay, the clock and a restart.
LEMMA SurroundingsSound ==
    ASSUME Sound, RelayOpens \/ RelayCloses \/ Advance \/ Restart \/ UNCHANGED vars
    PROVE  Sound'
  <1>1. /\ TypeOK /\ RunTypes /\ FileType /\ OtherTypes /\ now \in Nat
    BY TypeParts, BookingAssumption DEF Sound, TypeOK
  <1>2. CASE Restart
    <2>1. /\ RunTypes' /\ \A r \in Runs : /\ queue'[r] = <<>> /\ phase'[r] = "idle"
                                          /\ patch'[r] = "none" /\ taken'[r] = {}
      BY <1>2 DEF Restart, RunTypes
    <2>2. UNCHANGED <<now, booked, landed, closures, diskFailures, overlaps>>
      BY <1>2 DEF Restart
    <2>7. FileType' /\ (file' = file \/ file' = <<>>)
      BY <1>1, <1>2, <2>2, DamageShape DEF Restart, FileType, Damaged
    <2>3. abandoned' \in [Bookings -> Nat] /\ \A b \in Bookings : abandoned'[b] > 0 => b \in booked /\ DueAt[b] <= now
      <3>1. /\ abandoned' \in [Bookings -> Nat]
            /\ \A b \in Bookings : abandoned'[b] > 0 =>
                  abandoned[b] > 0 \/ \E r \in {q \in Runs : patch[q] = "sent"} : Head(queue[r]) = b
        BY <1>1, <1>2, LeaveBehindFacts DEF Restart, OtherTypes
      <3>2. ASSUME NEW r \in Runs, patch[r] = "sent"
            PROVE  Head(queue[r]) \in booked /\ Head(queue[r]) \in Bookings /\ DueAt[Head(queue[r])] <= now
        <4>1. RunSound(r) /\ queue[r] # <<>> /\ queue[r] \in Seq(Bookings)
          BY <1>1, <3>2 DEF Sound, RunSound, RunTypes
        <4> QED
          BY <4>1, QueueParts DEF RunSound, QueuedIn
      <3> QED
        BY <1>1, <3>1, <3>2 DEF Sound, FarSideSound, OtherTypes
    <2>4. TypeOK'
      <3>1. crashes' \in 0..MaxCrashes /\ relayReady' = FALSE
        BY <1>1, <1>2, Limits DEF OtherTypes, Restart
      <3>3. OtherTypes'
        BY <1>1, <2>2, <2>3, <3>1 DEF OtherTypes
      <3> QED
        BY <2>1, <2>7, <3>3, TypePartsNext
    <2>5. FileSound' /\ DoneIsBacked' /\ FarSideSound'
      BY <2>2, <2>3, <2>7 DEF Sound, FileSound, DoneIsBacked, FarSideSound, Moved
    <2>6. \A r \in Runs : RunSound(r)'
      BY <2>1 DEF RunSound, QueuedIn
    <2> QED
      BY <2>4, <2>5, <2>6 DEF Sound
  <1>3. CASE RelayOpens \/ RelayCloses \/ Advance \/ UNCHANGED vars
    <2>1. /\ UNCHANGED <<file, booked, pushedOff, damages, queue, phase, patch, taken, abandoned, landed, crashes, diskFailures, overlaps>>
          /\ now' \in 0..MaxTime /\ now' \in Nat /\ now <= now'
      BY <1>1, <1>3, BookingAssumption
         DEF RelayOpens, RelayCloses, Advance, vars, fileVars, runVars, boundVars, OtherTypes
    <2>2. relayReady' \in BOOLEAN /\ closures' \in 0..MaxClosures
      <3>1. CASE RelayOpens
        BY <1>1, <3>1 DEF RelayOpens, boundVars, OtherTypes
      <3>2. CASE RelayCloses
        <4>1. relayReady' = FALSE /\ closures' = closures + 1 /\ closures < MaxClosures
          BY <3>2 DEF RelayCloses
        <4>2. closures \in 0..MaxClosures
          BY <1>1 DEF OtherTypes
        <4>3. closures' \in 0..MaxClosures
          BY <4>1, <4>2, Limits
        <4> QED
          BY <4>1, <4>3
      <3>3. CASE Advance \/ UNCHANGED vars
        BY <1>1, <3>3 DEF Advance, vars, boundVars, OtherTypes
      <3> QED
        BY <1>3, <3>1, <3>2, <3>3
    <2>3. TypeOK'
      BY <1>1, <2>1, <2>2 DEF TypeOK
    <2>4. FarSideSound' /\ \A r \in Runs : RunSound(r)'
      BY <2>1, FarSideStays, RunStays
    <2>5. FileSound' /\ DoneIsBacked'
      BY <2>1 DEF Sound, FileSound, DoneIsBacked
    <2> QED
      BY <2>3, <2>4, <2>5 DEF Sound
  <1> QED
    BY <1>2, <1>3

LEMMA InitSound ==
    ASSUME Init
    PROVE  Sound
  <1>1. TypeOK
    <2>1. <<>> \in Seq(StoredBookings) /\ Len(<<>>) = 0 /\ <<>> \in Seq(Bookings) /\ <<>> \in Seq(MoveRecord)
      OBVIOUS
    <2>2. FileType
      BY <2>1, Limits DEF Init, FileType
    <2>3. RunTypes
      BY <2>1 DEF Init, RunTypes
    <2>4. OtherTypes
      <3>1. now \in 0..MaxTime /\ closures \in 0..MaxClosures /\ crashes \in 0..MaxCrashes
        BY Limits DEF Init
      <3>2. relayReady \in BOOLEAN /\ booked \subseteq Bookings
        BY DEF Init
      <3>5. overlaps \in 0..MaxOverlaps
        BY Limits DEF Init
      <3>4. abandoned \in [Bookings -> Nat]
        BY DEF Init
      <3>3. landed \in Seq([id : Bookings, beside : SUBSET Bookings])
        BY <2>1 DEF Init, MoveRecord
      <3> QED
        BY <3>1, <3>2, <3>3, <3>4, <3>5 DEF OtherTypes
    <2> QED
      BY <2>2, <2>3, <2>4, TypeParts
  <1>2. FarSideSound
    BY DEF Init, FarSideSound
  <1> QED
    BY <1>1, <1>2 DEF Init, Sound, FileSound, DoneIsBacked, RunSound, QueuedIn

LEMMA NextSound ==
    ASSUME Sound, [Next]_vars
    PROVE  Sound'
  <1>1. ASSUME NEW r \in Runs, RunStep(r) PROVE Sound'
    <2>1. RunSound(r) /\ patch[r] \in {"none", "sent", "acted"} /\ phase[r] \in {"idle", "lookup", "patch"}
      BY DEF Sound, TypeOK
    <2>2. CASE LookupAnswered(r) /\ relayReady
      BY <2>2, SendSound DEF LookupAnswered
    <2>3. CASE (LookupAnswered(r) /\ ~relayReady) \/ LookupFails(r)
      BY <2>1, <2>3, ConcludeSound DEF LookupAnswered, LookupFails, Sound, TypeOK
    <2>4. CASE PatchActs(r)
      BY <2>4, ActsSound
    <2>5. CASE PatchAnswered(r)
      BY <2>5, ConcludeSound DEF PatchAnswered, Sound, TypeOK
    <2>6. CASE PatchFails(r)
      <3>1. queue[r] # <<>> /\ queue[r] \in Seq(Bookings)
        BY <2>1, <2>6 DEF PatchFails, RunSound, Sound, TypeOK
      <3>2. Head(queue[r]) \in QueuedIn(r)
        BY <3>1, QueueParts DEF QueuedIn
      <3>3. /\ abandoned' \in [Bookings -> Nat]
            /\ \A b \in Bookings : abandoned'[b] > 0 => abandoned[b] > 0 \/ b \in QueuedIn(r)
        <4>1. abandoned \in [Bookings -> Nat] /\ LeaveBehind(IF patch[r] = "sent" THEN {r} ELSE {})
          BY <2>6 DEF PatchFails, Sound, TypeOK
        <4>2. (IF patch[r] = "sent" THEN {r} ELSE {}) \in SUBSET Runs
          OBVIOUS
        <4> QED
          BY <3>2, <4>1, <4>2, LeaveBehindFacts
      <3> QED
        BY <2>6, <3>3, ConcludeSound DEF PatchFails
    <2> QED
      BY <1>1, <2>2, <2>3, <2>4, <2>5, <2>6 DEF RunStep
  <1>2. CASE checkAndRunDueChangeMoves \/ \E r \in NowRuns : RunNow(r)
    BY <1>2, StartSound DEF checkAndRunDueChangeMoves, RunNow, Runs
  <1>3. CASE \E b \in Bookings : Book(b) \/ Withdraw(b) \/ AbandonedActs(b)
    BY <1>3, PeopleSound, ActsSound
  <1> QED
    BY <1>1, <1>2, <1>3, SurroundingsSound DEF Next

LEMMA AlwaysSound == Spec => []Sound
  <1>1. Init => Sound
    BY InitSound
  <1>2. Sound /\ [Next]_vars => Sound'
    BY NextSound
  <1> QED
    BY <1>1, <1>2, PTL DEF Spec

-----------------------------------------------------------------------------
(* What the panel shows, and when a move may happen.                       *)

LEMMA HasFacts ==
    ASSUME file \in Seq(StoredBookings), NEW b, NEW s
    PROVE  HasStatus(b, s) <=> \E k \in DOMAIN file : file[k].id = b /\ file[k].status = s
  <1>1. \A k \in DOMAIN file : file[k] \in StoredBookings
    BY EntriesOfSeq
  <1>2. \A e \in StoredBookings : e = [id |-> b, status |-> s] <=> e.id = b /\ e.status = s
    BY DEF StoredBookings
  <1> QED
    BY <1>1, <1>2 DEF HasStatus

LEMMA HasFactsNext ==
    ASSUME file' \in Seq(StoredBookings), NEW b, NEW s
    PROVE  HasStatus(b, s)' <=> \E k \in DOMAIN file' : file'[k].id = b /\ file'[k].status = s
  <1>1. \A k \in DOMAIN file' : file'[k] \in StoredBookings
    BY EntriesOfSeq
  <1>2. \A e \in StoredBookings : e = [id |-> b, status |-> s] <=> e.id = b /\ e.status = s
    BY DEF StoredBookings
  <1> QED
    BY <1>1, <1>2 DEF HasStatus

LEMMA MovedIsCounted ==
    ASSUME landed \in Seq(MoveRecord), NEW b, Moved(landed, b)
    PROVE  TimesLanded(b) > 0
  <1> DEFINE P == {k \in DOMAIN landed : landed[k].id = b}
  <1>1. IsFiniteSet(P)
    <2>1. IsFiniteSet(1..Len(landed)) /\ DOMAIN landed = 1..Len(landed)
      BY FS_Interval
    <2> QED
      BY <2>1, FS_Subset
  <1>2. Cardinality(P) \in Nat /\ Cardinality(P) # 0
    BY <1>1, FS_CardinalityType, FS_EmptySet DEF Moved
  <1> QED
    BY <1>2 DEF TimesLanded

\* The file, the runs and the moves keep their types, and the file never outgrows its cap.
THEOREM TypeCorrect == Spec => []TypeOK
  <1>1. Sound => TypeOK
    BY DEF Sound
  <1> QED
    BY <1>1, AlwaysSound, PTL

\* A booking the panel shows as done was carried out, whichever runs, restarts, failed
\* writes and late PATCHes crossed.
THEOREM DoneIsTrue == Spec => []DoneMeansMoved
  <1>1. Sound => DoneMeansMoved
    <2> SUFFICES ASSUME Sound, NEW b \in Bookings, HasStatus(b, "done") PROVE TimesLanded(b) > 0
      BY DEF DoneMeansMoved
    <2>1. file \in Seq(StoredBookings) /\ landed \in Seq(MoveRecord)
      BY DEF Sound, TypeOK, MoveRecord
    <2>2. PICK k \in DOMAIN file : file[k].id = b /\ file[k].status = "done"
      BY <2>1, HasFacts
    <2>3. Moved(landed, b)
      BY <2>2 DEF Sound, DoneIsBacked
    <2> QED
      BY <2>1, <2>3, MovedIsCounted
  <1> QED
    BY <1>1, AlwaysSound, PTL

\* No change is moved before its booked moment, not even by a PATCH that outlived its run.
THEOREM NeverTooSoon == Spec => []NeverEarly
  <1>1. Sound => NeverEarly
    BY DEF Sound, FarSideSound, NeverEarly
  <1> QED
    BY <1>1, AlwaysSound, PTL

\* The ways a step can touch the file.
LEMMA FileSteps ==
    ASSUME Sound, [Next]_vars
    PROVE  \/ UNCHANGED file
           \/ \E b \in Bookings : Book(b) \/ Withdraw(b)
           \/ \E r \in Runs, status \in {"done", "failed"} : queue[r] # <<>> /\ WrittenFor(r, status)
           \/ Restart /\ Damaged
  <1>1. ASSUME NEW r \in Runs, RunStep(r)
        PROVE  \/ UNCHANGED file
               \/ \E status \in {"done", "failed"} : queue[r] # <<>> /\ WrittenFor(r, status)
    <2>1. TypeOK /\ queue[r] # <<>>
      <3>1. RunSound(r) /\ phase[r] # "idle"
        BY <1>1 DEF Sound, RunStep, LookupAnswered, LookupFails, PatchActs, PatchAnswered, PatchFails
      <3> QED
        BY <3>1 DEF RunSound, Sound
    <2>2. CASE Conclude(r, "failed") \/ Conclude(r, "done")
      BY <2>1, <2>2, ConcludeShape
    <2> QED
      BY <1>1, <2>2 DEF RunStep, LookupAnswered, LookupFails, PatchActs, PatchAnswered, PatchFails, fileVars
  <1>2. CASE checkAndRunDueChangeMoves \/ \E r \in NowRuns : RunNow(r)
    BY <1>2 DEF checkAndRunDueChangeMoves, RunNow, StartRun, fileVars
  <1>3. CASE RelayOpens \/ RelayCloses \/ Advance \/ UNCHANGED vars
    BY <1>3 DEF RelayOpens, RelayCloses, Advance, vars, fileVars
  <1>5. CASE Restart
    BY <1>5, DamageShape DEF Restart, Sound
  <1>4. CASE \E b \in Bookings : AbandonedActs(b)
    BY <1>4 DEF AbandonedActs, fileVars
  <1> QED
    BY <1>1, <1>2, <1>3, <1>4, <1>5 DEF Next

\* Runs, new bookings and withdrawals never undo one another's writes: an entry goes only
\* off the end of a full file or with a damaged one, and its status changes only by a
\* withdrawal of a pending booking or by the outcome of a run that took it.
THEOREM UpdatesKept == Spec => NoLostUpdate
  <1> DEFINE Stays(k) == \E l \in DOMAIN file' :
                            file'[l].id = file[k].id /\ MayBecome(file[k], file'[l].status)
             Kept(k) == \/ Stays(k)
                        \/ k = MAX_STORED_BOOKINGS /\ booked' # booked
                        \/ damages' # damages
  <1>1. ASSUME Sound, [Next]_vars, NEW k \in DOMAIN file PROVE Kept(k)
    <2>1. /\ file \in Seq(StoredBookings) /\ Len(file) <= MAX_STORED_BOOKINGS /\ k \in Nat
          /\ k <= MAX_STORED_BOOKINGS /\ MAX_STORED_BOOKINGS \in Nat
      BY <1>1, Limits DEF Sound, TypeOK
    <2>2. CASE UNCHANGED file
      BY <2>2 DEF MayBecome
    <2>3. ASSUME NEW b \in Bookings, Book(b) PROVE Kept(k)
      <3>1. booked' # booked
        BY <2>3 DEF Book
      <3>2. \/ Damaged
            \/ k < MAX_STORED_BOOKINGS => \E l \in DOMAIN file' : file'[l] = file[k]
        BY <1>1, <2>3, BookShape
      <3> QED
        BY <2>1, <3>1, <3>2 DEF MayBecome, Damaged
    <2>4. ASSUME NEW b \in Bookings, Withdraw(b) PROVE Kept(k)
      BY <1>1, <2>4, WithdrawShape DEF MayBecome, Damaged
    <2>5. ASSUME NEW r \in Runs, NEW status \in {"done", "failed"}, queue[r] # <<>>, WrittenFor(r, status)
          PROVE  Kept(k)
      <3>1. queue[r] \in Seq(Bookings) /\ queue[r] # <<>>
        BY <1>1, <2>5 DEF Sound, TypeOK
      <3>2. QueuedIn(r) = ToSet(queue[r]) /\ Head(queue[r]) \in QueuedIn(r)
        BY <3>1, QueueParts DEF QueuedIn, ToSet
      <3>3. CASE DOMAIN file' = DOMAIN file
        BY <2>5, <3>2, <3>3 DEF WrittenFor, MayBecome
      <3> QED
        BY <2>5, <3>3 DEF WrittenFor, Damaged
    <2>6. CASE Damaged
      BY <2>6 DEF Damaged
    <2> QED
      BY <1>1, <2>2, <2>3, <2>4, <2>5, <2>6, FileSteps
  <1>2. Sound /\ [Next]_vars => [\A k \in DOMAIN file : Kept(k)]_vars
    BY <1>1
  <1> QED
    BY <1>2, AlwaysSound, PTL DEF Spec, NoLostUpdate

\* The ways a step can touch what ServiceNow did.
LEMMA LandSteps ==
    ASSUME [Next]_vars
    PROVE  \/ UNCHANGED landed
           \/ \E r \in Runs : PatchActs(r)
           \/ \E b \in Bookings : AbandonedActs(b)
  BY DEF Next, Book, Withdraw, checkAndRunDueChangeMoves, RunNow, StartRun, RunStep, LookupAnswered,
         LookupFails, PatchAnswered, PatchFails, RelayOpens, RelayCloses, Advance, Restart, vars

\* The ways a step can touch what a run has taken.
LEMMA TakeSteps ==
    ASSUME Sound, [Next]_vars, NEW r \in Runs
    PROVE  \/ taken'[r] \subseteq taken[r]
           \/ phase[r] = "idle" /\ StartRun(r)
  <1>1. RunTypes /\ TypeOK
    BY TypeParts DEF Sound
  <1>2. ASSUME NEW q \in Runs, RunStep(q) PROVE taken'[r] \subseteq taken[r]
    <2>1. queue[q] # <<>>
      <3>1. RunSound(q) /\ phase[q] # "idle"
        BY <1>2 DEF Sound, RunStep, LookupAnswered, LookupFails, PatchActs, PatchAnswered, PatchFails
      <3> QED
        BY <3>1 DEF RunSound
    <2>2. CASE Conclude(q, "failed") \/ Conclude(q, "done")
      <3>1. OthersKept(q) /\ (taken'[q] = taken[q] \/ taken'[q] = {})
        BY <1>1, <2>1, <2>2, ConcludeShape
      <3> QED
        BY <3>1 DEF OthersKept
    <2> QED
      BY <1>2, <2>2 DEF RunStep, LookupAnswered, LookupFails, PatchActs, PatchAnswered, PatchFails
  <1>3. ASSUME NEW q \in Runs, phase[q] = "idle", StartRun(q), q # r PROVE taken'[r] \subseteq taken[r]
    BY <1>1, <1>3 DEF StartRun, RunTypes
  <1>4. CASE \E b \in Bookings : Book(b) \/ Withdraw(b) \/ AbandonedActs(b)
    BY <1>4 DEF Book, Withdraw, AbandonedActs, runVars
  <1>5. CASE RelayOpens \/ RelayCloses \/ Advance \/ Restart \/ UNCHANGED vars
    BY <1>5 DEF RelayOpens, RelayCloses, Advance, Restart, vars, runVars
  <1> QED
    BY <1>2, <1>3, <1>4, <1>5 DEF Next, checkAndRunDueChangeMoves, RunNow, Runs

\* What a run takes was pending in the file.
LEMMA TakenWasPending ==
    ASSUME Sound, NEW r \in Runs, StartRun(r), NEW b \in taken'[r]
    PROVE  \E k \in DOMAIN file : file[k].id = b /\ file[k].status = "pending"
  <1>1. file \in Seq(StoredBookings) /\ now \in Nat /\ RunTypes
    BY TypeParts, BookingAssumption DEF Sound, TypeOK
  <1>2. PICK due \in listDueBookings(file, now) : taken' = [taken EXCEPT ![r] = ToSet(due)]
    BY DEF StartRun
  <1>3. taken'[r] = ToSet(due)
    BY <1>1, <1>2 DEF RunTypes
  <1>4. \A i \in DOMAIN due : \E k \in DOMAIN file : file[k] = [id |-> due[i], status |-> "pending"]
    BY <1>1, DueFacts
  <1> QED
    BY <1>3, <1>4 DEF ToSet

\* Moving one booking does not move another.
LEMMA OthersNotCounted ==
    ASSUME landed \in Seq(MoveRecord), NEW c \in Bookings, NEW S \in SUBSET Bookings, Land(c, S),
           NEW b, b # c
    PROVE  TimesLanded(b)' = TimesLanded(b)
  <1>1. /\ DOMAIN landed' = DOMAIN landed \cup {Len(landed) + 1}
        /\ landed'[Len(landed) + 1].id = c
        /\ \A k \in DOMAIN landed : landed'[k] = landed[k]
    BY LandShape
  <1>2. {k \in DOMAIN landed' : landed'[k].id = b} = {k \in DOMAIN landed : landed[k].id = b}
    BY <1>1
  <1> QED
    BY <1>2 DEF TimesLanded

\* A booking withdrawn before a run took it, with no PATCH of its own on its way, is never
\* taken, carried out or shown as done.
THEOREM WithdrawnStaysOut == Spec => WithdrawnInTimeNeverRuns
  <1> DEFINE Out(b) == WithdrawnInTime(b) =>
          /\ TimesLanded(b)' = TimesLanded(b)
          /\ \A r \in Runs : b \notin taken'[r]
          /\ ~HasStatus(b, "done")'
  <1>1. ASSUME Sound, Sound', [Next]_vars, NEW b \in Bookings, WithdrawnInTime(b) PROVE Out(b)
    <2>1. /\ TypeOK /\ RunTypes /\ FileSound /\ file \in Seq(StoredBookings) /\ file' \in Seq(StoredBookings)
          /\ landed \in Seq(MoveRecord) /\ abandoned \in [Bookings -> Nat]
      BY <1>1, TypeParts DEF Sound, TypeOK, MoveRecord
    <2>2. PICK j \in DOMAIN file : file[j].id = b /\ file[j].status = "cancelled"
      BY <1>1, <2>1, HasFacts DEF WithdrawnInTime
    <2>3. \A k \in DOMAIN file : file[k].id = b => file[k].status = "cancelled"
      BY <2>1, <2>2 DEF FileSound
    <2>4. abandoned[b] = 0 /\ \A r \in Runs : b \notin taken[r] /\ b \notin QueuedIn(r)
      BY <1>1 DEF WithdrawnInTime, Sound, RunSound
    <2>5. TimesLanded(b)' = TimesLanded(b)
      <3>1. CASE UNCHANGED landed
        BY <3>1 DEF TimesLanded
      <3>2. ASSUME NEW r \in Runs, PatchActs(r) PROVE TimesLanded(b)' = TimesLanded(b)
        <4>1. queue[r] \in Seq(Bookings) /\ queue[r] # <<>> /\ taken[r] \in SUBSET Bookings
          BY <1>1, <2>1, <3>2 DEF PatchActs, Sound, RunSound, RunTypes
        <4>2. Head(queue[r]) \in Bookings /\ Head(queue[r]) \in QueuedIn(r)
          BY <4>1, QueueParts DEF QueuedIn
        <4> QED
          BY <2>1, <2>4, <3>2, <4>1, <4>2, OthersNotCounted DEF PatchActs
      <3>3. ASSUME NEW c \in Bookings, AbandonedActs(c) PROVE TimesLanded(b)' = TimesLanded(b)
        BY <2>1, <2>4, <3>3, OthersNotCounted DEF AbandonedActs
      <3> QED
        BY <1>1, <3>1, <3>2, <3>3, LandSteps
    <2>6. ASSUME NEW r \in Runs PROVE b \notin taken'[r]
      <3>1. CASE StartRun(r)
        BY <1>1, <2>3, <3>1, TakenWasPending
      <3> QED
        BY <1>1, <2>4, <3>1, TakeSteps
    <2>7. ~HasStatus(b, "done")'
      <3> SUFFICES ASSUME NEW k \in DOMAIN file', file'[k].id = b, file'[k].status = "done" PROVE FALSE
        BY <2>1, HasFactsNext
      <3>1. CASE UNCHANGED file
        BY <2>3, <3>1
      <3>2. ASSUME NEW c \in Bookings, Book(c) PROVE FALSE
        BY <1>1, <2>3, <3>2, BookShape
      <3>3. ASSUME NEW c \in Bookings, Withdraw(c) PROVE FALSE
        BY <1>1, <2>3, <3>3, WithdrawShape
      <3>4. ASSUME NEW r \in Runs, NEW status \in {"done", "failed"}, queue[r] # <<>>, WrittenFor(r, status)
            PROVE  FALSE
        <4>1. Head(queue[r]) \in QueuedIn(r)
          BY <2>1, <3>4, QueueParts DEF RunTypes, QueuedIn
        <4> QED
          BY <2>3, <2>4, <3>4, <4>1 DEF WrittenFor
      <3>5. CASE Damaged
        BY <3>5 DEF Damaged
      <3> QED
        BY <1>1, <3>1, <3>2, <3>3, <3>4, <3>5, FileSteps
    <2> QED
      BY <2>5, <2>6, <2>7
  <1>2. Sound /\ Sound' /\ [Next]_vars => [\A b \in Bookings : Out(b)]_vars
    <2> SUFFICES ASSUME Sound, Sound', [Next]_vars, NEW b \in Bookings PROVE Out(b)
      OBVIOUS
    <2> QED
      BY <1>1
  <1> QED
    BY <1>2, AlwaysSound, PTL DEF Spec, WithdrawnInTimeNeverRuns

-----------------------------------------------------------------------------
(* How often a booking is carried out.                                     *)

\* The runs that still have b in their hands, its PATCH not known to have acted.
Holders(b) == {r \in Runs : b \in QueuedIn(r) /\ ~(patch[r] = "acted" /\ Head(queue[r]) = b)}

Reported(b) == \E r \in Runs : patch[r] = "acted" /\ Head(queue[r]) = b

\* No further run begins with b without a cause.
Spent(b) == Reported(b) \/ ~HasStatus(b, "pending") \/ Holders(b) # {}

\* How often b was, and may still be, carried out.
Risk(b) == TimesLanded(b) + abandoned[b] + Cardinality(Holders(b))

Causes == overlaps + crashes + diskFailures

Paid(b) == Risk(b) <= Causes + (IF Spent(b) THEN 1 ELSE 0)

QueuesDistinct == \A r \in Runs : \A i, j \in DOMAIN queue[r] : queue[r][i] = queue[r][j] => i = j

LEMMA CountIsNat ==
    ASSUME NEW l \in Seq(MoveRecord), NEW b
    PROVE  LET P == {k \in DOMAIN l : l[k].id = b} IN IsFiniteSet(P) /\ Cardinality(P) \in Nat
  <1>1. IsFiniteSet(1..Len(l)) /\ DOMAIN l = 1..Len(l)
    BY FS_Interval
  <1> QED
    BY <1>1, FS_Subset, FS_CardinalityType

\* Everything that is counted is a number.
LEMMA RiskIsNat ==
    ASSUME Sound, Sound', NEW b \in Bookings
    PROVE  /\ TimesLanded(b) \in Nat /\ TimesLanded(b)' \in Nat
           /\ abandoned[b] \in Nat /\ abandoned'[b] \in Nat
           /\ IsFiniteSet(Holders(b)) /\ IsFiniteSet(Holders(b)')
           /\ Cardinality(Holders(b)) \in Nat /\ Cardinality(Holders(b))' \in Nat
           /\ overlaps \in Nat /\ overlaps' \in Nat /\ crashes \in Nat /\ crashes' \in Nat
           /\ diskFailures \in Nat /\ diskFailures' \in Nat
  <1>1. OtherTypes /\ OtherTypes' /\ FileType /\ FileType'
    BY DEF Sound, TypeOK, OtherTypes, FileType
  <1>2. landed \in Seq(MoveRecord) /\ landed' \in Seq(MoveRecord)
    BY <1>1 DEF OtherTypes, MoveRecord
  <1>3. TimesLanded(b) \in Nat /\ TimesLanded(b)' \in Nat
    BY <1>2, CountIsNat DEF TimesLanded
  <1>4. Holders(b) \in SUBSET Runs /\ Holders(b)' \in SUBSET Runs
    BY DEF Holders
  <1>5. /\ IsFiniteSet(Holders(b)) /\ IsFiniteSet(Holders(b)')
        /\ Cardinality(Holders(b)) \in Nat /\ Cardinality(Holders(b)') \in Nat
    BY <1>4, RunsFinite
  <1>6. /\ overlaps \in Nat /\ overlaps' \in Nat /\ crashes \in Nat /\ crashes' \in Nat
        /\ diskFailures \in Nat /\ diskFailures' \in Nat
    BY <1>1, Limits DEF OtherTypes, FileType
  <1>7. abandoned[b] \in Nat /\ abandoned'[b] \in Nat
    BY <1>1 DEF OtherTypes
  <1> QED
    BY <1>3, <1>5, <1>6, <1>7

\* What a step may do to a booking: nothing new, or a cause for each new hazard.
LEMMA PaidStays ==
    ASSUME Sound, Sound', NEW b \in Bookings, Paid(b),
           Risk(b)' <= Risk(b), Causes <= Causes',
           Spent(b) => Spent(b)' \/ Causes < Causes'
    PROVE  Paid(b)'
  <1>1. Risk(b) \in Nat /\ Risk(b)' \in Nat /\ Causes \in Nat /\ Causes' \in Nat
    BY RiskIsNat DEF Risk, Causes
  <1>2. CASE Spent(b)'
    BY <1>1, <1>2 DEF Paid
  <1>3. CASE ~Spent(b)'
    BY <1>1, <1>3 DEF Paid
  <1> QED
    BY <1>2, <1>3

\* Another PATCH of b is to be sent: an overlap pays for it, or it is the first one.
LEMMA PaidAgain ==
    ASSUME Sound, Sound', NEW b \in Bookings, Paid(b), Spent(b)',
           Risk(b)' <= Risk(b) + 1, Causes <= Causes', Causes < Causes' \/ ~Spent(b)
    PROVE  Paid(b)'
  <1>1. Risk(b) \in Nat /\ Risk(b)' \in Nat /\ Causes \in Nat /\ Causes' \in Nat
    BY RiskIsNat DEF Risk, Causes
  <1>2. Risk(b)' <= Causes' + 1
    BY <1>1 DEF Paid
  <1> QED
    BY <1>2 DEF Paid

\* One more move of b.
LEMMA LandCounts ==
    ASSUME landed \in Seq(MoveRecord), NEW b \in Bookings, NEW S \in SUBSET Bookings, Land(b, S)
    PROVE  TimesLanded(b)' = TimesLanded(b) + 1
  <1> DEFINE P == {k \in DOMAIN landed : landed[k].id = b}
  <1>1. /\ DOMAIN landed' = DOMAIN landed \cup {Len(landed) + 1} /\ Len(landed) + 1 \notin DOMAIN landed
        /\ landed'[Len(landed) + 1].id = b
        /\ \A k \in DOMAIN landed : landed'[k] = landed[k]
    BY LandShape
  <1>2. {k \in DOMAIN landed' : landed'[k].id = b} = P \cup {Len(landed) + 1}
    BY <1>1
  <1>3. IsFiniteSet(P) /\ Len(landed) + 1 \notin P
    BY <1>1, CountIsNat
  <1>4. Cardinality(P \cup {Len(landed) + 1}) = Cardinality(P) + 1
    BY <1>3, FS_AddElement
  <1> QED
    BY <1>2, <1>4 DEF TimesLanded

\* A step that leaves the runs, the far side and the bookings alone leaves every count.
LEMMA NothingNew ==
    ASSUME Sound, Sound', NEW b \in Bookings, Paid(b),
           UNCHANGED <<queue, patch, landed, abandoned, overlaps, crashes>>,
           diskFailures <= diskFailures', HasStatus(b, "pending")' => HasStatus(b, "pending")
    PROVE  Paid(b)'
  <1>1. Holders(b)' = Holders(b) /\ (Reported(b)' <=> Reported(b)) /\ TimesLanded(b)' = TimesLanded(b)
    BY DEF Holders, Reported, QueuedIn, TimesLanded
  <1>2. Risk(b)' = Risk(b) /\ Risk(b) \in Nat
    BY <1>1, RiskIsNat DEF Risk
  <1>3. Causes <= Causes'
    BY RiskIsNat DEF Causes
  <1>4. Spent(b) => Spent(b)'
    BY <1>1 DEF Spent
  <1> QED
    BY <1>2, <1>3, <1>4, PaidStays

\* Booking and withdrawing.
LEMMA PeoplePay ==
    ASSUME Sound, Sound', NEW c \in Bookings, Book(c) \/ Withdraw(c), NEW b \in Bookings, Paid(b)
    PROVE  Paid(b)'
  <1>1. /\ file \in Seq(StoredBookings) /\ file' \in Seq(StoredBookings)
        /\ UNCHANGED <<queue, patch, landed, abandoned, overlaps, crashes>>
    BY DEF Sound, TypeOK, Book, Withdraw, runVars
  <1>2. diskFailures <= diskFailures'
    BY RiskIsNat DEF Book, Withdraw, writeBookings
  <1>3. CASE HasStatus(b, "pending")' => HasStatus(b, "pending")
    BY <1>1, <1>2, <1>3, NothingNew
  <1>4. CASE Withdraw(c)
    <2>1. HasStatus(b, "pending")' => HasStatus(b, "pending")
      BY <1>1, <1>4, WithdrawShape, HasFacts, HasFactsNext
    <2> QED
      BY <1>3, <2>1
  <1>5. CASE Book(c) /\ b # c
    <2>1. \A k \in DOMAIN file' : \/ file'[k] = [id |-> c, status |-> "pending"]
                                  \/ \E j \in DOMAIN file : file'[k] = file[j]
      BY <1>5, BookShape
    <2>2. HasStatus(b, "pending")' => HasStatus(b, "pending")
      BY <1>1, <1>5, <2>1, HasFacts, HasFactsNext
    <2> QED
      BY <1>3, <2>2
  <1>6. CASE Book(c) /\ b = c
    <2>1. b \notin booked /\ FarSideSound /\ \A r \in Runs : RunSound(r)
      BY <1>6 DEF Book, Sound
    <2>2. Holders(b)' = {} /\ TimesLanded(b)' = 0
      <3>1. \A r \in Runs : b \notin QueuedIn(r)'
        BY <1>1, <2>1 DEF RunSound, QueuedIn
      <3>2. {k \in DOMAIN landed : landed[k].id = b} = {}
        BY <2>1 DEF FarSideSound
      <3> QED
        BY <1>1, <3>1, <3>2, FS_EmptySet DEF Holders, TimesLanded
    <2>3. abandoned'[b] = 0
      BY <1>1, <2>1, RiskIsNat DEF FarSideSound
    <2>4. Cardinality(Holders(b))' = 0
      BY <2>2, FS_EmptySet
    <2>5. Risk(b)' = 0
      BY <2>2, <2>3, <2>4 DEF Risk
    <2>6. /\ Risk(b)' <= Causes' /\ Risk(b)' <= Causes' + 1
          /\ Causes' \in Nat /\ Risk(b)' \in Nat
      <3>1. Causes' \in Nat
        BY RiskIsNat DEF Causes
      <3>2. \A n \in Nat : 0 <= n /\ 0 <= n + 1 /\ 0 \in Nat
        OBVIOUS
      <3> QED
        BY <2>5, <3>1, <3>2, Zenon
    <2>7. CASE Spent(b)'
      BY <2>6, <2>7 DEF Paid
    <2>8. CASE ~Spent(b)'
      BY <2>6, <2>8 DEF Paid
    <2> QED
      BY <2>7, <2>8
  <1> QED
    BY <1>4, <1>5, <1>6

\* A PATCH acts, its run still waiting.
LEMMA ActPays ==
    ASSUME Sound, Sound', NEW r \in Runs, PatchActs(r), NEW b \in Bookings, Paid(b)
    PROVE  Paid(b)'
  <1>1. /\ RunTypes /\ queue[r] \in Seq(Bookings) /\ queue[r] # <<>> /\ landed \in Seq(MoveRecord)
        /\ taken[r] \in SUBSET Bookings
    <2>1. RunSound(r) /\ TypeOK /\ RunTypes
      BY TypeParts DEF Sound
    <2> QED
      BY <2>1 DEF RunSound, RunTypes, PatchActs, TypeOK, MoveRecord
  <1>2. Head(queue[r]) \in Bookings /\ Head(queue[r]) \in QueuedIn(r)
    BY <1>1, QueueParts DEF QueuedIn
  <1>3. /\ UNCHANGED <<file, queue, abandoned, overlaps, crashes, diskFailures>>
        /\ patch[r] = "sent" /\ patch'[r] = "acted" /\ \A q \in Runs \ {r} : patch'[q] = patch[q]
        /\ Land(Head(queue[r]), taken[r])
    BY <1>1 DEF PatchActs, RunTypes, fileVars, boundVars
  <1>4. Causes' = Causes /\ Causes \in Nat
    BY <1>3, RiskIsNat DEF Causes
  <1>5. CASE b = Head(queue[r])
    <2>1. TimesLanded(b)' = TimesLanded(b) + 1
      BY <1>1, <1>2, <1>3, <1>5, LandCounts
    <2>2. r \in Holders(b) /\ Holders(b)' = Holders(b) \ {r}
      BY <1>2, <1>3, <1>5 DEF Holders, QueuedIn
    <2>3. Cardinality(Holders(b))' = Cardinality(Holders(b)) - 1
      BY <2>2, RiskIsNat, FS_RemoveElement
    <2>4. Risk(b)' = Risk(b) /\ Risk(b) \in Nat
      BY <1>3, <2>1, <2>3, RiskIsNat DEF Risk
    <2>5. Spent(b)'
      BY <1>3, <1>5 DEF Spent, Reported
    <2> QED
      BY <1>4, <2>4, <2>5, PaidStays
  <1>6. CASE b # Head(queue[r])
    <2>1. TimesLanded(b)' = TimesLanded(b)
      BY <1>1, <1>2, <1>3, <1>6, OthersNotCounted
    <2>2. Holders(b)' = Holders(b)
      BY <1>3, <1>6 DEF Holders, QueuedIn
    <2>3. Risk(b)' = Risk(b) /\ Risk(b) \in Nat
      BY <1>3, <2>1, <2>2, RiskIsNat DEF Risk
    <2>4. Spent(b)' <=> Spent(b)
      BY <1>3, <1>6, <2>2 DEF Spent, Reported, HasStatus
    <2> QED
      BY <1>4, <2>3, <2>4, PaidStays
  <1> QED
    BY <1>5, <1>6

\* A PATCH acts that nobody waits for.
LEMMA LateActPays ==
    ASSUME Sound, Sound', NEW c \in Bookings, AbandonedActs(c), NEW b \in Bookings, Paid(b)
    PROVE  Paid(b)'
  <1>1. landed \in Seq(MoveRecord) /\ abandoned \in [Bookings -> Nat]
    BY DEF Sound, TypeOK, MoveRecord
  <1>2. /\ UNCHANGED <<file, queue, patch, overlaps, crashes, diskFailures>> /\ abandoned[c] > 0
        /\ abandoned' = [abandoned EXCEPT ![c] = @ - 1] /\ Land(c, {})
    BY DEF AbandonedActs, fileVars, runVars, boundVars
  <1>3. Causes' = Causes /\ Causes \in Nat
    BY <1>2, RiskIsNat DEF Causes
  <1>4. Holders(b)' = Holders(b) /\ (Spent(b)' <=> Spent(b))
    BY <1>2 DEF Holders, Spent, Reported, HasStatus, QueuedIn
  <1>5. TimesLanded(b)' + abandoned'[b] = TimesLanded(b) + abandoned[b]
    <2>1. CASE b = c
      <3>1. TimesLanded(b)' = TimesLanded(b) + 1
        BY <1>1, <1>2, <2>1, LandCounts
      <3>2. abandoned'[b] = abandoned[b] - 1
        BY <1>1, <1>2, <2>1
      <3> QED
        BY <3>1, <3>2, RiskIsNat
    <2>2. CASE b # c
      <3>1. TimesLanded(b)' = TimesLanded(b)
        BY <1>1, <1>2, <2>2, OthersNotCounted
      <3>2. abandoned'[b] = abandoned[b]
        BY <1>1, <1>2, <2>2
      <3> QED
        BY <3>1, <3>2
    <2> QED
      BY <2>1, <2>2
  <1>6. Risk(b)' = Risk(b) /\ Risk(b) \in Nat
    BY <1>4, <1>5, RiskIsNat DEF Risk
  <1> QED
    BY <1>3, <1>4, <1>6, PaidStays

\* A run begins.
LEMMA StartPays ==
    ASSUME Sound, Sound', NEW r \in Runs, phase[r] = "idle", StartRun(r), NEW b \in Bookings, Paid(b)
    PROVE  Paid(b)'
  <1>1. /\ RunTypes /\ RunTypes' /\ \A q \in Runs : RunSound(q) /\ RunSound(q)'
        /\ file \in Seq(StoredBookings)
    BY TypeParts DEF Sound, TypeOK, RunTypes
  <1>2. /\ UNCHANGED <<file, patch, abandoned, landed, crashes, diskFailures>>
        /\ \A q \in Runs \ {r} : queue'[q] = queue[q]
        /\ overlaps' = overlaps + (IF \E q \in Runs : phase[q] # "idle" THEN 1 ELSE 0)
    BY <1>1 DEF StartRun, RunTypes, fileVars, boundVars
  <1>3. patch[r] = "none" /\ queue[r] = <<>>
    BY <1>1 DEF RunSound, RunTypes
  <1>4. Holders(b)' \subseteq Holders(b) \cup {r} /\ (Reported(b)' <=> Reported(b))
    BY <1>2, <1>3 DEF Holders, Reported, QueuedIn
  <1>5. Holders(b) \subseteq Holders(b)'
    BY <1>2, <1>3 DEF Holders, QueuedIn
  <1>6. TimesLanded(b)' = TimesLanded(b) /\ (HasStatus(b, "pending")' <=> HasStatus(b, "pending"))
    BY <1>2 DEF TimesLanded, HasStatus
  <1>7. Spent(b) => Spent(b)'
    BY <1>4, <1>5, <1>6 DEF Spent
  <1>8. Causes <= Causes' /\ Causes \in Nat /\ ((\E q \in Runs : phase[q] # "idle") => Causes < Causes')
    BY <1>2, RiskIsNat DEF Causes
  <1>9. CASE r \notin Holders(b)'
    <2>1. Holders(b)' = Holders(b)
      BY <1>3, <1>4, <1>5, <1>9
    <2>2. Risk(b)' = Risk(b) /\ Risk(b) \in Nat
      BY <1>2, <1>6, <2>1, RiskIsNat DEF Risk
    <2> QED
      BY <1>7, <1>8, <2>2, PaidStays
  <1>10. CASE r \in Holders(b)'
    <2>1. Cardinality(Holders(b))' <= Cardinality(Holders(b)) + 1
      <3>1. /\ IsFiniteSet(Holders(b) \cup {r})
            /\ Cardinality(Holders(b) \cup {r}) <= Cardinality(Holders(b)) + 1
        <4>1. IsFiniteSet(Holders(b)) /\ Cardinality(Holders(b)) \in Nat
          BY RiskIsNat
        <4>2. /\ IsFiniteSet(Holders(b) \cup {r})
              /\ \/ Cardinality(Holders(b) \cup {r}) = Cardinality(Holders(b))
                 \/ Cardinality(Holders(b) \cup {r}) = Cardinality(Holders(b)) + 1
          BY <4>1, FS_AddElement
        <4> QED
          BY <4>1, <4>2
      <3>2. Cardinality(Holders(b)') <= Cardinality(Holders(b) \cup {r})
        BY <1>4, <3>1, FS_Subset
      <3>3. Cardinality(Holders(b) \cup {r}) \in Nat
        BY <3>1, FS_CardinalityType
      <3> QED
        BY <3>1, <3>2, <3>3, RiskIsNat
    <2>2. Risk(b)' <= Risk(b) + 1
      BY <1>2, <1>6, <2>1, RiskIsNat DEF Risk
    <2>3. Spent(b)'
      BY <1>10 DEF Spent
    <2>4. HasStatus(b, "pending")
      <3>1. b \in taken'[r]
        BY <1>1, <1>10 DEF Holders, RunSound
      <3> QED
        BY <1>1, <3>1, TakenWasPending, HasFacts
    <2>5. (\A q \in Runs : phase[q] = "idle") => ~Spent(b)
      <3> SUFFICES ASSUME \A q \in Runs : phase[q] = "idle" PROVE ~Spent(b)
        OBVIOUS
      <3>1. \A q \in Runs : patch[q] = "none" /\ queue[q] = <<>>
        BY <1>1 DEF RunSound, RunTypes
      <3>2. Holders(b) = {} /\ ~Reported(b)
        BY <3>1 DEF Holders, Reported, QueuedIn
      <3> QED
        BY <2>4, <3>2 DEF Spent
    <2> QED
      BY <1>8, <2>2, <2>3, <2>5, PaidAgain
  <1> QED
    BY <1>9, <1>10

\* A booking comes out as status: it leaves the run's hands, settled or with a failed write.
LEMMA ConcludePays ==
    ASSUME Sound, Sound', QueuesDistinct, NEW r \in Runs, phase[r] # "idle",
           NEW status \in {"done", "failed"}, Conclude(r, status),
           UNCHANGED <<landed, overlaps, crashes>>, NEW b \in Bookings, Paid(b),
           abandoned'[b] <= abandoned[b] + (IF patch[r] = "sent" /\ Head(queue[r]) = b THEN 1 ELSE 0)
    PROVE  Paid(b)'
  <1>1. /\ TypeOK /\ RunTypes /\ queue[r] \in Seq(Bookings) /\ queue[r] # <<>>
        /\ file \in Seq(StoredBookings) /\ file' \in Seq(StoredBookings)
    <2>1. TypeOK /\ RunTypes /\ RunSound(r) /\ TypeOK'
      BY TypeParts DEF Sound
    <2> QED
      BY <2>1 DEF RunSound, RunTypes, TypeOK
  <1>2. /\ WrittenFor(r, status) /\ OthersKept(r) /\ patch'[r] = "none"
        /\ queue'[r] = Tail(queue[r]) \/ queue'[r] = <<>>
    BY <1>1, ConcludeShape
  <1>3. /\ Head(queue[r]) \in QueuedIn(r) /\ QueuedIn(r)' \subseteq QueuedIn(r)
        /\ Head(queue[r]) \notin QueuedIn(r)'
    <2>1. /\ Head(queue[r]) = queue[r][1] /\ 1 \in DOMAIN queue[r]
          /\ \A i \in DOMAIN Tail(queue[r]) : i + 1 \in DOMAIN queue[r] /\ Tail(queue[r])[i] = queue[r][i + 1]
      BY <1>1, QueueParts
    <2>2. \A i \in DOMAIN Tail(queue[r]) : i + 1 # 1
      BY <1>1
    <2>3. \A i \in DOMAIN queue[r] : queue[r][i] = queue[r][1] => i = 1
      BY <2>1 DEF QueuesDistinct
    <2>4. CASE queue'[r] = <<>>
      BY <2>1, <2>4 DEF QueuedIn
    <2>5. CASE queue'[r] = Tail(queue[r])
      BY <2>1, <2>2, <2>3, <2>5 DEF QueuedIn
    <2> QED
      BY <1>2, <2>4, <2>5
  <1>4. \A q \in Runs \ {r} : queue'[q] = queue[q] /\ patch'[q] = patch[q]
    BY <1>2 DEF OthersKept
  <1>5. Holders(b)' \subseteq Holders(b) /\ Holders(b) \subseteq Holders(b)' \cup {r}
    BY <1>2, <1>3, <1>4 DEF Holders, QueuedIn
  <1>6. diskFailures' = diskFailures \/ diskFailures' = diskFailures + 1
    BY DEF Conclude, writeBookings
  <1>7. Causes <= Causes' /\ (diskFailures' # diskFailures => Causes < Causes')
    BY <1>6, RiskIsNat DEF Causes
  <1>8. HasStatus(b, "pending")' => HasStatus(b, "pending")
    <2>1. \A k \in DOMAIN file' : /\ k \in DOMAIN file /\ file'[k].id = file[k].id
                                  /\ file'[k].status = "pending" => file[k].status = "pending"
      BY <1>2 DEF WrittenFor
    <2> QED
      BY <1>1, <2>1, HasFacts, HasFactsNext
  <1>9. TimesLanded(b)' = TimesLanded(b)
    BY DEF TimesLanded
  <1>10. CASE b \in QueuedIn(r) /\ b \notin QueuedIn(r)'
    <2>1. r \notin Holders(b)'
      BY <1>10 DEF Holders
    <2>2. Risk(b)' <= Risk(b)
      <3>1. CASE r \in Holders(b)
        <4>1. Holders(b)' = Holders(b) \ {r}
          BY <1>5, <2>1
        <4>2. Cardinality(Holders(b))' = Cardinality(Holders(b)) - 1
          BY <3>1, <4>1, RiskIsNat, FS_RemoveElement
        <4>3. abandoned'[b] <= abandoned[b] + 1
          BY RiskIsNat
        <4> QED
          BY <1>9, <4>2, <4>3, RiskIsNat DEF Risk
      <3>2. CASE r \notin Holders(b)
        <4>1. Holders(b)' = Holders(b)
          BY <1>5, <2>1, <3>2
        <4>2. patch[r] # "sent"
          BY <1>10, <3>2 DEF Holders
        <4> QED
          BY <1>9, <4>1, <4>2, RiskIsNat DEF Risk
      <3> QED
        BY <3>1, <3>2
    <2>3. diskFailures' = diskFailures => ~HasStatus(b, "pending")'
      <3>1. \A k \in DOMAIN file' : /\ k \in DOMAIN file /\ file'[k].id = file[k].id
                                    /\ file'[k].id = b /\ diskFailures' = diskFailures
                                         => file'[k].status # "pending"
        BY <1>2, <1>10 DEF WrittenFor
      <3> QED
        BY <1>1, <3>1, HasFactsNext
    <2> QED
      BY <1>7, <2>2, <2>3, PaidStays DEF Spent
  <1>11. CASE b \notin QueuedIn(r) \/ b \in QueuedIn(r)'
    <2>1. b # Head(queue[r])
      BY <1>3, <1>11
    <2>2. Holders(b)' = Holders(b)
      BY <1>2, <1>3, <1>5, <1>11, <2>1 DEF Holders
    <2>3. Reported(b) => Reported(b)'
      BY <1>4, <2>1 DEF Reported
    <2>4. Risk(b)' <= Risk(b)
      BY <1>9, <2>1, <2>2, RiskIsNat DEF Risk
    <2> QED
      BY <1>7, <1>8, <2>2, <2>3, <2>4, PaidStays DEF Spent
  <1> QED
    BY <1>10, <1>11

\* The server stops: what the runs had in their hands may be on its way.
LEMMA RestartPays ==
    ASSUME Sound, Sound', Restart, NEW b \in Bookings, Paid(b)
    PROVE  Paid(b)'
  <1> DEFINE Sent == {r \in Runs : patch[r] = "sent"}
             OnTheWay == {r \in Sent : Head(queue[r]) = b}
  <1>1. /\ UNCHANGED <<landed, diskFailures, overlaps>> /\ crashes' = crashes + 1
        /\ \A r \in Runs : queue'[r] = <<>>
    BY DEF Restart
  <1>2. Sent \in SUBSET Runs /\ LeaveBehind(Sent)
    BY DEF Restart
  <1>3. abandoned \in [Bookings -> Nat]
    BY DEF Sound, TypeOK
  <1> HIDE DEF Sent
  <1>4. abandoned'[b] <= abandoned[b] + Cardinality(OnTheWay)
    BY <1>2, <1>3, LeaveBehindFacts
  <1>5. OnTheWay \subseteq Holders(b)
    <2> SUFFICES ASSUME NEW r \in Runs, patch[r] = "sent", Head(queue[r]) = b PROVE r \in Holders(b)
      BY <1>2 DEF Sent
    <2>1. queue[r] \in Seq(Bookings) /\ queue[r] # <<>>
      <3>1. RunSound(r) /\ RunTypes
        BY TypeParts DEF Sound
      <3> QED
        BY <3>1 DEF RunSound, RunTypes
    <2> QED
      BY <2>1, QueueParts DEF Holders, QueuedIn
  <1>6. Cardinality(OnTheWay) <= Cardinality(Holders(b)) /\ Cardinality(OnTheWay) \in Nat
    BY <1>5, RiskIsNat, FS_Subset, FS_CardinalityType
  <1> HIDE DEF OnTheWay
  <1>7. Holders(b)' = {}
    BY <1>1 DEF Holders, QueuedIn
  <1>8. Cardinality(Holders(b))' = 0
    BY <1>7, FS_EmptySet
  <1>9. TimesLanded(b)' = TimesLanded(b)
    BY <1>1 DEF TimesLanded
  <1>10. Risk(b)' <= Risk(b)
    BY <1>4, <1>6, <1>8, <1>9, RiskIsNat DEF Risk
  <1>11. Causes' = Causes + 1 /\ Causes \in Nat
    BY <1>1, RiskIsNat DEF Causes
  <1> QED
    BY <1>10, <1>11, PaidStays

\* The steps that neither read nor write what is counted.
LEMMA QuietPays ==
    ASSUME Sound, Sound', NEW b \in Bookings, Paid(b),
           RelayOpens \/ RelayCloses \/ Advance \/ UNCHANGED vars
    PROVE  Paid(b)'
  <1>1. UNCHANGED <<file, queue, patch, landed, abandoned, overlaps, crashes, diskFailures>>
    BY DEF RelayOpens, RelayCloses, Advance, vars, fileVars, runVars, boundVars
  <1>2. HasStatus(b, "pending")' => HasStatus(b, "pending")
    BY <1>1 DEF HasStatus
  <1>3. diskFailures <= diskFailures'
    BY <1>1, RiskIsNat
  <1> QED
    BY <1>1, <1>2, <1>3, NothingNew

LEMMA SendPays ==
    ASSUME Sound, Sound', NEW r \in Runs, LookupAnswered(r), relayReady, NEW b \in Bookings, Paid(b)
    PROVE  Paid(b)'
  <1>1. /\ UNCHANGED <<file, queue, landed, abandoned, overlaps, crashes, diskFailures>>
        /\ patch[r] = "none" /\ patch'[r] = "sent" /\ \A q \in Runs \ {r} : patch'[q] = patch[q]
    <2>1. RunSound(r) /\ RunTypes
      BY TypeParts DEF Sound
    <2> QED
      BY <2>1 DEF LookupAnswered, RunSound, RunTypes
  <1>2. Holders(b)' = Holders(b) /\ (Reported(b)' <=> Reported(b)) /\ TimesLanded(b)' = TimesLanded(b)
    BY <1>1 DEF Holders, Reported, QueuedIn, TimesLanded
  <1>3. Risk(b)' = Risk(b) /\ Risk(b) \in Nat /\ Causes' = Causes /\ Causes \in Nat
    BY <1>1, <1>2, RiskIsNat DEF Risk, Causes
  <1>4. Spent(b) => Spent(b)'
    BY <1>1, <1>2 DEF Spent, HasStatus
  <1> QED
    BY <1>3, <1>4, PaidStays

Repeats == Sound /\ QueuesDistinct /\ \A b \in Bookings : Paid(b)

LEMMA NextPays ==
    ASSUME Repeats, [Next]_vars, NEW b \in Bookings
    PROVE  Paid(b)'
  <1>1. Sound /\ Sound' /\ QueuesDistinct /\ Paid(b)
    BY NextSound DEF Repeats
  <1>2. ASSUME NEW r \in Runs, RunStep(r) PROVE Paid(b)'
    <2>1. abandoned[b] \in Nat
      BY <1>1, RiskIsNat
    <2>2. CASE LookupAnswered(r) /\ relayReady
      BY <1>1, <2>2, SendPays
    <2>3. CASE (LookupAnswered(r) /\ ~relayReady) \/ LookupFails(r)
      <3>1. /\ phase[r] # "idle" /\ Conclude(r, "failed") /\ UNCHANGED <<abandoned, landed, overlaps, crashes>>
        BY <2>3 DEF LookupAnswered, LookupFails
      <3> QED
        BY <1>1, <2>1, <3>1, ConcludePays
    <2>4. CASE PatchActs(r)
      BY <1>1, <2>4, ActPays
    <2>5. CASE PatchAnswered(r)
      <3>1. /\ phase[r] # "idle" /\ Conclude(r, "done") /\ UNCHANGED <<abandoned, landed, overlaps, crashes>>
        BY <2>5 DEF PatchAnswered
      <3> QED
        BY <1>1, <2>1, <3>1, ConcludePays
    <2>6. CASE PatchFails(r)
      <3> DEFINE R == IF patch[r] = "sent" THEN {r} ELSE {}
                 S == {q \in R : Head(queue[q]) = b}
      <3>1. /\ phase[r] # "idle" /\ Conclude(r, "failed") /\ UNCHANGED <<landed, overlaps, crashes>>
            /\ LeaveBehind(R) /\ R \in SUBSET Runs /\ abandoned \in [Bookings -> Nat]
        BY <1>1, <2>6 DEF PatchFails, Sound, TypeOK
      <3>2. S = IF patch[r] = "sent" /\ Head(queue[r]) = b THEN {r} ELSE {}
        OBVIOUS
      <3> HIDE DEF R
      <3>3. abandoned'[b] <= abandoned[b] + Cardinality(S)
        BY <3>1, LeaveBehindFacts
      <3>4. Cardinality(S) = IF patch[r] = "sent" /\ Head(queue[r]) = b THEN 1 ELSE 0
        BY <3>2, FS_Singleton, FS_EmptySet
      <3> QED
        BY <1>1, <3>1, <3>3, <3>4, ConcludePays
    <2> QED
      BY <1>2, <2>2, <2>3, <2>4, <2>5, <2>6 DEF RunStep
  <1>3. CASE checkAndRunDueChangeMoves \/ \E r \in NowRuns : RunNow(r)
    BY <1>1, <1>3, StartPays DEF checkAndRunDueChangeMoves, RunNow, Runs
  <1>4. ASSUME NEW c \in Bookings, Book(c) \/ Withdraw(c) \/ AbandonedActs(c) PROVE Paid(b)'
    BY <1>1, <1>4, PeoplePay, LateActPays
  <1>5. CASE RelayOpens \/ RelayCloses \/ Advance \/ UNCHANGED vars
    BY <1>1, <1>5, QuietPays
  <1>6. CASE Restart
    BY <1>1, <1>6, RestartPays
  <1> QED
    BY <1>2, <1>3, <1>4, <1>5, <1>6 DEF Next

\* What a run has left never names a booking twice.
LEMMA NextDistinct ==
    ASSUME Sound, QueuesDistinct, [Next]_vars
    PROVE  QueuesDistinct'
  <1> SUFFICES ASSUME NEW r \in Runs
               PROVE  \A i, j \in DOMAIN queue'[r] : queue'[r][i] = queue'[r][j] => i = j
    BY DEF QueuesDistinct
  <1>1. /\ TypeOK /\ RunTypes /\ FileSound /\ file \in Seq(StoredBookings) /\ now \in Nat
        /\ queue[r] \in Seq(Bookings)
    <2>1. TypeOK /\ RunTypes /\ OtherTypes /\ FileType /\ FileSound
      BY TypeParts DEF Sound
    <2> QED
      BY <2>1, Limits DEF RunTypes, OtherTypes, FileType
  <1>2. CASE queue'[r] = queue[r]
    BY <1>2 DEF QueuesDistinct
  <1>3. CASE queue'[r] = <<>>
    BY <1>3
  <1>4. CASE queue'[r] = Tail(queue[r]) /\ queue[r] # <<>>
    <2>1. \A i \in DOMAIN Tail(queue[r]) : i \in Nat /\ i + 1 \in DOMAIN queue[r] /\ Tail(queue[r])[i] = queue[r][i + 1]
      BY <1>1, <1>4, QueueParts
    <2> QED
      BY <1>4, <2>1 DEF QueuesDistinct
  <1>5. ASSUME NEW q \in Runs, RunStep(q)
        PROVE  \/ queue'[r] = queue[r] \/ queue'[r] = <<>>
               \/ queue'[r] = Tail(queue[r]) /\ queue[r] # <<>>
    <2>1. queue[q] # <<>>
      <3>1. RunSound(q) /\ phase[q] # "idle"
        BY <1>5 DEF Sound, RunStep, LookupAnswered, LookupFails, PatchActs, PatchAnswered, PatchFails
      <3> QED
        BY <3>1 DEF RunSound
    <2>2. CASE Conclude(q, "failed") \/ Conclude(q, "done")
      <3>1. OthersKept(q) /\ (queue'[q] = Tail(queue[q]) \/ queue'[q] = <<>>)
        BY <1>1, <2>1, <2>2, ConcludeShape
      <3> QED
        BY <2>1, <3>1 DEF OthersKept
    <2>3. CASE UNCHANGED queue
      BY <2>3
    <2> QED
      BY <1>5, <2>2, <2>3 DEF RunStep, LookupAnswered, LookupFails, PatchActs, PatchAnswered, PatchFails
  <1>6. ASSUME NEW q \in Runs, StartRun(q)
        PROVE  \A i, j \in DOMAIN queue'[r] : queue'[r][i] = queue'[r][j] => i = j
    <2>1. PICK due \in listDueBookings(file, now) : queue' = [queue EXCEPT ![q] = due]
      BY <1>6 DEF StartRun
    <2>2. \A i, j \in DOMAIN due : due[i] = due[j] => i = j
      BY <1>1, DueFacts DEF FileSound
    <2>3. queue'[r] = due \/ queue'[r] = queue[r]
      BY <1>1, <2>1 DEF RunTypes
    <2> QED
      BY <1>2, <2>2, <2>3
  <1>7. CASE \E b \in Bookings : Book(b) \/ Withdraw(b) \/ AbandonedActs(b)
    BY <1>2, <1>7 DEF Book, Withdraw, AbandonedActs, runVars
  <1>8. CASE RelayOpens \/ RelayCloses \/ Advance \/ Restart \/ UNCHANGED vars
    BY <1>2, <1>3, <1>8 DEF RelayOpens, RelayCloses, Advance, Restart, vars, runVars
  <1> QED
    BY <1>2, <1>3, <1>4, <1>5, <1>6, <1>7, <1>8 DEF Next, checkAndRunDueChangeMoves, RunNow, Runs

LEMMA AlwaysPaid == Spec => []Repeats
  <1>1. Init => Repeats
    <2> SUFFICES ASSUME Init PROVE Repeats
      OBVIOUS
    <2>1. \A r \in Runs : queue[r] = <<>> /\ patch[r] = "none"
      BY DEF Init
    <2>2. QueuesDistinct
      BY <2>1 DEF QueuesDistinct
    <2>3. ASSUME NEW b \in Bookings PROVE Paid(b)
      <3>1. {k \in DOMAIN landed : landed[k].id = b} = {}
        BY DEF Init
      <3>2. TimesLanded(b) = 0
        BY <3>1, FS_EmptySet DEF TimesLanded
      <3>3. Holders(b) = {}
        BY <2>1 DEF Holders, QueuedIn
      <3>4. Cardinality(Holders(b)) = 0
        BY <3>3, FS_EmptySet
      <3>5. Risk(b) = 0 /\ Causes = 0
        BY <3>2, <3>4 DEF Risk, Causes, Init
      <3> QED
        BY <3>5 DEF Paid
    <2> QED
      BY <2>2, <2>3, InitSound DEF Repeats
  <1>2. Repeats /\ [Next]_vars => Repeats'
    BY NextSound, NextDistinct, NextPays DEF Repeats
  <1> QED
    BY <1>1, <1>2, PTL DEF Spec

LEMMA PaidMeans ==
    ASSUME Repeats, NEW b \in Bookings
    PROVE  TimesLanded(b) <= 1 + overlaps + crashes + diskFailures
  <1>1. OtherTypes /\ FileType /\ landed \in Seq(MoveRecord)
    BY DEF Repeats, Sound, TypeOK, OtherTypes, FileType, MoveRecord
  <1>2. TimesLanded(b) \in Nat
    BY <1>1, CountIsNat DEF TimesLanded
  <1>3. Cardinality(Holders(b)) \in Nat
    <2>1. Holders(b) \in SUBSET Runs
      BY DEF Holders
    <2> QED
      BY <2>1, RunsFinite
  <1>4. abandoned[b] \in Nat
    BY <1>1 DEF OtherTypes
  <1>5. overlaps \in Nat /\ crashes \in Nat /\ diskFailures \in Nat
    BY <1>1, Limits DEF OtherTypes, FileType
  <1>6. Paid(b)
    BY DEF Repeats
  <1> QED
    BY <1>2, <1>3, <1>4, <1>5, <1>6 DEF Paid, Risk, Causes

\* Each time a booking is carried out again has a cause of its own: a run begun beside
\* another, a restart, or a write of the file that failed.
THEOREM RepeatsArePaidFor == Spec => []EachRepeatHasACause
  <1>1. Repeats => EachRepeatHasACause
    BY PaidMeans DEF EachRepeatHasACause
  <1> QED
    BY <1>1, AlwaysPaid, PTL

\* With only the tick performing bookings, a booking is carried out at most once while the
\* process lives and its writes succeed.
THEOREM TickMovesOnce ==
    ASSUME NowRuns = {}
    PROVE  Spec => []MovedAtMostOnce
  <1> DEFINE Alone == Sound /\ overlaps = 0
  <1>1. Init => Alone
    BY InitSound DEF Init
  <1>2. Alone /\ [Next]_vars => Alone'
    <2> SUFFICES ASSUME Alone, [Next]_vars PROVE overlaps' = 0
      BY NextSound
    <2>1. CASE phase[Ticker] = "idle" /\ StartRun(Ticker)
      <3>1. \A q \in Runs : phase[q] = "idle"
        BY <2>1 DEF Runs
      <3> QED
        BY <2>1, <3>1 DEF StartRun
    <2>2. CASE UNCHANGED overlaps
      BY <2>2
    <2> QED
      BY <2>1, <2>2 DEF Next, Book, Withdraw, AbandonedActs, checkAndRunDueChangeMoves, RunStep, LookupAnswered,
           LookupFails, PatchActs, PatchAnswered, PatchFails, RelayOpens, RelayCloses, Advance, Restart, vars
  <1>3. Repeats /\ Alone => MovedAtMostOnce
    <2> SUFFICES ASSUME Repeats, Alone, crashes = 0, diskFailures = 0, NEW b \in Bookings
                 PROVE  TimesLanded(b) <= 1
      BY DEF MovedAtMostOnce
    <2>1. TimesLanded(b) <= 1 + overlaps + crashes + diskFailures
      BY PaidMeans
    <2> QED
      BY <2>1
  <1> QED
    BY <1>1, <1>2, <1>3, AlwaysPaid, PTL DEF Spec

-----------------------------------------------------------------------------
(* The refinement of BookingPromise.                                       *)

\* What the panel shows of a booking is its one entry in the file.
StatusSound ==
    /\ \A k \in DOMAIN file : StatusOf(file[k].id) = file[k].status
    /\ \A b \in Bookings, s \in Statuses : StatusOf(b) = s <=> HasStatus(b, s)
    /\ \A b \in Bookings : (\A k \in DOMAIN file : file[k].id # b)
                              => StatusOf(b) = IF b \in booked THEN "lost" ELSE "unknown"

LEMMA StatusFacts == Sound => StatusSound
  <1> SUFFICES ASSUME Sound PROVE StatusSound
    OBVIOUS
  <1>1. file \in Seq(StoredBookings) /\ FileSound
    BY DEF Sound, TypeOK
  <1>2. \A k \in DOMAIN file : file[k].id \in Bookings /\ file[k].status \in Statuses
    <2>1. \A k \in DOMAIN file : file[k] \in StoredBookings
      BY <1>1, EntriesOfSeq
    <2> QED
      BY <2>1 DEF StoredBookings
  <1>3. \A b, s : HasStatus(b, s) <=> \E k \in DOMAIN file : file[k].id = b /\ file[k].status = s
    BY <1>1, HasFacts
  <1>4. ASSUME NEW k \in DOMAIN file PROVE StatusOf(file[k].id) = file[k].status
    <2> DEFINE b == file[k].id
               s == file[k].status
    <2>1. s \in Statuses /\ HasStatus(b, s)
      BY <1>2, <1>3
    <2>2. \A t \in Statuses : HasStatus(b, t) => t = s
      BY <1>1, <1>3 DEF FileSound
    <2>3. (CHOOSE t \in Statuses : HasStatus(b, t)) = s
      BY <2>1, <2>2
    <2> QED
      BY <2>1, <2>3 DEF StatusOf
  <1>5. ASSUME NEW b \in Bookings, \A k \in DOMAIN file : file[k].id # b
        PROVE  StatusOf(b) = IF b \in booked THEN "lost" ELSE "unknown"
    BY <1>3, <1>5 DEF StatusOf
  <1>6. ASSUME NEW b \in Bookings, NEW s \in Statuses PROVE StatusOf(b) = s <=> HasStatus(b, s)
    <2>1. CASE \E k \in DOMAIN file : file[k].id = b
      <3>1. PICK k \in DOMAIN file : file[k].id = b
        BY <2>1
      <3>2. StatusOf(b) = file[k].status
        BY <1>4, <3>1
      <3>3. HasStatus(b, s) <=> file[k].status = s
        BY <1>1, <1>3, <3>1 DEF FileSound
      <3> QED
        BY <3>2, <3>3
    <2>2. CASE \A k \in DOMAIN file : file[k].id # b
      <3>1. ~HasStatus(b, s)
        BY <1>3, <2>2
      <3>2. StatusOf(b) # s
        BY <1>5, <2>2 DEF Statuses
      <3> QED
        BY <3>1, <3>2
    <2> QED
      BY <2>1, <2>2
  <1> QED
    BY <1>4, <1>5, <1>6 DEF StatusSound

LEMMA StatusFactsNext == Sound' => StatusSound'
  BY StatusFacts, PTL

\* With the file as it was, every booking looks as it did.
LEMMA StatusStays ==
    ASSUME UNCHANGED <<file, booked>>
    PROVE  [b \in Bookings |-> StatusOf(b)]' = [b \in Bookings |-> StatusOf(b)]
  BY DEF StatusOf, HasStatus

\* With no move made, every count is as it was.
LEMMA MovesStay ==
    ASSUME UNCHANGED landed
    PROVE  [b \in Bookings |-> TimesLanded(b)]' = [b \in Bookings |-> TimesLanded(b)]
  BY DEF TimesLanded

\* Nothing opens but the bookings of S, and what is pending is open.
LEMMA OpenWithinMeans ==
    ASSUME Sound', NEW S, \A b \in Bookings : Open(b)' => b \in S
    PROVE  Promise!OpenWithin(S)
  <1>1. {b \in Bookings : Open(b)}' \subseteq S
    OBVIOUS
  <1>2. ASSUME NEW b \in Bookings, StatusOf(b)' = "pending" PROVE Open(b)'
    <2>1. HasStatus(b, "pending")'
      BY <1>2, StatusFactsNext DEF StatusSound, Statuses
    <2> QED
      BY <2>1 DEF Open
  <1> QED
    BY <1>1, <1>2 DEF Promise!OpenWithin

\* A booking opens only by being booked.
LEMMA OpenStays ==
    ASSUME NEW b \in Bookings, Open(b)',
           HasStatus(b, "pending")' => Open(b),
           abandoned'[b] > 0 => abandoned[b] > 0 \/ \E r \in Runs : b \in QueuedIn(r),
           \A r \in Runs : b \in QueuedIn(r)' => b \in QueuedIn(r) \/ HasStatus(b, "pending")
    PROVE  Open(b)
  BY DEF Open, QueuedIn, ToSet

\* Causes are numbers.
LEMMA TypeNumbers ==
    ASSUME TypeOK
    PROVE  overlaps \in Nat /\ crashes \in Nat /\ diskFailures \in Nat
  BY Limits DEF TypeOK

\* A booking shows one of six statuses.
LEMMA StatusRange == [b \in Bookings |-> StatusOf(b)]' \in [Bookings -> Promise!Statuses]
  BY DEF StatusOf, Statuses, Promise!Statuses

\* The ways a write of the file can come out.
LEMMA WritesOrFails ==
    ASSUME NEW r \in Runs, NEW status, Conclude(r, status)
    PROVE  \/ UNCHANGED diskFailures
           \/ diskFailures' = diskFailures + 1 /\ UNCHANGED <<file, damages>>
  BY DEF Conclude, writeBookings

\* A damaged file: the panel shows nothing any more.
LEMMA LosesAll ==
    ASSUME Sound, Sound', Damaged, UNCHANGED <<now, landed>>,
           NEW L \in {{}} \cup {{b} : b \in Bookings}, booked' = booked \cup L,
           \A b \in Bookings : Open(b)' => Open(b),
           UNCHANGED <<overlaps, diskFailures>>, crashes' \in {crashes, crashes + 1}
    PROVE  Promise!LoseAll
  <1>1. StatusSound /\ StatusSound'
    BY StatusFacts, StatusFactsNext
  <1>2. \A k \in DOMAIN file : file[k].id \in booked
    BY DEF Sound, FileSound
  <1>3. DOMAIN file' = {}
    BY DEF Damaged
  <1>4. ASSUME NEW b \in Bookings
        PROVE  StatusOf(b)' = IF StatusOf(b) \in Statuses \/ b \in L THEN "lost" ELSE StatusOf(b)
    <2>1. StatusOf(b)' = IF b \in booked' THEN "lost" ELSE "unknown"
      BY <1>1, <1>3 DEF StatusSound
    <2>2. CASE \E k \in DOMAIN file : file[k].id = b
      <3>1. StatusOf(b) \in Statuses
        <4>1. PICK k \in DOMAIN file : file[k].id = b
          BY <2>2
        <4>2. file[k] \in StoredBookings
          BY <4>1, EntriesOfSeq DEF Sound, TypeOK
        <4> QED
          BY <1>1, <4>1, <4>2 DEF StatusSound, StoredBookings
      <3> QED
        BY <1>2, <2>1, <2>2, <3>1
    <2>3. CASE \A k \in DOMAIN file : file[k].id # b
      BY <1>1, <2>1, <2>3 DEF StatusSound, Statuses
    <2> QED
      BY <2>2, <2>3
  <1>5. (overlaps + crashes + diskFailures)'
           \in {overlaps + crashes + diskFailures, (overlaps + crashes + diskFailures) + 1}
    BY TypeNumbers DEF Sound
  <1>6. [b \in Bookings |-> TimesLanded(b)]' = [b \in Bookings |-> TimesLanded(b)]
    BY MovesStay
  <1>7. Promise!OpenWithin({b \in Bookings : Open(b)})
    BY OpenWithinMeans
  <1>8. /\ damages' = damages + 1
        /\ [b \in Bookings |-> StatusOf(b)]'
              = [b \in Bookings |-> IF StatusOf(b) \in Statuses \/ b \in L THEN "lost" ELSE StatusOf(b)]
    BY <1>4 DEF Damaged
  <1> QED
    BY <1>5, <1>6, <1>7, <1>8 DEF Promise!LoseAll, Promise!Shown, Statuses

\* A booking comes out: it and, with the relay closed, the rest of its run's queue.
LEMMA SettlesOrFails ==
    ASSUME Repeats, Sound', NEW r \in Runs, phase[r] # "idle", NEW status \in {"done", "failed"},
           Conclude(r, status), status = "done" => patch[r] = "acted",
           UNCHANGED <<now, booked, landed, crashes, overlaps>>,
           \A b \in Bookings : abandoned'[b] > 0 => abandoned[b] > 0 \/ b \in QueuedIn(r)
    PROVE  Promise!Settle \/ Promise!GoWrong \/ Promise!LoseAll
  <1>1. /\ Sound /\ TypeOK /\ FileSound /\ RunTypes /\ RunSound(r) /\ queue[r] # <<>>
        /\ file \in Seq(StoredBookings) /\ landed \in Seq(MoveRecord)
    BY TypeParts DEF Repeats, Sound, RunSound, TypeOK, MoveRecord
  <1>2. /\ WrittenFor(r, status) /\ OthersKept(r)
        /\ queue'[r] = Tail(queue[r]) \/ queue'[r] = <<>>
    BY <1>1, ConcludeShape
  <1>3. Head(queue[r]) \in QueuedIn(r) /\ \A q \in Runs : QueuedIn(q)' \subseteq QueuedIn(q)
    <2>1. /\ Head(queue[r]) \in QueuedIn(r)
          /\ QueuedIn(r) = {Head(queue[r])} \cup {Tail(queue[r])[i] : i \in DOMAIN Tail(queue[r])}
      BY <1>1, QueueParts DEF RunTypes, QueuedIn
    <2>2. QueuedIn(r)' \subseteq QueuedIn(r)
      <3>1. QueuedIn(r)' = {queue'[r][i] : i \in DOMAIN queue'[r]}
        BY DEF QueuedIn
      <3>2. CASE queue'[r] = Tail(queue[r])
        BY <2>1, <3>1, <3>2
      <3>3. CASE queue'[r] = <<>>
        BY <3>1, <3>3
      <3> QED
        BY <1>2, <3>2, <3>3
    <2>3. ASSUME NEW q \in Runs \ {r} PROVE QueuedIn(q)' \subseteq QueuedIn(q)
      <3>1. queue'[q] = queue[q]
        BY <1>2 DEF OthersKept
      <3> QED
        BY <3>1 DEF QueuedIn
    <2> QED
      BY <2>1, <2>2, <2>3
  <1>4. StatusSound /\ StatusSound' /\ file' \in Seq(StoredBookings)
    BY <1>1, <1>2, StatusFacts, StatusFactsNext DEF WrittenFor, FileType
  <1>5. ASSUME NEW b \in Bookings, Open(b)' PROVE Open(b)
    <2>1. HasStatus(b, "pending")' => HasStatus(b, "pending")
      BY <1>1, <1>2, <1>4, HasFacts, HasFactsNext DEF WrittenFor
    <2> QED
      BY <1>3, <1>5, <2>1, OpenStays DEF Open
  <1>6. Promise!OpenWithin({b \in Bookings : Open(b)})
    BY <1>5, OpenWithinMeans
  <1>7. [b \in Bookings |-> TimesLanded(b)]' = [b \in Bookings |-> TimesLanded(b)]
    BY MovesStay
  <1>8. CASE diskFailures' = diskFailures + 1 /\ UNCHANGED <<file, damages>>
    <2>1. [b \in Bookings |-> StatusOf(b)]' = [b \in Bookings |-> StatusOf(b)]
      BY <1>8, StatusStays
    <2>2. (overlaps + crashes + diskFailures)' = (overlaps + crashes + diskFailures) + 1
      BY <1>1, <1>8, TypeNumbers
    <2>3. Promise!GoWrong
      BY <1>6, <1>7, <1>8, <2>1, <2>2 DEF Promise!GoWrong
    <2> QED
      BY <2>3
  <1>10. CASE Damaged /\ UNCHANGED diskFailures
    <2>1. {} \in {{}} \cup {{b} : b \in Bookings} /\ booked' = booked \cup {}
      OBVIOUS
    <2> QED
      BY <1>1, <1>5, <1>10, <2>1, LosesAll
  <1>9. CASE UNCHANGED <<damages, diskFailures>> /\ DOMAIN file' = DOMAIN file
    <2>1. ASSUME NEW b \in Bookings, StatusOf(b)' # StatusOf(b)
          PROVE  /\ Open(b) /\ StatusOf(b) \in Statuses
                 /\ StatusOf(b)' = "failed" \/ (StatusOf(b)' = "done" /\ TimesLanded(b) > 0)
      <3>1. \E k \in DOMAIN file : file[k].id = b
        BY <1>2, <1>4, <1>9, <2>1 DEF StatusSound, WrittenFor
      <3>2. PICK k \in DOMAIN file : file[k].id = b
        BY <3>1
      <3>3. /\ file[k] \in StoredBookings /\ k \in DOMAIN file' /\ file'[k].id = b
            /\ \/ file'[k].status = file[k].status
               \/ b \in QueuedIn(r) /\ file'[k].status = "failed"
               \/ b = Head(queue[r]) /\ file'[k].status = status
        BY <1>1, <1>2, <1>9, <3>2, EntriesOfSeq DEF WrittenFor
      <3>4. /\ StatusOf(b) = file[k].status /\ StatusOf(b)' = file'[k].status
        BY <1>4, <3>2, <3>3 DEF StatusSound
      <3>5. b \in QueuedIn(r)
        BY <1>3, <2>1, <3>3, <3>4
      <3>6. Open(b)
        BY <3>5 DEF Open, QueuedIn, ToSet
      <3>7. StatusOf(b) \in Statuses
        BY <3>3, <3>4 DEF StoredBookings
      <3>8. CASE b = Head(queue[r]) /\ status = "done"
        <4>1. Moved(landed, b)
          BY <1>1, <3>8 DEF RunSound
        <4>2. TimesLanded(b) > 0
          BY <1>1, <4>1, MovedIsCounted
        <4> QED
          BY <2>1, <3>3, <3>4, <3>6, <3>7, <3>8, <4>2
      <3> QED
        BY <2>1, <3>3, <3>4, <3>6, <3>7, <3>8
    <2>2. [b \in Bookings |-> StatusOf(b)]' \in [Bookings -> Promise!Statuses]
      BY StatusRange
    <2>3. Promise!Settle
      BY <1>6, <1>7, <1>9, <2>1, <2>2 DEF Promise!Settle, Promise!Shown, Statuses
    <2> QED
      BY <2>3
  <1> QED
    BY <1>2, <1>8, <1>9, <1>10, WritesOrFails DEF WrittenFor

\* Whatever only closes bookings is a trouble when it counts as one.
LEMMA TroubleOnly ==
    ASSUME Sound', UNCHANGED <<now, file, booked, damages, landed>>,
           \A b \in Bookings : Open(b)' => Open(b),
           (overlaps + crashes + diskFailures)' = (overlaps + crashes + diskFailures) + 1
    PROVE  Promise!GoWrong
  <1>1. Promise!OpenWithin({b \in Bookings : Open(b)})
    BY OpenWithinMeans
  <1>2. /\ [b \in Bookings |-> StatusOf(b)]' = [b \in Bookings |-> StatusOf(b)]
        /\ [b \in Bookings |-> TimesLanded(b)]' = [b \in Bookings |-> TimesLanded(b)]
    BY StatusStays, MovesStay
  <1> QED
    BY <1>1, <1>2 DEF Promise!GoWrong

\* When it does not, it settles nothing.
LEMMA QuietOnly ==
    ASSUME Sound', UNCHANGED <<now, file, booked, damages, landed, overlaps, crashes, diskFailures>>,
           \A b \in Bookings : Open(b)' => Open(b)
    PROVE  Promise!Settle
  <1>1. Promise!OpenWithin({b \in Bookings : Open(b)})
    BY OpenWithinMeans
  <1>2. /\ [b \in Bookings |-> StatusOf(b)]' = [b \in Bookings |-> StatusOf(b)]
        /\ [b \in Bookings |-> TimesLanded(b)]' = [b \in Bookings |-> TimesLanded(b)]
        /\ (overlaps + crashes + diskFailures)' = overlaps + crashes + diskFailures
    BY StatusStays, MovesStay
  <1> QED
    BY <1>1, <1>2, StatusRange DEF Promise!Settle

\* A run begins: what it takes is pending, and so open already.
LEMMA StartQuiet ==
    ASSUME Repeats, Sound', NEW r \in Runs, phase[r] = "idle", StartRun(r)
    PROVE  Promise!Settle \/ Promise!GoWrong
  <1>1. Sound /\ TypeOK /\ RunTypes /\ file \in Seq(StoredBookings) /\ now \in Nat
    BY TypeParts, Limits DEF Repeats, Sound, TypeOK
  <1>2. PICK due \in listDueBookings(file, now) : queue' = [queue EXCEPT ![r] = due]
    BY DEF StartRun
  <1>3. \A i \in DOMAIN due : \E k \in DOMAIN file : file[k] = [id |-> due[i], status |-> "pending"]
    BY <1>1, DueFacts
  <1>4. \A q \in Runs : queue'[q] = IF q = r THEN due ELSE queue[q]
    BY <1>1, <1>2 DEF RunTypes
  <1>5. ASSUME NEW b \in Bookings, Open(b)' PROVE Open(b)
    <2>1. \A q \in Runs : b \in QueuedIn(q)' => b \in QueuedIn(q) \/ HasStatus(b, "pending")
      BY <1>3, <1>4 DEF QueuedIn, HasStatus
    <2>2. HasStatus(b, "pending")' => Open(b)
      BY DEF HasStatus, Open, StartRun, fileVars
    <2> QED
      BY <1>5, <2>1, <2>2, OpenStays DEF StartRun
  <1>6. \/ overlaps' = overlaps
        \/ overlaps' = overlaps + 1
    BY <1>1, TypeNumbers DEF StartRun
  <1>7. \/ UNCHANGED <<overlaps, crashes, diskFailures>>
        \/ (overlaps + crashes + diskFailures)' = (overlaps + crashes + diskFailures) + 1
    BY <1>1, <1>6, TypeNumbers DEF StartRun, boundVars
  <1> QED
    BY <1>5, <1>7, QuietOnly, TroubleOnly DEF StartRun, fileVars

\* The server stops: what was on its way may still act.
LEMMA RestartTroubles ==
    ASSUME Repeats, Sound', Restart
    PROVE  Promise!GoWrong \/ Promise!LoseAll
  <1>1. Sound /\ TypeOK /\ RunTypes /\ abandoned \in [Bookings -> Nat] /\ \A r \in Runs : RunSound(r)
    BY TypeParts DEF Repeats, Sound, TypeOK
  <1> DEFINE R == {r \in Runs : patch[r] = "sent"}
  <1>2. \A b \in Bookings : abandoned'[b] > 0 => abandoned[b] > 0 \/ \E r \in R : Head(queue[r]) = b
    <2>1. R \in SUBSET Runs /\ LeaveBehind(R)
      BY DEF Restart
    <2> HIDE DEF R
    <2> QED
      BY <1>1, <2>1, LeaveBehindFacts
  <1>3. ASSUME NEW r \in R PROVE Head(queue[r]) \in QueuedIn(r)
    <2>1. queue[r] # <<>> /\ queue[r] \in Seq(Bookings)
      BY <1>1 DEF RunSound, RunTypes
    <2> QED
      BY <2>1, QueueParts DEF QueuedIn
  <1>4. ASSUME NEW b \in Bookings, Open(b)' PROVE Open(b)
    <2>1. \A r \in Runs : b \notin QueuedIn(r)'
      BY DEF Restart, QueuedIn
    <2>2. HasStatus(b, "pending")' => Open(b)
      BY DEF HasStatus, Open, Restart, LeaveDamaged
    <2> QED
      BY <1>2, <1>3, <1>4, <2>1, <2>2, OpenStays
  <1>5. (overlaps + crashes + diskFailures)' = (overlaps + crashes + diskFailures) + 1
    BY <1>1, TypeNumbers DEF Restart
  <1>6. CASE UNCHANGED <<file, damages>>
    BY <1>4, <1>5, <1>6, TroubleOnly DEF Restart
  <1>7. CASE LeaveDamaged
    <2>1. Damaged
      BY <1>1, <1>7, DamageShape
    <2>2. {} \in {{}} \cup {{b} : b \in Bookings} /\ booked' = booked \cup {}
      BY DEF Restart
    <2>3. UNCHANGED <<now, landed, overlaps, diskFailures>> /\ crashes' = crashes + 1
      BY DEF Restart
    <2> QED
      BY <1>1, <1>4, <2>1, <2>2, <2>3, LosesAll
  <1> QED
    BY <1>6, <1>7 DEF Restart

\* A change is moved: the booking was open, had come due, and the move is paid for.
LEMMA MovesAsPromised ==
    ASSUME Repeats, Sound', NEW b \in Bookings, NEW S \in SUBSET Bookings, Land(b, S),
           Open(b), DueAt[b] <= now, Risk(b) > TimesLanded(b),
           UNCHANGED <<now, file, booked, damages, queue, overlaps, crashes, diskFailures>>,
           \A c \in Bookings : abandoned'[c] > 0 => abandoned[c] > 0
    PROVE  Promise!Move(b)
  <1>1. Sound /\ landed \in Seq(MoveRecord)
    BY DEF Repeats, Sound, TypeOK, MoveRecord
  <1>2. ASSUME NEW c \in Bookings, Open(c)' PROVE Open(c)
    BY <1>2 DEF Open, HasStatus
  <1>3. Promise!OpenWithin({c \in Bookings : Open(c)})
    BY <1>2, OpenWithinMeans
  <1>4. TimesLanded(b) <= overlaps + crashes + diskFailures
    <2>1. Paid(b)
      BY DEF Repeats
    <2>2. TimesLanded(b) \in Nat /\ Risk(b) \in Nat /\ Causes \in Nat
      BY <1>1, RiskIsNat DEF Risk, Causes
    <2> QED
      BY <2>1, <2>2 DEF Paid, Causes
  <1>5. [c \in Bookings |-> TimesLanded(c)]'
           = [[c \in Bookings |-> TimesLanded(c)] EXCEPT ![b] = @ + 1]
    <2>1. TimesLanded(b)' = TimesLanded(b) + 1
      BY <1>1, LandCounts
    <2>2. \A c \in Bookings \ {b} : TimesLanded(c)' = TimesLanded(c)
      BY <1>1, OthersNotCounted
    <2> QED
      BY <2>1, <2>2
  <1>6. [c \in Bookings |-> StatusOf(c)]' = [c \in Bookings |-> StatusOf(c)]
    BY StatusStays
  <1> QED
    BY <1>3, <1>4, <1>5, <1>6 DEF Promise!Move

\* ServiceNow carries out a PATCH, its run still waiting or long gone.
LEMMA ActsAsPromised ==
    ASSUME Repeats, Sound', (\E r \in Runs : PatchActs(r)) \/ (\E b \in Bookings : AbandonedActs(b))
    PROVE  \E b \in Bookings : Promise!Move(b)
  <1>1. Sound /\ TypeOK /\ RunTypes /\ FarSideSound /\ abandoned \in [Bookings -> Nat]
    BY TypeParts DEF Repeats, Sound, TypeOK
  <1>2. ASSUME NEW r \in Runs, PatchActs(r) PROVE \E b \in Bookings : Promise!Move(b)
    <2> DEFINE b == Head(queue[r])
    <2>1. RunSound(r) /\ queue[r] # <<>> /\ queue[r] \in Seq(Bookings) /\ taken[r] \in SUBSET Bookings
      BY <1>1, <1>2 DEF Sound, RunSound, RunTypes, PatchActs
    <2>2. b \in Bookings /\ b \in QueuedIn(r)
      BY <2>1, QueueParts DEF QueuedIn
    <2>3. DueAt[b] <= now /\ Open(b)
      BY <2>1, <2>2 DEF RunSound, Open, QueuedIn, ToSet
    <2>4. r \in Holders(b)
      BY <1>2, <2>2 DEF Holders, PatchActs
    <2> HIDE DEF b
    <2>5. Risk(b) > TimesLanded(b)
      <3>1. /\ IsFiniteSet(Holders(b)) /\ Cardinality(Holders(b)) \in Nat
            /\ TimesLanded(b) \in Nat /\ abandoned[b] \in Nat
        BY <1>1, <2>2, RiskIsNat
      <3>2. Cardinality(Holders(b)) # 0
        BY <2>4, <3>1, FS_EmptySet
      <3> QED
        BY <3>1, <3>2 DEF Risk
    <2>6. Land(b, taken[r])
      BY <1>2 DEF PatchActs, b
    <2>7. UNCHANGED <<now, file, booked, damages, queue, overlaps, crashes, diskFailures, abandoned>>
      BY <1>2 DEF PatchActs, fileVars, boundVars
    <2> QED
      BY <2>1, <2>2, <2>3, <2>5, <2>6, <2>7, MovesAsPromised
  <1>3. ASSUME NEW b \in Bookings, AbandonedActs(b) PROVE Promise!Move(b)
    <2>1. DueAt[b] <= now /\ Open(b)
      BY <1>1, <1>3 DEF FarSideSound, AbandonedActs, Open
    <2>2. Risk(b) > TimesLanded(b)
      <3>1. Cardinality(Holders(b)) \in Nat /\ TimesLanded(b) \in Nat /\ abandoned[b] \in Nat
        BY <1>1, RiskIsNat
      <3> QED
        BY <1>3, <3>1 DEF Risk, AbandonedActs
    <2>3. \A c \in Bookings : abandoned'[c] > 0 => abandoned[c] > 0
      BY <1>1, <1>3 DEF AbandonedActs
    <2>4. Land(b, {}) /\ UNCHANGED <<now, file, booked, damages, queue, overlaps, crashes, diskFailures>>
      BY <1>3 DEF AbandonedActs, fileVars, runVars, boundVars
    <2> QED
      BY <2>1, <2>2, <2>3, <2>4, MovesAsPromised
  <1> QED
    BY <1>2, <1>3

\* Booking puts a pending booking on the panel, or fails to write it down.
LEMMA AcceptsOrMislays ==
    ASSUME Repeats, Sound', NEW b \in Bookings, Book(b)
    PROVE  Promise!Accept(b) \/ Promise!Mislay(b) \/ Promise!LoseAll
  <1> DEFINE t == <<[id |-> b, status |-> "pending"]>> \o file
  <1>1. /\ Sound /\ TypeOK /\ FileSound /\ file \in Seq(StoredBookings)
        /\ b \notin booked /\ booked' = booked \cup {b} /\ writeBookings(t)
        /\ UNCHANGED <<now, queue, abandoned, landed, overlaps, crashes>>
    BY DEF Repeats, Sound, TypeOK, Book, runVars
  <1>2. StatusSound /\ StatusSound' /\ file' \in Seq(StoredBookings)
    BY <1>1, StatusFacts, StatusFactsNext DEF Sound, TypeOK
  <1>3. StatusOf(b) = "unknown"
    BY <1>1, <1>2 DEF FileSound, StatusSound
  <1>4. [c \in Bookings |-> TimesLanded(c)]' = [c \in Bookings |-> TimesLanded(c)]
    BY <1>1, MovesStay
  <1>5. CASE diskFailures' = diskFailures + 1 /\ UNCHANGED <<file, damages>>
    <2>1. StatusOf(b)' = "lost"
      BY <1>1, <1>2, <1>5 DEF FileSound, StatusSound
    <2>2. \A c \in Bookings \ {b} : StatusOf(c)' = StatusOf(c)
      BY <1>1, <1>5 DEF StatusOf, HasStatus
    <2>3. [c \in Bookings |-> StatusOf(c)]' = [[c \in Bookings |-> StatusOf(c)] EXCEPT ![b] = "lost"]
      BY <2>1, <2>2
    <2>4. {c \in Bookings : Open(c)}' = {c \in Bookings : Open(c)}
      BY <1>1, <1>5 DEF Open, HasStatus
    <2>5. (overlaps + crashes + diskFailures)' = (overlaps + crashes + diskFailures) + 1
      BY <1>1, <1>5, TypeNumbers
    <2>6. Promise!Mislay(b)
      BY <1>1, <1>3, <1>4, <1>5, <2>3, <2>4, <2>5 DEF Promise!Mislay
    <2> QED
      BY <2>6
  <1>6. CASE file' = Cap(t) /\ UNCHANGED <<damages, diskFailures>>
    <2>1. t \in Seq(StoredBookings) /\ t[1] = [id |-> b, status |-> "pending"] /\ Len(t) = Len(file) + 1
      BY <1>1, BookFacts
    <2>2. 1 \in DOMAIN file' /\ file'[1] = [id |-> b, status |-> "pending"]
      <3> HIDE DEF t
      <3>1. Len(file) \in Nat /\ MAX_STORED_BOOKINGS \in Nat \ {0}
        BY <1>1, Limits
      <3> QED
        BY <1>6, <2>1, <3>1 DEF Cap
    <2>3. StatusOf(b)' = "pending"
      BY <1>2, <2>2 DEF StatusSound
    <2>4. \A k \in DOMAIN file' : \/ file'[k] = [id |-> b, status |-> "pending"]
                                  \/ \E j \in DOMAIN file : file'[k] = file[j]
      BY <1>1, BookShape
    <2>5. ASSUME NEW c \in Bookings \ {b}
          PROVE  \/ StatusOf(c)' = StatusOf(c)
                 \/ StatusOf(c) \in Statuses /\ StatusOf(c)' = "lost"
      <3>1. CASE \E k \in DOMAIN file' : file'[k].id = c
        <4>1. PICK k \in DOMAIN file' : file'[k].id = c
          BY <3>1
        <4>2. PICK j \in DOMAIN file : file'[k] = file[j]
          BY <2>4, <4>1
        <4>3. StatusOf(c)' = file'[k].status /\ StatusOf(c) = file[j].status
          BY <1>2, <4>1, <4>2 DEF StatusSound
        <4> QED
          BY <4>2, <4>3
      <3>2. CASE \A k \in DOMAIN file' : file'[k].id # c
        <4>1. StatusOf(c)' = IF c \in booked' THEN "lost" ELSE "unknown"
          BY <1>2, <3>2 DEF StatusSound
        <4>2. CASE \E j \in DOMAIN file : file[j].id = c
          <5>1. PICK j \in DOMAIN file : file[j].id = c
            BY <4>2
          <5>2. c \in booked /\ StatusOf(c) = file[j].status /\ file[j] \in StoredBookings
            BY <1>1, <1>2, <5>1, EntriesOfSeq DEF FileSound, StatusSound
          <5> QED
            BY <1>1, <4>1, <5>2 DEF StoredBookings
        <4>3. CASE \A j \in DOMAIN file : file[j].id # c
          BY <1>1, <1>2, <4>1, <4>3 DEF StatusSound
        <4> QED
          BY <4>2, <4>3
      <3> QED
        BY <3>1, <3>2
    <2>6. ASSUME NEW c \in Bookings, Open(c)' PROVE c \in {d \in Bookings : Open(d)} \cup {b}
      <3>1. CASE c = b
        BY <3>1
      <3>2. CASE c # b
        <4>1. HasStatus(c, "pending")' => HasStatus(c, "pending")
          BY <1>1, <1>2, <2>4, <3>2, HasFacts, HasFactsNext
        <4>2. Open(c)
          BY <1>1, <2>6, <4>1 DEF Open
        <4> QED
          BY <4>2
      <3> QED
        BY <3>1, <3>2
    <2>7. Promise!OpenWithin({d \in Bookings : Open(d)} \cup {b})
      BY <2>6, OpenWithinMeans
    <2> DEFINE L == {c \in Bookings : StatusOf(c) \in Statuses /\ c # b /\ StatusOf(c)' = "lost"}
    <2>8. \A c \in Bookings : StatusOf(c)' = IF c = b THEN "pending" ELSE IF c \in L THEN "lost" ELSE StatusOf(c)
      BY <2>3, <2>5
    <2>9. (overlaps + crashes + diskFailures)' = overlaps + crashes + diskFailures /\ damages' = damages
      BY <1>1, <1>6
    <2>10. L \in SUBSET {c \in Bookings : StatusOf(c) \in Statuses}
      OBVIOUS
    <2> HIDE DEF L
    <2>11. Promise!Accept(b)
      BY <1>1, <1>3, <1>4, <2>7, <2>8, <2>9, <2>10 DEF Promise!Accept, Promise!Shown, Statuses
    <2> QED
      BY <2>11
  <1>7. CASE Damaged /\ UNCHANGED diskFailures
    <2>1. {b} \in {{}} \cup {{c} : c \in Bookings} /\ booked' = booked \cup {b}
      BY <1>1
    <2>2. ASSUME NEW c \in Bookings, Open(c)' PROVE Open(c)
      BY <1>1, <1>7, <2>2 DEF Open, HasStatus, Damaged
    <2> QED
      BY <1>1, <1>7, <2>1, <2>2, LosesAll
  <1>8. t \in Seq(StoredBookings)
    BY <1>1, BookFacts
  <1> HIDE DEF t
  <1> QED
    BY <1>1, <1>5, <1>6, <1>7, <1>8, WriteShape

\* Withdrawing cancels one pending booking, or fails to write it down.
LEMMA CancelsOrFails ==
    ASSUME Repeats, Sound', NEW b \in Bookings, Withdraw(b)
    PROVE  Promise!Cancel(b) \/ Promise!GoWrong \/ Promise!LoseAll
  <1> DEFINE t == cancelBooking(file, b)
  <1>1. /\ Sound /\ TypeOK /\ FileSound /\ file \in Seq(StoredBookings)
        /\ Len(file) <= MAX_STORED_BOOKINGS /\ HasStatus(b, "pending") /\ writeBookings(t)
        /\ UNCHANGED <<now, booked, queue, abandoned, landed, overlaps, crashes>>
    BY DEF Repeats, Sound, TypeOK, Withdraw, runVars
  <1>2. StatusSound /\ StatusSound' /\ file' \in Seq(StoredBookings)
    BY <1>1, StatusFacts, StatusFactsNext DEF Sound, TypeOK
  <1>3. ASSUME NEW c \in Bookings, Open(c)' PROVE Open(c)
    <2>1. HasStatus(c, "pending")' => HasStatus(c, "pending")
      BY <1>1, <1>2, WithdrawShape, HasFacts, HasFactsNext
    <2> QED
      BY <1>1, <1>3, <2>1 DEF Open
  <1>4. CASE diskFailures' = diskFailures + 1 /\ UNCHANGED <<file, damages>>
    <2>1. (overlaps + crashes + diskFailures)' = (overlaps + crashes + diskFailures) + 1
      BY <1>1, <1>4, TypeNumbers
    <2> QED
      BY <1>1, <1>3, <1>4, <2>1, TroubleOnly
  <1>5. CASE file' = Cap(t) /\ UNCHANGED <<damages, diskFailures>>
    <2>1. t \in Seq(StoredBookings) /\ Len(t) = Len(file) /\ DOMAIN t = DOMAIN file
      BY <1>1, CancelFacts
    <2>2. \A k \in DOMAIN file : /\ file[k] = [id |-> b, status |-> "pending"] => t[k] = [id |-> b, status |-> "cancelled"]
                                 /\ file[k] # [id |-> b, status |-> "pending"] => t[k] = file[k]
      BY DEF cancelBooking
    <2> HIDE DEF t
    <2>3. file' = t
      BY <1>1, <1>5, <2>1, CapFacts
    <2>4. PICK k \in DOMAIN file : file[k] = [id |-> b, status |-> "pending"]
      BY <1>1 DEF HasStatus
    <2>5. StatusOf(b) = "pending" /\ StatusOf(b)' = "cancelled"
      <3>1. k \in DOMAIN file' /\ file'[k] = [id |-> b, status |-> "cancelled"] /\ file[k].id = b
        BY <2>1, <2>2, <2>3, <2>4
      <3> QED
        BY <1>2, <2>4, <3>1 DEF StatusSound
    <2>6. ASSUME NEW c \in Bookings \ {b} PROVE StatusOf(c)' = StatusOf(c)
      <3>1. \A s : HasStatus(c, s)' <=> HasStatus(c, s)
        BY <2>1, <2>2, <2>3 DEF HasStatus
      <3> QED
        BY <1>1, <3>1 DEF StatusOf
    <2>7. [c \in Bookings |-> StatusOf(c)]' = [[c \in Bookings |-> StatusOf(c)] EXCEPT ![b] = "cancelled"]
      BY <2>5, <2>6
    <2>8. Promise!OpenWithin({c \in Bookings : Open(c)})
      BY <1>3, OpenWithinMeans
    <2>9. [c \in Bookings |-> TimesLanded(c)]' = [c \in Bookings |-> TimesLanded(c)]
      BY <1>1, MovesStay
    <2>10. (overlaps + crashes + diskFailures)' = overlaps + crashes + diskFailures /\ damages' = damages
      BY <1>1, <1>5
    <2>11. Promise!Cancel(b)
      BY <1>1, <2>5, <2>7, <2>8, <2>9, <2>10 DEF Promise!Cancel
    <2> QED
      BY <2>11
  <1>6. CASE Damaged /\ UNCHANGED diskFailures
    <2>1. {} \in {{}} \cup {{c} : c \in Bookings} /\ booked' = booked \cup {}
      BY <1>1
    <2> QED
      BY <1>1, <1>3, <1>6, <2>1, LosesAll
  <1>7. t \in Seq(StoredBookings)
    BY <1>1, CancelFacts
  <1> HIDE DEF t
  <1> QED
    BY <1>1, <1>4, <1>5, <1>6, <1>7, WriteShape

\* A step of a run settles bookings, moves one, or is in trouble.
LEMMA RunAsPromised ==
    ASSUME Repeats, Sound', NEW r \in Runs, RunStep(r)
    PROVE  Promise!Settle \/ Promise!GoWrong \/ Promise!LoseAll \/ \E b \in Bookings : Promise!Move(b)
  <1>1. CASE LookupAnswered(r) /\ relayReady
    <2>1. UNCHANGED <<now, file, booked, damages, queue, abandoned, landed, overlaps, crashes, diskFailures>>
      BY <1>1 DEF LookupAnswered
    <2>2. \A b \in Bookings : Open(b)' => Open(b)
      BY <2>1 DEF Open, HasStatus
    <2> QED
      BY <2>1, <2>2, QuietOnly
  <1>2. CASE (LookupAnswered(r) /\ ~relayReady) \/ LookupFails(r)
    <2>1. /\ phase[r] # "idle" /\ Conclude(r, "failed")
          /\ UNCHANGED <<now, booked, abandoned, landed, overlaps, crashes>>
      BY <1>2 DEF LookupAnswered, LookupFails
    <2> QED
      BY <2>1, SettlesOrFails
  <1>3. CASE PatchActs(r)
    BY <1>3, ActsAsPromised
  <1>4. CASE PatchAnswered(r)
    <2>1. /\ phase[r] # "idle" /\ Conclude(r, "done") /\ patch[r] = "acted"
          /\ UNCHANGED <<now, booked, abandoned, landed, overlaps, crashes>>
      BY <1>4 DEF PatchAnswered
    <2> QED
      BY <2>1, SettlesOrFails
  <1>5. CASE PatchFails(r)
    <2> DEFINE R == IF patch[r] = "sent" THEN {r} ELSE {}
    <2>1. /\ phase[r] # "idle" /\ Conclude(r, "failed") /\ LeaveBehind(R) /\ R \in SUBSET Runs
          /\ UNCHANGED <<now, booked, landed, overlaps, crashes>>
      BY <1>5 DEF PatchFails
    <2>2. Head(queue[r]) \in QueuedIn(r)
      <3>1. queue[r] # <<>> /\ queue[r] \in Seq(Bookings)
        BY <2>1 DEF Repeats, Sound, RunSound, TypeOK
      <3> QED
        BY <3>1, QueueParts DEF QueuedIn
    <2>3. \A q \in R : q = r
      OBVIOUS
    <2> HIDE DEF R
    <2>4. \A b \in Bookings : abandoned'[b] > 0 => abandoned[b] > 0 \/ b \in QueuedIn(r)
      <3>1. abandoned \in [Bookings -> Nat]
        BY DEF Repeats, Sound, TypeOK
      <3>2. \A b \in Bookings :
               abandoned'[b] > 0 => abandoned[b] > 0 \/ \E q \in R : Head(queue[q]) = b
        BY <2>1, <3>1, LeaveBehindFacts
      <3> QED
        BY <2>2, <2>3, <3>2
    <2> QED
      BY <2>1, <2>4, SettlesOrFails
  <1> QED
    BY <1>1, <1>2, <1>3, <1>4, <1>5 DEF RunStep

LEMMA PromiseStep ==
    ASSUME Repeats, Sound', [Next]_vars
    PROVE  [Promise!PromiseNext]_(Promise!promiseVars)
  <1>1. CASE UNCHANGED vars
    <2>1. UNCHANGED <<now, file, booked, damages, queue, abandoned, landed, overlaps, crashes, diskFailures>>
      BY <1>1 DEF vars, fileVars, runVars, boundVars
    <2>2. \A b \in Bookings : Open(b)' => Open(b)
      BY <2>1 DEF Open, HasStatus
    <2> QED
      BY <2>1, <2>2, QuietOnly DEF Promise!PromiseNext
  <1>2. CASE RelayOpens \/ RelayCloses
    <2>1. UNCHANGED <<now, file, booked, damages, queue, abandoned, landed, overlaps, crashes, diskFailures>>
      BY <1>2 DEF RelayOpens, RelayCloses, fileVars, runVars, boundVars
    <2>2. \A b \in Bookings : Open(b)' => Open(b)
      BY <2>1 DEF Open, HasStatus
    <2> QED
      BY <2>1, <2>2, QuietOnly DEF Promise!PromiseNext
  <1>3. CASE Advance
    <2>1. /\ now' = now + 1
          /\ UNCHANGED <<file, booked, damages, queue, abandoned, landed, overlaps, crashes, diskFailures>>
      BY <1>3 DEF Advance, fileVars, runVars, boundVars
    <2>2. {b \in Bookings : Open(b)}' = {b \in Bookings : Open(b)}
      BY <2>1 DEF Open, HasStatus
    <2>3. /\ [b \in Bookings |-> StatusOf(b)]' = [b \in Bookings |-> StatusOf(b)]
          /\ [b \in Bookings |-> TimesLanded(b)]' = [b \in Bookings |-> TimesLanded(b)]
          /\ (overlaps + crashes + diskFailures)' = overlaps + crashes + diskFailures
      BY <2>1, StatusStays, MovesStay
    <2>4. Promise!Tick
      BY <2>1, <2>2, <2>3 DEF Promise!Tick
    <2> QED
      BY <2>4 DEF Promise!PromiseNext
  <1>4. CASE Restart
    BY <1>4, RestartTroubles DEF Promise!PromiseNext
  <1>5. CASE checkAndRunDueChangeMoves \/ \E r \in NowRuns : RunNow(r)
    <2>1. PICK r \in Runs : phase[r] = "idle" /\ StartRun(r)
      BY <1>5 DEF checkAndRunDueChangeMoves, RunNow, Runs
    <2> QED
      BY <2>1, StartQuiet DEF Promise!PromiseNext
  <1>6. CASE \E r \in Runs : RunStep(r)
    BY <1>6, RunAsPromised DEF Promise!PromiseNext
  <1>7. ASSUME NEW b \in Bookings, Book(b) \/ Withdraw(b) \/ AbandonedActs(b)
        PROVE  Promise!PromiseNext
    BY <1>7, AcceptsOrMislays, CancelsOrFails, ActsAsPromised DEF Promise!PromiseNext
  <1> QED
    BY <1>1, <1>2, <1>3, <1>4, <1>5, <1>6, <1>7 DEF Next

LEMMA PromiseInitially == Init => Promise!PromiseInit
  <1> SUFFICES ASSUME Init PROVE Promise!PromiseInit
    OBVIOUS
  <1>1. /\ now = 0 /\ file = <<>> /\ booked = {} /\ landed = <<>> /\ overlaps + crashes + diskFailures = 0
        /\ damages = 0
        /\ \A b \in Bookings : abandoned[b] = 0
        /\ \A r \in Runs : queue[r] = <<>>
    BY DEF Init
  <1>2. \A b, s : ~HasStatus(b, s)
    BY <1>1 DEF HasStatus
  <1>3. [b \in Bookings |-> StatusOf(b)] = [b \in Bookings |-> "unknown"]
    BY <1>1, <1>2 DEF StatusOf
  <1>4. {b \in Bookings : Open(b)} = {}
    BY <1>1, <1>2 DEF Open, ToSet
  <1>5. ASSUME NEW b \in Bookings PROVE TimesLanded(b) = 0
    <2>1. {k \in DOMAIN landed : landed[k].id = b} = {}
      BY <1>1
    <2> QED
      BY <2>1, FS_EmptySet DEF TimesLanded
  <1> QED
    BY <1>1, <1>3, <1>4, <1>5 DEF Promise!PromiseInit

\* The runner, the panel and their file implement BookingPromise, for any number of
\* bookings, run-now calls, restarts and failed or damaged writes: only an open booking is moved or
\* settled, when it is due; one that closed stays closed; every repeat is paid for.
THEOREM BookingsKept == Spec => KeepsBookings
  <1>1. Repeats /\ Sound' /\ [Next]_vars => [Promise!PromiseNext]_(Promise!promiseVars)
    BY PromiseStep
  <1> QED
    BY <1>1, PromiseInitially, AlwaysPaid, AlwaysSound, PTL
       DEF Spec, KeepsBookings, Promise!PromiseSpec

-----------------------------------------------------------------------------
(* The tick alone, nobody calling run-now.                                 *)

LEMMA StepsOfTick ==
    ASSUME NowRuns = {}, [Next]_vars
    PROVE  \/ \E b \in Bookings : Book(b) \/ Withdraw(b) \/ AbandonedActs(b)
           \/ phase[Ticker] = "idle" /\ StartRun(Ticker)
           \/ LookupAnswered(Ticker) /\ relayReady
           \/ PatchActs(Ticker)
           \/ /\ phase[Ticker] # "idle"
              /\ \E status \in {"done", "failed"} : Conclude(Ticker, status)
              /\ UNCHANGED landed
           \/ RelayOpens \/ RelayCloses \/ Advance \/ Restart \/ UNCHANGED vars
  <1>1. Runs = {Ticker}
    BY DEF Runs
  <1>2. CASE LookupAnswered(Ticker) /\ ~relayReady
    BY <1>2 DEF LookupAnswered
  <1>3. CASE LookupFails(Ticker)
    BY <1>3 DEF LookupFails
  <1>4. CASE PatchAnswered(Ticker)
    BY <1>4 DEF PatchAnswered
  <1>5. CASE PatchFails(Ticker)
    BY <1>5 DEF PatchFails
  <1> QED
    BY <1>1, <1>2, <1>3, <1>4, <1>5 DEF Next, RunStep, checkAndRunDueChangeMoves

\* While writes succeed, a run works by moment; what it has settled, and what an earlier
\* moment's booking beside a move was, is not taken again.
Ordered ==
    diskFailures = 0 =>
        /\ \A i, j \in DOMAIN queue[Ticker] : i < j => DueAt[queue[Ticker][i]] <= DueAt[queue[Ticker][j]]
        /\ \A k \in DOMAIN file :
              file[k].status = "pending" /\ file[k].id \in taken[Ticker] => file[k].id \in QueuedIn(Ticker)
        /\ \A n \in DOMAIN landed : \A b \in landed[n].beside :
              DueAt[b] < DueAt[landed[n].id] =>
                  /\ b \notin QueuedIn(Ticker)
                  /\ \A k \in DOMAIN file : file[k].id = b => file[k].status # "pending"
        /\ LandsInOrder

TickOrdered == Sound /\ Ordered

\* A step that moves nothing and takes nothing leaves the order alone.
LEMMA OrderStays ==
    ASSUME TickOrdered, diskFailures = 0, UNCHANGED landed, QueuedIn(Ticker)' \subseteq QueuedIn(Ticker),
           \A i, j \in DOMAIN queue'[Ticker] : i < j => DueAt[queue'[Ticker][i]] <= DueAt[queue'[Ticker][j]],
           \A k \in DOMAIN file' :
              file'[k].status = "pending" /\ file'[k].id \in taken'[Ticker] => file'[k].id \in QueuedIn(Ticker)',
           \A k \in DOMAIN file' :
              \/ file'[k].status = "pending" /\ file'[k].id \notin booked
              \/ \E j \in DOMAIN file : /\ file'[k].id = file[j].id
                                        /\ file'[k].status = "pending" => file[j].status = "pending"
    PROVE  Ordered'
  <1>1. ASSUME NEW n \in DOMAIN landed, NEW b \in landed[n].beside, DueAt[b] < DueAt[landed[n].id]
        PROVE  /\ b \notin QueuedIn(Ticker)'
               /\ \A k \in DOMAIN file' : file'[k].id = b => file'[k].status # "pending"
    <2>1. b \in booked
      BY DEF TickOrdered, Sound, FarSideSound
    <2> QED
      BY <1>1, <2>1 DEF TickOrdered, Ordered
  <1>2. LandsInOrder /\ diskFailures = 0 => LandsInOrder'
    BY DEF LandsInOrder
  <1> QED
    BY <1>1, <1>2 DEF Ordered, TickOrdered

LEMMA OrderKept ==
    ASSUME NowRuns = {}, TickOrdered, [Next]_vars
    PROVE  Ordered'
  <1> DEFINE q == queue[Ticker]
  <1>1. /\ RunTypes /\ RunSound(Ticker) /\ FileSound /\ FarSideSound /\ Ticker \in Runs
        /\ file \in Seq(StoredBookings) /\ landed \in Seq(MoveRecord) /\ q \in Seq(Bookings)
        /\ now \in Nat /\ diskFailures \in Nat /\ diskFailures' \in Nat /\ TypeOK
    <2>1. Sound'
      BY NextSound DEF TickOrdered
    <2>2. TypeOK /\ TypeOK' /\ Ticker \in Runs
      BY <2>1 DEF TickOrdered, Sound, Runs
    <2>3. diskFailures \in Nat /\ diskFailures' \in Nat /\ now \in Nat
      BY <2>2, Limits DEF TypeOK
    <2> QED
      BY <2>2, <2>3, TypeParts DEF TickOrdered, Sound, TypeOK, MoveRecord
  <1> SUFFICES ASSUME diskFailures' = 0 PROVE Ordered'
    BY DEF Ordered
  <1>2. CASE \E b \in Bookings : Book(b)
    <2>1. PICK b \in Bookings : Book(b)
      BY <1>2
    <2>2. UNCHANGED <<queue, taken, landed>> /\ b \notin booked /\ diskFailures = 0
      BY <1>1, <2>1 DEF Book, runVars, writeBookings
    <2>3. \A k \in DOMAIN file' :
             \/ file'[k].id = b /\ file'[k].status = "pending"
             \/ \E j \in DOMAIN file : file'[k] = file[j]
      BY <2>1, BookShape DEF TickOrdered
    <2>4. QueuedIn(Ticker)' = QueuedIn(Ticker) /\ b \notin taken[Ticker]
      BY <1>1, <2>2 DEF QueuedIn, RunSound
    <2> QED
      BY <2>2, <2>3, <2>4, OrderStays DEF TickOrdered, Ordered
  <1>3. CASE \E b \in Bookings : Withdraw(b)
    <2>1. PICK b \in Bookings : Withdraw(b)
      BY <1>3
    <2>2. UNCHANGED <<queue, taken, landed>> /\ diskFailures = 0
      BY <1>1, <2>1 DEF Withdraw, runVars, writeBookings
    <2>3. /\ DOMAIN file' \subseteq DOMAIN file
          /\ \A k \in DOMAIN file' :
                /\ file'[k].id = file[k].id
                /\ file'[k].status = "pending" => file[k].status = "pending"
      BY <2>1, WithdrawShape DEF TickOrdered
    <2>4. QueuedIn(Ticker)' = QueuedIn(Ticker)
      BY <2>2 DEF QueuedIn
    <2> QED
      BY <2>2, <2>3, <2>4, OrderStays DEF TickOrdered, Ordered
  <1>4. CASE phase[Ticker] = "idle" /\ StartRun(Ticker)
    <2>1. UNCHANGED <<file, landed, diskFailures>> /\ diskFailures = 0
      BY <1>4 DEF StartRun, fileVars, boundVars
    <2>2. PICK due \in listDueBookings(file, now) :
             /\ queue' = [queue EXCEPT ![Ticker] = due]
             /\ taken' = [taken EXCEPT ![Ticker] = ToSet(due)]
      BY <1>4 DEF StartRun
    <2>3. queue'[Ticker] = due /\ taken'[Ticker] = ToSet(due)
      BY <1>1, <2>2 DEF RunTypes
    <2>4. /\ \A i \in DOMAIN due : \E k \in DOMAIN file :
                file[k] = [id |-> due[i], status |-> "pending"] /\ DueAt[due[i]] <= now
          /\ \A i, j \in DOMAIN due : i < j => DueAt[due[i]] <= DueAt[due[j]]
      BY <1>1, DueFacts
    <2>5. QueuedIn(Ticker)' = ToSet(due)
      BY <2>3 DEF QueuedIn, ToSet
    <2>6. ASSUME NEW n \in DOMAIN landed, NEW b \in landed[n].beside, DueAt[b] < DueAt[landed[n].id]
          PROVE  /\ b \notin ToSet(due)
                 /\ \A k \in DOMAIN file : file[k].id = b => file[k].status # "pending"
      <3>1. \A k \in DOMAIN file : file[k].id = b => file[k].status # "pending"
        BY <2>1, <2>6 DEF TickOrdered, Ordered
      <3> QED
        BY <2>4, <3>1 DEF ToSet
    <2>7. LandsInOrder'
      BY <2>1 DEF TickOrdered, Ordered, LandsInOrder
    <2> QED
      BY <2>1, <2>3, <2>4, <2>5, <2>6, <2>7 DEF Ordered
  <1>5. CASE \/ LookupAnswered(Ticker) /\ relayReady
             \/ RelayOpens \/ RelayCloses \/ Advance \/ UNCHANGED vars
    <2>1. UNCHANGED <<file, queue, taken, landed, diskFailures>>
      BY <1>5 DEF LookupAnswered, RelayOpens, RelayCloses, Advance, vars, fileVars, runVars, boundVars
    <2>2. QueuedIn(Ticker)' = QueuedIn(Ticker)
      BY <2>1 DEF QueuedIn
    <2> QED
      BY <2>1, <2>2, OrderStays DEF TickOrdered, Ordered
  <1>6. CASE PatchActs(Ticker)
    <2>1. /\ UNCHANGED <<file, queue, taken, diskFailures>> /\ diskFailures = 0
          /\ Land(Head(q), taken[Ticker]) /\ q # <<>>
      BY <1>1, <1>6 DEF PatchActs, fileVars, boundVars, RunSound
    <2>2. /\ Head(q) \in Bookings /\ Head(q) = q[1] /\ 1 \in DOMAIN q /\ taken[Ticker] \in SUBSET Bookings
          /\ DOMAIN q = 1..Len(q) /\ Len(q) \in Nat
      BY <1>1, <2>1, QueueParts DEF RunTypes
    <2>3. /\ DOMAIN landed' = DOMAIN landed \cup {Len(landed) + 1} /\ Len(landed) + 1 \notin DOMAIN landed
          /\ landed'[Len(landed) + 1].id = Head(q)
          /\ landed'[Len(landed) + 1].beside = taken[Ticker]
          /\ \A k \in DOMAIN landed : landed'[k] = landed[k]
      BY <1>1, <2>1, <2>2, LandShape
    <2>4. /\ \A i, j \in DOMAIN q : i < j => DueAt[q[i]] <= DueAt[q[j]]
          /\ \A k \in DOMAIN file :
                file[k].status = "pending" /\ file[k].id \in taken[Ticker] => file[k].id \in QueuedIn(Ticker)
          /\ \A n \in DOMAIN landed : \A b \in landed[n].beside :
                DueAt[b] < DueAt[landed[n].id] =>
                    /\ b \notin QueuedIn(Ticker)
                    /\ \A k \in DOMAIN file : file[k].id = b => file[k].status # "pending"
          /\ LandsInOrder
      BY <2>1 DEF TickOrdered, Ordered
    <2>5. QueuedIn(Ticker)' = QueuedIn(Ticker) /\ q[1] \in QueuedIn(Ticker)
      BY <2>1, <2>2 DEF QueuedIn
    <2>6. \A c \in QueuedIn(Ticker) : c \in Bookings /\ DueAt[q[1]] <= DueAt[c] /\ DueAt[q[1]] \in Nat /\ DueAt[c] \in Nat
      <3> SUFFICES ASSUME NEW i \in DOMAIN q
                   PROVE  q[i] \in Bookings /\ DueAt[q[1]] <= DueAt[q[i]] /\ DueAt[q[1]] \in Nat /\ DueAt[q[i]] \in Nat
        BY DEF QueuedIn
      <3>1. q[i] \in Bookings /\ q[1] \in Bookings
        BY <1>1, <2>2, EntriesOfSeq
      <3>2. DueAt[q[i]] \in Nat /\ DueAt[q[1]] \in Nat
        BY <3>1, BookingAssumption
      <3>3. i = 1 \/ 1 < i
        BY <2>2
      <3> QED
        BY <2>2, <2>4, <3>1, <3>2, <3>3
    <2>7. ASSUME NEW b \in taken[Ticker], DueAt[b] < DueAt[q[1]]
          PROVE  /\ b \notin QueuedIn(Ticker)
                 /\ \A k \in DOMAIN file : file[k].id = b => file[k].status # "pending"
      <3>1. b \notin QueuedIn(Ticker)
        BY <2>6, <2>7
      <3> QED
        BY <2>4, <3>1
    <2>8. LandsInOrder'
      <3> SUFFICES ASSUME NEW k \in DOMAIN landed', NEW l \in DOMAIN landed', k < l,
                          ChangeOf[landed'[k].id] = ChangeOf[landed'[l].id],
                          landed'[l].id \in landed'[k].beside, landed'[k].id \in landed'[l].beside
                   PROVE  DueAt[landed'[k].id] <= DueAt[landed'[l].id]
        BY DEF LandsInOrder
      <3>1. k \in DOMAIN landed
        BY <1>1, <2>3
      <3>2. CASE l \in DOMAIN landed
        BY <2>1, <2>3, <2>4, <3>1, <3>2 DEF LandsInOrder
      <3>3. CASE l = Len(landed) + 1
        <4>1. landed'[l].id = q[1] /\ landed'[k] = landed[k] /\ q[1] \in landed[k].beside
          BY <2>2, <2>3, <3>1, <3>3
        <4>2. ~(DueAt[q[1]] < DueAt[landed[k].id])
          BY <2>4, <2>5, <3>1, <4>1
        <4>3. DueAt[q[1]] \in Nat /\ DueAt[landed[k].id] \in Nat
          BY <1>1, <2>5, <2>6, <3>1, LandedFacts, BookingAssumption
        <4> QED
          BY <4>1, <4>2, <4>3
      <3> QED
        BY <2>3, <3>2, <3>3
    <2>9. ASSUME NEW n \in DOMAIN landed', NEW b \in landed'[n].beside, DueAt[b] < DueAt[landed'[n].id]
          PROVE  /\ b \notin QueuedIn(Ticker)
                 /\ \A k \in DOMAIN file : file[k].id = b => file[k].status # "pending"
      BY <2>2, <2>3, <2>4, <2>7, <2>9
    <2> QED
      BY <2>1, <2>4, <2>5, <2>8, <2>9 DEF Ordered
  <1>7. CASE \E b \in Bookings : AbandonedActs(b)
    <2>1. PICK b \in Bookings : AbandonedActs(b)
      BY <1>7
    <2>2. /\ UNCHANGED <<file, queue, taken, diskFailures>> /\ diskFailures = 0 /\ Land(b, {})
      BY <2>1 DEF AbandonedActs, fileVars, runVars, boundVars
    <2>3. /\ DOMAIN landed' = DOMAIN landed \cup {Len(landed) + 1} /\ Len(landed) + 1 \notin DOMAIN landed
          /\ landed'[Len(landed) + 1].beside = {}
          /\ \A k \in DOMAIN landed : landed'[k] = landed[k]
      BY <1>1, <2>2, LandShape
    <2>4. QueuedIn(Ticker)' = QueuedIn(Ticker)
      BY <2>2 DEF QueuedIn
    <2>5. LandsInOrder'
      <3> SUFFICES ASSUME NEW k \in DOMAIN landed', NEW l \in DOMAIN landed', k < l,
                          ChangeOf[landed'[k].id] = ChangeOf[landed'[l].id],
                          landed'[l].id \in landed'[k].beside, landed'[k].id \in landed'[l].beside
                   PROVE  DueAt[landed'[k].id] <= DueAt[landed'[l].id]
        BY DEF LandsInOrder
      <3>1. k \in DOMAIN landed /\ l \in DOMAIN landed
        BY <2>3
      <3> QED
        BY <2>2, <2>3, <3>1 DEF TickOrdered, Ordered, LandsInOrder
    <2>6. ASSUME NEW n \in DOMAIN landed', NEW c \in landed'[n].beside, DueAt[c] < DueAt[landed'[n].id]
          PROVE  /\ c \notin QueuedIn(Ticker)
                 /\ \A k \in DOMAIN file : file[k].id = c => file[k].status # "pending"
      BY <2>2, <2>3, <2>6 DEF TickOrdered, Ordered
    <2> QED
      BY <2>2, <2>4, <2>5, <2>6 DEF TickOrdered, Ordered
  <1>8. CASE /\ phase[Ticker] # "idle"
             /\ \E status \in {"done", "failed"} : Conclude(Ticker, status)
             /\ UNCHANGED landed
    <2>1. q # <<>>
      BY <1>1, <1>8 DEF RunSound
    <2>2. PICK status \in {"done", "failed"} :
             /\ WrittenFor(Ticker, status)
             /\ \/ queue'[Ticker] = Tail(q) /\ taken'[Ticker] = taken[Ticker]
                \/ queue'[Ticker] = <<>> /\ taken'[Ticker] = {}
      BY <1>1, <1>8, <2>1, ConcludeShape
    <2>3. diskFailures = 0 /\ diskFailures' = diskFailures
      <3>1. \/ diskFailures' = diskFailures
            \/ diskFailures' = diskFailures + 1
        BY <1>8 DEF Conclude, writeBookings
      <3> QED
        BY <1>1, <3>1
    <2>4. /\ \A i, j \in DOMAIN q : i < j => DueAt[q[i]] <= DueAt[q[j]]
          /\ \A k \in DOMAIN file :
                file[k].status = "pending" /\ file[k].id \in taken[Ticker] => file[k].id \in QueuedIn(Ticker)
      BY <2>3 DEF TickOrdered, Ordered
    <2>5. \A i \in DOMAIN queue'[Ticker] :
             i \in Nat \ {0} /\ i + 1 \in DOMAIN q /\ queue'[Ticker][i] = q[i + 1]
      <3>1. CASE queue'[Ticker] = Tail(q)
        BY <1>1, <2>1, <3>1, QueueParts
      <3>2. CASE queue'[Ticker] = <<>>
        BY <3>2
      <3> QED
        BY <2>2, <3>1, <3>2
    <2>6. \A i, j \in DOMAIN queue'[Ticker] : i < j => DueAt[queue'[Ticker][i]] <= DueAt[queue'[Ticker][j]]
      BY <2>4, <2>5
    <2>7. QueuedIn(Ticker)' \subseteq QueuedIn(Ticker)
      BY <2>5 DEF QueuedIn
    <2>8. /\ DOMAIN file' \subseteq DOMAIN file
          /\ \A k \in DOMAIN file' :
                /\ file'[k].id = file[k].id
                /\ file'[k].status = "pending" =>
                      /\ file[k].status = "pending"
                      /\ file[k].id \in QueuedIn(Ticker) => file[k].id \in QueuedIn(Ticker)'
      BY <2>2, <2>3 DEF WrittenFor
    <2>9. \A k \in DOMAIN file' :
             file'[k].status = "pending" /\ file'[k].id \in taken'[Ticker] => file'[k].id \in QueuedIn(Ticker)'
      BY <2>2, <2>4, <2>8
    <2> QED
      BY <1>8, <2>3, <2>6, <2>7, <2>8, <2>9, OrderStays
  <1>9. CASE Restart
    <2>1. /\ UNCHANGED <<landed, diskFailures>> /\ queue'[Ticker] = <<>> /\ taken'[Ticker] = {}
          /\ file' = file \/ file' = <<>>
      BY <1>1, <1>9 DEF Restart, LeaveDamaged
    <2>2. QueuedIn(Ticker)' = {}
      BY <2>1 DEF QueuedIn
    <2>3. diskFailures = 0 /\ \A k \in DOMAIN file' : k \in DOMAIN file /\ file'[k] = file[k]
      BY <2>1
    <2>4. DOMAIN queue'[Ticker] = {}
      BY <2>1
    <2> QED
      BY <2>1, <2>2, <2>3, <2>4, OrderStays
  <1> QED
    BY <1>2, <1>3, <1>4, <1>5, <1>6, <1>7, <1>8, <1>9, StepsOfTick

LEMMA InitEmpty ==
    ASSUME Init
    PROVE  /\ DOMAIN queue[Ticker] = {} /\ DOMAIN file = {} /\ DOMAIN landed = {}
  <1>1. queue[Ticker] = <<>> /\ file = <<>> /\ landed = <<>>
    BY DEF Init, Runs
  <1> QED
    BY <1>1

\* With only the tick performing bookings and its writes succeeding, a late pair for one
\* change lands in the order it was booked for, across crashes and closed relays.
THEOREM TickKeepsOrder ==
    ASSUME NowRuns = {}
    PROVE  Spec => []LandsInOrder
  <1>1. Init => TickOrdered
    <2>1. Init => Ordered
      BY InitEmpty DEF Ordered, LandsInOrder
    <2> QED
      BY <2>1, InitSound DEF TickOrdered
  <1>2. TickOrdered /\ [Next]_vars => TickOrdered'
    BY OrderKept, NextSound DEF TickOrdered
  <1>3. TickOrdered => LandsInOrder
    BY DEF TickOrdered, Ordered, LandsInOrder
  <1> QED
    BY <1>1, <1>2, <1>3, PTL DEF Spec
=============================================================================

--------------------------- MODULE BookingPromise ---------------------------
(***************************************************************************)
(* What booking a change move promises, whatever becomes of runs, relays,  *)
(* the file and the server: only an open booking is moved or settled, and  *)
(* never before its moment; done means it was moved; a booking that closed *)
(* never opens again; and the first move is free, while each further one   *)
(* costs a trouble.  It does NOT promise that failed or withdrawn means    *)
(* not moved: Move stays possible while a booking is open.                 *)
(***************************************************************************)
EXTENDS Naturals

CONSTANTS Bookings, DueAt

VARIABLES
    now,
    status,    \* what the panel shows of a booking, "unknown" until it is booked
    open,      \* the bookings that may still be moved or settled
    moves,     \* how often each booking was carried out
    troubles,  \* overlapping runs, restarts and failed writes
    losses     \* how often the whole panel was lost

promiseVars == <<now, status, open, moves, troubles, losses>>

Statuses == {"unknown", "pending", "done", "failed", "cancelled", "lost"}

Shown(b) == status[b] \in {"pending", "done", "failed", "cancelled"}

PromiseInit ==
    /\ now = 0
    /\ status = [b \in Bookings |-> "unknown"]
    /\ open = {}
    /\ moves = [b \in Bookings |-> 0]
    /\ troubles = 0
    /\ losses = 0

\* Bookings may close, but no pending one does, and none but those of S is open.
OpenWithin(S) ==
    /\ open' \subseteq S
    /\ \A b \in Bookings : status'[b] = "pending" => b \in open'

\* Time passes.
Tick ==
    /\ now' = now + 1
    /\ UNCHANGED <<status, open, moves, troubles, losses>>

\* A booking is accepted, and may push older ones off the panel.
Accept(b) ==
    /\ status[b] = "unknown"
    /\ \E L \in SUBSET {c \in Bookings : Shown(c)} :
          status' = [c \in Bookings |-> IF c = b THEN "pending"
                                        ELSE IF c \in L THEN "lost" ELSE status[c]]
    /\ OpenWithin(open \cup {b})
    /\ UNCHANGED <<now, moves, troubles, losses>>

\* A booking is taken from the user and lost.
Mislay(b) ==
    /\ status[b] = "unknown"
    /\ status' = [status EXCEPT ![b] = "lost"]
    /\ troubles' = troubles + 1
    /\ UNCHANGED <<now, open, moves, losses>>

\* A pending booking is withdrawn; it stays open if a run has it in its hands.
Cancel(b) ==
    /\ status[b] = "pending"
    /\ status' = [status EXCEPT ![b] = "cancelled"]
    /\ OpenWithin(open)
    /\ UNCHANGED <<now, moves, troubles, losses>>

\* The change is moved: once, and once more for each trouble.
Move(b) ==
    /\ b \in open
    /\ DueAt[b] <= now
    /\ moves[b] <= troubles
    /\ moves' = [moves EXCEPT ![b] = @ + 1]
    /\ OpenWithin(open)
    /\ UNCHANGED <<now, status, troubles, losses>>

\* Open bookings come out as failed, or as done if they were moved.
Settle ==
    /\ UNCHANGED <<now, moves, troubles, losses>>
    /\ status' \in [Bookings -> Statuses]
    /\ \A b \in Bookings : status'[b] # status[b] =>
          /\ b \in open /\ Shown(b)
          /\ status'[b] = "failed" \/ (status'[b] = "done" /\ moves[b] > 0)
    /\ OpenWithin(open)

\* A run begins beside another, a write fails, the server restarts.
GoWrong ==
    /\ troubles' = troubles + 1
    /\ OpenWithin(open)
    /\ UNCHANGED <<now, status, moves, losses>>

\* The file is damaged: everything the panel shows is lost, and at most one booking that
\* was just being made.  What runs or browser tabs already hold stays open.
LoseAll ==
    /\ \E L \in {{}} \cup {{b} : b \in Bookings} :
          status' = [b \in Bookings |-> IF Shown(b) \/ b \in L THEN "lost" ELSE status[b]]
    /\ losses' = losses + 1
    /\ troubles' \in {troubles, troubles + 1}
    /\ OpenWithin(open)
    /\ UNCHANGED <<now, moves>>

PromiseNext ==
    \/ Tick
    \/ \E b \in Bookings : Accept(b) \/ Mislay(b) \/ Cancel(b) \/ Move(b)
    \/ Settle \/ GoWrong \/ LoseAll

PromiseSpec == PromiseInit /\ [][PromiseNext]_promiseVars
=============================================================================

----------------------------- MODULE SeatLedger -----------------------------
(***************************************************************************)
(* What an event's bookings promise, with no transactions in sight: seats  *)
(* are taken, released and handed to the waitlist one decision at a time,  *)
(* every seat handed out leaves a notice for its holder, every seat        *)
(* released leaves a debt to the waitlist, and a debt is settled only when *)
(* nothing is owed any more.  Bookings implements this ledger.             *)
(***************************************************************************)
EXTENDS Integers, FiniteSets

CONSTANT Members

VARIABLES
    capacity,   \* seats of the event
    seated,     \* who holds a seat
    waiting,    \* who waits for one
    notices,    \* confirmation notices written for each member
    debts,      \* promotions still to be made
    lost        \* promotions given up

vars == <<capacity, seated, waiting, notices, debts, lost>>

Full == Cardinality(seated) >= capacity

Init ==
    /\ capacity \in Nat
    /\ seated = {} /\ waiting = {}
    /\ notices = [m \in Members |-> 0]
    /\ debts = 0 /\ lost = 0

\* Seats go to S: each is told exactly once for this seat, and none of them had one.
Seat(S) ==
    /\ S # {} /\ S \cap seated = {}
    /\ Cardinality(seated) + Cardinality(S) <= capacity
    /\ seated' = seated \cup S
    /\ waiting' = waiting \ S
    /\ notices' = [m \in Members |-> IF m \in S THEN notices[m] + 1 ELSE notices[m]]
    /\ UNCHANGED <<capacity, debts, lost>>

Grant(m) == Seat({m})

\* Seats go to who waits while a promotion is owed, or has been given up.
Promote(S) == S \subseteq waiting /\ debts + lost > 0 /\ Seat(S)

\* A member waits when the event is full, or when a promotion is still to come.
Wait(m) ==
    /\ m \notin seated \cup waiting
    /\ Full \/ debts + lost > 0
    /\ waiting' = waiting \cup {m}
    /\ UNCHANGED <<capacity, seated, notices, debts, lost>>

Release(m) ==
    /\ m \in seated
    /\ seated' = seated \ {m}
    /\ debts' = debts + 1
    /\ UNCHANGED <<capacity, waiting, notices, lost>>

Leave(m) ==
    /\ m \in waiting
    /\ waiting' = waiting \ {m}
    /\ UNCHANGED <<capacity, seated, notices, debts, lost>>

Settle ==
    /\ debts > 0
    /\ Full \/ waiting = {} \/ debts + lost > 1
    /\ debts' = debts - 1
    /\ UNCHANGED <<capacity, seated, waiting, notices, lost>>

GiveUp ==
    /\ debts > 0
    /\ debts' = debts - 1 /\ lost' = lost + 1
    /\ UNCHANGED <<capacity, seated, waiting, notices>>

Next ==
    \/ \E m \in Members : Grant(m) \/ Wait(m) \/ Release(m) \/ Leave(m)
    \/ \E S \in SUBSET Members : Promote(S)
    \/ Settle
    \/ GiveUp

Spec == Init /\ [][Next]_vars
=============================================================================

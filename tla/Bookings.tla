------------------------------ MODULE Bookings ------------------------------
(***************************************************************************)
(* The booking rows of one event and the serializable transactions that    *)
(* write them: POST /v1/bookings (createBooking), booking cancellation     *)
(* (cancelBooking) and the WAITLIST_PROMOTION job (promoteWaitlist), each  *)
(* run through withSerializationRetry.                                     *)
(*                                                                         *)
(* A transaction takes its snapshot, computes its writes from it, and      *)
(* commits or aborts later: between the two, any other transaction may     *)
(* commit.  PostgreSQL is external to the repository; its SERIALIZABLE     *)
(* level is modelled by what it guarantees.  A transaction is doomed when  *)
(* a concurrent commit wrote a row it writes, or when it is part of two    *)
(* consecutive rw-antidependencies whose last transaction committed first  *)
(* (serializable snapshot isolation); a doomed transaction cannot commit.  *)
(***************************************************************************)
EXTENDS Integers, FiniteSets

CONSTANTS
    Users,          \* the attendees; (userId, eventId) is unique, so a user has at most one row
    Slots,          \* requests and jobs in flight in the API and worker processes
    Capacities,     \* the capacities an event may be created with
    MaxAttempts,    \* withSerializationRetry's maxAttempts (8 in the code)
    MaxRequests,    \* bound: user requests that reach the database
    MaxCrashes      \* bound: requests or jobs cut off by a crash or a timeout, jobs run again

ASSUME FiniteAssumption == IsFiniteSet(Users) /\ IsFiniteSet(Slots)
ASSUME CapacityAssumption == Capacities \subseteq Nat
ASSUME BoundsAssumption == MaxAttempts \in Nat \ {0} /\ MaxRequests \in Nat /\ MaxCrashes \in Nat

VARIABLES
    status,             \* the booking row of each user, NONE when there is none
    older,              \* older[u]: the users whose row has an earlier createdAt than u's
    event,              \* the event row
    confirmations,      \* BOOKING_CONFIRMATION outbox rows written for each user's booking
    promotions,         \* WAITLIST_PROMOTION outbox rows whose job has not finished
    failedPromotions,   \* WAITLIST_PROMOTION rows given up as FAILED
    released,           \* a WAITLIST_PROMOTION row has been written
    tx,                 \* what each slot is doing
    requests, crashes   \* counters for the two bounds

rows == <<status, older, confirmations>>
jobs == <<promotions, failedPromotions, released>>
vars == <<rows, event, jobs, tx, requests, crashes>>

Status == {"NONE", "CONFIRMED", "WAITLISTED", "CANCELLED"}
Ops    == {"none", "book", "cancel", "promote", "repeat"}
\* Runs of promoteWaitlist: of a row that waits for one, and of any other.
PromoteOps == {"promote", "repeat"}
Phases == {"idle", "running", "backoff", "committed"}
\* How far the commits of others have compromised a running transaction:
\* none met; some met; one wrote what it had read; it must not commit.
Fates  == {"clean", "met", "out", "doomed"}

Transaction == [phase : Phases, op : Ops, keys : SUBSET Users, attempt : 0..MaxAttempts,
                scans : SUBSET Status, targets : SUBSET Users, to : Status,
                touched : SUBSET Status, fate : Fates]

Idle == [phase |-> "idle", op |-> "none", keys |-> {}, attempt |-> 0, scans |-> {},
         targets |-> {}, to |-> "NONE", touched |-> {}, fate |-> "clean"]

Event == [exists : BOOLEAN, capacity : Nat, started : BOOLEAN]

TypeOK ==
    /\ status \in [Users -> Status]
    /\ older \in [Users -> SUBSET Users]
    /\ event \in Event
    /\ confirmations \in [Users -> Nat]
    /\ promotions \in Nat
    /\ failedPromotions \in Nat
    /\ released \in BOOLEAN
    /\ tx \in [Slots -> Transaction]
    /\ requests \in 0..MaxRequests
    /\ crashes \in 0..MaxCrashes

Confirmed  == {u \in Users : status[u] = "CONFIRMED"}
Waitlisted == {u \in Users : status[u] = "WAITLISTED"}
OpenSeats  == event.capacity - Cardinality(Confirmed)

Running(s) == tx[s].phase = "running"

-----------------------------------------------------------------------------
Init ==
    /\ status = [u \in Users |-> "NONE"]
    /\ older = [u \in Users |-> {}]
    /\ event \in [exists : {TRUE}, capacity : Capacities, started : {FALSE}]
    /\ confirmations = [u \in Users |-> 0]
    /\ promotions = 0
    /\ failedPromotions = 0
    /\ released = FALSE
    /\ tx = [s \in Slots |-> Idle]
    /\ requests = 0
    /\ crashes = 0

-----------------------------------------------------------------------------
(* Serializable snapshot isolation                                          *)

\* r read something that w writes: a row by its key, a status range that a row
\* of w leaves or enters, or the part of the waitlist index before the last row
\* that a LIMITed scan returned.
ReadsFrom(r, w) ==
    \/ r.keys \cap w.targets # {}
    \/ w.targets # {} /\ r.scans \cap w.touched # {}
    \/ /\ r.op \in PromoteOps /\ "WAITLISTED" \in w.touched
       /\ \E v \in r.targets : older[v] \cap w.targets # {}

\* Fault: the transactions run at REPEATABLE READ, where only two writes of the
\* same row conflict.
WriteConflictOnly(r, t) == r.targets \cap t.targets # {}

\* r, still running when t commits, can no longer commit: t has written a row r
\* writes, or r or t is the pivot of two antidependencies whose last
\* transaction is the first of the three to have committed.
Conflict(r, t) ==
    \/ r.targets \cap t.targets # {}
    \/ ReadsFrom(t, r) /\ (r.fate = "out" \/ ReadsFrom(r, t))
    \/ ReadsFrom(r, t) /\ t.fate = "out"

FateAfter(r, t) ==
    IF r.fate = "doomed" \/ Conflict(r, t) THEN "doomed"
    ELSE IF r.fate = "out" \/ ReadsFrom(r, t) THEN "out"
    ELSE "met"

\* The transactions after s has committed.
AfterCommit(s) ==
    [r \in Slots |->
        IF r = s THEN [tx[s] EXCEPT !.phase = "committed"]
        ELSE IF Running(r) THEN [tx[r] EXCEPT !.fate = FateAfter(tx[r], tx[s])]
        ELSE tx[r]]

-----------------------------------------------------------------------------
(* Taking a snapshot                                                        *)

\* A transaction of op starts, or starts again after its backoff.
Ready(s, op, keys) ==
    \/ tx[s].phase = "idle"
    \/ tx[s].phase = "backoff" /\ tx[s].op = op /\ tx[s].keys = keys

Start(s, op, keys, scans, targets, to) ==
    tx' = [tx EXCEPT ![s] =
            [phase |-> "running", op |-> op, keys |-> keys, attempt |-> tx[s].attempt + 1,
             scans |-> scans, targets |-> targets, to |-> to,
             touched |-> IF targets = {} THEN {} ELSE {to} \cup {status[u] : u \in targets},
             fate |-> "clean"]]

CountRequest(s) ==
    IF tx[s].phase = "idle"
      THEN requests < MaxRequests /\ requests' = requests + 1
      ELSE UNCHANGED requests

\* Fault: the count includes the seat about to be taken.
NextStatusOffByOne == IF Cardinality(Confirmed) <= event.capacity THEN "CONFIRMED" ELSE "WAITLISTED"

\* The status createBooking gives the row, from the count in its snapshot.
NextStatus == IF Cardinality(Confirmed) < event.capacity THEN "CONFIRMED" ELSE "WAITLISTED"

\* createBooking writes: the event is there and has not started, the user holds
\* no confirmed row, and the row would change.
Bookable(u) ==
    /\ event.exists /\ ~event.started
    /\ status[u] \notin {"CONFIRMED", NextStatus}

Inserting(u) == \E s \in Slots : Running(s) /\ tx[s].op = "book" /\ u \in tx[s].targets

\* createdAt of a new row: after every row in the snapshot, in any order
\* (later: a set closed under "created after") with the inserts still running.
Stamp(u) ==
    IF status[u] # "NONE" \/ Inserting(u)
      THEN UNCHANGED older
      ELSE \E later \in SUBSET {v \in Users \ {u} : status[v] = "NONE" /\ Inserting(v)} :
             /\ \A v \in Users : older[v] \cap later # {} => v \in later \/ ~Inserting(v)
             /\ older' = [v \in Users |->
                   IF v = u THEN {x \in Users \ ({u} \cup later) : status[x] # "NONE" \/ Inserting(x)}
                   ELSE IF v \in later THEN older[v] \cup {u}
                   ELSE older[v] \ {u}]

BeginBook(s, u) ==
    /\ Ready(s, "book", {u})
    /\ Bookable(u)
    /\ CountRequest(s)
    /\ Start(s, "book", {u}, {"CONFIRMED"}, {u}, NextStatus)
    /\ Stamp(u)
    /\ UNCHANGED <<status, confirmations, event, jobs, crashes>>

Cancellable(u) == status[u] \in {"CONFIRMED", "WAITLISTED"}

BeginCancel(s, u) ==
    /\ Ready(s, "cancel", {u})
    /\ Cancellable(u)
    /\ CountRequest(s)
    /\ Start(s, "cancel", {u}, {}, {u}, "CANCELLED")
    /\ UNCHANGED <<rows, event, jobs, crashes>>

\* Fault: a retried cancellation that finds the row cancelled is not answered.
RetryEndsForBookings(s, u) ==
    /\ tx[s].phase = "backoff" /\ tx[s].keys = {u}
    /\ tx[s].op = "book" /\ ~Bookable(u)
    /\ tx' = [tx EXCEPT ![s] = Idle]
    /\ UNCHANGED <<rows, event, jobs, requests, crashes>>

\* A retried request finds in its new snapshot that there is nothing to write,
\* or answers 404 or 409.
RetryEnds(s, u) ==
    /\ tx[s].phase = "backoff" /\ tx[s].keys = {u}
    /\ \/ tx[s].op = "book" /\ ~Bookable(u)
       \/ tx[s].op = "cancel" /\ ~Cancellable(u)
    /\ tx' = [tx EXCEPT ![s] = Idle]
    /\ UNCHANGED <<rows, event, jobs, requests, crashes>>

\* Fault: the waitlist is read without its ORDER BY.
ChosenInAnyOrder(S) ==
    /\ Cardinality(S) <= OpenSeats
    /\ S = Waitlisted \/ Cardinality(S) = OpenSeats

\* The oldest waitlisted rows, as many as there are open seats.
Chosen(S) ==
    /\ \A v \in S : older[v] \cap Waitlisted \subseteq S
    /\ Cardinality(S) <= OpenSeats
    /\ S = Waitlisted \/ Cardinality(S) = OpenSeats

\* Fault: the waitlist is read outside the transaction.
PromoteScansCountOnly(S) == IF event.exists THEN {"CONFIRMED"} ELSE {}

\* What promoteWaitlist counts and reads; the LIMIT stops the second scan at
\* the last row it returns, unless the waitlist ends first.
PromoteScans(S) ==
    CASE ~event.exists -> {}
      [] event.exists /\ Cardinality(S) < OpenSeats -> {"CONFIRMED", "WAITLISTED"}
      [] OTHER -> {"CONFIRMED"}

\* A run of promoteWaitlist takes its snapshot.
Promote(s, op) ==
    /\ Ready(s, op, {})
    /\ \E S \in SUBSET Waitlisted :
         /\ IF event.exists /\ OpenSeats > 0 THEN Chosen(S) ELSE S = {}
         /\ Start(s, op, {}, PromoteScans(S), S, "CONFIRMED")
    /\ UNCHANGED <<rows, event, jobs, requests>>

Promoting == {s \in Slots : tx[s].op = "promote"}

\* The job of a row not done with that no other run holds.
BeginPromote(s) ==
    /\ tx[s].phase = "idle" => Cardinality(Promoting) < promotions
    /\ Promote(s, "promote")
    /\ UNCHANGED crashes

\* A run that will not settle its row: the row was done with and has been
\* dispatched again, or the run's lock on the job lapses before it ends and the
\* job goes to another run.
BeginRepeat(s) ==
    /\ IF tx[s].phase = "idle"
         THEN released /\ crashes < MaxCrashes /\ crashes' = crashes + 1
         ELSE UNCHANGED crashes
    /\ Promote(s, "repeat")

-----------------------------------------------------------------------------
(* Commit, abort and what follows                                           *)

\* Fault: wasConfirmed is computed from the row as updated.
ReleasesAfterUpdate(t) == t.op = "cancel" /\ t.to = "CONFIRMED"

\* cancelBooking found the row CONFIRMED: it writes a WAITLIST_PROMOTION row.
Releases(t) == t.op = "cancel" /\ "CONFIRMED" \in t.touched

\* The rows are written with their outbox rows, or not at all.  An insert needs
\* the event row its foreign key names.
Commit(s) ==
    /\ Running(s) /\ tx[s].fate # "doomed"
    /\ \A u \in tx[s].targets : status[u] = "NONE" => event.exists
    /\ status' = [u \in Users |-> IF u \in tx[s].targets THEN tx[s].to ELSE status[u]]
    /\ confirmations' = [u \in Users |->
          IF u \in tx[s].targets /\ tx[s].to = "CONFIRMED" THEN confirmations[u] + 1 ELSE confirmations[u]]
    /\ promotions' = IF Releases(tx[s]) THEN promotions + 1 ELSE promotions
    /\ released' = (released \/ Releases(tx[s]))
    /\ tx' = AfterCommit(s)
    /\ UNCHANGED <<older, event, failedPromotions, requests, crashes>>

\* A serialization failure, which takes a concurrent commit: the work is run
\* again after a backoff, unless this was the last attempt.  A second insert of
\* the same row may answer 409 instead.
Abort(s) ==
    /\ Running(s) /\ tx[s].fate # "clean"
    /\ \/ /\ tx[s].attempt < MaxAttempts
          /\ tx' = [tx EXCEPT ![s] = [Idle EXCEPT !.phase = "backoff", !.op = tx[s].op,
                                        !.keys = tx[s].keys, !.attempt = tx[s].attempt]]
       \/ /\ \/ tx[s].attempt = MaxAttempts
             \/ tx[s].op = "book" /\ \E u \in tx[s].targets : status[u] # "NONE"
          /\ tx' = [tx EXCEPT ![s] = Idle]
    /\ UNCHANGED <<rows, event, jobs, requests, crashes>>

\* The last attempt of the queue has failed: the row is recorded FAILED.
RecordFailed(s) ==
    /\ tx[s].op = "promote"
    /\ promotions' = promotions - 1
    /\ failedPromotions' = failedPromotions + 1
    /\ UNCHANGED released

\* A promotion that has used up its serialization retries in that attempt.
GiveUp(s) ==
    /\ Running(s) /\ tx[s].fate # "clean" /\ tx[s].attempt = MaxAttempts
    /\ RecordFailed(s)
    /\ tx' = [tx EXCEPT ![s] = Idle]
    /\ UNCHANGED <<rows, event, requests, crashes>>

\* Fault: every request settles a promotion.
FinishSettling(s) ==
    /\ tx[s].phase = "committed"
    /\ tx' = [tx EXCEPT ![s] = Idle]
    /\ promotions' = promotions - 1
    /\ UNCHANGED <<rows, event, failedPromotions, released, requests, crashes>>

\* The request is answered, the job completed and its outbox row done with.
Finish(s) ==
    /\ tx[s].phase = "committed"
    /\ tx' = [tx EXCEPT ![s] = Idle]
    /\ promotions' = IF tx[s].op = "promote" THEN promotions - 1 ELSE promotions
    /\ UNCHANGED <<rows, event, failedPromotions, released, requests, crashes>>

\* The process stops, Prisma's transaction times out, or a promotion fails
\* after its commit: an uncommitted transaction is rolled back; a promotion job
\* not completed runs again, unless this was its last attempt.
Crash(s) ==
    /\ tx[s].phase # "idle" /\ crashes < MaxCrashes
    /\ crashes' = crashes + 1
    /\ tx' = [tx EXCEPT ![s] = Idle]
    /\ UNCHANGED jobs \/ RecordFailed(s)
    /\ UNCHANGED <<rows, event, requests>>

\* startsAt passes: createBooking refuses, cancellation and promotion go on.
EventStarts ==
    /\ event.exists /\ ~event.started
    /\ event' = [event EXCEPT !.started = TRUE]
    /\ UNCHANGED <<rows, jobs, tx, requests, crashes>>

Request(s) == \E u \in Users : BeginBook(s, u) \/ BeginCancel(s, u) \/ RetryEnds(s, u)

Step(s) ==
    \/ Request(s) \/ BeginPromote(s) \/ BeginRepeat(s)
    \/ Commit(s) \/ Abort(s) \/ GiveUp(s) \/ Finish(s)

Next == EventStarts \/ \E s \in Slots : Step(s) \/ Crash(s)

Spec == Init /\ [][Next]_vars

\* What is under way goes on, and the worker takes waiting jobs.
Fairness ==
    /\ \A s \in Slots : WF_vars(tx[s].phase # "idle" /\ Step(s))
    /\ WF_vars(\E s \in Slots : BeginPromote(s))

FairSpec == Spec /\ Fairness

-----------------------------------------------------------------------------
(* What makes it correct                                                    *)

\* The event never has more confirmed bookings than seats, whatever the
\* interleaving of bookings, cancellations and promotions.
NoOversell == Cardinality(Confirmed) <= event.capacity

\* While seats are free and users wait, a promotion job exists that has not
\* finished, or one has been given up: no commit order of a booking that joins
\* the waitlist, a cancellation and a promotion loses the seat.
PromotionOwed ==
    event.exists /\ OpenSeats > 0 /\ Waitlisted # {} => promotions + failedPromotions > 0

\* A promotion never passes over an earlier row: when it commits, nobody left
\* on the waitlist was created before anyone it promoted, although bookings may
\* have joined the waitlist since it read it.
FirstComeFirstServed ==
    [][\A s \in Slots :
         Running(s) /\ tx[s].op \in PromoteOps /\ tx'[s].phase = "committed"
           => \A u \in tx[s].targets : older[u] \cap Waitlisted' = {}]_vars

\* The strengthening of NoOversell: a transaction that is about to grant seats
\* and may still commit has seats for everyone it grants one.
GrantsFit ==
    \A s \in Slots :
        Running(s) /\ tx[s].fate # "doomed" /\ tx[s].to = "CONFIRMED" /\ tx[s].targets # {}
          => Cardinality(Confirmed \cup tx[s].targets) <= event.capacity

\* What a slot holds: nothing when idle, attempts left when it backs off, and a
\* grant has read the confirmed rows it adds to.
TxShape ==
    \A s \in Slots :
        /\ tx[s].phase = "idle" => tx[s] = Idle
        /\ tx[s].phase = "backoff" => tx[s].attempt < MaxAttempts
        /\ Running(s) /\ tx[s].to = "CONFIRMED" /\ tx[s].targets # {}
             => "CONFIRMED" \in tx[s].scans \cap tx[s].touched

\* Every promotion under way that will settle a row stands for one of its own.
JobsCovered == Cardinality(Promoting) <= promotions

\* The inductive invariant behind TypeOK and NoOversell.
Inductive == TypeOK /\ TxShape /\ JobsCovered /\ GrantsFit /\ NoOversell

\* The strengthening of PromotionOwed, FirstComeFirstServed and
\* ImplementsLedger, for the transactions that may still commit.
Valid(s) == Running(s) /\ tx[s].fate # "doomed"

\* What such a transaction read of the rows it writes is still so.
Decided ==
    \A s \in Slots : Valid(s) =>
        /\ tx[s].touched = IF tx[s].targets = {} THEN {}
                           ELSE {tx[s].to} \cup {status[u] : u \in tx[s].targets}
        /\ \/ /\ tx[s].op = "book" /\ tx[s].scans = {"CONFIRMED"}
              /\ tx[s].to \in {"CONFIRMED", "WAITLISTED"}
              /\ \E u \in Users : tx[s].targets = {u} /\ status[u] \notin {"CONFIRMED", tx[s].to}
           \/ /\ tx[s].op = "cancel" /\ tx[s].to = "CANCELLED"
              /\ \E u \in Users : tx[s].targets = {u} /\ Cancellable(u)
           \/ tx[s].op \in PromoteOps /\ tx[s].to = "CONFIRMED" /\ tx[s].targets \subseteq Waitlisted

\* Nobody waits who was created before someone a promotion is about to promote.
InTurn ==
    \A s \in Slots : Valid(s) /\ tx[s].op \in PromoteOps =>
        \A u \in tx[s].targets : older[u] \cap Waitlisted \subseteq tx[s].targets

\* A booking about to join the waitlist found the event full: if a seat is free
\* now, a cancellation has written what it read.
Queueing(s) == Valid(s) /\ tx[s].to = "WAITLISTED"
QueuersMet == \A s \in Slots : Queueing(s) /\ OpenSeats > 0 => tx[s].fate = "out"

\* Promotions that have done what they can, and those under way that will leave
\* a seat free: beside somebody who waits now, or without having seen the end
\* of the waitlist, which somebody may join.
Settling == {s \in Promoting : tx[s].phase = "committed"}
LeavesSeat(s) == Valid(s) /\ Cardinality(Confirmed \cup tx[s].targets) < event.capacity
Short  == {s \in Promoting : LeavesSeat(s) /\ ~(Waitlisted \subseteq tx[s].targets)}
Narrow == {s \in Promoting : LeavesSeat(s) /\ "WAITLISTED" \notin tx[s].scans}

Owing(spent) == promotions + failedPromotions > Cardinality(spent)

\* A promotion is owed that is none of those, while a seat is free and somebody
\* waits, or is about to.
WaitersOwed  == event.exists /\ OpenSeats > 0 /\ Waitlisted # {} => Owing(Settling \cup Short)
QueuersOwed  == event.exists /\ OpenSeats > 0 /\ (\E s \in Slots : Queueing(s)) => Owing(Settling \cup Narrow)

Promising == Inductive /\ Decided /\ InTurn /\ QueuersMet /\ WaitersOwed /\ QueuersOwed

\* Every request ends: serialization retries are bounded.
RequestsEnd == \A s \in Slots : tx[s].phase # "idle" ~> tx[s].phase = "idle"

\* A free seat does not stay free while users wait, unless a promotion job has
\* been given up.
SeatsRefilled ==
    OpenSeats > 0 /\ Waitlisted # {}
      ~> OpenSeats = 0 \/ Waitlisted = {} \/ failedPromotions > 0

-----------------------------------------------------------------------------
(* The ledger these transactions implement                                  *)

Ledger == INSTANCE SeatLedger WITH
    Members <- Users,
    capacity <- event.capacity,
    seated <- Confirmed,
    waiting <- Waitlisted,
    notices <- confirmations,
    debts <- promotions,
    lost <- failedPromotions

\* The interleaved transactions amount to one decision at a time on the seat
\* ledger: a commit is a grant, a wait, a release, a departure or a promotion,
\* with exactly the outbox rows it owes, and every other step changes nothing,
\* settles or gives up one promotion, although a promotion may run twice.
ImplementsLedger == Ledger!Spec
=============================================================================

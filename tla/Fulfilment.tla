----------------------------- MODULE Fulfilment -----------------------------
(***************************************************************************)
(* The BOOKING_CONFIRMATION jobs behind the bookings of module Bookings:   *)
(* confirmBooking reads the booking and, when it is still CONFIRMED, sends *)
(* the mail afterwards, while users cancel and book again.  Every row of   *)
(* the outbox is one job; module Outbox has how a row reaches the queue    *)
(* and runs at least once, here a row not done with may be taken, and a    *)
(* row may run once more: it is dispatched again after it was done with,   *)
(* or the lock of a run on its job lapses.                                 *)
(***************************************************************************)
EXTENDS Bookings

CONSTANTS
    Mailers     \* jobs the worker runs at a time (concurrency 5 in the code)

ASSUME MailAssumption == IsFiniteSet(Mailers)

VARIABLES
    job,        \* what each mailer is doing; seen: the grants before its read;
                \* holds: it holds its row and will settle it
    settled,    \* rows whose job has completed, of each user's booking
    abandoned,  \* rows recorded FAILED before a run had completed
    mails,      \* mails that left, to each user
    told,       \* the latest grant a mail to the user was sent for
    extra       \* history: runs of the user's jobs that may have mailed once too often

mailVars == <<job, settled, abandoned, mails, told, extra>>
allVars == <<vars, mailVars>>

Job == [phase : {"idle", "sending", "returned"}, users : SUBSET Users, seen : Nat, holds : BOOLEAN]
NoJob == [phase |-> "idle", users |-> {}, seen |-> 0, holds |-> FALSE]

FulfilmentInit ==
    /\ Init
    /\ job = [m \in Mailers |-> NoJob]
    /\ settled = [u \in Users |-> 0] /\ abandoned = [u \in Users |-> 0]
    /\ mails = [u \in Users |-> 0] /\ told = [u \in Users |-> 0] /\ extra = [u \in Users |-> 0]

\* The runs that hold a row of the user's booking.
Active(u) == {m \in Mailers : u \in job[m].users /\ job[m].holds}

\* Fault: a job under way may be taken by another mailer.
WaitingUnlocked(u) == confirmations[u] - settled[u] - abandoned[u]

\* Rows of the user's booking that are neither done with nor under way.
Waiting(u) == confirmations[u] - settled[u] - abandoned[u] - Cardinality(Active(u))

\* Fault: a user who has had a mail gets no other.
ReturnsOnceMailed(u) == status[u] # "CONFIRMED" \/ told[u] > 0

\* confirmBooking has nothing to do: the booking is no longer CONFIRMED.
Returns(u) == status[u] # "CONFIRMED"

\* confirmBooking reads the booking.
Read(m, u, holds) ==
    /\ job[m].phase = "idle"
    /\ job' = [job EXCEPT ![m] = [phase |-> IF Returns(u) THEN "returned" ELSE "sending",
                                  users |-> {u}, seen |-> confirmations[u], holds |-> holds]]
    /\ UNCHANGED <<rows, event, jobs, tx, requests, settled, abandoned, mails, told>>

\* The job of a row not done with is taken.
ReadBooking(m, u) ==
    /\ Waiting(u) > 0
    /\ Read(m, u, TRUE)
    /\ UNCHANGED <<crashes, extra>>

\* A run that will not settle its row, as in BeginRepeat.
ReadAgain(m, u) ==
    /\ confirmations[u] > 0 /\ crashes < MaxCrashes
    /\ crashes' = crashes + 1
    /\ extra' = [extra EXCEPT ![u] = @ + 1]
    /\ Read(m, u, FALSE)

\* The mail leaves, with what was read.
Deliver(m) ==
    \E u \in job[m].users :
        /\ mails' = [mails EXCEPT ![u] = @ + 1]
        /\ told' = [told EXCEPT ![u] = IF job[m].seen > @ THEN job[m].seen ELSE @]

Send(m) ==
    /\ job[m].phase = "sending"
    /\ Deliver(m)
    /\ job' = [job EXCEPT ![m].phase = "returned"]
    /\ UNCHANGED <<vars, settled, abandoned, extra>>

Complete(m) ==
    /\ job[m].phase = "returned"
    /\ IF job[m].holds
         THEN \E u \in job[m].users : settled' = [settled EXCEPT ![u] = @ + 1]
         ELSE UNCHANGED settled
    /\ job' = [job EXCEPT ![m] = NoJob]
    /\ UNCHANGED <<vars, abandoned, mails, told, extra>>

\* Fault: an attempt recorded FAILED goes on.
AttemptGoesOn(m) ==
    /\ job[m].phase # "idle" /\ crashes < MaxCrashes
    /\ crashes' = crashes + 1
    /\ \E u \in job[m].users : abandoned' = [abandoned EXCEPT ![u] = @ + 1]
    /\ UNCHANGED <<rows, event, jobs, tx, requests, job, settled, mails, told, extra>>

\* The attempt fails before the mail left or after it (an error of the mail
\* server, a worker that stops): the row waits again, or this was the last
\* attempt.
AttemptFails(m) ==
    /\ job[m].phase # "idle" /\ crashes < MaxCrashes
    /\ crashes' = crashes + 1
    /\ job' = [job EXCEPT ![m] = NoJob]
    /\ \/ UNCHANGED abandoned
       \/ /\ job[m].holds
          /\ \E u \in job[m].users : abandoned' = [abandoned EXCEPT ![u] = @ + 1]
    /\ extra' = [u \in Users |-> IF u \in job[m].users /\ job[m].phase = "returned"
                                   THEN extra[u] + 1 ELSE extra[u]]
    /\ UNCHANGED <<rows, event, jobs, tx, requests, settled, mails, told>>

MailStep(m) == (\E u \in Users : ReadBooking(m, u)) \/ Send(m) \/ Complete(m)

FulfilmentNext ==
    \/ Next /\ UNCHANGED mailVars
    \/ \E m \in Mailers : MailStep(m) \/ AttemptFails(m) \/ \E u \in Users : ReadAgain(m, u)

FulfilmentSpec == FulfilmentInit /\ [][FulfilmentNext]_allVars

\* Bookings go on as before, and the worker's mailers go on and take the rows
\* of every booking.
FairFulfilmentSpec ==
    /\ FulfilmentSpec
    /\ Fairness
    /\ \A m \in Mailers : WF_allVars(Send(m) \/ Complete(m))
    /\ \A u \in Users : WF_allVars(\E m \in Mailers : ReadBooking(m, u))

-----------------------------------------------------------------------------
(* What makes it correct                                                    *)

\* Types, and the accounts: a row is settled or given up once, however often
\* its job runs, and no mail is sent for a grant that was not given.
FulfilmentTypeOK ==
    /\ TypeOK
    /\ job \in [Mailers -> Job]
    /\ \A n \in {settled, abandoned, mails, told, extra} : n \in [Users -> Nat]
    /\ \A u \in Users :
         /\ told[u] <= confirmations[u]
         /\ settled[u] + abandoned[u] + Cardinality(Active(u)) <= confirmations[u]

\* No more mails than grants, but for one by each run that repeats another and
\* by each attempt that failed once confirmBooking had returned: the two jobs
\* of a booking granted twice do not multiply, whichever of the grants each of
\* them reads.
MailsBounded == \A u \in Users : mails[u] <= confirmations[u] + extra[u]

\* The strengthening of both: a job under way is one user's and has seen no
\* grant that was not given, and a mail was sent by a run that settled its row,
\* by one that holds it and has returned, or by one of the extra ones.
JobsOfOne ==
    \A m \in Mailers :
        IF job[m].phase = "idle" THEN job[m].users = {}
        ELSE \E u \in Users : job[m].users = {u} /\ job[m].seen <= confirmations[u]

\* Extra runs that have not returned may still mail.
Returned(u) == {m \in Active(u) : job[m].phase = "returned"}
Repeating(u) == {m \in Mailers : u \in job[m].users /\ ~job[m].holds /\ job[m].phase = "sending"}
MailsExplained ==
    \A u \in Users :
        mails[u] + Cardinality(Repeating(u)) <= settled[u] + Cardinality(Returned(u)) + extra[u]

FulfilmentInductive == Inductive /\ FulfilmentTypeOK /\ JobsOfOne /\ MailsExplained

\* A booking that stays CONFIRMED gets a mail that left after its last grant
\* was read, although jobs of earlier grants, cancellations and repeats race
\* it, unless a row of it was given up.
ConfirmedGetsMail ==
    \A u \in Users :
        status[u] = "CONFIRMED"
          ~> status[u] # "CONFIRMED" \/ told[u] = confirmations[u] \/ abandoned[u] > 0
=============================================================================

---------------------------- MODULE MCFulfilment ----------------------------
(***************************************************************************)
(* An instance of Fulfilment for TLC.  Bookings and mails are large beside *)
(* each other, so a behaviour is of one part of the instance, which bounds *)
(* the users, slots and mailers that move in it and its requests.          *)
(***************************************************************************)
EXTENDS Fulfilment

CONSTANTS u1, s1

VARIABLE part

One == {1}

\* Overlapping requests and promotions, without the mails; mails of two users,
\* whose transactions do not overlap; mails of one who books again and again.
Parts == {
    [users |-> Users, slots |-> Slots, mailers |-> {}, requests |-> 3, crashes |-> MaxCrashes],
    [users |-> Users, slots |-> {s1}, mailers |-> Mailers, requests |-> 3, crashes |-> 1],
    [users |-> {u1}, slots |-> {s1}, mailers |-> Mailers, requests |-> MaxRequests, crashes |-> MaxCrashes]}

InPart ==
    /\ part' = part
    /\ requests' <= part.requests /\ crashes' <= part.crashes
    /\ \A s \in Slots : tx'[s].targets \subseteq part.users
    /\ \A s \in Slots \ part.slots : tx'[s].phase = "idle"
    /\ \A m \in Mailers \ part.mailers : job'[m].phase = "idle"

partVars == <<part, allVars>>

PartInit == FulfilmentInit /\ part \in Parts
PartNext == FulfilmentNext /\ InPart

\* Fairness and that of FairFulfilmentSpec; what is under way is in the part.
PartFairness ==
    /\ \A s \in Slots : WF_vars(tx[s].phase # "idle" /\ Step(s))
    /\ WF_vars(\E s \in part.slots : BeginPromote(s))
    /\ \A m \in Mailers : WF_allVars(Send(m) \/ Complete(m))
    /\ \A u \in Users : WF_allVars(\E m \in part.mailers : ReadBooking(m, u))

PartSpec == PartInit /\ [][PartNext]_partVars /\ PartFairness

\* ConfirmedGetsMail, where there are mailers: a booking that stays CONFIRMED
\* gets a mail that left after its last grant was read, although jobs of earlier
\* grants, cancellations and repeats race it, unless a row of it was given up.
ConfirmedUserGetsMail == part.mailers # {} => ConfirmedGetsMail
=============================================================================

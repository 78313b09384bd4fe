------------------------------- MODULE Events -------------------------------
(***************************************************************************)
(* The event row and its cached detail, over the bookings of module        *)
(* Bookings.  Organizers change the capacity (updateEvent) or delete the   *)
(* event (deleteEvent): both check the cached detail first and write later *)
(* in a statement of their own, at READ COMMITTED, so that no concurrent   *)
(* booking transaction is aborted for having read the old row.  Anyone may *)
(* read the detail (getEvent), filling the cache on a miss; every write    *)
(* invalidates it after its commit.                                        *)
(*                                                                         *)
(* A cache entry may also expire at any time.  Locks between the readers   *)
(* that miss are in module EventCache: here a reader that misses may or    *)
(* may not be the one that stores what it loaded.  A patch of startsAt is  *)
(* left out, and with it every field but the capacity.                     *)
(***************************************************************************)
EXTENDS Bookings

CONSTANTS
    Readers,        \* getEvent calls of the public, in flight
    Editors,        \* updateEvent and deleteEvent calls, in flight
    NewCapacities,  \* capacities a patch may ask for
    MaxEdits        \* bound: edits started

ASSUME EditAssumption == NewCapacities \subseteq Nat /\ MaxEdits \in Nat

VARIABLES
    detail,     \* the cached detail: {} or a set of one view
    call,       \* the calls of readers and editors
    edits,      \* counter for MaxEdits
    raced       \* history: a patch lowered the capacity on an outdated count, or under a running grant

eventVars == <<detail, call, edits, raced>>
allVars == <<vars, eventVars>>

Callers == Readers \cup Editors
View == [capacity : Nat, confirmed : Nat]
Call == [phase : {"idle", "filling", "viewed", "checked", "written"},
         view : View, op : {"get", "patch", "delete"}, to : Nat]

NoView == [capacity |-> 0, confirmed |-> 0]
NoCall == [phase |-> "idle", view |-> NoView, op |-> "get", to |-> 0]

EventsTypeOK ==
    /\ TypeOK
    /\ detail \subseteq View /\ Cardinality(detail) <= 1
    /\ call \in [Callers -> Call]
    /\ edits \in 0..MaxEdits
    /\ raced \in BOOLEAN

EventsInit ==
    /\ Init
    /\ detail = {}
    /\ call = [c \in Callers |-> NoCall]
    /\ edits = 0
    /\ raced = FALSE

\* enrichAvailability of the row and its confirmed count, read in one query.
Loaded == [capacity |-> event.capacity, confirmed |-> Cardinality(Confirmed)]

At(c, phase) == call[c].phase = phase
Go(c, phase) == call' = [call EXCEPT ![c].phase = phase]
Leave(c) == call' = [call EXCEPT ![c] = NoCall]

-----------------------------------------------------------------------------
(* getEvent                                                                 *)

\* Every call begins with the detail: from the cache, or else from the
\* database, which answers 404 when there is no event.
Look(c, op, to) ==
    /\ At(c, "idle")
    /\ detail # {} \/ event.exists
    /\ \E v \in IF detail # {} THEN detail ELSE {Loaded} :
         call' = [call EXCEPT ![c] =
             [phase |-> IF detail # {} THEN "viewed" ELSE "filling", view |-> v, op |-> op, to |-> to]]

Get(c) ==
    /\ c \in Readers
    /\ Look(c, "get", 0)
    /\ UNCHANGED <<vars, detail, edits, raced>>

\* The owner of the miss lock stores what it loaded, others do not; nor does an
\* owner whose write fails.
Fill(c) ==
    /\ At(c, "filling")
    /\ Go(c, "viewed")
    /\ detail' \in {detail, {call[c].view}}
    /\ UNCHANGED <<vars, edits, raced>>

Answer(c) ==
    /\ At(c, "viewed") /\ call[c].op = "get"
    /\ Leave(c)
    /\ UNCHANGED <<vars, detail, edits, raced>>

Expire ==
    /\ detail # {}
    /\ detail' = {}
    /\ UNCHANGED <<vars, call, edits, raced>>

-----------------------------------------------------------------------------
(* updateEvent and deleteEvent                                              *)

BeginEdit(c, op, to) ==
    /\ c \in Editors /\ edits < MaxEdits
    /\ Look(c, op, to)
    /\ edits' = edits + 1
    /\ UNCHANGED <<vars, detail, raced>>

\* Fault: the capacity is not compared with the confirmed count.
AcceptsAnyCapacity(c) == ~event.started

\* updateEvent's checks, on the view; deleteEvent's, on a fresh count by status.
AcceptsPatch(c) == ~event.started /\ call[c].to >= call[c].view.confirmed
AcceptsDelete == Confirmed \cup Waitlisted = {}

Accepts(c) ==
    \/ call[c].op = "patch" /\ AcceptsPatch(c)
    \/ call[c].op = "delete" /\ AcceptsDelete

Check(c) ==
    /\ At(c, "viewed") /\ call[c].op # "get"
    /\ IF Accepts(c) THEN Go(c, "checked") ELSE Leave(c)
    /\ UNCHANGED <<vars, detail, edits, raced>>

Granting == \E s \in Slots :
    Running(s) /\ tx[s].fate # "doomed" /\ tx[s].to = "CONFIRMED" /\ tx[s].targets # {}

\* The patch lowers the capacity while the count it was checked against is
\* outdated, or while a transaction holds a grant decided under the old capacity.
Races(c) ==
    /\ call[c].to < event.capacity
    /\ Granting \/ call[c].view.confirmed < Cardinality(Confirmed)

\* The update statement; it throws when the event is gone.
Patch(c) ==
    /\ At(c, "checked") /\ call[c].op = "patch"
    /\ IF event.exists
         THEN /\ event' = [event EXCEPT !.capacity = call[c].to]
              /\ raced' = (raced \/ Races(c))
              /\ Go(c, "written")
         ELSE Leave(c) /\ UNCHANGED <<event, raced>>
    /\ UNCHANGED <<rows, jobs, tx, requests, crashes, detail, edits>>

HasRows == \E u \in Users : status[u] # "NONE"

\* The delete statement; the foreign key of the bookings restricts it, cancelled
\* rows included, and the error is not handled.
Delete(c) ==
    /\ At(c, "checked") /\ call[c].op = "delete"
    /\ IF event.exists /\ ~HasRows
         THEN event' = [event EXCEPT !.exists = FALSE] /\ Go(c, "written")
         ELSE Leave(c) /\ UNCHANGED event
    /\ UNCHANGED <<rows, jobs, tx, requests, crashes, detail, edits, raced>>

\* eventCache.invalidateEvent, after the write.
EditEnds(c) ==
    /\ At(c, "written")
    /\ detail' = {}
    /\ Leave(c)
    /\ UNCHANGED <<vars, edits, raced>>

\* The process stops, or the invalidation fails, which is logged only.
CallCrash(c) ==
    /\ ~At(c, "idle") /\ crashes < MaxCrashes
    /\ crashes' = crashes + 1
    /\ Leave(c)
    /\ UNCHANGED <<rows, event, jobs, tx, requests, detail, edits, raced>>

-----------------------------------------------------------------------------
(* The booking transactions, seen from here                                 *)

\* A booking whose event was deleted before its insert fails on the foreign key.
InsertFails(s) ==
    /\ Running(s) /\ ~event.exists
    /\ \E u \in tx[s].targets : status[u] = "NONE"
    /\ tx' = [tx EXCEPT ![s] = Idle]
    /\ UNCHANGED <<rows, event, jobs, requests, crashes, eventVars>>

\* createBooking, cancelBooking and a promotion that promoted someone invalidate
\* the detail after their commit and before they finish.
FinishInvalidating(s) ==
    /\ Finish(s)
    /\ detail' = IF tx[s].op \in PromoteOps /\ tx[s].targets = {} THEN detail ELSE {}
    /\ UNCHANGED <<call, edits, raced>>

BookingStep(s) ==
    \/ /\ Request(s) \/ BeginPromote(s) \/ BeginRepeat(s) \/ Commit(s) \/ Abort(s) \/ GiveUp(s)
       /\ UNCHANGED eventVars
    \/ FinishInvalidating(s)
    \/ InsertFails(s)

CallStep(c) ==
    \/ Fill(c) \/ Answer(c) \/ Check(c) \/ Patch(c) \/ Delete(c) \/ EditEnds(c)

EventsNext ==
    \/ EventStarts /\ UNCHANGED eventVars
    \/ \E s \in Slots : BookingStep(s) \/ (Crash(s) /\ UNCHANGED eventVars)
    \/ \E c \in Callers : Get(c) \/ CallStep(c) \/ CallCrash(c) \/ BeginEdit(c, "delete", 0)
    \/ \E c \in Editors, n \in NewCapacities : BeginEdit(c, "patch", n)
    \/ Expire

EventsSpec == EventsInit /\ [][EventsNext]_allVars

EventsFairness ==
    /\ \A s \in Slots : WF_allVars(tx[s].phase # "idle" /\ BookingStep(s))
    /\ WF_allVars((\E s \in Slots : BeginPromote(s)) /\ UNCHANGED eventVars)
    /\ \A c \in Callers : WF_allVars(CallStep(c))

FairEventsSpec == EventsSpec /\ EventsFairness

-----------------------------------------------------------------------------
(* What makes it correct                                                    *)

\* The event is oversold only through a patch that lowered its capacity on an
\* outdated count or while a grant was under way: bookings, cancellations,
\* promotions, deletions and patches that raise the capacity never do it.
OversoldOnlyByRacedPatch == raced \/ NoOversell

\* The strengthening of both: a patch about to be written has passed its check,
\* and until a patch has raced, the grants under way fit the capacity.
PatchesChecked ==
    \A c \in Callers : At(c, "checked") /\ call[c].op = "patch" => call[c].to >= call[c].view.confirmed
GrantsFitUnlessRaced == raced \/ (GrantsFit /\ NoOversell)

EventsInductive ==
    /\ EventsTypeOK /\ TxShape /\ JobsCovered
    /\ PatchesChecked /\ GrantsFitUnlessRaced
=============================================================================

---------------------------- MODULE EventsProofs ----------------------------
(***************************************************************************)
(* Proofs about module Events: the event is never oversold but by a patch  *)
(* that raced.                                                             *)
(*                                                                         *)
(* Every step is a step of the bookings, which module BookingsProofs has,  *)
(* or one that module Events adds.  A patch that lowers the capacity       *)
(* without racing finds no grant under way and a count as of its check, so *)
(* the check it passed (PatchesChecked) is what NoOversell says.           *)
(***************************************************************************)
EXTENDS Events, BookingsProofs

-----------------------------------------------------------------------------
(* What a step does to the bookings                                         *)

\* A step of Events is one of the bookings, or one of the four that are not.
LEMMA StepsOfBookings ==
    ASSUME [EventsNext]_allVars
    PROVE  \/ [Next]_vars /\ UNCHANGED raced
           \/ \E c \in Callers : Patch(c) \/ Delete(c) \/ CallCrash(c)
           \/ \E s \in Slots : InsertFails(s)
<1>1. CASE EventStarts /\ UNCHANGED eventVars
  BY <1>1 DEF Next, eventVars
<1>2. ASSUME NEW s \in Slots, BookingStep(s), ~InsertFails(s) PROVE Next /\ UNCHANGED raced
  <2>1. CASE FinishInvalidating(s)
    BY <2>1 DEF FinishInvalidating, Next, Step
  <2>2. CASE Request(s) \/ BeginPromote(s) \/ BeginRepeat(s) \/ Commit(s) \/ Abort(s) \/ GiveUp(s)
    BY <1>2, <2>2 DEF BookingStep, FinishInvalidating, eventVars, Next, Step
  <2>3. QED
    BY <1>2, <2>1, <2>2 DEF BookingStep
<1>3. ASSUME NEW s \in Slots, Crash(s) /\ UNCHANGED eventVars PROVE Next /\ UNCHANGED raced
  BY <1>3 DEF Next, eventVars
<1>4. ASSUME NEW c \in Callers, Get(c) \/ Fill(c) \/ Answer(c) \/ Check(c) \/ EditEnds(c)
      PROVE  UNCHANGED vars /\ UNCHANGED raced
  BY <1>4 DEF Get, Fill, Answer, Check, EditEnds
<1>5. ASSUME NEW c, NEW op, NEW to, BeginEdit(c, op, to) PROVE UNCHANGED vars /\ UNCHANGED raced
  BY <1>5 DEF BeginEdit
<1>6. CASE Expire
  BY <1>6 DEF Expire
<1>7. CASE UNCHANGED allVars
  BY <1>7 DEF allVars, eventVars
<1>8. QED
  BY <1>1, <1>2, <1>3, <1>4, <1>5, <1>6, <1>7 DEF EventsNext, CallStep

\* The four leave the rows, and the transactions but for one that fails.
LEMMA StepsOfEvents ==
    ASSUME EventsTypeOK,
           \/ \E c \in Callers : Patch(c) \/ Delete(c) \/ CallCrash(c)
           \/ \E s \in Slots : InsertFails(s)
    PROVE  /\ UNCHANGED <<status, older, confirmations, jobs, requests>>
           /\ tx' = tx \/ \E s \in Slots : tx' = [tx EXCEPT ![s] = Idle]
           /\ event' \in Event /\ crashes' \in 0..MaxCrashes
<1> USE DEF EventsTypeOK, TypeOK
<1>1. ASSUME NEW c \in Callers, Patch(c)
      PROVE  event' \in Event /\ UNCHANGED <<rows, jobs, tx, requests, crashes>>
  <2>1. call[c].to \in Nat
    BY DEF Call
  <2>2. QED
    BY <1>1, <2>1 DEF Patch, Event
<1>2. ASSUME NEW c \in Callers, Delete(c)
      PROVE  event' \in Event /\ UNCHANGED <<rows, jobs, tx, requests, crashes>>
  BY <1>2 DEF Delete, Event
<1>3. ASSUME NEW c \in Callers, CallCrash(c)
      PROVE  crashes' \in 0..MaxCrashes /\ UNCHANGED <<rows, event, jobs, tx, requests>>
  BY <1>3, BoundsAssumption DEF CallCrash
<1>4. ASSUME NEW s \in Slots, InsertFails(s)
      PROVE  tx' = [tx EXCEPT ![s] = Idle] /\ UNCHANGED <<rows, event, jobs, requests, crashes>>
  BY <1>4 DEF InsertFails
<1>5. QED
  BY <1>1, <1>2, <1>3, <1>4 DEF rows

\* So every step keeps what the bookings keep even when oversold.
LEMMA WellFormedStep ==
    ASSUME EventsTypeOK, TxShape, JobsCovered, [EventsNext]_allVars
    PROVE  WellFormed'
<1>1. WellFormed
  BY DEF EventsTypeOK, WellFormed
<1>2. CASE [Next]_vars
  BY <1>1, <1>2, TypeStep, ShapeStep, JobsStep DEF WellFormed
<1>3. CASE \/ \E c \in Callers : Patch(c) \/ Delete(c) \/ CallCrash(c)
           \/ \E s \in Slots : InsertFails(s)
  <2>1. /\ UNCHANGED <<status, older, confirmations, jobs, requests>>
        /\ event' \in Event /\ crashes' \in 0..MaxCrashes
        /\ UNCHANGED <<promotions, failedPromotions, released>>
        /\ promotions \in Nat /\ tx \in [Slots -> Transaction]
    BY <1>3, StepsOfEvents DEF EventsTypeOK, TypeOK, jobs
  <2>2. CASE tx' = tx
    <3>1. TypeOK' /\ TxShape'
      BY <1>1, <2>1, <2>2 DEF WellFormed, TypeOK, TxShape, Running, Idle
    <3>2. JobsCovered'
      BY <1>1, <2>1, <2>2 DEF WellFormed, JobsCovered, Promoting
    <3>3. QED
      BY <3>1, <3>2 DEF WellFormed
  <2>3. ASSUME NEW s \in Slots, tx' = [tx EXCEPT ![s] = Idle] PROVE WellFormed'
    <3>1. TypeOK'
      BY <1>1, <2>1, <2>3, IdleType DEF WellFormed, TypeOK
    <3>2. TxShape'
      BY <1>1, <2>3, RestShape DEF WellFormed
    <3>3. JobsCovered'
      BY <1>1, <2>1, <2>3, CoveredStill DEF WellFormed, Idle
    <3>4. QED
      BY <3>1, <3>2, <3>3 DEF WellFormed
  <2>4. QED
    BY <1>3, <2>2, <2>3, StepsOfEvents
<1>4. QED
  BY <1>2, <1>3, StepsOfBookings

-----------------------------------------------------------------------------
(* Types                                                                    *)

\* What a reader takes from the cache or from the database is a view.
LEMMA LookType ==
    ASSUME EventsTypeOK, NEW c \in Callers, NEW op \in {"get", "patch", "delete"}, NEW to \in Nat,
           Look(c, op, to)
    PROVE  call' \in [Callers -> Call]
<1>1. Cardinality(Confirmed) \in Nat
  BY UsersCard DEF Confirmed
<1>2. Loaded \in View
  BY <1>1 DEF Loaded, View, EventsTypeOK, TypeOK, Event
<1>3. PICK v \in View : call' = [call EXCEPT ![c] =
        [phase |-> IF detail # {} THEN "viewed" ELSE "filling", view |-> v, op |-> op, to |-> to]]
  BY <1>2 DEF Look, EventsTypeOK
<1>4. [phase |-> IF detail # {} THEN "viewed" ELSE "filling", view |-> v, op |-> op, to |-> to] \in Call
  BY DEF Call
<1>5. QED
  BY <1>3, <1>4 DEF EventsTypeOK

\* A call that goes on, and one that ends, stay well-formed.
LEMMA CallType ==
    ASSUME EventsTypeOK, NEW c \in Callers,
           \/ call' = call
           \/ \E phase \in {"viewed", "checked", "written"} : Go(c, phase)
           \/ Leave(c)
    PROVE  call' \in [Callers -> Call]
<1>1. NoCall \in Call
  BY DEF NoCall, NoView, View, Call
<1>2. ASSUME NEW phase \in {"viewed", "checked", "written"}, Go(c, phase)
      PROVE  call' \in [Callers -> Call]
  <2>1. [call[c] EXCEPT !.phase = phase] \in Call
    BY DEF EventsTypeOK, Call
  <2>2. QED
    BY <1>2, <2>1 DEF Go, EventsTypeOK
<1>3. QED
  BY <1>1, <1>2 DEF Leave, EventsTypeOK

LEMMA EventsTypeStep ==
    ASSUME EventsTypeOK, TxShape, JobsCovered, [EventsNext]_allVars
    PROVE  EventsTypeOK'
<1> DEFINE Own == /\ detail' \subseteq View /\ Cardinality(detail') <= 1
                  /\ call' \in [Callers -> Call]
                  /\ edits' \in 0..MaxEdits
                  /\ raced' \in BOOLEAN
<1>0. TypeOK'
  BY WellFormedStep DEF WellFormed
<1> SUFFICES Own
  BY <1>0 DEF EventsTypeOK
<1>1. /\ detail \subseteq View /\ Cardinality(detail) <= 1 /\ call \in [Callers -> Call]
      /\ edits \in 0..MaxEdits /\ raced \in BOOLEAN /\ Cardinality({}) = 0 /\ MaxEdits \in Nat
  BY FS_EmptySet, EditAssumption DEF EventsTypeOK
<1>2. CASE UNCHANGED eventVars
  BY <1>1, <1>2 DEF eventVars
<1>3. ASSUME NEW s \in Slots, FinishInvalidating(s) \/ InsertFails(s) PROVE Own
  BY <1>1, <1>3 DEF FinishInvalidating, InsertFails, eventVars
<1>4. CASE Expire
  BY <1>1, <1>4 DEF Expire
<1>5. ASSUME NEW c \in Callers, Get(c) PROVE Own
  BY <1>1, <1>5, LookType DEF Get
<1>6. ASSUME NEW c, NEW op \in {"patch", "delete"}, NEW to \in Nat, BeginEdit(c, op, to) PROVE Own
  <2>1. c \in Callers /\ edits' \in 0..MaxEdits
    BY <1>1, <1>6 DEF BeginEdit, Callers
  <2>2. QED
    BY <1>1, <1>6, <2>1, LookType DEF BeginEdit
<1>7. ASSUME NEW c \in Callers, Fill(c) PROVE Own
  <2>1. call[c].view \in View
    BY <1>1 DEF Call
  <2>2. Cardinality({call[c].view}) = 1
    BY FS_Singleton
  <2>3. detail' \subseteq View /\ Cardinality(detail') <= 1
    BY <1>1, <1>7, <2>1, <2>2 DEF Fill
  <2>4. QED
    BY <1>1, <1>7, <2>3, CallType DEF Fill
<1>8. ASSUME NEW c \in Callers, Answer(c) \/ Check(c) \/ Delete(c) \/ EditEnds(c) \/ CallCrash(c) PROVE Own
  BY <1>1, <1>8, CallType DEF Answer, Check, Delete, EditEnds, CallCrash
<1>9. ASSUME NEW c \in Callers, Patch(c) PROVE Own
  BY <1>1, <1>9, CallType DEF Patch
<1>10. CASE UNCHANGED allVars
  BY <1>1, <1>10 DEF allVars, eventVars
<1> HIDE DEF Own
<1>11. QED
  BY <1>2, <1>3, <1>4, <1>5, <1>6, <1>7, <1>8, <1>9, <1>10, EditAssumption
  DEF EventsNext, BookingStep, CallStep

-----------------------------------------------------------------------------
(* The capacity                                                             *)

\* Only updateEvent's check lets a patch pass, and nothing changes what it was
\* checked against until it is written.
LEMMA PatchesCheckedStep ==
    ASSUME EventsTypeOK, PatchesChecked, [EventsNext]_allVars
    PROVE  PatchesChecked'
<1> SUFFICES ASSUME NEW e \in Callers, call'[e].phase = "checked", call'[e].op = "patch"
             PROVE  call'[e].to >= call'[e].view.confirmed
  BY DEF PatchesChecked, At
<1>1. call \in [Callers -> Call]
  BY DEF EventsTypeOK
<1>2. CASE call'[e] = call[e]
  BY <1>2 DEF PatchesChecked, At
<1>3. ASSUME NEW c \in Callers, Check(c) PROVE call'[e].to >= call'[e].view.confirmed
  <2>1. CASE Accepts(c) /\ e = c
    <3>1. call'[e] = [call[c] EXCEPT !.phase = "checked"]
      BY <1>1, <1>3, <2>1 DEF Check, Go
    <3>2. call'[e].to = call[c].to /\ call'[e].view = call[c].view /\ call'[e].op = call[c].op
      BY <1>1, <3>1 DEF Call
    <3>3. call[c].to >= call[c].view.confirmed
      BY <2>1, <3>2 DEF Accepts, AcceptsPatch
    <3>4. QED
      BY <3>2, <3>3
  <2>2. CASE ~(Accepts(c) /\ e = c)
    BY <1>1, <1>2, <1>3, <2>2 DEF Check, Go, Leave, NoCall
  <2>3. QED
    BY <2>1, <2>2
<1>4. ASSUME NEW c \in Callers, NEW op, NEW to, Look(c, op, to) PROVE call'[e] = call[e]
  BY <1>1, <1>4 DEF Look
<1>5. ASSUME NEW c \in Callers, Fill(c) \/ Answer(c) \/ Patch(c) \/ Delete(c) \/ EditEnds(c) \/ CallCrash(c)
      PROVE  call'[e] = call[e]
  <2>1. Go(c, "viewed") \/ Go(c, "written") \/ Leave(c)
    BY <1>5 DEF Fill, Answer, Patch, Delete, EditEnds, CallCrash
  <2>2. ASSUME NEW phase \in {"viewed", "written"}, Go(c, phase) PROVE call'[e] = call[e]
    BY <1>1, <2>2 DEF Go, Call
  <2>3. CASE Leave(c)
    BY <1>1, <2>3 DEF Leave, NoCall
  <2>4. QED
    BY <2>1, <2>2, <2>3
<1>6. ASSUME NEW s \in Slots, BookingStep(s) \/ (Crash(s) /\ UNCHANGED eventVars) PROVE call' = call
  BY <1>6 DEF BookingStep, FinishInvalidating, InsertFails, eventVars
<1>7. CASE (EventStarts /\ UNCHANGED eventVars) \/ Expire \/ UNCHANGED allVars
  BY <1>2, <1>7 DEF Expire, eventVars, allVars
<1>8. ASSUME NEW c \in Callers, Get(c) PROVE call'[e] = call[e]
  BY <1>4, <1>8 DEF Get
<1>9. ASSUME NEW c, NEW op, NEW to, BeginEdit(c, op, to) PROVE call'[e] = call[e]
  <2>1. c \in Callers /\ Look(c, op, to)
    BY <1>9 DEF BeginEdit, Callers
  <2>2. QED
    BY <1>4, <2>1
<1>10. QED
  BY <1>2, <1>3, <1>5, <1>6, <1>7, <1>8, <1>9 DEF EventsNext, CallStep

\* A patch that does not race leaves the capacity at or above what it was, or
\* finds no grant under way and as many seats as there are confirmed rows.
LEMMA SeatsAfterPatch ==
    ASSUME EventsInductive, NEW c \in Callers, Patch(c), ~raced'
    PROVE  GrantsFit' /\ NoOversell'
<1> DEFINE to == call[c].to
<1>1. /\ GrantsFit /\ NoOversell
      /\ event.capacity \in Nat /\ event \in Event /\ to \in Nat /\ call[c].view.confirmed \in Nat
      /\ Cardinality(Confirmed) \in Nat
      /\ to >= call[c].view.confirmed
  <2>1. Cardinality(Confirmed) \in Nat
    BY UsersCard DEF Confirmed
  <2>2. ~raced
    BY DEF Patch, EventsInductive, EventsTypeOK
  <2>3. QED
    BY <2>1, <2>2
    DEF EventsInductive, EventsTypeOK, TypeOK, Event, Call, View, GrantsFitUnlessRaced, PatchesChecked, Patch
<1>2. Confirmed' = Confirmed /\ tx' = tx
  BY DEF Patch, rows, Confirmed
<1>3. CASE event'.capacity = event.capacity
  BY <1>1, <1>2, <1>3 DEF GrantsFit, NoOversell, Running
<1>4. CASE event.exists /\ event'.capacity = to
  <2>1. CASE to >= event.capacity
    <3>1. NoOversell'
      BY <1>1, <1>2, <1>4, <2>1 DEF NoOversell
    <3>2. ASSUME NEW s \in Slots, Running(s), tx[s].fate # "doomed", tx[s].to = "CONFIRMED", tx[s].targets # {}
          PROVE  Cardinality(Confirmed \cup tx[s].targets) <= to
      <4>1. Cardinality(Confirmed \cup tx[s].targets) <= event.capacity
        BY <1>1, <3>2 DEF GrantsFit
      <4>2. tx[s].targets \subseteq Users
        BY DEF EventsInductive, EventsTypeOK, TypeOK, Transaction
      <4>3. Cardinality(Confirmed \cup tx[s].targets) \in Nat
        BY <4>2, UsersCard DEF Confirmed
      <4> HIDE DEF to
      <4>4. QED
        BY <1>1, <2>1, <4>1, <4>3
    <3>3. QED
      BY <1>2, <1>4, <3>1, <3>2 DEF GrantsFit, Running
  <2>2. CASE to < event.capacity
    <3>1. ~Races(c)
      BY <1>4 DEF Patch, EventsInductive, EventsTypeOK
    <3>2. ~Granting /\ ~(call[c].view.confirmed < Cardinality(Confirmed))
      BY <2>2, <3>1 DEF Races
    <3>3. NoOversell'
      BY <1>1, <1>2, <1>4, <3>2 DEF NoOversell
    <3>4. GrantsFit'
      BY <1>2, <3>2 DEF GrantsFit, Granting, Running
    <3>5. QED
      BY <3>3, <3>4
  <2>3. QED
    BY <1>1, <2>1, <2>2
<1>5. QED
  BY <1>1, <1>3, <1>4 DEF Patch, Event

LEMMA GrantsFitUnlessRacedStep ==
    ASSUME EventsInductive, [EventsNext]_allVars
    PROVE  GrantsFitUnlessRaced'
<1> SUFFICES ASSUME ~raced' PROVE GrantsFit' /\ NoOversell'
  BY DEF GrantsFitUnlessRaced
<1>1. ASSUME UNCHANGED raced PROVE Inductive
  BY <1>1 DEF EventsInductive, EventsTypeOK, GrantsFitUnlessRaced, Inductive
<1>2. CASE [Next]_vars /\ UNCHANGED raced
  BY <1>1, <1>2, SeatsStep
<1>3. ASSUME NEW c \in Callers, Patch(c) PROVE GrantsFit' /\ NoOversell'
  BY <1>3, SeatsAfterPatch
<1>4. ASSUME NEW c \in Callers, Delete(c) \/ CallCrash(c) PROVE GrantsFit' /\ NoOversell'
  <2>1. UNCHANGED raced /\ status' = status /\ tx' = tx /\ event'.capacity = event.capacity
    BY <1>4 DEF Delete, CallCrash, rows, EventsInductive, EventsTypeOK, TypeOK, Event
  <2>2. QED
    BY <1>1, <2>1, SeatsAtRest
<1>5. ASSUME NEW s \in Slots, InsertFails(s) PROVE GrantsFit' /\ NoOversell'
  <2>1. UNCHANGED raced /\ status' = status /\ event' = event /\ tx' = [tx EXCEPT ![s] = Idle]
    BY <1>5 DEF InsertFails, rows, eventVars
  <2>2. \A r \in Slots : tx'[r] = tx[r] \/ tx'[r].phase # "running"
    BY <2>1 DEF EventsInductive, EventsTypeOK, TypeOK, Idle
  <2>3. QED
    BY <1>1, <2>1, <2>2, SeatsAtRest
<1>6. QED
  BY <1>2, <1>3, <1>4, <1>5, StepsOfBookings

-----------------------------------------------------------------------------
(* The theorems                                                             *)

LEMMA InitEvents == EventsInit => EventsInductive
<1> SUFFICES ASSUME EventsInit PROVE EventsInductive
  OBVIOUS
<1>1. Inductive
  BY InitInductive DEF EventsInit
<1>2. NoCall \in Call /\ Cardinality({}) = 0
  BY FS_EmptySet DEF NoCall, NoView, View, Call
<1>3. EventsTypeOK
  <2>1. TypeOK
    BY <1>1 DEF Inductive
  <2>2. call \in [Callers -> Call]
    BY <1>2 DEF EventsInit
  <2>3. detail = {} /\ edits = 0 /\ raced = FALSE
    BY DEF EventsInit
  <2>4. edits \in 0..MaxEdits /\ detail \subseteq View
    BY <2>3, EditAssumption
  <2>5. Cardinality(detail) <= 1
    BY <1>2, <2>3
  <2>6. raced \in BOOLEAN
    BY <2>3
  <2>7. QED
    BY <2>1, <2>2, <2>4, <2>5, <2>6 DEF EventsTypeOK
<1>4. PatchesChecked
  BY DEF EventsInit, PatchesChecked, At, NoCall
<1>5. QED
  BY <1>1, <1>3, <1>4 DEF EventsInductive, Inductive, GrantsFitUnlessRaced

\* The invariant holds in every reachable state: the steps of the bookings, of
\* the organizers' edits and of the readers of the cached detail preserve it.
THEOREM EventsInvariant == EventsSpec => []EventsInductive
<1>1. EventsInductive /\ [EventsNext]_allVars => EventsInductive'
  <2> SUFFICES ASSUME EventsInductive, [EventsNext]_allVars PROVE EventsInductive'
    OBVIOUS
  <2>1. EventsTypeOK' /\ TxShape' /\ JobsCovered'
    BY EventsTypeStep, WellFormedStep DEF EventsInductive, WellFormed
  <2>2. PatchesChecked'
    BY PatchesCheckedStep DEF EventsInductive
  <2>3. QED
    BY <2>1, <2>2, GrantsFitUnlessRacedStep DEF EventsInductive
<1>2. QED
  BY InitEvents, <1>1, PTL DEF EventsSpec

\* The variables of Events and of the bookings below keep their types, although
\* a patch changes the capacity and a failed insert ends a transaction.
THEOREM EventsTypeCorrect == EventsSpec => []EventsTypeOK
<1>1. EventsInductive => EventsTypeOK
  BY DEF EventsInductive
<1>2. QED
  BY EventsInvariant, <1>1, PTL

\* updateEvent oversells the event only when its statement lowers the capacity
\* on an outdated count or under a grant: nothing else ever oversells it.
THEOREM OversoldByRacedPatchOnly == EventsSpec => []OversoldOnlyByRacedPatch
<1>1. EventsInductive => OversoldOnlyByRacedPatch
  BY DEF EventsInductive, GrantsFitUnlessRaced, OversoldOnlyByRacedPatch
<1>2. QED
  BY EventsInvariant, <1>1, PTL
=============================================================================

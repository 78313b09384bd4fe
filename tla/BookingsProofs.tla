--------------------------- MODULE BookingsProofs ---------------------------
(***************************************************************************)
(* Proofs about module Bookings, for every set of users, slots and         *)
(* capacities and every value of the bounds: the types, and that the event *)
(* is never oversold.                                                      *)
(*                                                                         *)
(* NoOversell alone is not inductive: a commit that grants seats was       *)
(* decided in an earlier state.  GrantsFit carries the decision from the   *)
(* snapshot to the commit.  It survives the commits of others because two  *)
(* grants always read what the other writes (TxShape), so that the second  *)
(* is doomed by the first.                                                 *)
(***************************************************************************)
EXTENDS Bookings, FiniteSetTheorems, TLAPS

\* What the steps of the bookings keep even when the event is oversold.
WellFormed == TypeOK /\ TxShape /\ JobsCovered

-----------------------------------------------------------------------------
(* Facts about cardinalities                                                *)

\* Sets of users and of slots are finite, and a smaller set has fewer elements.
LEMMA SubsetCard ==
    ASSUME NEW S, IsFiniteSet(S), NEW T, T \subseteq S
    PROVE  /\ IsFiniteSet(T)
           /\ Cardinality(T) \in Nat
           /\ Cardinality(T) <= Cardinality(S)
<1>1. IsFiniteSet(T) /\ Cardinality(T) <= Cardinality(S)
  BY FS_Subset
<1>2. QED
  BY <1>1, FS_CardinalityType

LEMMA UsersCard ==
    ASSUME NEW S, S \subseteq Users
    PROVE  IsFiniteSet(S) /\ Cardinality(S) \in Nat
BY SubsetCard, FiniteAssumption

LEMMA SlotsCard ==
    ASSUME NEW S, S \subseteq Slots
    PROVE  IsFiniteSet(S) /\ Cardinality(S) \in Nat
BY SubsetCard, FiniteAssumption

LEMMA AddCard ==
    ASSUME NEW S, NEW x, IsFiniteSet(S)
    PROVE  Cardinality(S \cup {x}) <= Cardinality(S) + 1
<1>1. Cardinality(S) \in Nat
  BY FS_CardinalityType
<1>2. Cardinality(S \cup {x}) = IF x \in S THEN Cardinality(S) ELSE Cardinality(S) + 1
  BY FS_AddElement
<1>3. QED
  BY <1>1, <1>2

\* What a union of users can hold at most.
LEMMA UnionCard ==
    ASSUME NEW S, NEW T, S \subseteq Users, T \subseteq Users
    PROVE  Cardinality(S \cup T) <= Cardinality(S) + Cardinality(T)
<1>1. /\ IsFiniteSet(S) /\ Cardinality(S) \in Nat
      /\ IsFiniteSet(T) /\ Cardinality(T) \in Nat
      /\ Cardinality(S \cap T) \in Nat
  BY UsersCard
<1>2. Cardinality(S \cup T) = Cardinality(S) + Cardinality(T) - Cardinality(S \cap T)
  BY <1>1, FS_Union
<1>3. QED
  BY <1>1, <1>2

-----------------------------------------------------------------------------
(* Types                                                                    *)

LEMMA IdleType == Idle \in Transaction
BY BoundsAssumption DEF Idle, Transaction, Phases, Ops, Status, Fates

\* A transaction that starts is well-formed.
LEMMA StartType ==
    ASSUME TypeOK, TxShape, NEW s \in Slots, NEW op \in Ops, NEW keys \in SUBSET Users,
           NEW scans \in SUBSET Status, NEW targets \in SUBSET Users, NEW to \in Status,
           Ready(s, op, keys), Start(s, op, keys, scans, targets, to)
    PROVE  tx' \in [Slots -> Transaction]
<1> DEFINE touched == IF targets = {} THEN {} ELSE {to} \cup {status[u] : u \in targets}
<1>1. tx[s].attempt + 1 \in 0..MaxAttempts
  BY BoundsAssumption DEF Ready, TypeOK, TxShape, Transaction, Idle
<1>2. touched \in SUBSET Status
  BY DEF TypeOK
<1>3. [phase |-> "running", op |-> op, keys |-> keys, attempt |-> tx[s].attempt + 1,
       scans |-> scans, targets |-> targets, to |-> to,
       touched |-> touched, fate |-> "clean"] \in Transaction
  <2> HIDE DEF touched
  <2> QED
    BY <1>1, <1>2 DEF Transaction, Phases, Fates
<1>4. QED
  BY <1>3 DEF Start, TypeOK

\* So are the transactions after a commit.
LEMMA CommitType ==
    ASSUME TypeOK, NEW s \in Slots
    PROVE  AfterCommit(s) \in [Slots -> Transaction]
<1>1. \A r \in Slots : FateAfter(tx[r], tx[s]) \in Fates
  BY DEF FateAfter, Fates
<1>2. QED
  BY <1>1 DEF AfterCommit, TypeOK, Transaction, Phases

\* The jobs left when one is done: its own outbox row was among them.
LEMMA PromotionLeft ==
    ASSUME TypeOK, JobsCovered, NEW s \in Slots, tx[s].op = "promote"
    PROVE  promotions - 1 \in Nat
<1>1. s \in Promoting /\ Promoting \subseteq Slots
  BY DEF Promoting
<1>2. Cardinality(Promoting) \in Nat /\ Cardinality(Promoting) # 0
  BY <1>1, SlotsCard, FS_EmptySet
<1>3. QED
  BY <1>2 DEF JobsCovered, TypeOK

\* What the two ways to start a run of promoteWaitlist have in common.
LEMMA PromoteRun ==
    ASSUME NEW s \in Slots, BeginPromote(s) \/ BeginRepeat(s)
    PROVE  /\ UNCHANGED <<status, older, confirmations, event>>
           /\ UNCHANGED <<promotions, failedPromotions, released, requests>>
           /\ \E op \in PromoteOps, S \in SUBSET Waitlisted :
                /\ Ready(s, op, {})
                /\ IF event.exists /\ OpenSeats > 0 THEN Chosen(S) ELSE S = {}
                /\ Start(s, op, {}, PromoteScans(S), S, "CONFIRMED")
BY DEF BeginPromote, BeginRepeat, Promote, PromoteOps, rows, jobs

LEMMA TypeStep == WellFormed /\ [Next]_vars => TypeOK'
<1> SUFFICES ASSUME WellFormed, [Next]_vars PROVE TypeOK'
  OBVIOUS
<1> USE DEF WellFormed
<1>1. CASE EventStarts
  BY <1>1 DEF EventStarts, TypeOK, Event, rows, jobs
<1>2. ASSUME NEW s \in Slots, NEW u \in Users, BeginBook(s, u) PROVE TypeOK'
  <2>1. tx' \in [Slots -> Transaction]
    <3>1. /\ "book" \in Ops /\ {u} \in SUBSET Users /\ {"CONFIRMED"} \in SUBSET Status
          /\ NextStatus \in Status
      BY DEF Ops, Status, NextStatus
    <3>2. QED
      BY <1>2, <3>1, StartType DEF BeginBook
  <2>2. older' \in [Users -> SUBSET Users]
    BY <1>2 DEF BeginBook, Stamp, TypeOK
  <2>3. requests' \in 0..MaxRequests
    BY <1>2, BoundsAssumption DEF BeginBook, CountRequest, TypeOK
  <2>4. QED
    BY <1>2, <2>1, <2>2, <2>3 DEF BeginBook, TypeOK, jobs
<1>3. ASSUME NEW s \in Slots, NEW u \in Users, BeginCancel(s, u) PROVE TypeOK'
  <2>1. tx' \in [Slots -> Transaction]
    <3>1. /\ "cancel" \in Ops /\ {u} \in SUBSET Users /\ {} \in SUBSET Status
          /\ "CANCELLED" \in Status
      BY DEF Ops, Status
    <3>2. QED
      BY <1>3, <3>1, StartType DEF BeginCancel
  <2>2. requests' \in 0..MaxRequests
    BY <1>3, BoundsAssumption DEF BeginCancel, CountRequest, TypeOK
  <2>3. QED
    BY <1>3, <2>1, <2>2 DEF BeginCancel, TypeOK, rows, jobs
<1>4. ASSUME NEW s \in Slots, NEW u \in Users, RetryEnds(s, u) PROVE TypeOK'
  BY <1>4, IdleType DEF RetryEnds, TypeOK, rows, jobs
<1>5. ASSUME NEW s \in Slots, BeginPromote(s) \/ BeginRepeat(s) PROVE TypeOK'
  <2>1. tx' \in [Slots -> Transaction]
    <3>1. PICK op \in PromoteOps, S \in SUBSET Waitlisted :
            Ready(s, op, {}) /\ Start(s, op, {}, PromoteScans(S), S, "CONFIRMED")
      BY <1>5, PromoteRun
    <3>2. /\ op \in Ops /\ {} \in SUBSET Users /\ PromoteScans(S) \in SUBSET Status
          /\ S \in SUBSET Users /\ "CONFIRMED" \in Status
      BY DEF PromoteOps, Ops, Status, PromoteScans, Waitlisted
    <3>3. QED
      BY <3>1, <3>2, StartType
  <2>2. crashes' \in 0..MaxCrashes
    BY <1>5, BoundsAssumption DEF BeginPromote, BeginRepeat, TypeOK
  <2>3. QED
    BY <1>5, <2>1, <2>2, PromoteRun DEF TypeOK
<1>6. ASSUME NEW s \in Slots, Commit(s) PROVE TypeOK'
  <2>1. tx' \in [Slots -> Transaction]
    BY <1>6, CommitType DEF Commit
  <2>2. status' \in [Users -> Status] /\ confirmations' \in [Users -> Nat]
    BY <1>6 DEF Commit, TypeOK, Transaction
  <2>3. released' \in BOOLEAN
    BY <1>6 DEF Commit
  <2>4. QED
    BY <1>6, <2>1, <2>2, <2>3 DEF Commit, TypeOK
<1>7. ASSUME NEW s \in Slots, Abort(s) PROVE TypeOK'
  <2>1. [Idle EXCEPT !.phase = "backoff", !.op = tx[s].op, !.keys = tx[s].keys,
                     !.attempt = tx[s].attempt] \in Transaction
    BY DEF TypeOK, Idle, Transaction, Phases, Ops, Status, Fates
  <2>2. QED
    BY <1>7, <2>1, IdleType DEF Abort, TypeOK, rows, jobs
<1>8. ASSUME NEW s \in Slots, GiveUp(s) PROVE TypeOK'
  BY <1>8, IdleType, PromotionLeft DEF GiveUp, RecordFailed, TypeOK, rows
<1>9. ASSUME NEW s \in Slots, Finish(s) PROVE TypeOK'
  BY <1>9, IdleType, PromotionLeft DEF Finish, TypeOK, rows
<1>10. ASSUME NEW s \in Slots, Crash(s) PROVE TypeOK'
  BY <1>10, IdleType, PromotionLeft, BoundsAssumption DEF Crash, RecordFailed, TypeOK, rows, jobs
<1>11. CASE UNCHANGED vars
  BY <1>11 DEF vars, rows, jobs, TypeOK
<1>12. QED
  BY <1>1, <1>2, <1>3, <1>4, <1>5, <1>6, <1>7, <1>8, <1>9, <1>10, <1>11 DEF Next, Step, Request

-----------------------------------------------------------------------------
(* What a slot holds                                                        *)

\* A transaction that starts reads the confirmed rows if it may add to them.
LEMMA StartShape ==
    ASSUME TypeOK, TxShape, NEW s \in Slots, NEW op, NEW keys, NEW scans, NEW targets, NEW to,
           Start(s, op, keys, scans, targets, to),
           to = "CONFIRMED" /\ targets # {} => "CONFIRMED" \in scans
    PROVE  TxShape'
<1> SUFFICES ASSUME NEW r \in Slots
             PROVE  /\ tx'[r].phase = "idle" => tx'[r] = Idle
                    /\ tx'[r].phase = "backoff" => tx'[r].attempt < MaxAttempts
                    /\ tx'[r].phase = "running" /\ tx'[r].to = "CONFIRMED" /\ tx'[r].targets # {}
                         => "CONFIRMED" \in tx'[r].scans \cap tx'[r].touched
  BY DEF TxShape, Running, Idle
<1>1. CASE r = s
  BY <1>1 DEF Start, TypeOK
<1>2. CASE r # s
  BY <1>2 DEF Start, TypeOK, TxShape, Running
<1>3. QED
  BY <1>1, <1>2

\* A step that leaves every other slot alone and this one idle or backing off
\* with attempts left keeps the shape.
LEMMA RestShape ==
    ASSUME TypeOK, TxShape, NEW s \in Slots, NEW t, tx' = [tx EXCEPT ![s] = t],
           t = Idle \/ (t.phase = "backoff" /\ t.attempt < MaxAttempts)
    PROVE  TxShape'
<1> SUFFICES ASSUME NEW r \in Slots
             PROVE  /\ tx'[r].phase = "idle" => tx'[r] = Idle
                    /\ tx'[r].phase = "backoff" => tx'[r].attempt < MaxAttempts
                    /\ tx'[r].phase = "running" /\ tx'[r].to = "CONFIRMED" /\ tx'[r].targets # {}
                         => "CONFIRMED" \in tx'[r].scans \cap tx'[r].touched
  BY DEF TxShape, Running, Idle
<1>1. CASE r = s
  BY <1>1 DEF TypeOK, Idle
<1>2. CASE r # s
  BY <1>2 DEF TypeOK, TxShape, Running
<1>3. QED
  BY <1>1, <1>2

\* A commit changes a phase and fates, not what was read or is to be written.
LEMMA CommitShape ==
    ASSUME TypeOK, TxShape, NEW s \in Slots, Commit(s)
    PROVE  TxShape'
<1> SUFFICES ASSUME NEW r \in Slots
             PROVE  /\ tx'[r].phase = "idle" => tx'[r] = Idle
                    /\ tx'[r].phase = "backoff" => tx'[r].attempt < MaxAttempts
                    /\ tx'[r].phase = "running" /\ tx'[r].to = "CONFIRMED" /\ tx'[r].targets # {}
                         => "CONFIRMED" \in tx'[r].scans \cap tx'[r].touched
  BY DEF TxShape, Running, Idle
<1>1. tx'[r] = IF r = s THEN [tx[s] EXCEPT !.phase = "committed"]
               ELSE IF Running(r) THEN [tx[r] EXCEPT !.fate = FateAfter(tx[r], tx[s])]
               ELSE tx[r]
  BY DEF Commit, AfterCommit
<1>2. tx[r] \in Transaction /\ tx[s] \in Transaction
  BY DEF TypeOK
<1>3. CASE r = s
  BY <1>1, <1>2, <1>3 DEF Transaction
<1>4. CASE r # s /\ Running(r)
  BY <1>1, <1>2, <1>4 DEF Transaction, TxShape, Running
<1>5. CASE r # s /\ ~Running(r)
  BY <1>1, <1>5 DEF TxShape, Running
<1>6. QED
  BY <1>3, <1>4, <1>5

LEMMA ShapeStep == WellFormed /\ [Next]_vars => TxShape'
<1> SUFFICES ASSUME WellFormed, [Next]_vars PROVE TxShape'
  OBVIOUS
<1> USE DEF WellFormed
<1>1. CASE tx' = tx
  BY <1>1 DEF TxShape, Running, Idle
<1>2. ASSUME NEW s \in Slots, NEW u \in Users, BeginBook(s, u) PROVE TxShape'
  BY <1>2, StartShape DEF BeginBook
<1>3. ASSUME NEW s \in Slots, NEW u \in Users, BeginCancel(s, u) PROVE TxShape'
  BY <1>3, StartShape DEF BeginCancel
<1>4. ASSUME NEW s \in Slots, NEW u \in Users, RetryEnds(s, u) PROVE TxShape'
  BY <1>4, RestShape DEF RetryEnds
<1>5. ASSUME NEW s \in Slots, BeginPromote(s) \/ BeginRepeat(s) PROVE TxShape'
  <2>1. PICK op \in PromoteOps, S \in SUBSET Waitlisted :
          /\ IF event.exists /\ OpenSeats > 0 THEN Chosen(S) ELSE S = {}
          /\ Start(s, op, {}, PromoteScans(S), S, "CONFIRMED")
    BY <1>5, PromoteRun
  <2>2. S # {} => "CONFIRMED" \in PromoteScans(S)
    BY <2>1 DEF PromoteScans
  <2>3. QED
    BY <2>1, <2>2, StartShape
<1>6. ASSUME NEW s \in Slots, Commit(s) PROVE TxShape'
  BY <1>6, CommitShape
<1>7. ASSUME NEW s \in Slots, Abort(s) PROVE TxShape'
  <2> DEFINE again == [Idle EXCEPT !.phase = "backoff", !.op = tx[s].op,
                                   !.keys = tx[s].keys, !.attempt = tx[s].attempt]
  <2>1. CASE tx[s].attempt < MaxAttempts /\ tx' = [tx EXCEPT ![s] = again]
    <3>1. again.phase = "backoff" /\ again.attempt < MaxAttempts
      BY <2>1 DEF Idle
    <3> HIDE DEF again
    <3>2. QED
      BY <2>1, <3>1, RestShape
  <2>2. CASE tx' = [tx EXCEPT ![s] = Idle]
    BY <2>2, RestShape
  <2>3. QED
    BY <1>7, <2>1, <2>2 DEF Abort
<1>8. ASSUME NEW s \in Slots, GiveUp(s) \/ Finish(s) \/ Crash(s) PROVE TxShape'
  BY <1>8, RestShape DEF GiveUp, Finish, Crash
<1>9. CASE EventStarts \/ UNCHANGED vars
  BY <1>1, <1>9 DEF EventStarts, vars
<1>10. QED
  BY <1>2, <1>3, <1>4, <1>5, <1>6, <1>7, <1>8, <1>9 DEF Next, Step, Request

\* After an abort the slot no longer runs, and it holds what it held or nothing.
LEMMA AbortSlots ==
    ASSUME WellFormed, NEW s \in Slots, Abort(s)
    PROVE  \A r \in Slots :
             /\ tx'[r] = tx[r] \/ tx'[r].phase # "running"
             /\ tx'[r].op = "promote" => tx[r].op = "promote"
<1> DEFINE again == [Idle EXCEPT !.phase = "backoff", !.op = tx[s].op,
                                 !.keys = tx[s].keys, !.attempt = tx[s].attempt]
<1>1. again.phase = "backoff" /\ again.op = tx[s].op
  BY DEF Idle
<1>2. Idle.phase = "idle" /\ Idle.op = "none"
  BY DEF Idle
<1>3. tx' = [tx EXCEPT ![s] = again] \/ tx' = [tx EXCEPT ![s] = Idle]
  BY DEF Abort
<1>4. tx \in [Slots -> Transaction]
  BY DEF WellFormed, TypeOK
<1> HIDE DEF again
<1>5. QED
  BY <1>1, <1>2, <1>3, <1>4

-----------------------------------------------------------------------------
(* Promotions under way                                                     *)

\* When no slot takes up a promotion and the count of jobs does not fall,
\* the promotions under way stay covered.
LEMMA CoveredStill ==
    ASSUME TypeOK, JobsCovered, promotions' \in Nat, promotions' >= promotions,
           \A r \in Slots : tx'[r].op = "promote" => tx[r].op = "promote"
    PROVE  JobsCovered'
<1>1. Promoting' \subseteq Promoting /\ Promoting \subseteq Slots
  BY DEF Promoting
<1>2. /\ IsFiniteSet(Promoting) /\ Cardinality(Promoting) \in Nat
      /\ Cardinality(Promoting') \in Nat
      /\ Cardinality(Promoting') <= Cardinality(Promoting)
  BY <1>1, SlotsCard, SubsetCard
<1>3. QED
  BY <1>2 DEF JobsCovered, TypeOK

\* When a promotion ends, its outbox row goes with it.
LEMMA CoveredAfterOne ==
    ASSUME TypeOK, JobsCovered, NEW s \in Slots, tx[s].op = "promote",
           tx' = [tx EXCEPT ![s] = Idle], promotions' = promotions - 1
    PROVE  JobsCovered'
<1>1. Promoting' = Promoting \ {s} /\ s \in Promoting /\ Promoting \subseteq Slots
  BY DEF Promoting, TypeOK, Idle
<1>2. IsFiniteSet(Promoting) /\ Cardinality(Promoting) \in Nat
  BY <1>1, SlotsCard
<1>3. Cardinality(Promoting') = Cardinality(Promoting) - 1
  BY <1>1, <1>2, FS_RemoveElement
<1>4. QED
  BY <1>2, <1>3 DEF JobsCovered, TypeOK

LEMMA JobsStep == WellFormed /\ [Next]_vars => JobsCovered'
<1> SUFFICES ASSUME WellFormed, [Next]_vars PROVE JobsCovered'
  OBVIOUS
<1> USE DEF WellFormed
<1>1. ASSUME NEW s \in Slots, NEW u \in Users, BeginBook(s, u) \/ BeginCancel(s, u) PROVE JobsCovered'
  BY <1>1, CoveredStill DEF BeginBook, BeginCancel, Start, TypeOK, jobs
<1>2. ASSUME NEW s \in Slots, NEW u \in Users, RetryEnds(s, u) PROVE JobsCovered'
  BY <1>2, CoveredStill DEF RetryEnds, TypeOK, jobs, Idle
<1>3. ASSUME NEW s \in Slots, BeginPromote(s) PROVE JobsCovered'
  <2>1. promotions' = promotions /\ promotions \in Nat
    BY <1>3, PromoteRun DEF TypeOK
  <2>2. Promoting' = Promoting \cup {s}
    BY <1>3 DEF BeginPromote, Promote, Start, Promoting, TypeOK
  <2>3. IsFiniteSet(Promoting) /\ Cardinality(Promoting) \in Nat
    BY SlotsCard DEF Promoting
  <2>4. CASE tx[s].phase = "idle"
    <3>1. Cardinality(Promoting) < promotions
      BY <1>3, <2>4 DEF BeginPromote
    <3>2. Cardinality(Promoting \cup {s}) <= Cardinality(Promoting) + 1
      BY <2>3, AddCard
    <3>3. Cardinality(Promoting') \in Nat
      BY SlotsCard, <2>2 DEF Promoting
    <3>4. QED
      BY <2>1, <2>2, <2>3, <3>1, <3>2, <3>3 DEF JobsCovered
  <2>5. CASE tx[s].phase # "idle"
    <3>1. s \in Promoting
      BY <1>3, <2>5 DEF BeginPromote, Promote, Ready, Promoting
    <3>2. Promoting' = Promoting
      BY <2>2, <3>1
    <3>3. QED
      BY <2>1, <3>2 DEF JobsCovered
  <2>6. QED
    BY <2>4, <2>5
<1>4. ASSUME NEW s \in Slots, Commit(s) PROVE JobsCovered'
  <2>1. \A r \in Slots : tx'[r].op = tx[r].op
    BY <1>4 DEF Commit, AfterCommit, TypeOK, Transaction
  <2>2. QED
    BY <1>4, <2>1, CoveredStill DEF Commit, TypeOK
<1>5. ASSUME NEW s \in Slots, Abort(s) PROVE JobsCovered'
  <2>1. \A r \in Slots : tx'[r].op = "promote" => tx[r].op = "promote"
    BY <1>5, AbortSlots
  <2>2. QED
    BY <1>5, <2>1, CoveredStill DEF Abort, TypeOK, jobs
<1>6. ASSUME NEW s \in Slots, GiveUp(s) PROVE JobsCovered'
  BY <1>6, CoveredAfterOne DEF GiveUp, RecordFailed
<1>7. ASSUME NEW s \in Slots, Finish(s) PROVE JobsCovered'
  <2>1. CASE tx[s].op = "promote"
    BY <1>7, <2>1, CoveredAfterOne DEF Finish
  <2>2. CASE tx[s].op # "promote"
    BY <1>7, <2>2, CoveredStill DEF Finish, TypeOK, Idle
  <2>3. QED
    BY <2>1, <2>2
<1>8. ASSUME NEW s \in Slots, Crash(s) PROVE JobsCovered'
  <2>1. CASE UNCHANGED jobs
    BY <1>8, <2>1, CoveredStill DEF Crash, TypeOK, jobs, Idle
  <2>2. CASE RecordFailed(s)
    BY <1>8, <2>2, CoveredAfterOne DEF Crash, RecordFailed
  <2>3. QED
    BY <1>8, <2>1, <2>2 DEF Crash
<1>9. ASSUME NEW s \in Slots, BeginRepeat(s) PROVE JobsCovered'
  <2>1. \A r \in Slots : tx'[r].op = "promote" => tx[r].op = "promote"
    BY <1>9 DEF BeginRepeat, Promote, Start, TypeOK
  <2>2. promotions' = promotions /\ promotions \in Nat
    BY <1>9, PromoteRun DEF TypeOK
  <2>3. QED
    BY <2>1, <2>2, CoveredStill
<1>10. CASE EventStarts \/ UNCHANGED vars
  BY <1>10, CoveredStill DEF EventStarts, vars, TypeOK, jobs
<1>11. QED
  BY <1>1, <1>2, <1>3, <1>4, <1>5, <1>6, <1>7, <1>8, <1>9, <1>10 DEF Next, Step, Request

-----------------------------------------------------------------------------
(* Seats                                                                    *)

\* A transaction that starts has seats, in its snapshot, for all it grants.
LEMMA SeatsOnStart ==
    ASSUME Inductive, NEW s \in Slots, NEW op, NEW keys, NEW scans, NEW targets, NEW to,
           Start(s, op, keys, scans, targets, to),
           status' = status, event' = event,
           to = "CONFIRMED" /\ targets # {} => Cardinality(Confirmed \cup targets) <= event.capacity
    PROVE  GrantsFit' /\ NoOversell'
<1>1. Confirmed' = Confirmed
  BY DEF Confirmed
<1>2. NoOversell'
  BY <1>1 DEF Inductive, NoOversell
<1>3. ASSUME NEW r \in Slots, tx'[r].phase = "running", tx'[r].fate # "doomed",
             tx'[r].to = "CONFIRMED", tx'[r].targets # {}
      PROVE  Cardinality(Confirmed \cup tx'[r].targets) <= event.capacity
  <2>1. CASE r = s
    BY <1>3, <2>1 DEF Start, Inductive, TypeOK
  <2>2. CASE r # s
    BY <1>3, <2>2 DEF Start, Inductive, TypeOK, GrantsFit, Running
  <2>3. QED
    BY <2>1, <2>2
<1>4. QED
  BY <1>1, <1>2, <1>3 DEF GrantsFit, Running

\* A step that changes neither rows nor event, and starts no transaction.
LEMMA SeatsAtRest ==
    ASSUME Inductive, status' = status, event'.capacity = event.capacity,
           \A r \in Slots : tx'[r] = tx[r] \/ tx'[r].phase # "running"
    PROVE  GrantsFit' /\ NoOversell'
<1>1. Confirmed' = Confirmed
  BY DEF Confirmed
<1>2. QED
  BY <1>1 DEF Inductive, NoOversell, GrantsFit, Running

\* Two grants read what the other writes: the first to commit dooms the second.
LEMMA GrantDoomsGrant ==
    ASSUME Inductive, NEW s \in Slots, NEW r \in Slots, Running(s), Running(r),
           tx[s].to = "CONFIRMED", tx[s].targets # {},
           tx[r].to = "CONFIRMED", tx[r].targets # {}
    PROVE  FateAfter(tx[r], tx[s]) = "doomed"
<1>1. /\ "CONFIRMED" \in tx[s].scans \cap tx[s].touched
      /\ "CONFIRMED" \in tx[r].scans \cap tx[r].touched
  BY DEF Inductive, TxShape
<1>2. ReadsFrom(tx[r], tx[s]) /\ ReadsFrom(tx[s], tx[r])
  BY <1>1 DEF ReadsFrom
<1>3. QED
  BY <1>2 DEF FateAfter, Conflict

LEMMA SeatsOnCommit ==
    ASSUME Inductive, NEW s \in Slots, Commit(s)
    PROVE  GrantsFit' /\ NoOversell'
<1> USE DEF Inductive
<1>1. /\ status \in [Users -> Status] /\ tx \in [Slots -> Transaction]
      /\ event.capacity \in Nat /\ event' = event
      /\ tx[s].targets \subseteq Users /\ Running(s) /\ tx[s].fate # "doomed"
  BY DEF TypeOK, Event, Commit, Transaction
<1>2. Confirmed' = IF tx[s].to = "CONFIRMED" THEN Confirmed \cup tx[s].targets
                                             ELSE Confirmed \ tx[s].targets
  BY <1>1 DEF Commit, Confirmed
<1>3. \A r \in Slots : tx'[r].phase = "running" =>
        /\ r # s /\ Running(r)
        /\ tx'[r].to = tx[r].to /\ tx'[r].targets = tx[r].targets
        /\ tx'[r].fate = FateAfter(tx[r], tx[s])
  BY <1>1 DEF Commit, AfterCommit, Transaction, Running
<1>4. CASE tx[s].to = "CONFIRMED" /\ tx[s].targets # {}
  <2>1. NoOversell'
    BY <1>1, <1>2, <1>4 DEF GrantsFit, NoOversell
  <2>2. GrantsFit'
    BY <1>1, <1>3, <1>4, GrantDoomsGrant DEF GrantsFit, Running
  <2>3. QED
    BY <2>1, <2>2
<1>5. CASE ~(tx[s].to = "CONFIRMED" /\ tx[s].targets # {})
  <2>1. Confirmed' \subseteq Confirmed /\ Confirmed \subseteq Users
    BY <1>2, <1>5 DEF Confirmed
  <2>2. NoOversell'
    <3>1. /\ Cardinality(Confirmed') <= Cardinality(Confirmed)
          /\ Cardinality(Confirmed') \in Nat /\ Cardinality(Confirmed) \in Nat
      BY <2>1, UsersCard, SubsetCard
    <3>2. QED
      BY <1>1, <3>1 DEF NoOversell
  <2>3. ASSUME NEW r \in Slots, tx'[r].phase = "running", tx'[r].fate # "doomed",
               tx'[r].to = "CONFIRMED", tx'[r].targets # {}
        PROVE  Cardinality(Confirmed' \cup tx'[r].targets) <= event'.capacity
    <3>1. /\ Running(r) /\ tx[r].fate # "doomed"
          /\ tx[r].to = "CONFIRMED" /\ tx[r].targets # {} /\ tx'[r].targets = tx[r].targets
      BY <1>3, <2>3 DEF FateAfter
    <3>2. Cardinality(Confirmed \cup tx[r].targets) <= event.capacity
      BY <3>1 DEF GrantsFit
    <3>3. /\ Confirmed' \cup tx[r].targets \subseteq Confirmed \cup tx[r].targets
          /\ Confirmed \cup tx[r].targets \subseteq Users
      BY <1>1, <2>1 DEF Transaction
    <3>4. /\ Cardinality(Confirmed' \cup tx[r].targets) <= Cardinality(Confirmed \cup tx[r].targets)
          /\ Cardinality(Confirmed' \cup tx[r].targets) \in Nat
          /\ Cardinality(Confirmed \cup tx[r].targets) \in Nat
      BY <3>3, UsersCard, SubsetCard
    <3>5. QED
      BY <1>1, <3>1, <3>2, <3>4
  <2>4. QED
    BY <2>2, <2>3 DEF GrantsFit, Running
<1>6. QED
  BY <1>4, <1>5

LEMMA SeatsStep == Inductive /\ [Next]_vars => GrantsFit' /\ NoOversell'
<1> SUFFICES ASSUME Inductive, [Next]_vars PROVE GrantsFit' /\ NoOversell'
  OBVIOUS
<1>1. /\ tx \in [Slots -> Transaction] /\ event.capacity \in Nat /\ event \in Event
      /\ Confirmed \subseteq Users /\ Waitlisted \subseteq Users
      /\ IsFiniteSet(Confirmed) /\ Cardinality(Confirmed) \in Nat
  BY UsersCard DEF Inductive, TypeOK, Event, Confirmed, Waitlisted
<1>2. ASSUME NEW s \in Slots, NEW u \in Users, BeginBook(s, u) PROVE GrantsFit' /\ NoOversell'
  <2>1. ASSUME NextStatus = "CONFIRMED" PROVE Cardinality(Confirmed \cup {u}) <= event.capacity
    <3>1. Cardinality(Confirmed) < event.capacity
      BY <2>1 DEF NextStatus
    <3>2. /\ Cardinality(Confirmed \cup {u}) <= Cardinality(Confirmed) + 1
          /\ Cardinality(Confirmed \cup {u}) \in Nat
      BY <1>1, FS_AddElement, UsersCard
    <3>3. QED
      BY <1>1, <3>1, <3>2
  <2>2. QED
    BY <1>2, <2>1, SeatsOnStart DEF BeginBook
<1>3. ASSUME NEW s \in Slots, NEW u \in Users, BeginCancel(s, u) PROVE GrantsFit' /\ NoOversell'
  BY <1>3, SeatsOnStart DEF BeginCancel, rows
<1>4. ASSUME NEW s \in Slots, BeginPromote(s) \/ BeginRepeat(s) PROVE GrantsFit' /\ NoOversell'
  <2>1. PICK op \in PromoteOps, S \in SUBSET Waitlisted :
          /\ IF event.exists /\ OpenSeats > 0 THEN Chosen(S) ELSE S = {}
          /\ Start(s, op, {}, PromoteScans(S), S, "CONFIRMED")
    BY <1>4, PromoteRun
  <2>2. ASSUME S # {} PROVE Cardinality(Confirmed \cup S) <= event.capacity
    <3>1. Cardinality(S) <= event.capacity - Cardinality(Confirmed)
      BY <2>1, <2>2 DEF Chosen, OpenSeats
    <3>2. /\ Cardinality(Confirmed \cup S) <= Cardinality(Confirmed) + Cardinality(S)
          /\ Cardinality(Confirmed \cup S) \in Nat /\ Cardinality(S) \in Nat
      BY <1>1, UnionCard, UsersCard
    <3>3. QED
      BY <1>1, <3>1, <3>2
  <2>3. QED
    BY <1>4, <2>1, <2>2, PromoteRun, SeatsOnStart
<1>5. ASSUME NEW s \in Slots, Commit(s) PROVE GrantsFit' /\ NoOversell'
  BY <1>5, SeatsOnCommit
<1>6. ASSUME NEW s \in Slots, NEW u \in Users, RetryEnds(s, u) PROVE GrantsFit' /\ NoOversell'
  BY <1>1, <1>6, SeatsAtRest DEF RetryEnds, rows, Idle
<1>7. ASSUME NEW s \in Slots, Abort(s) PROVE GrantsFit' /\ NoOversell'
  <2>1. \A r \in Slots : tx'[r] = tx[r] \/ tx'[r].phase # "running"
    BY <1>7, AbortSlots DEF WellFormed, Inductive
  <2>2. QED
    BY <1>7, <2>1, SeatsAtRest DEF Abort, rows
<1>8. ASSUME NEW s \in Slots, GiveUp(s) \/ Finish(s) \/ Crash(s) PROVE GrantsFit' /\ NoOversell'
  BY <1>1, <1>8, SeatsAtRest DEF GiveUp, Finish, Crash, rows, Idle
<1>9. CASE EventStarts
  BY <1>1, <1>9, SeatsAtRest DEF EventStarts, rows, Event
<1>10. CASE UNCHANGED vars
  BY <1>10, SeatsAtRest DEF vars, rows
<1>11. QED
  BY <1>2, <1>3, <1>4, <1>5, <1>6, <1>7, <1>8, <1>9, <1>10 DEF Next, Step, Request

-----------------------------------------------------------------------------
(* The theorems                                                             *)

LEMMA InitInductive == Init => Inductive
<1> SUFFICES ASSUME Init PROVE Inductive
  OBVIOUS
<1>1. TypeOK
  <2>1. event \in Event
    BY CapacityAssumption DEF Init, Event
  <2>2. /\ status \in [Users -> Status] /\ older \in [Users -> SUBSET Users]
        /\ confirmations \in [Users -> Nat] /\ promotions \in Nat /\ failedPromotions \in Nat
        /\ released \in BOOLEAN
    BY DEF Init, Status
  <2>3. tx \in [Slots -> Transaction]
    BY IdleType DEF Init
  <2>4. requests \in 0..MaxRequests /\ crashes \in 0..MaxCrashes
    BY BoundsAssumption DEF Init
  <2>5. QED
    BY <2>1, <2>2, <2>3, <2>4 DEF TypeOK
<1>2. TxShape
  BY DEF Init, TxShape, Idle, Running
<1>3. Confirmed = {} /\ Promoting = {} /\ event.capacity \in Nat
  BY CapacityAssumption DEF Init, Confirmed, Promoting, Idle
<1>4. JobsCovered /\ NoOversell
  BY <1>3, FS_EmptySet DEF JobsCovered, NoOversell, Init
<1>5. GrantsFit
  BY DEF Init, GrantsFit, Running, Idle
<1>6. QED
  BY <1>1, <1>2, <1>4, <1>5 DEF Inductive

\* The invariant holds in every reachable state: the commits and aborts of
\* bookings, cancellations and promotions preserve it.
THEOREM InductiveHolds == Spec => []Inductive
<1>1. Inductive /\ [Next]_vars => Inductive'
  BY TypeStep, ShapeStep, JobsStep, SeatsStep DEF WellFormed, Inductive
<1>2. QED
  BY InitInductive, <1>1, PTL DEF Spec

\* The variables of Bookings keep their types; no count of outbox rows, in
\* particular, is ever negative, although jobs end more than one way.
THEOREM TypeCorrect == Spec => []TypeOK
<1>1. Inductive => TypeOK
  BY DEF Inductive
<1>2. QED
  BY InductiveHolds, <1>1, PTL

\* createBooking and promoteWaitlist never confirm more bookings than the event
\* has seats: for any users, requests in flight, capacity and number of retries.
THEOREM NeverOversold == Spec => []NoOversell
<1>1. Inductive => NoOversell
  BY DEF Inductive
<1>2. QED
  BY InductiveHolds, <1>1, PTL
=============================================================================

---------------------------- MODULE LedgerProofs ----------------------------
(***************************************************************************)
(* What Bookings promises its waitlist, proved for every set of users,     *)
(* slots and capacities: a promotion is owed while a seat is free and      *)
(* somebody waits, promotions go in the order of createdAt, and the        *)
(* transactions together implement SeatLedger.                             *)
(*                                                                         *)
(* PromotionOwed is not inductive: promotions counts jobs that have done   *)
(* all they could.  WaitersOwed takes those off the count, and those under *)
(* way that will not fill the event.  A booking that joins the waitlist    *)
(* when a seat has been released meanwhile (QueuersMet) is a pivot: it     *)
(* dooms, or is doomed by, every promotion that has read the end of the    *)
(* waitlist, so that what is left to count are the Narrow ones.            *)
(***************************************************************************)
EXTENDS BookingsProofs

-----------------------------------------------------------------------------
(* What the steps do to the slots                                           *)

LEMMA StartSlots ==
    ASSUME TypeOK, NEW s \in Slots, NEW op, NEW keys, NEW scans, NEW targets, NEW to,
           Start(s, op, keys, scans, targets, to)
    PROVE  /\ tx'[s].phase = "running" /\ tx'[s].op = op /\ tx'[s].keys = keys
           /\ tx'[s].scans = scans /\ tx'[s].targets = targets /\ tx'[s].to = to
           /\ tx'[s].touched = IF targets = {} THEN {} ELSE {to} \cup {status[u] : u \in targets}
           /\ tx'[s].fate = "clean"
           /\ \A r \in Slots \ {s} : tx'[r] = tx[r]
BY DEF Start, TypeOK

\* A commit leaves what the others have read and will write, and dooms some.
LEMMA CommitSlots ==
    ASSUME TypeOK, NEW s \in Slots, Commit(s), NEW r \in Slots
    PROVE  /\ tx'[r].op = tx[r].op /\ tx'[r].scans = tx[r].scans /\ tx'[r].to = tx[r].to
           /\ tx'[r].targets = tx[r].targets /\ tx'[r].touched = tx[r].touched
           /\ tx'[r].phase = IF r = s THEN "committed" ELSE tx[r].phase
           /\ Valid(r)' => r # s /\ Valid(r) /\ ~Conflict(tx[r], tx[s])
           /\ Valid(r)' /\ (ReadsFrom(tx[r], tx[s]) \/ tx[r].fate = "out") => tx'[r].fate = "out"
<1>1. tx'[r] = IF r = s THEN [tx[s] EXCEPT !.phase = "committed"]
               ELSE IF Running(r) THEN [tx[r] EXCEPT !.fate = FateAfter(tx[r], tx[s])]
               ELSE tx[r]
  BY DEF Commit, AfterCommit
<1>2. tx[r] \in Transaction /\ tx[s] \in Transaction
  BY DEF TypeOK
<1>3. CASE r = s
  BY <1>1, <1>2, <1>3 DEF Transaction, Valid, Running
<1>4. CASE r # s /\ Running(r)
  <2>1. /\ tx'[r].phase = tx[r].phase /\ tx'[r].fate = FateAfter(tx[r], tx[s])
        /\ tx'[r].op = tx[r].op /\ tx'[r].scans = tx[r].scans /\ tx'[r].to = tx[r].to
        /\ tx'[r].targets = tx[r].targets /\ tx'[r].touched = tx[r].touched
    BY <1>1, <1>2, <1>4 DEF Transaction
  <2>2. QED
    BY <1>4, <2>1 DEF Valid, Running, FateAfter
<1>5. CASE r # s /\ ~Running(r)
  BY <1>1, <1>5 DEF Valid, Running
<1>6. QED
  BY <1>3, <1>4, <1>5

\* Every other step leaves the rows alone and takes nothing up; a promotion
\* that is done with takes one off the count, and no other does.
AtRest ==
    /\ UNCHANGED <<status, older, confirmations>>
    /\ event' \in Event /\ event'.capacity = event.capacity /\ event'.exists = event.exists
    /\ \A r \in Slots : tx'[r] = tx[r] \/ tx'[r].phase \notin {"running", "committed"}
    /\ \/ UNCHANGED <<promotions, failedPromotions>>
       \/ /\ promotions - 1 \in Nat /\ promotions' = promotions - 1
          /\ failedPromotions' = failedPromotions + 1
       \/ /\ promotions - 1 \in Nat /\ promotions' = promotions - 1
          /\ failedPromotions' = failedPromotions
          /\ \E s \in Settling : tx'[s].phase = "idle"

LEMMA RestSteps ==
    ASSUME Inductive, [Next]_vars
    PROVE  \/ \E s \in Slots, u \in Users : BeginBook(s, u) \/ BeginCancel(s, u)
           \/ \E s \in Slots : BeginPromote(s) \/ BeginRepeat(s) \/ Commit(s)
           \/ AtRest
<1> USE DEF Inductive
<1>1. Idle.phase = "idle" /\ tx \in [Slots -> Transaction] /\ event \in Event
      /\ promotions \in Nat /\ failedPromotions \in Nat
  BY DEF Idle, TypeOK
<1>2. ASSUME NEW s \in Slots, NEW u \in Users, RetryEnds(s, u) PROVE AtRest
  BY <1>1, <1>2 DEF RetryEnds, AtRest, rows, jobs
<1>3. ASSUME NEW s \in Slots, Abort(s) PROVE AtRest
  <2> DEFINE again == [Idle EXCEPT !.phase = "backoff", !.op = tx[s].op,
                                   !.keys = tx[s].keys, !.attempt = tx[s].attempt]
  <2>1. again.phase = "backoff"
    BY DEF Idle
  <2>2. tx' = [tx EXCEPT ![s] = again] \/ tx' = [tx EXCEPT ![s] = Idle]
    BY <1>3 DEF Abort
  <2>3. /\ UNCHANGED <<status, older, confirmations, event, promotions, failedPromotions>>
    BY <1>3 DEF Abort, rows, jobs
  <2> HIDE DEF again
  <2>4. QED
    BY <1>1, <2>1, <2>2, <2>3 DEF AtRest
<1>4. ASSUME NEW s \in Slots, GiveUp(s) PROVE AtRest
  <2>1. promotions - 1 \in Nat
    BY <1>4, PromotionLeft DEF GiveUp, RecordFailed
  <2>2. QED
    BY <1>1, <1>4, <2>1 DEF GiveUp, RecordFailed, AtRest, rows
<1>5. ASSUME NEW s \in Slots, Finish(s) PROVE AtRest
  <2>1. CASE tx[s].op = "promote"
    <3>1. promotions - 1 \in Nat /\ promotions' = promotions - 1
      BY <1>5, <2>1, PromotionLeft DEF Finish
    <3>2. s \in Settling /\ tx'[s].phase = "idle"
      BY <1>1, <1>5, <2>1 DEF Finish, Settling, Promoting
    <3>3. QED
      BY <1>1, <1>5, <3>1, <3>2 DEF Finish, AtRest, rows
  <2>2. CASE tx[s].op # "promote"
    BY <1>1, <1>5, <2>2 DEF Finish, AtRest, rows
  <2>3. QED
    BY <2>1, <2>2
<1>6. ASSUME NEW s \in Slots, Crash(s) PROVE AtRest
  <2>1. CASE UNCHANGED jobs
    BY <1>1, <1>6, <2>1 DEF Crash, AtRest, rows, jobs
  <2>2. CASE RecordFailed(s)
    <3>1. promotions - 1 \in Nat
      BY <2>2, PromotionLeft DEF RecordFailed
    <3>2. QED
      BY <1>1, <1>6, <2>2, <3>1 DEF Crash, RecordFailed, AtRest, rows
  <2>3. QED
    BY <1>6, <2>1, <2>2 DEF Crash
<1>7. CASE EventStarts
  BY <1>1, <1>7 DEF EventStarts, AtRest, rows, jobs, Event
<1>8. CASE UNCHANGED vars
  BY <1>1, <1>8 DEF vars, AtRest, rows, jobs
<1>9. QED
  BY <1>2, <1>3, <1>4, <1>5, <1>6, <1>7, <1>8 DEF Next, Step, Request

-----------------------------------------------------------------------------
(* What was read of the rows to be written is still so                      *)

\* What Decided says of one slot.
DecidedAt(s) ==
    /\ tx[s].touched = IF tx[s].targets = {} THEN {}
                       ELSE {tx[s].to} \cup {status[u] : u \in tx[s].targets}
    /\ \/ /\ tx[s].op = "book" /\ tx[s].scans = {"CONFIRMED"}
          /\ tx[s].to \in {"CONFIRMED", "WAITLISTED"}
          /\ \E u \in Users : tx[s].targets = {u} /\ status[u] \notin {"CONFIRMED", tx[s].to}
       \/ /\ tx[s].op = "cancel" /\ tx[s].to = "CANCELLED"
          /\ \E u \in Users : tx[s].targets = {u} /\ Cancellable(u)
       \/ tx[s].op \in PromoteOps /\ tx[s].to = "CONFIRMED" /\ tx[s].targets \subseteq Waitlisted

LEMMA DecidedSlots == Decided <=> \A s \in Slots : Valid(s) => DecidedAt(s)
BY Zenon DEF Decided, DecidedAt

\* The rows of a slot that a step leaves alone, and its targets' too.
LEMMA DecidedKept ==
    ASSUME TypeOK, NEW r \in Slots, DecidedAt(r), status' \in [Users -> Status],
           tx'[r].op = tx[r].op, tx'[r].scans = tx[r].scans, tx'[r].to = tx[r].to,
           tx'[r].targets = tx[r].targets, tx'[r].touched = tx[r].touched,
           \A u \in tx[r].targets : status'[u] = status[u]
    PROVE  DecidedAt(r)'
<1>1. tx[r].targets \subseteq Users
  BY DEF TypeOK, Transaction
<1>2. {status'[u] : u \in tx'[r].targets} = {status[u] : u \in tx[r].targets}
  OBVIOUS
<1>3. CASE tx[r].op = "book"
  BY <1>2, <1>3 DEF DecidedAt, PromoteOps
<1>4. CASE tx[r].op = "cancel"
  BY <1>2, <1>4 DEF DecidedAt, Cancellable, PromoteOps
<1>5. CASE tx[r].op \in PromoteOps
  BY <1>1, <1>2, <1>5 DEF DecidedAt, Waitlisted, PromoteOps
<1>6. QED
  BY <1>3, <1>4, <1>5 DEF DecidedAt

LEMMA DecidedOnStart ==
    ASSUME Inductive, Decided, NEW s \in Slots, status' = status,
           \A r \in Slots \ {s} : tx'[r] = tx[r], DecidedAt(s)'
    PROVE  Decided'
<1>1. ASSUME NEW r \in Slots, Valid(r)' PROVE DecidedAt(r)'
  <2>1. CASE r = s
    BY <2>1
  <2>2. CASE r # s
    <3>1. Valid(r) /\ DecidedAt(r)
      BY <1>1, <2>2, DecidedSlots DEF Valid, Running
    <3>2. QED
      BY <2>2, <3>1, DecidedKept DEF Inductive, TypeOK
  <2>3. QED
    BY <2>1, <2>2
<1>2. QED
  BY <1>1 DEF Decided, DecidedAt, Valid, Running, Cancellable, Waitlisted

LEMMA DecidedStep == Inductive /\ Decided /\ [Next]_vars => Decided'
<1> SUFFICES ASSUME Inductive, Decided, [Next]_vars PROVE Decided'
  OBVIOUS
<1>0. TypeOK /\ TypeOK' /\ status \in [Users -> Status] /\ status' \in [Users -> Status]
  BY TypeStep DEF WellFormed, Inductive, TypeOK
<1>1. ASSUME NEW s \in Slots, NEW u \in Users, BeginBook(s, u) PROVE Decided'
  <2>1. /\ Start(s, "book", {u}, {"CONFIRMED"}, {u}, NextStatus) /\ status' = status
        /\ status[u] \notin {"CONFIRMED", NextStatus} /\ NextStatus \in {"CONFIRMED", "WAITLISTED"}
    BY <1>1 DEF BeginBook, Bookable, NextStatus
  <2>2. DecidedAt(s)'
    <3>1. /\ tx'[s].op = "book" /\ tx'[s].scans = {"CONFIRMED"} /\ tx'[s].to = NextStatus
          /\ tx'[s].targets = {u} /\ tx'[s].touched = {NextStatus, status[u]}
      BY <1>0, <2>1 DEF Start, TypeOK
    <3>2. QED
      BY <2>1, <3>1 DEF DecidedAt
  <2>3. \A r \in Slots \ {s} : tx'[r] = tx[r]
    BY <1>0, <2>1, StartSlots
  <2>4. QED
    BY <2>1, <2>2, <2>3, DecidedOnStart
<1>2. ASSUME NEW s \in Slots, NEW u \in Users, BeginCancel(s, u) PROVE Decided'
  <2>1. Start(s, "cancel", {u}, {}, {u}, "CANCELLED") /\ status' = status /\ Cancellable(u)
    BY <1>2 DEF BeginCancel, rows
  <2>2. DecidedAt(s)'
    <3>1. /\ tx'[s].op = "cancel" /\ tx'[s].to = "CANCELLED"
          /\ tx'[s].targets = {u} /\ tx'[s].touched = {"CANCELLED", status[u]}
      BY <1>0, <2>1 DEF Start, TypeOK
    <3>2. QED
      BY <2>1, <3>1 DEF DecidedAt, Cancellable
  <2>3. \A r \in Slots \ {s} : tx'[r] = tx[r]
    BY <1>0, <2>1, StartSlots
  <2>4. QED
    BY <2>1, <2>2, <2>3, DecidedOnStart
<1>3. ASSUME NEW s \in Slots, BeginPromote(s) \/ BeginRepeat(s) PROVE Decided'
  <2>1. PICK op \in PromoteOps, S \in SUBSET Waitlisted :
          Start(s, op, {}, PromoteScans(S), S, "CONFIRMED")
    BY <1>3, PromoteRun
  <2>2. status' = status
    BY <1>3, PromoteRun
  <2>3. DecidedAt(s)'
    <3>1. /\ tx'[s].op \in PromoteOps /\ tx'[s].to = "CONFIRMED" /\ tx'[s].targets = S
          /\ tx'[s].touched = IF S = {} THEN {} ELSE {"CONFIRMED"} \cup {status[u] : u \in S}
      BY <1>0, <2>1 DEF Start, TypeOK
    <3>2. QED
      BY <2>2, <3>1 DEF DecidedAt, Waitlisted
  <2>4. \A r \in Slots \ {s} : tx'[r] = tx[r]
    BY <1>0, <2>1, StartSlots
  <2>5. QED
    BY <2>2, <2>3, <2>4, DecidedOnStart
<1>4. ASSUME NEW s \in Slots, Commit(s) PROVE Decided'
  <2>1. ASSUME NEW r \in Slots, Valid(r)' PROVE DecidedAt(r)'
    <3>1. Valid(r) /\ ~Conflict(tx[r], tx[s])
      BY <1>0, <1>4, <2>1, CommitSlots
    <3>2. tx[r].targets \cap tx[s].targets = {} /\ tx[r].targets \subseteq Users
      BY <1>0, <3>1 DEF Conflict, TypeOK, Transaction
    <3>3. \A u \in tx[r].targets : status'[u] = status[u]
      BY <1>4, <3>2 DEF Commit
    <3>4. DecidedAt(r)
      BY <3>1, DecidedSlots
    <3>5. QED
      BY <1>0, <1>4, <3>3, <3>4, CommitSlots, DecidedKept
  <2>2. QED
    BY <2>1 DEF Decided, DecidedAt, Valid, Running, Cancellable, Waitlisted
<1>5. CASE AtRest
  <2>1. ASSUME NEW r \in Slots, Valid(r)' PROVE DecidedAt(r)'
    <3>1. tx'[r] = tx[r] /\ status' = status
      BY <1>5, <2>1 DEF AtRest, Valid, Running
    <3>2. DecidedAt(r)
      BY <2>1, <3>1, DecidedSlots DEF Valid, Running
    <3>3. QED
      BY <1>0, <3>1, <3>2, DecidedKept
  <2>2. QED
    BY <2>1 DEF Decided, DecidedAt, Valid, Running, Cancellable, Waitlisted
<1>6. QED
  BY <1>1, <1>2, <1>3, <1>4, <1>5, RestSteps

\* What a commit does to the sets of confirmed and of waiting users.
LEMMA CommitSets ==
    ASSUME TypeOK, Decided, NEW s \in Slots, Commit(s)
    PROVE  \/ /\ tx[s].op \in {"book"} \cup PromoteOps /\ tx[s].to = "CONFIRMED"
              /\ tx[s].targets \cap Confirmed = {} /\ promotions' = promotions
              /\ Confirmed' = Confirmed \cup tx[s].targets
              /\ Waitlisted' = Waitlisted \ tx[s].targets
           \/ /\ tx[s].op = "book" /\ Queueing(s) /\ promotions' = promotions
              /\ tx[s].targets \cap (Confirmed \cup Waitlisted) = {}
              /\ Confirmed' = Confirmed /\ Waitlisted' = Waitlisted \cup tx[s].targets
           \/ /\ tx[s].op = "cancel" /\ promotions' = promotions + 1
              /\ tx[s].targets \subseteq Confirmed /\ "CONFIRMED" \in tx[s].touched
              /\ Confirmed' = Confirmed \ tx[s].targets /\ Waitlisted' = Waitlisted
           \/ /\ tx[s].op = "cancel" /\ promotions' = promotions
              /\ tx[s].targets \subseteq Waitlisted
              /\ Confirmed' = Confirmed /\ Waitlisted' = Waitlisted \ tx[s].targets
<1>1. /\ Valid(s) /\ DecidedAt(s) /\ tx[s].targets \subseteq Users
      /\ status \in [Users -> Status]
  BY DecidedSlots DEF Commit, Valid, TypeOK, Transaction
<1>2. /\ Confirmed' = IF tx[s].to = "CONFIRMED" THEN Confirmed \cup tx[s].targets
                                                ELSE Confirmed \ tx[s].targets
      /\ Waitlisted' = IF tx[s].to = "WAITLISTED" THEN Waitlisted \cup tx[s].targets
                                                  ELSE Waitlisted \ tx[s].targets
  BY <1>1 DEF Commit, Confirmed, Waitlisted
<1>3. promotions' = IF Releases(tx[s]) THEN promotions + 1 ELSE promotions
  BY DEF Commit
<1>4. CASE tx[s].op = "book"
  <2>1. PICK u \in Users : tx[s].targets = {u} /\ status[u] \notin {"CONFIRMED", tx[s].to}
    BY <1>1, <1>4 DEF DecidedAt, PromoteOps
  <2>2. CASE tx[s].to = "CONFIRMED"
    BY <1>2, <1>3, <1>4, <2>1, <2>2 DEF Releases, Confirmed
  <2>3. CASE tx[s].to = "WAITLISTED"
    <3>1. tx[s].targets \cap (Confirmed \cup Waitlisted) = {}
      BY <2>1, <2>3 DEF Confirmed, Waitlisted
    <3>2. Queueing(s) /\ promotions' = promotions
      BY <1>1, <1>3, <1>4, <2>3 DEF Queueing, Releases
    <3>3. QED
      BY <1>2, <1>4, <2>3, <3>1, <3>2
  <2>4. QED
    BY <1>1, <1>4, <2>2, <2>3 DEF DecidedAt
<1>5. CASE tx[s].op = "cancel"
  <2>1. PICK u \in Users : tx[s].targets = {u} /\ Cancellable(u)
    BY <1>1, <1>5 DEF DecidedAt, PromoteOps
  <2>2. tx[s].to = "CANCELLED" /\ tx[s].touched = {"CANCELLED", status[u]}
    BY <1>1, <1>5, <2>1 DEF DecidedAt, PromoteOps
  <2>3. CASE status[u] = "CONFIRMED"
    BY <1>2, <1>3, <1>5, <2>1, <2>2, <2>3 DEF Releases, Confirmed, Waitlisted
  <2>4. CASE status[u] = "WAITLISTED"
    BY <1>2, <1>3, <1>5, <2>1, <2>2, <2>4 DEF Releases, Confirmed, Waitlisted
  <2>5. QED
    BY <2>1, <2>3, <2>4 DEF Cancellable
<1>6. CASE tx[s].op \in PromoteOps
  <2>1. tx[s].to = "CONFIRMED" /\ tx[s].targets \subseteq Waitlisted
    BY <1>1, <1>6 DEF DecidedAt, PromoteOps
  <2>2. tx[s].targets \cap Confirmed = {}
    BY <2>1 DEF Confirmed, Waitlisted
  <2>3. QED
    BY <1>2, <1>3, <1>6, <2>1, <2>2 DEF Releases, PromoteOps
<1>7. QED
  BY <1>1, <1>4, <1>5, <1>6 DEF DecidedAt

-----------------------------------------------------------------------------
(* The order of the waitlist                                                *)

LEMMA InTurnStep == Inductive /\ Decided /\ InTurn /\ [Next]_vars => InTurn'
<1> SUFFICES ASSUME Inductive, Decided, InTurn, [Next]_vars,
                    NEW r \in Slots, Valid(r)', tx'[r].op \in PromoteOps, NEW v \in tx'[r].targets
             PROVE  older'[v] \cap Waitlisted' \subseteq tx'[r].targets
  BY DEF InTurn
<1>0. TypeOK
  BY DEF Inductive
<1>1. ASSUME tx'[r] = tx[r], status' = status, older'[v] \subseteq older[v]
      PROVE  older'[v] \cap Waitlisted' \subseteq tx'[r].targets
  <2>1. Valid(r) /\ tx[r].op \in PromoteOps /\ v \in tx[r].targets
    BY <1>1 DEF Valid, Running
  <2>2. older[v] \cap Waitlisted \subseteq tx[r].targets
    BY <2>1 DEF InTurn
  <2>3. QED
    BY <1>1, <2>2 DEF Waitlisted
<1>2. ASSUME tx'[r] = tx[r] PROVE v \in Users /\ status[v] = "WAITLISTED"
  <2>1. Valid(r) /\ tx[r].op \in PromoteOps /\ v \in tx[r].targets
    BY <1>2 DEF Valid, Running
  <2>2. QED
    BY <2>1, DecidedSlots DEF DecidedAt, Waitlisted, PromoteOps
<1>3. ASSUME NEW s \in Slots, NEW u \in Users, BeginBook(s, u)
      PROVE  older'[v] \cap Waitlisted' \subseteq tx'[r].targets
  <2>1. tx'[s].op = "book" /\ \A x \in Slots \ {s} : tx'[x] = tx[x]
    BY <1>0, <1>3 DEF BeginBook, Start, TypeOK
  <2>2. tx'[r] = tx[r] /\ status' = status
    BY <1>3, <2>1 DEF BeginBook, PromoteOps
  <2>3. older'[v] \subseteq older[v]
    BY <1>2, <1>3, <2>2 DEF BeginBook, Stamp
  <2>4. QED
    BY <1>1, <2>2, <2>3
<1>4. ASSUME NEW s \in Slots, NEW u \in Users, BeginCancel(s, u)
      PROVE  older'[v] \cap Waitlisted' \subseteq tx'[r].targets
  <2>1. tx'[s].op = "cancel" /\ \A x \in Slots \ {s} : tx'[x] = tx[x]
    BY <1>0, <1>4 DEF BeginCancel, Start, TypeOK
  <2>2. QED
    BY <1>1, <1>4, <2>1 DEF BeginCancel, rows, PromoteOps
<1>5. ASSUME NEW s \in Slots, BeginPromote(s) \/ BeginRepeat(s)
      PROVE  older'[v] \cap Waitlisted' \subseteq tx'[r].targets
  <2>1. status' = status /\ older' = older
    BY <1>5, PromoteRun
  <2>2. PICK op \in PromoteOps, S \in SUBSET Waitlisted :
          /\ IF event.exists /\ OpenSeats > 0 THEN Chosen(S) ELSE S = {}
          /\ Start(s, op, {}, PromoteScans(S), S, "CONFIRMED")
    BY <1>5, PromoteRun
  <2>3. tx'[s].targets = S /\ \A x \in Slots \ {s} : tx'[x] = tx[x]
    BY <1>0, <2>2 DEF Start, TypeOK
  <2>4. CASE r = s
    BY <2>1, <2>2, <2>3, <2>4 DEF Chosen, Waitlisted
  <2>5. CASE r # s
    BY <1>1, <2>1, <2>3, <2>5
  <2>6. QED
    BY <2>4, <2>5
<1>6. ASSUME NEW s \in Slots, Commit(s)
      PROVE  older'[v] \cap Waitlisted' \subseteq tx'[r].targets
  <2>1. /\ Valid(r) /\ ~Conflict(tx[r], tx[s]) /\ tx[r].op \in PromoteOps
        /\ tx'[r].targets = tx[r].targets /\ older' = older /\ v \in tx[r].targets
    BY <1>0, <1>6, CommitSlots DEF Commit
  <2>2. older[v] \cap Waitlisted \subseteq tx[r].targets
    BY <2>1 DEF InTurn
  <2>3. CASE Waitlisted' \subseteq Waitlisted
    BY <2>1, <2>2, <2>3
  <2>4. CASE Queueing(s) /\ tx[s].op = "book" /\ Waitlisted' = Waitlisted \cup tx[s].targets
    <3>1. /\ DecidedAt(r) /\ DecidedAt(s)
      BY <2>1, <2>4, DecidedSlots DEF Queueing
    <3>2. "CONFIRMED" \in tx[r].touched /\ tx[s].scans = {"CONFIRMED"} /\ "WAITLISTED" \in tx[s].touched
      BY <2>1, <2>4, <3>1 DEF DecidedAt, Queueing, PromoteOps
    <3>3. ReadsFrom(tx[s], tx[r])
      BY <2>1, <3>2 DEF ReadsFrom
    <3>4. ~ReadsFrom(tx[r], tx[s])
      BY <2>1, <3>3 DEF Conflict
    <3>5. older[v] \cap tx[s].targets = {}
      BY <2>1, <3>2, <3>4 DEF ReadsFrom
    <3>6. QED
      BY <2>1, <2>2, <2>4, <3>5
  <2>5. QED
    BY <1>0, <1>6, <2>3, <2>4, CommitSets
<1>7. CASE AtRest
  BY <1>1, <1>7 DEF AtRest, Valid, Running
<1>8. QED
  BY <1>3, <1>4, <1>5, <1>6, <1>7, RestSteps

-----------------------------------------------------------------------------
(* Seats and promotions owed                                                *)

\* The numbers the next lemmas compare.
LEMMA SeatNumbers ==
    ASSUME TypeOK
    PROVE  /\ event.capacity \in Nat /\ OpenSeats \in Int
           /\ Confirmed \subseteq Users /\ IsFiniteSet(Confirmed) /\ Cardinality(Confirmed) \in Nat
           /\ promotions \in Nat /\ failedPromotions \in Nat
           /\ Settling \cup Narrow \subseteq Promoting /\ Settling \cup Short \subseteq Promoting
           /\ IsFiniteSet(Promoting)
<1>1. Confirmed \subseteq Users /\ Promoting \subseteq Slots
  BY DEF Confirmed, Promoting
<1>2. /\ IsFiniteSet(Confirmed) /\ Cardinality(Confirmed) \in Nat /\ IsFiniteSet(Promoting)
  BY <1>1, UsersCard, SlotsCard
<1>3. QED
  BY <1>1, <1>2 DEF TypeOK, Event, OpenSeats, Settling, Narrow, Short

LEMMA SeatsAreInts == (TypeOK => OpenSeats \in Int) /\ (TypeOK' => OpenSeats' \in Int)
<1>1. Confirmed \subseteq Users /\ Confirmed' \subseteq Users
  BY DEF Confirmed
<1>2. Cardinality(Confirmed) \in Nat /\ Cardinality(Confirmed') \in Nat
  BY <1>1, UsersCard
<1>3. QED
  BY <1>2 DEF TypeOK, Event, OpenSeats

\* With no seat released, no more of them are open, and whoever leaves one open
\* now has done so before.
LEMMA FewerSeats ==
    ASSUME TypeOK, TypeOK', Confirmed \subseteq Confirmed', event'.capacity = event.capacity
    PROVE  /\ OpenSeats' <= OpenSeats
           /\ \A T \in SUBSET Users : Cardinality(Confirmed' \cup T) < event.capacity
                                        => Cardinality(Confirmed \cup T) < event.capacity
<1>1. Confirmed \subseteq Users /\ Confirmed' \subseteq Users
  BY DEF Confirmed
<1>2. ASSUME NEW T \in SUBSET Users
      PROVE  /\ Cardinality(Confirmed \cup T) <= Cardinality(Confirmed' \cup T)
             /\ Cardinality(Confirmed \cup T) \in Nat /\ Cardinality(Confirmed' \cup T) \in Nat
  <2>1. Confirmed \cup T \subseteq Confirmed' \cup T /\ Confirmed' \cup T \subseteq Users
    BY <1>1
  <2>2. IsFiniteSet(Confirmed' \cup T) /\ Cardinality(Confirmed' \cup T) \in Nat
    BY <2>1, UsersCard
  <2>3. QED
    BY <2>1, <2>2, SubsetCard
<1>3. /\ Cardinality(Confirmed) <= Cardinality(Confirmed')
      /\ Cardinality(Confirmed) \in Nat /\ Cardinality(Confirmed') \in Nat
  <2>1. Confirmed \cup {} = Confirmed /\ Confirmed' \cup {} = Confirmed'
    OBVIOUS
  <2>2. QED
    BY <1>2, <2>1
<1>4. event.capacity \in Nat
  BY SeatNumbers
<1>5. OpenSeats' <= OpenSeats
  BY <1>3, <1>4 DEF OpenSeats
<1>6. ASSUME NEW T \in SUBSET Users, Cardinality(Confirmed' \cup T) < event.capacity
      PROVE  Cardinality(Confirmed \cup T) < event.capacity
  <2>1. /\ Cardinality(Confirmed \cup T) <= Cardinality(Confirmed' \cup T)
        /\ Cardinality(Confirmed \cup T) \in Nat /\ Cardinality(Confirmed' \cup T) \in Nat
    BY <1>2
  <2>2. QED
    BY <1>4, <1>6, <2>1
<1>7. QED
  BY <1>5, <1>6

\* What is owed beyond a set of promotions is owed beyond a smaller set, and
\* beyond one of them less when that one is done with.
LEMMA OwingStill ==
    ASSUME TypeOK, NEW A, A \subseteq Promoting, Owing(A), NEW B, B \subseteq A,
           NEW n \in Nat,
           \/ n = promotions + failedPromotions
           \/ n = promotions + failedPromotions - 1 /\ \E s \in A : B \subseteq A \ {s}
    PROVE  n > Cardinality(B)
<1>1. /\ IsFiniteSet(A) /\ Cardinality(A) \in Nat
      /\ promotions \in Nat /\ failedPromotions \in Nat
  <2>1. IsFiniteSet(Promoting)
    BY SeatNumbers
  <2>2. QED
    BY <2>1, SubsetCard, SeatNumbers
<1>2. Cardinality(B) \in Nat /\ Cardinality(B) <= Cardinality(A)
  BY <1>1, SubsetCard
<1>3. CASE n = promotions + failedPromotions
  BY <1>1, <1>2, <1>3 DEF Owing
<1>4. ASSUME n = promotions + failedPromotions - 1, NEW s \in A, B \subseteq A \ {s}
      PROVE  n > Cardinality(B)
  <2>1. IsFiniteSet(A \ {s}) /\ Cardinality(A \ {s}) = Cardinality(A) - 1
    BY <1>1, <1>4, FS_RemoveElement
  <2>2. Cardinality(B) <= Cardinality(A \ {s})
    BY <1>4, <2>1, SubsetCard
  <2>3. promotions + failedPromotions > Cardinality(A)
    BY DEF Owing
  <2>4. QED
    BY <1>1, <1>2, <1>4, <2>1, <2>2, <2>3
<1>5. QED
  BY <1>3, <1>4

\* A promotion that has just been written is one more than are under way.
LEMMA OwingAnew ==
    ASSUME TypeOK, JobsCovered, NEW B, B \subseteq Promoting,
           NEW n \in Nat, n = promotions + 1 + failedPromotions
    PROVE  n > Cardinality(B)
<1>1. IsFiniteSet(Promoting) /\ promotions \in Nat /\ failedPromotions \in Nat
  BY SeatNumbers
<1>2. Cardinality(B) \in Nat /\ Cardinality(B) <= Cardinality(Promoting) /\ Cardinality(Promoting) \in Nat
  BY <1>1, SubsetCard
<1>3. QED
  BY <1>1, <1>2 DEF JobsCovered

LEMMA QueuersMetStep == Inductive /\ Decided /\ QueuersMet /\ [Next]_vars => QueuersMet'
<1> SUFFICES ASSUME Inductive, Decided, QueuersMet, [Next]_vars,
                    NEW r \in Slots, Queueing(r)', OpenSeats' > 0
             PROVE  tx'[r].fate = "out"
  BY DEF QueuersMet
<1>0. TypeOK /\ TypeOK'
  BY TypeStep DEF WellFormed, Inductive
<1>1. ASSUME tx'[r] = tx[r], OpenSeats' = OpenSeats PROVE tx'[r].fate = "out"
  BY <1>1 DEF QueuersMet, Queueing, Valid, Running
<1>2. ASSUME NEW s \in Slots, NEW u \in Users, BeginBook(s, u) PROVE tx'[r].fate = "out"
  <2>1. OpenSeats' = OpenSeats
    BY <1>2 DEF BeginBook, OpenSeats, Confirmed
  <2>2. tx'[s].to = NextStatus /\ \A x \in Slots \ {s} : tx'[x] = tx[x]
    BY <1>0, <1>2 DEF BeginBook, Start, TypeOK
  <2>3. r # s
    BY <2>1, <2>2, <1>0, SeatNumbers DEF NextStatus, OpenSeats, Queueing
  <2>4. QED
    BY <1>1, <2>1, <2>2, <2>3
<1>3. ASSUME NEW s \in Slots, NEW u \in Users, BeginCancel(s, u) PROVE tx'[r].fate = "out"
  <2>1. OpenSeats' = OpenSeats
    BY <1>3 DEF BeginCancel, OpenSeats, Confirmed, rows
  <2>2. tx'[s].to = "CANCELLED" /\ \A x \in Slots \ {s} : tx'[x] = tx[x]
    BY <1>0, <1>3 DEF BeginCancel, Start, TypeOK
  <2>3. QED
    BY <1>1, <2>1, <2>2 DEF Queueing
<1>4. ASSUME NEW s \in Slots, BeginPromote(s) \/ BeginRepeat(s) PROVE tx'[r].fate = "out"
  <2>1. OpenSeats' = OpenSeats
    BY <1>4, PromoteRun DEF OpenSeats, Confirmed
  <2>2. tx'[s].to = "CONFIRMED" /\ \A x \in Slots \ {s} : tx'[x] = tx[x]
    BY <1>0, <1>4 DEF BeginPromote, BeginRepeat, Promote, Start, TypeOK
  <2>3. QED
    BY <1>1, <2>1, <2>2 DEF Queueing
<1>5. ASSUME NEW s \in Slots, Commit(s) PROVE tx'[r].fate = "out"
  <2>1. Queueing(r) /\ (ReadsFrom(tx[r], tx[s]) \/ tx[r].fate = "out" => tx'[r].fate = "out")
    BY <1>0, <1>5, CommitSlots DEF Queueing
  <2>2. CASE Confirmed \subseteq Confirmed'
    <3>1. event' = event
      BY <1>5 DEF Commit
    <3>2. OpenSeats' <= OpenSeats
      BY <1>0, <2>2, <3>1, FewerSeats
    <3>3. OpenSeats \in Int /\ OpenSeats' \in Int
      BY <1>0, SeatsAreInts
    <3>4. OpenSeats > 0
      BY <3>2, <3>3
    <3>5. QED
      BY <2>1, <3>4 DEF QueuersMet
  <2>3. CASE tx[s].op = "cancel" /\ "CONFIRMED" \in tx[s].touched
    <3>1. DecidedAt(r) /\ DecidedAt(s)
      BY <1>5, <2>1, DecidedSlots DEF Queueing, Commit, Valid
    <3>2. tx[r].scans = {"CONFIRMED"} /\ tx[s].targets # {}
      BY <2>1, <2>3, <3>1 DEF DecidedAt, Queueing
    <3>3. ReadsFrom(tx[r], tx[s])
      BY <2>3, <3>2 DEF ReadsFrom
    <3>4. QED
      BY <2>1, <3>3
  <2>4. QED
    BY <1>0, <1>5, <2>2, <2>3, CommitSets
<1>6. CASE AtRest
  BY <1>1, <1>6 DEF AtRest, Queueing, Valid, Running, OpenSeats, Confirmed
<1>7. QED
  BY <1>2, <1>3, <1>4, <1>5, <1>6, RestSteps

\* A slot that starts is not done, and the others stay what they were.
LEMMA SpentOnStart ==
    ASSUME TypeOK, NEW s \in Slots, status' = status, event' = event, tx'[s].phase = "running",
           \A r \in Slots \ {s} : tx'[r] = tx[r]
    PROVE  /\ Settling' \subseteq Settling /\ Narrow' \subseteq Narrow \cup {s}
           /\ Short' \subseteq Short \cup {s}
<1>1. Confirmed' = Confirmed /\ Waitlisted' = Waitlisted
  BY DEF Confirmed, Waitlisted
<1>2. ASSUME NEW r \in Slots, r # s
      PROVE  tx'[r] = tx[r]
  BY <1>2
<1>3. QED
  BY <1>1, <1>2 DEF Settling, Narrow, Short, Promoting, LeavesSeat, Valid, Running

\* What a promotion chooses when a seat is free fills the event, or is the
\* whole waitlist, of which it has then read the end.
LEMMA PromotionFills ==
    ASSUME TypeOK, NEW S \in SUBSET Waitlisted, event.exists, OpenSeats > 0, Chosen(S),
           Cardinality(Confirmed \cup S) < event.capacity
    PROVE  S = Waitlisted /\ "WAITLISTED" \in PromoteScans(S)
<1>1. S \subseteq Users /\ Confirmed \subseteq Users /\ Confirmed \cap S = {}
  BY DEF Waitlisted, Confirmed
<1>2. /\ IsFiniteSet(S) /\ Cardinality(S) \in Nat
      /\ IsFiniteSet(Confirmed) /\ Cardinality(Confirmed) \in Nat
  BY <1>1, UsersCard
<1>3. Cardinality(Confirmed \cup S) = Cardinality(Confirmed) + Cardinality(S)
  BY <1>1, <1>2, FS_Union, FS_EmptySet
<1>4. event.capacity \in Nat
  BY DEF TypeOK, Event
<1>5. Cardinality(S) < OpenSeats
  BY <1>2, <1>3, <1>4 DEF OpenSeats
<1>6. OpenSeats \in Int
  BY SeatsAreInts
<1>7. QED
  BY <1>2, <1>5, <1>6 DEF Chosen, PromoteScans

\* So a promotion that starts while a seat is free is neither Narrow nor Short.
LEMMA PromotionSpends ==
    ASSUME TypeOK, NEW s \in Slots, BeginPromote(s) \/ BeginRepeat(s), event.exists, OpenSeats > 0
    PROVE  s \notin Narrow' /\ s \notin Short'
<1>1. PICK op \in PromoteOps, S \in SUBSET Waitlisted :
        Chosen(S) /\ Start(s, op, {}, PromoteScans(S), S, "CONFIRMED")
  BY PromoteRun
<1>2. tx'[s].scans = PromoteScans(S) /\ tx'[s].targets = S
  BY <1>1 DEF Start, TypeOK
<1>3. Confirmed' = Confirmed /\ Waitlisted' = Waitlisted /\ event' = event
  BY PromoteRun DEF Confirmed, Waitlisted
<1>4. CASE Cardinality(Confirmed \cup S) < event.capacity
  <2>1. S = Waitlisted /\ "WAITLISTED" \in PromoteScans(S)
    BY <1>1, <1>4, PromotionFills
  <2>2. QED
    BY <1>2, <1>3, <2>1 DEF Narrow, Short
<1>5. CASE ~(Cardinality(Confirmed \cup S) < event.capacity)
  BY <1>2, <1>3, <1>5 DEF Narrow, Short, LeavesSeat
<1>6. QED
  BY <1>4, <1>5

\* The promotions that count as spent stay so at rest, but for one done with.
LEMMA SpentAtRest ==
    ASSUME TypeOK, AtRest
    PROVE  /\ Settling' \subseteq Settling /\ Narrow' \subseteq Narrow /\ Short' \subseteq Short
           /\ \A s \in Slots : tx'[s].phase = "idle" => s \notin Settling' \cup Narrow' \cup Short'
<1>1. Confirmed' = Confirmed /\ Waitlisted' = Waitlisted /\ event'.capacity = event.capacity
  BY DEF AtRest, Confirmed, Waitlisted
<1>2. ASSUME NEW r \in Slots, tx'[r].phase \in {"running", "committed"}
      PROVE  tx'[r] = tx[r]
  BY <1>2 DEF AtRest
<1>3. QED
  BY <1>1, <1>2 DEF Settling, Narrow, Short, Promoting, LeavesSeat, Valid, Running

LEMMA NatSum == \A m, n \in Nat : m + n \in Nat
OBVIOUS

\* What holds of a count holds of it after a step that writes no promotion.
LEMMA OwingAtRest ==
    ASSUME TypeOK, TypeOK', AtRest, NEW A, A \subseteq Promoting, Owing(A), NEW B, B \subseteq A,
           Settling \subseteq A, \A s \in Slots : tx'[s].phase = "idle" => s \notin B
    PROVE  promotions' + failedPromotions' > Cardinality(B)
<1>1. promotions' \in Nat /\ failedPromotions' \in Nat
  BY DEF TypeOK
<1>2. \/ promotions' + failedPromotions' = promotions + failedPromotions
      \/ /\ promotions' + failedPromotions' = promotions + failedPromotions - 1
         /\ \E s \in A : B \subseteq A \ {s}
  <2>1. ASSUME NEW s \in Settling, tx'[s].phase = "idle" PROVE \E x \in A : B \subseteq A \ {x}
    BY <2>1 DEF Settling, Promoting
  <2>2. promotions \in Nat /\ failedPromotions \in Nat
    BY DEF TypeOK
  <2>3. QED
    BY <2>1, <2>2 DEF AtRest
<1>3. promotions' + failedPromotions' \in Nat
  BY <1>1, NatSum
<1>4. QED
  BY <1>2, <1>3, OwingStill

\* A step in which the counts stay what they are, or a promotion is written.
LEMMA OwingKept ==
    ASSUME TypeOK, promotions' = promotions, failedPromotions' = failedPromotions,
           NEW A, A \subseteq Promoting, Owing(A), NEW B, B \subseteq A
    PROVE  promotions' + failedPromotions' > Cardinality(B)
<1>1. promotions \in Nat /\ failedPromotions \in Nat
  BY DEF TypeOK
<1>2. promotions + failedPromotions \in Nat
  BY <1>1, NatSum
<1>3. promotions + failedPromotions > Cardinality(B)
  BY <1>2, OwingStill
<1>4. QED
  BY <1>3

LEMMA OwingReleased ==
    ASSUME TypeOK, JobsCovered, promotions' = promotions + 1,
           failedPromotions' = failedPromotions, NEW B, B \subseteq Promoting
    PROVE  promotions' + failedPromotions' > Cardinality(B)
<1>1. promotions \in Nat /\ failedPromotions \in Nat
  BY DEF TypeOK
<1>2. promotions + 1 + failedPromotions \in Nat
  BY <1>1
<1>3. promotions + 1 + failedPromotions > Cardinality(B)
  BY <1>2, OwingAnew
<1>4. QED
  BY <1>3

\* A commit that releases no seat takes nobody else into the sets of spent
\* promotions, but for who waits now.
LEMMA SpentOnCommit ==
    ASSUME TypeOK, TypeOK', NEW s \in Slots, Commit(s), Confirmed \subseteq Confirmed'
    PROVE  /\ Settling' \subseteq Settling \cup {s} /\ s \notin Narrow' \cup Short'
           /\ tx[s].op # "promote" => s \notin Settling'
           /\ Narrow' \subseteq Narrow
           /\ \A r \in Short' : /\ r \in Promoting /\ LeavesSeat(r) /\ ~Conflict(tx[r], tx[s])
                                /\ ~(Waitlisted' \subseteq tx[r].targets)
<1>1. event' = event
  BY DEF Commit
<1>2. \A T \in SUBSET Users : Cardinality(Confirmed' \cup T) < event.capacity
                                => Cardinality(Confirmed \cup T) < event.capacity
  BY <1>1, FewerSeats
<1>3. ASSUME NEW r \in Slots
      PROVE  /\ tx'[r].op = tx[r].op /\ tx'[r].scans = tx[r].scans /\ tx'[r].targets = tx[r].targets
             /\ tx'[r].phase = IF r = s THEN "committed" ELSE tx[r].phase
             /\ Valid(r)' => r # s /\ Valid(r) /\ ~Conflict(tx[r], tx[s])
  BY CommitSlots
<1>4. ASSUME NEW r \in Slots, LeavesSeat(r)'
      PROVE  r # s /\ LeavesSeat(r) /\ ~Conflict(tx[r], tx[s])
  <2>1. tx[r].targets \in SUBSET Users
    BY DEF TypeOK, Transaction
  <2>2. Valid(r)' /\ Cardinality(Confirmed' \cup tx[r].targets) < event.capacity
    BY <1>1, <1>3, <1>4 DEF LeavesSeat
  <2>3. QED
    BY <1>2, <1>3, <2>1, <2>2 DEF LeavesSeat
<1>5. Settling' \subseteq Settling \cup {s} /\ (tx[s].op # "promote" => s \notin Settling')
  BY <1>3 DEF Settling, Promoting
<1>6. Narrow' \subseteq Narrow /\ s \notin Narrow' \cup Short'
  BY <1>3, <1>4 DEF Narrow, Short, Promoting
<1>7. \A r \in Short' : /\ r \in Promoting /\ LeavesSeat(r) /\ ~Conflict(tx[r], tx[s])
                        /\ ~(Waitlisted' \subseteq tx[r].targets)
  BY <1>3, <1>4 DEF Short, Promoting
<1>8. QED
  BY <1>5, <1>6, <1>7

\* A promotion that commits and leaves a seat free was about to.
LEMMA PromotionLeaves ==
    ASSUME Inductive, Decided, NEW s \in Slots, Commit(s), tx[s].op = "promote", OpenSeats' > 0
    PROVE  s \in Promoting /\ LeavesSeat(s) /\ Waitlisted' = Waitlisted \ tx[s].targets
<1>1. TypeOK /\ TypeOK'
  BY TypeStep DEF WellFormed, Inductive, Next, Step
<1>2. Confirmed' = Confirmed \cup tx[s].targets /\ Waitlisted' = Waitlisted \ tx[s].targets
  BY <1>1, CommitSets
<1>3. event' = event /\ Valid(s) /\ event.capacity \in Nat
  BY <1>1 DEF Commit, Valid, TypeOK, Event
<1>4. Confirmed' \subseteq Users
  BY DEF Confirmed
<1>5. Cardinality(Confirmed') \in Nat
  BY <1>4, UsersCard
<1>6. Cardinality(Confirmed') < event.capacity
  BY <1>3, <1>5 DEF OpenSeats
<1>7. QED
  BY <1>2, <1>3, <1>6 DEF LeavesSeat, Promoting

LEMMA QueuersOwedStep ==
    Inductive /\ Decided /\ QueuersMet /\ QueuersOwed /\ [Next]_vars => QueuersOwed'
<1> SUFFICES ASSUME Inductive, Decided, QueuersMet, QueuersOwed, [Next]_vars,
                    event'.exists, OpenSeats' > 0, NEW q \in Slots, Queueing(q)'
             PROVE  promotions' + failedPromotions' > Cardinality(Settling' \cup Narrow')
  BY DEF QueuersOwed, Owing
<1> DEFINE spent == Settling \cup Narrow
<1>0. /\ TypeOK /\ TypeOK' /\ JobsCovered /\ OpenSeats \in Int /\ OpenSeats' \in Int
      /\ spent \subseteq Promoting
  BY TypeStep, SeatsAreInts, SeatNumbers DEF WellFormed, Inductive
<1>1. ASSUME event.exists, OpenSeats > 0, NEW x \in Slots, Queueing(x) PROVE Owing(spent)
  BY <1>1 DEF QueuersOwed
<1> HIDE DEF spent
<1>2. ASSUME NEW s \in Slots, tx'[s].phase = "running", ~Queueing(s)',
             s \notin Narrow', \A r \in Slots \ {s} : tx'[r] = tx[r],
             UNCHANGED <<status, event, promotions, failedPromotions>>
      PROVE  promotions' + failedPromotions' > Cardinality(Settling' \cup Narrow')
  <2>1. OpenSeats' = OpenSeats
    BY <1>2 DEF OpenSeats, Confirmed
  <2>2. Queueing(q)
    BY <1>2 DEF Queueing, Valid, Running
  <2>3. Owing(spent)
    BY <1>1, <1>2, <2>1, <2>2
  <2>4. Settling' \cup Narrow' \subseteq spent
    BY <1>0, <1>2, SpentOnStart DEF spent
  <2>5. QED
    BY <1>0, <1>2, <2>3, <2>4, OwingKept
<1>3. ASSUME NEW s \in Slots, NEW u \in Users, BeginBook(s, u)
      PROVE  promotions' + failedPromotions' > Cardinality(Settling' \cup Narrow')
  <2>1. /\ tx'[s].phase = "running" /\ tx'[s].op = "book" /\ tx'[s].to = NextStatus
        /\ \A r \in Slots \ {s} : tx'[r] = tx[r]
    BY <1>0, <1>3 DEF BeginBook, Start, TypeOK
  <2>2. UNCHANGED <<status, event, promotions, failedPromotions>>
    BY <1>3 DEF BeginBook, jobs
  <2>3. OpenSeats' = OpenSeats
    BY <2>2 DEF OpenSeats, Confirmed
  <2>4. ~Queueing(s)' /\ s \notin Narrow'
    BY <1>0, <2>1, <2>3, SeatNumbers DEF NextStatus, OpenSeats, Queueing, Narrow, Promoting
  <2>5. QED
    BY <1>2, <2>1, <2>2, <2>4
<1>4. ASSUME NEW s \in Slots, NEW u \in Users, BeginCancel(s, u)
      PROVE  promotions' + failedPromotions' > Cardinality(Settling' \cup Narrow')
  <2>1. /\ tx'[s].phase = "running" /\ tx'[s].op = "cancel" /\ tx'[s].to = "CANCELLED"
        /\ \A r \in Slots \ {s} : tx'[r] = tx[r]
    BY <1>0, <1>4 DEF BeginCancel, Start, TypeOK
  <2>2. UNCHANGED <<status, event, promotions, failedPromotions>>
    BY <1>4 DEF BeginCancel, jobs, rows
  <2>3. ~Queueing(s)' /\ s \notin Narrow'
    BY <2>1 DEF Queueing, Narrow, Promoting
  <2>4. QED
    BY <1>2, <2>1, <2>2, <2>3
<1>5. ASSUME NEW s \in Slots, BeginPromote(s) \/ BeginRepeat(s)
      PROVE  promotions' + failedPromotions' > Cardinality(Settling' \cup Narrow')
  <2>1. /\ tx'[s].phase = "running" /\ tx'[s].to = "CONFIRMED"
        /\ \A r \in Slots \ {s} : tx'[r] = tx[r]
    BY <1>0, <1>5 DEF BeginPromote, BeginRepeat, Promote, Start, TypeOK
  <2>2. UNCHANGED <<status, event, promotions, failedPromotions>>
    BY <1>5, PromoteRun
  <2>3. OpenSeats' = OpenSeats
    BY <2>2 DEF OpenSeats, Confirmed
  <2>4. ~Queueing(s)'
    BY <2>1 DEF Queueing
  <2>5. s \notin Narrow'
    BY <1>0, <1>5, <2>2, <2>3, PromotionSpends
  <2>6. QED
    BY <1>2, <2>1, <2>2, <2>4, <2>5
<1>6. ASSUME NEW s \in Slots, Commit(s)
      PROVE  promotions' + failedPromotions' > Cardinality(Settling' \cup Narrow')
  <2>1. failedPromotions' = failedPromotions /\ event' = event
    BY <1>6 DEF Commit
  <2>2. CASE promotions' = promotions + 1
    <3>1. Promoting' = Promoting
      BY <1>0, <1>6, CommitSlots DEF Promoting
    <3>2. Settling' \cup Narrow' \subseteq Promoting
      BY <3>1 DEF Settling, Narrow
    <3>3. QED
      BY <1>0, <2>1, <2>2, <3>2, OwingReleased
  <2>3. CASE promotions' = promotions /\ Confirmed \subseteq Confirmed'
    <3>1. Queueing(q) /\ q # s /\ ~Conflict(tx[q], tx[s])
      BY <1>0, <1>6, CommitSlots DEF Queueing
    <3>2. OpenSeats' <= OpenSeats
      BY <1>0, <2>1, <2>3, FewerSeats
    <3>3. OpenSeats > 0
      BY <1>0, <3>2
    <3>4. Owing(spent) /\ tx[q].fate = "out"
      BY <1>1, <2>1, <3>1, <3>3 DEF QueuersMet
    <3>5. /\ Settling' \subseteq Settling \cup {s} /\ Narrow' \subseteq Narrow
          /\ tx[s].op # "promote" => s \notin Settling'
      BY <1>0, <1>6, <2>3, SpentOnCommit
    <3>6. ASSUME tx[s].op = "promote" PROVE s \in Narrow
      <4>1. s \in Promoting /\ LeavesSeat(s)
        BY <1>6, <3>6, PromotionLeaves
      <4>2. DecidedAt(q)
        BY <3>1, DecidedSlots DEF Queueing
      <4>3. tx[q].targets # {} /\ "WAITLISTED" \in tx[q].touched
        BY <3>1, <4>2 DEF DecidedAt, Queueing
      <4>4. ~ReadsFrom(tx[s], tx[q])
        BY <3>1, <3>4 DEF Conflict
      <4>5. "WAITLISTED" \notin tx[s].scans
        BY <4>3, <4>4 DEF ReadsFrom
      <4>6. QED
        BY <4>1, <4>5 DEF Narrow
    <3>7. Settling' \cup Narrow' \subseteq spent
      BY <3>5, <3>6 DEF spent
    <3>8. QED
      BY <1>0, <2>1, <2>3, <3>4, <3>7, OwingKept
  <2>4. QED
    BY <1>0, <1>6, <2>2, <2>3, CommitSets
<1>7. CASE AtRest
  <2>1. Queueing(q) /\ event.exists /\ OpenSeats > 0
    BY <1>7 DEF AtRest, Queueing, Valid, Running, OpenSeats, Confirmed
  <2>2. Owing(spent)
    BY <1>1, <2>1
  <2>3. /\ Settling' \cup Narrow' \subseteq spent /\ Settling \subseteq spent
        /\ \A s \in Slots : tx'[s].phase = "idle" => s \notin Settling' \cup Narrow'
    BY <1>0, <1>7, SpentAtRest DEF spent
  <2>4. QED
    BY <1>0, <1>7, <2>2, <2>3, OwingAtRest
<1>8. QED
  BY <1>3, <1>4, <1>5, <1>6, <1>7, RestSteps

LEMMA WaitersOwedStep ==
    Inductive /\ Decided /\ QueuersMet /\ QueuersOwed /\ WaitersOwed /\ [Next]_vars => WaitersOwed'
<1> SUFFICES ASSUME Inductive, Decided, QueuersMet, QueuersOwed, WaitersOwed, [Next]_vars,
                    event'.exists, OpenSeats' > 0, Waitlisted' # {}
             PROVE  promotions' + failedPromotions' > Cardinality(Settling' \cup Short')
  BY DEF WaitersOwed, Owing
<1> DEFINE spent == Settling \cup Short
<1> DEFINE shunned == Settling \cup Narrow
<1>0. /\ TypeOK /\ TypeOK' /\ JobsCovered /\ OpenSeats \in Int /\ OpenSeats' \in Int
      /\ spent \subseteq Promoting /\ shunned \subseteq Promoting
  BY TypeStep, SeatsAreInts, SeatNumbers DEF WellFormed, Inductive
<1>1. ASSUME event.exists, OpenSeats > 0, Waitlisted # {} PROVE Owing(spent)
  BY <1>1 DEF WaitersOwed
<1>2. ASSUME event.exists, OpenSeats > 0, NEW x \in Slots, Queueing(x) PROVE Owing(shunned)
  BY <1>2 DEF QueuersOwed
<1> HIDE DEF spent, shunned
<1>3. ASSUME NEW s \in Slots, tx'[s].phase = "running", s \notin Short',
             \A r \in Slots \ {s} : tx'[r] = tx[r],
             UNCHANGED <<status, event, promotions, failedPromotions>>
      PROVE  promotions' + failedPromotions' > Cardinality(Settling' \cup Short')
  <2>1. OpenSeats' = OpenSeats /\ Waitlisted' = Waitlisted
    BY <1>3 DEF OpenSeats, Confirmed, Waitlisted
  <2>2. Owing(spent)
    BY <1>1, <1>3, <2>1
  <2>3. Settling' \cup Short' \subseteq spent
    BY <1>0, <1>3, SpentOnStart DEF spent
  <2>4. QED
    BY <1>0, <1>3, <2>2, <2>3, OwingKept
<1>4. ASSUME NEW s \in Slots, NEW u \in Users, BeginBook(s, u) \/ BeginCancel(s, u)
      PROVE  promotions' + failedPromotions' > Cardinality(Settling' \cup Short')
  <2>1. /\ tx'[s].phase = "running" /\ tx'[s].op # "promote"
        /\ \A r \in Slots \ {s} : tx'[r] = tx[r]
    BY <1>0, <1>4 DEF BeginBook, BeginCancel, Start, TypeOK
  <2>2. UNCHANGED <<status, event, promotions, failedPromotions>>
    BY <1>4 DEF BeginBook, BeginCancel, jobs, rows
  <2>3. s \notin Short'
    BY <2>1 DEF Short, Promoting
  <2>4. QED
    BY <1>3, <2>1, <2>2, <2>3
<1>5. ASSUME NEW s \in Slots, BeginPromote(s) \/ BeginRepeat(s)
      PROVE  promotions' + failedPromotions' > Cardinality(Settling' \cup Short')
  <2>1. tx'[s].phase = "running" /\ \A r \in Slots \ {s} : tx'[r] = tx[r]
    BY <1>0, <1>5 DEF BeginPromote, BeginRepeat, Promote, Start, TypeOK
  <2>2. UNCHANGED <<status, event, promotions, failedPromotions>>
    BY <1>5, PromoteRun
  <2>3. OpenSeats' = OpenSeats
    BY <2>2 DEF OpenSeats, Confirmed
  <2>4. s \notin Short'
    BY <1>0, <1>5, <2>2, <2>3, PromotionSpends
  <2>5. QED
    BY <1>3, <2>1, <2>2, <2>4
<1>6. ASSUME NEW s \in Slots, Commit(s)
      PROVE  promotions' + failedPromotions' > Cardinality(Settling' \cup Short')
  <2>1. failedPromotions' = failedPromotions /\ event' = event
    BY <1>6 DEF Commit
  <2>2. CASE promotions' = promotions + 1
    <3>1. Promoting' = Promoting
      BY <1>0, <1>6, CommitSlots DEF Promoting
    <3>2. Settling' \cup Short' \subseteq Promoting
      BY <3>1 DEF Settling, Short
    <3>3. QED
      BY <1>0, <2>1, <2>2, <3>2, OwingReleased
  <2> DEFINE Joining == /\ tx[s].op = "book" /\ Queueing(s)
                        /\ Waitlisted' = Waitlisted \cup tx[s].targets
  <2>3. CASE promotions' = promotions /\ Confirmed \subseteq Confirmed'
    <3>1. OpenSeats' <= OpenSeats
      BY <1>0, <2>1, <2>3, FewerSeats
    <3>2. OpenSeats > 0 /\ event.exists
      BY <1>0, <2>1, <3>1
    <3>3. /\ Settling' \subseteq Settling \cup {s} /\ s \notin Short'
          /\ tx[s].op # "promote" => s \notin Settling'
          /\ \A r \in Short' : /\ r \in Promoting /\ LeavesSeat(r) /\ ~Conflict(tx[r], tx[s])
                               /\ ~(Waitlisted' \subseteq tx[r].targets)
      BY <1>0, <1>6, <2>3, SpentOnCommit
    <3>4. CASE Waitlisted' \subseteq Waitlisted
      <4>1. Owing(spent)
        BY <1>1, <3>2, <3>4
      <4>2. Short' \subseteq Short
        BY <3>3, <3>4 DEF Short
      <4>3. ASSUME tx[s].op = "promote" PROVE s \in Short
        <5>1. s \in Promoting /\ LeavesSeat(s) /\ Waitlisted' = Waitlisted \ tx[s].targets
          BY <1>6, <4>3, PromotionLeaves
        <5>2. QED
          BY <5>1 DEF Short
      <4>4. Settling' \cup Short' \subseteq spent
        BY <3>3, <4>2, <4>3 DEF spent
      <4>5. QED
        BY <1>0, <2>1, <2>3, <4>1, <4>4, OwingKept
    <3>5. CASE Joining
      <4>1. Owing(shunned) /\ tx[s].fate = "out"
        BY <1>2, <3>2, <3>5 DEF QueuersMet
      <4>2. DecidedAt(s)
        BY <3>5, DecidedSlots DEF Queueing
      <4>3. tx[s].targets # {} /\ "WAITLISTED" \in tx[s].touched
        BY <3>5, <4>2 DEF DecidedAt, Queueing
      <4>4. ASSUME NEW r \in Short' PROVE r \in Narrow
        <5>1. r \in Promoting /\ LeavesSeat(r) /\ ~Conflict(tx[r], tx[s])
          BY <3>3
        <5>2. ~ReadsFrom(tx[r], tx[s])
          BY <4>1, <5>1 DEF Conflict
        <5>3. "WAITLISTED" \notin tx[r].scans
          BY <4>3, <5>2 DEF ReadsFrom
        <5>4. QED
          BY <5>1, <5>3 DEF Narrow
      <4>5. Settling' \cup Short' \subseteq shunned
        BY <3>3, <3>5, <4>4 DEF shunned
      <4>6. QED
        BY <1>0, <2>1, <2>3, <4>1, <4>5, OwingKept
    <3>6. QED
      BY <1>0, <1>6, <3>4, <3>5, <2>3, CommitSets
  <2>4. QED
    BY <1>0, <1>6, <2>2, <2>3, CommitSets
<1>7. CASE AtRest
  <2>1. event.exists /\ OpenSeats > 0 /\ Waitlisted # {}
    BY <1>7 DEF AtRest, OpenSeats, Confirmed, Waitlisted
  <2>2. Owing(spent)
    BY <1>1, <2>1
  <2>3. /\ Settling' \cup Short' \subseteq spent /\ Settling \subseteq spent
        /\ \A s \in Slots : tx'[s].phase = "idle" => s \notin Settling' \cup Short'
    BY <1>0, <1>7, SpentAtRest DEF spent
  <2>4. QED
    BY <1>0, <1>7, <2>2, <2>3, OwingAtRest
<1>8. QED
  BY <1>4, <1>5, <1>6, <1>7, RestSteps

-----------------------------------------------------------------------------
(* The theorems about the waitlist                                          *)

LEMMA InitPromising == Init => Promising
<1> SUFFICES ASSUME Init PROVE Promising
  OBVIOUS
<1>1. Inductive
  BY InitInductive
<1>2. \A s \in Slots : ~Valid(s)
  BY DEF Init, Idle, Valid, Running
<1>3. Waitlisted = {}
  BY DEF Init, Waitlisted
<1>4. Decided /\ InTurn /\ QueuersMet /\ WaitersOwed /\ QueuersOwed
  BY <1>2, <1>3, DecidedSlots DEF InTurn, QueuersMet, Queueing, WaitersOwed, QueuersOwed
<1>5. QED
  BY <1>1, <1>4 DEF Promising

LEMMA PromisingStep == Promising /\ [Next]_vars => Promising'
<1>1. Inductive /\ [Next]_vars => Inductive'
  BY TypeStep, ShapeStep, JobsStep, SeatsStep DEF WellFormed, Inductive
<1>2. QED
  BY <1>1, DecidedStep, InTurnStep, QueuersMetStep, WaitersOwedStep, QueuersOwedStep DEF Promising

\* Every reachable state keeps what the transactions under way have decided,
\* and owes a promotion to whoever waits beside a free seat.
THEOREM PromisingHolds == Spec => []Promising
BY InitPromising, PromisingStep, PTL DEF Spec

\* No order of commits of createBooking, cancelBooking and promoteWaitlist
\* loses a seat: while one is free and somebody waits, a WAITLIST_PROMOTION row
\* is not finished, or one has been given up.
THEOREM PromotionIsOwed == Spec => []PromotionOwed
<1>1. Promising => PromotionOwed
  <2> SUFFICES ASSUME Promising, event.exists, OpenSeats > 0, Waitlisted # {}
               PROVE  promotions + failedPromotions > 0
    BY DEF PromotionOwed
  <2>1. TypeOK /\ promotions + failedPromotions > Cardinality(Settling \cup Short)
    BY DEF Promising, Inductive, WaitersOwed, Owing
  <2>2. Settling \cup Short \subseteq Slots
    BY DEF Settling, Short, Promoting
  <2>3. Cardinality(Settling \cup Short) \in Nat
    BY <2>2, SlotsCard
  <2>4. promotions \in Nat /\ failedPromotions \in Nat
    BY <2>1 DEF TypeOK
  <2>5. QED
    BY <2>1, <2>3, <2>4
<1>2. QED
  BY <1>1, PromisingHolds, PTL

\* A promotion passes over nobody: what InTurn says of its snapshot holds when
\* it commits, although bookings may have joined the waitlist in between.
LEMMA InOrder ==
    ASSUME Promising, [Next]_vars, NEW s \in Slots, Running(s), tx[s].op \in PromoteOps,
           tx'[s].phase = "committed", NEW u \in tx[s].targets
    PROVE  older[u] \cap Waitlisted' = {}
<1>0. TypeOK
  BY DEF Promising, Inductive
<1>1. Commit(s)
  <2>1. ASSUME NEW r \in Slots, NEW op, NEW keys, NEW scans, NEW targets, NEW to,
               Start(r, op, keys, scans, targets, to)
        PROVE  FALSE
    BY <1>0, <2>1 DEF Start, TypeOK, Running
  <2>2. ASSUME NEW r \in Slots, NEW v \in Users, BeginBook(r, v) \/ BeginCancel(r, v) PROVE FALSE
    BY <2>1, <2>2 DEF BeginBook, BeginCancel
  <2>3. ASSUME NEW r \in Slots, BeginPromote(r) \/ BeginRepeat(r) PROVE FALSE
    BY <2>1, <2>3, PromoteRun
  <2>4. ASSUME NEW r \in Slots, Commit(r) PROVE r = s
    BY <1>0, <2>4, CommitSlots DEF Running
  <2>5. CASE AtRest
    BY <2>5 DEF AtRest, Running
  <2>6. QED
    BY <2>2, <2>3, <2>4, <2>5, RestSteps DEF Promising
<1>2. Valid(s) /\ Decided /\ InTurn
  BY <1>1 DEF Commit, Valid, Promising
<1>3. older[u] \cap Waitlisted \subseteq tx[s].targets
  BY <1>2 DEF InTurn
<1>4. Waitlisted' = Waitlisted \ tx[s].targets
  BY <1>0, <1>1, <1>2, CommitSets DEF PromoteOps
<1>5. QED
  BY <1>3, <1>4

\* promoteWaitlist serves the waitlist in the order of createdAt, whatever
\* joins it between the read and the commit.
THEOREM ServedInOrder == Spec => FirstComeFirstServed
<1>1. Promising /\ [Next]_vars =>
        [\A s \in Slots :
           Running(s) /\ tx[s].op \in PromoteOps /\ tx'[s].phase = "committed"
             => \A u \in tx[s].targets : older[u] \cap Waitlisted' = {}]_vars
  BY InOrder
<1>2. QED
  BY <1>1, PromisingHolds, PTL DEF Spec, FirstComeFirstServed

-----------------------------------------------------------------------------
(* The transactions implement the ledger                                    *)

\* Nothing here deletes the event, so nothing that is owed is forgotten.
LedgerInv == Promising /\ event.exists

LEMMA LedgerInvHolds == Spec => []LedgerInv
<1>1. Init => event.exists
  BY DEF Init
<1>2. Promising /\ event.exists /\ [Next]_vars => (event.exists)'
  <2> SUFFICES ASSUME Promising, event.exists, [Next]_vars PROVE event'.exists
    OBVIOUS
  <2>1. ASSUME NEW s \in Slots, NEW u \in Users, BeginBook(s, u) \/ BeginCancel(s, u)
        PROVE  event'.exists
    BY <2>1 DEF BeginBook, BeginCancel
  <2>2. ASSUME NEW s \in Slots, BeginPromote(s) \/ BeginRepeat(s) \/ Commit(s) PROVE event'.exists
    BY <2>2, PromoteRun DEF Commit
  <2>3. CASE AtRest
    BY <2>3 DEF AtRest
  <2>4. QED
    BY <2>1, <2>2, <2>3, RestSteps DEF Promising
<1>3. QED
  BY <1>1, <1>2, InitPromising, PromisingStep, PTL DEF Spec, LedgerInv

LEMMA LedgerCard == \A S : Ledger!Cardinality(S) = Cardinality(S)
BY Zenon DEF Cardinality, Ledger!Cardinality

\* Seats granted by a commit are seats the ledger hands out.
LEMMA CommitSeats ==
    ASSUME Inductive, NEW s \in Slots, Commit(s), tx[s].to = "CONFIRMED", tx[s].targets # {},
           tx[s].targets \cap Confirmed = {}, promotions' = promotions,
           Confirmed' = Confirmed \cup tx[s].targets, Waitlisted' = Waitlisted \ tx[s].targets
    PROVE  Ledger!Seat(tx[s].targets)
<1>1. /\ tx[s].targets \subseteq Users /\ Confirmed \subseteq Users /\ event.capacity \in Nat
  BY DEF Inductive, TypeOK, Transaction, Event, Confirmed
<1>2. Cardinality(Confirmed \cup tx[s].targets) <= event.capacity
  BY DEF Inductive, GrantsFit, Commit
<1>3. /\ IsFiniteSet(Confirmed) /\ Cardinality(Confirmed) \in Nat
      /\ IsFiniteSet(tx[s].targets) /\ Cardinality(tx[s].targets) \in Nat
  BY <1>1, UsersCard
<1>4. Cardinality(Confirmed \cup tx[s].targets) = Cardinality(Confirmed) + Cardinality(tx[s].targets)
  BY <1>3, FS_Union, FS_EmptySet
<1>5. Cardinality(Confirmed) + Cardinality(tx[s].targets) <= event.capacity
  BY <1>2, <1>4
<1>6. /\ confirmations' = [u \in Users |-> IF u \in tx[s].targets THEN confirmations[u] + 1
                                                                  ELSE confirmations[u]]
      /\ event' = event /\ failedPromotions' = failedPromotions
  BY DEF Commit
<1>7. QED
  BY <1>5, <1>6, LedgerCard DEF Ledger!Seat

\* Whoever is about to be promoted waits beside a free seat, so that a promotion
\* is owed or was given up, although this run may be of a row done with.
LEMMA PromotionWanted ==
    ASSUME Promising, event.exists, NEW s \in Slots, Commit(s), tx[s].to = "CONFIRMED",
           tx[s].targets # {}, tx[s].targets \subseteq Waitlisted
    PROVE  promotions + failedPromotions > 0
<1>1. TypeOK /\ Confirmed \subseteq Users /\ Waitlisted \subseteq Users
  BY DEF Promising, Inductive, Confirmed, Waitlisted
<1>2. Cardinality(Confirmed \cup tx[s].targets) <= event.capacity
  BY DEF Promising, Inductive, GrantsFit, Commit
<1>3. PICK u \in tx[s].targets : u \notin Confirmed
  BY DEF Confirmed, Waitlisted
<1>4. Cardinality(Confirmed) < event.capacity
  <2>1. /\ IsFiniteSet(Confirmed) /\ Cardinality(Confirmed) \in Nat /\ event.capacity \in Nat
        /\ Cardinality(Confirmed \cup {u}) = Cardinality(Confirmed) + 1
    BY <1>1, <1>3, UsersCard, FS_AddElement DEF TypeOK, Event
  <2>2. /\ Cardinality(Confirmed \cup tx[s].targets) \in Nat
        /\ Cardinality(Confirmed \cup {u}) <= Cardinality(Confirmed \cup tx[s].targets)
    <3>1. /\ Confirmed \cup tx[s].targets \subseteq Users
          /\ Confirmed \cup {u} \subseteq Confirmed \cup tx[s].targets
      BY <1>1, <1>3
    <3>2. QED
      BY <3>1, UsersCard, SubsetCard
  <2>3. QED
    BY <1>2, <2>1, <2>2
<1>5. OpenSeats > 0
  BY <1>1, <1>4, SeatNumbers DEF OpenSeats
<1>6. promotions + failedPromotions > Cardinality(Settling \cup Short)
  BY <1>5 DEF Promising, WaitersOwed, Owing
<1>7. Cardinality(Settling \cup Short) \in Nat
  BY <1>1, SeatNumbers, SubsetCard
<1>8. QED
  BY <1>1, <1>6, <1>7, SeatNumbers

LEMMA CommitLedger ==
    ASSUME Promising, event.exists, NEW s \in Slots, Commit(s)
    PROVE  [Ledger!Next]_(Ledger!vars)
<1>0. TypeOK /\ Inductive /\ Decided
  BY DEF Promising, Inductive
<1>1. /\ event' = event /\ failedPromotions' = failedPromotions /\ DecidedAt(s)
      /\ tx[s].targets \subseteq Users
  BY <1>0, DecidedSlots DEF Commit, Valid, TypeOK, Transaction
<1>2. ASSUME tx[s].to # "CONFIRMED" \/ tx[s].targets = {} PROVE confirmations' = confirmations
  BY <1>0, <1>2 DEF Commit, TypeOK
<1>3. CASE /\ tx[s].op \in {"book"} \cup PromoteOps /\ tx[s].to = "CONFIRMED"
           /\ tx[s].targets \cap Confirmed = {} /\ promotions' = promotions
           /\ Confirmed' = Confirmed \cup tx[s].targets
           /\ Waitlisted' = Waitlisted \ tx[s].targets
  <2>1. CASE tx[s].targets = {}
    <3>1. UNCHANGED Ledger!vars
      BY <1>1, <1>2, <1>3, <2>1 DEF Ledger!vars
    <3>2. QED
      BY <3>1
  <2>2. CASE tx[s].targets # {}
    <3>1. Ledger!Seat(tx[s].targets)
      BY <1>0, <1>3, <2>2, CommitSeats
    <3>2. CASE tx[s].op = "book"
      <4>1. PICK u \in Users : tx[s].targets = {u}
        BY <1>1, <3>2 DEF DecidedAt, PromoteOps
      <4>2. Ledger!Grant(u)
        BY <3>1, <4>1 DEF Ledger!Grant
      <4>3. QED
        BY <4>2 DEF Ledger!Next
    <3>3. CASE tx[s].op \in PromoteOps
      <4>1. tx[s].targets \subseteq Waitlisted
        BY <1>1, <3>3 DEF DecidedAt, PromoteOps
      <4>2. promotions + failedPromotions > 0
        BY <1>0, <1>3, <2>2, <4>1, PromotionWanted
      <4>3. Ledger!Promote(tx[s].targets)
        BY <3>1, <4>1, <4>2 DEF Ledger!Promote
      <4>4. QED
        BY <1>1, <4>3 DEF Ledger!Next
    <3>4. QED
      BY <1>3, <3>2, <3>3
  <2>3. QED
    BY <2>1, <2>2
<1>4. CASE /\ tx[s].op = "book" /\ Queueing(s) /\ promotions' = promotions
           /\ tx[s].targets \cap (Confirmed \cup Waitlisted) = {}
           /\ Confirmed' = Confirmed /\ Waitlisted' = Waitlisted \cup tx[s].targets
  <2>1. PICK u \in Users : tx[s].targets = {u}
    BY <1>1, <1>4 DEF DecidedAt, PromoteOps
  <2>2. Ledger!Full \/ promotions + failedPromotions > 0
    <3>1. /\ event.capacity \in Nat /\ Cardinality(Confirmed) \in Nat
          /\ promotions \in Nat /\ failedPromotions \in Nat
          /\ Cardinality(Settling \cup Narrow) \in Nat
      BY <1>0, SeatNumbers, SubsetCard
    <3>2. CASE OpenSeats > 0
      <4>1. promotions + failedPromotions > Cardinality(Settling \cup Narrow)
        BY <1>4, <3>2 DEF Promising, QueuersOwed, Owing
      <4>2. QED
        BY <3>1, <4>1
    <3>3. CASE ~(OpenSeats > 0)
      BY <3>1, <3>3, LedgerCard DEF OpenSeats, Ledger!Full
    <3>4. QED
      BY <3>2, <3>3
  <2>3. confirmations' = confirmations
    BY <1>2, <1>4 DEF Queueing
  <2>4. Ledger!Wait(u)
    BY <1>1, <1>4, <2>1, <2>2, <2>3 DEF Ledger!Wait
  <2>5. QED
    BY <2>4 DEF Ledger!Next
<1>5. ASSUME tx[s].op = "cancel"
      PROVE  confirmations' = confirmations /\ \E u \in Users : tx[s].targets = {u}
  BY <1>1, <1>2, <1>5 DEF DecidedAt, PromoteOps
<1>6. CASE /\ tx[s].op = "cancel" /\ promotions' = promotions + 1
           /\ tx[s].targets \subseteq Confirmed /\ "CONFIRMED" \in tx[s].touched
           /\ Confirmed' = Confirmed \ tx[s].targets /\ Waitlisted' = Waitlisted
  <2>1. PICK u \in Users : tx[s].targets = {u}
    BY <1>5, <1>6
  <2>2. Ledger!Release(u)
    BY <1>1, <1>5, <1>6, <2>1 DEF Ledger!Release
  <2>3. QED
    BY <2>2 DEF Ledger!Next
<1>7. CASE /\ tx[s].op = "cancel" /\ promotions' = promotions
           /\ tx[s].targets \subseteq Waitlisted
           /\ Confirmed' = Confirmed /\ Waitlisted' = Waitlisted \ tx[s].targets
  <2>1. PICK u \in Users : tx[s].targets = {u}
    BY <1>5, <1>7
  <2>2. Ledger!Leave(u)
    BY <1>1, <1>5, <1>7, <2>1 DEF Ledger!Leave
  <2>3. QED
    BY <2>2 DEF Ledger!Next
<1>8. QED
  BY <1>0, <1>3, <1>4, <1>6, <1>7, CommitSets

\* A promotion done with is settled: WaitersOwed counts one beside it.
LEMMA RestLedger ==
    ASSUME Promising, event.exists, AtRest
    PROVE  [Ledger!Next]_(Ledger!vars)
<1>0. /\ TypeOK /\ event.capacity \in Nat /\ Cardinality(Confirmed) \in Nat
      /\ promotions \in Nat /\ failedPromotions \in Nat
  BY SeatNumbers DEF Promising, Inductive
<1>1. /\ event'.capacity = event.capacity /\ confirmations' = confirmations
      /\ Confirmed' = Confirmed /\ Waitlisted' = Waitlisted
  BY DEF AtRest, Confirmed, Waitlisted
<1>2. CASE UNCHANGED <<promotions, failedPromotions>>
  <2>1. UNCHANGED Ledger!vars
    BY <1>1, <1>2 DEF Ledger!vars
  <2>2. QED
    BY <2>1
<1>3. CASE /\ promotions - 1 \in Nat /\ promotions' = promotions - 1
           /\ failedPromotions' = failedPromotions + 1
  <2>1. promotions > 0
    BY <1>0, <1>3
  <2>2. Ledger!GiveUp
    BY <1>1, <1>3, <2>1 DEF Ledger!GiveUp
  <2>3. QED
    BY <2>2 DEF Ledger!Next
<1>4. CASE /\ promotions - 1 \in Nat /\ promotions' = promotions - 1
           /\ failedPromotions' = failedPromotions /\ \E s \in Settling : tx'[s].phase = "idle"
  <2>1. promotions > 0
    BY <1>0, <1>4
  <2>2. Ledger!Full \/ Waitlisted = {} \/ promotions + failedPromotions > 1
    <3>1. CASE OpenSeats > 0 /\ Waitlisted # {}
      <4>1. promotions + failedPromotions > Cardinality(Settling \cup Short)
        BY <3>1 DEF Promising, WaitersOwed, Owing
      <4>2. Settling \cup Short \subseteq Slots /\ Settling \cup Short # {}
        BY <1>4 DEF Settling, Short, Promoting
      <4>3. Cardinality(Settling \cup Short) \in Nat /\ Cardinality(Settling \cup Short) # 0
        BY <4>2, SlotsCard, FS_EmptySet
      <4>4. QED
        BY <1>0, <4>1, <4>3
    <3>2. CASE ~(OpenSeats > 0)
      BY <1>0, <3>2, LedgerCard DEF OpenSeats, Ledger!Full
    <3>3. QED
      BY <3>1, <3>2
  <2>3. Ledger!Settle
    BY <1>1, <1>4, <2>1, <2>2 DEF Ledger!Settle
  <2>4. QED
    BY <2>3 DEF Ledger!Next
<1>5. QED
  BY <1>2, <1>3, <1>4 DEF AtRest

\* createBooking, cancelBooking, promoteWaitlist and their outbox rows, however
\* their transactions interleave, abort and retry, amount to one decision at a
\* time on the seat ledger.
THEOREM LedgerImplemented == Spec => ImplementsLedger
<1>1. Init => Ledger!Init
  <2> SUFFICES ASSUME Init PROVE Ledger!Init
    OBVIOUS
  <2>1. event.capacity \in Nat
    BY CapacityAssumption DEF Init
  <2>2. Confirmed = {} /\ Waitlisted = {}
    BY DEF Init, Confirmed, Waitlisted
  <2>3. QED
    BY <2>1, <2>2 DEF Init, Ledger!Init
<1>2. LedgerInv /\ [Next]_vars => [Ledger!Next]_(Ledger!vars)
  <2> SUFFICES ASSUME LedgerInv, [Next]_vars PROVE [Ledger!Next]_(Ledger!vars)
    OBVIOUS
  <2>1. Inductive /\ Promising /\ event.exists
    BY DEF LedgerInv, Promising
  <2>2. ASSUME UNCHANGED <<status, confirmations, event, promotions, failedPromotions>>
        PROVE  [Ledger!Next]_(Ledger!vars)
    BY <2>2 DEF Ledger!vars, Confirmed, Waitlisted
  <2>3. ASSUME NEW s \in Slots, NEW u \in Users, BeginBook(s, u) \/ BeginCancel(s, u)
        PROVE  [Ledger!Next]_(Ledger!vars)
    BY <2>2, <2>3 DEF BeginBook, BeginCancel, rows, jobs
  <2>4. ASSUME NEW s \in Slots, BeginPromote(s) \/ BeginRepeat(s) PROVE [Ledger!Next]_(Ledger!vars)
    BY <2>2, <2>4, PromoteRun
  <2>5. QED
    BY <2>1, <2>3, <2>4, RestSteps, CommitLedger, RestLedger
<1>3. QED
  BY <1>1, <1>2, LedgerInvHolds, PTL DEF Spec, ImplementsLedger, Ledger!Spec
=============================================================================

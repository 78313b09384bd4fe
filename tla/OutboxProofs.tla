---------------------------- MODULE OutboxProofs ----------------------------
(***************************************************************************)
(* Proofs about module Outbox, for any rows, workers, number of attempts   *)
(* and faults: what a row says of its job is so, and a job runs once while *)
(* nothing fails.                                                          *)
(*                                                                         *)
(* OnceWhileRemembered and FailedWasNotExecuted are not inductive: that a  *)
(* job runs once follows from who may execute it.  Accounted ties the      *)
(* executing workers, the lock, the count of runs and the outcome writes   *)
(* under way to the state of the job, for rows whose job nothing has       *)
(* disturbed; a fault, or a job forgotten, ends that for good.             *)
(***************************************************************************)
EXTENDS Outbox, TLAPS

-----------------------------------------------------------------------------
(* Types                                                                    *)

LEMMA OutboxTypeStep == TypeOK /\ AttemptsLeft /\ [Next]_vars => TypeOK'
<1> SUFFICES ASSUME TypeOK, AttemptsLeft, [Next]_vars PROVE TypeOK'
  OBVIOUS
<1> USE OutboxAssumption DEF TypeOK, RowStatus, JobState
<1>1. ASSUME NEW r \in Rows, Write(r) \/ Age(r) \/ Purge(r) PROVE TypeOK'
  BY <1>1 DEF Write, Age, Purge, dispatch, queue, runs
<1>2. ASSUME NEW r \in Rows, Lapse(r) \/ Recover(r) PROVE TypeOK'
  BY <1>2 DEF Lapse, Recover, Stall, Fault, outbox, dispatch, runs
<1>3. ASSUME NEW r \in Rows, Forget(r) PROVE TypeOK'
  BY <1>3 DEF Forget, outbox, dispatch
<1>4. ASSUME NEW w \in Workers, Poll(w) PROVE TypeOK'
  BY <1>4 DEF Poll, Due, outbox, queue, runs
<1>5. ASSUME NEW w \in Workers, Update(w) \/ UpdateFails(w) PROVE TypeOK'
  <2>1. ASSUME NEW r \in added[w], Update(w), row' = [row EXCEPT ![r] = "ENQUEUED"],
               stale' = [stale EXCEPT ![r] = FALSE]
        PROVE  TypeOK'
    BY <2>1 DEF Update, queue, runs
  <2>2. CASE UpdateFails(w)
    BY <2>2 DEF UpdateFails, Fault, outbox, queue, runs
  <2>3. QED
    BY <1>5, <2>1, <2>2 DEF Update
<1>6. ASSUME NEW w \in Workers, NEW r \in Rows, Add(w, r) \/ AddFails(w, r) PROVE TypeOK'
  BY <1>6 DEF Add, AddFails, Enqueue, Fault, outbox, queue, runs
<1>7. ASSUME NEW w \in Workers, Crash(w) PROVE TypeOK'
  BY <1>7 DEF Crash, Fault, outbox, queue
<1>8. ASSUME NEW w \in Workers, NEW r \in Rows, Take(w, r) PROVE TypeOK'
  BY <1>8 DEF Take, outbox, dispatch
<1>9. ASSUME NEW w \in Workers, NEW r \in Rows, Complete(w, r) PROVE TypeOK'
  BY <1>9 DEF Complete, outbox, dispatch
<1>10. ASSUME NEW w \in Workers, NEW r \in Rows, Throw(w, r) PROVE TypeOK'
  BY <1>10 DEF Throw, Holds, AttemptsLeft, outbox, dispatch, queue
<1>11. ASSUME NEW m \in marks, Mark(m) \/ MarkLost(m) PROVE TypeOK'
  BY <1>11 DEF Mark, MarkLost, MarkRow, Fault, outbox, dispatch, queue, runs
<1>12. CASE RedisRestart
  BY <1>12 DEF RedisRestart, Fault, outbox, dispatch, runs
<1>13. CASE UNCHANGED vars
  BY <1>13 DEF vars, outbox, dispatch, queue, runs
<1>14. QED
  BY <1>1, <1>2, <1>3, <1>4, <1>5, <1>6, <1>7, <1>8, <1>9, <1>10, <1>11, <1>12, <1>13
  DEF Next, DispatchStep, Run

LEMMA AttemptsStep == TypeOK /\ AttemptsLeft /\ [Next]_vars => AttemptsLeft'
<1> SUFFICES ASSUME TypeOK, AttemptsLeft, [Next]_vars, NEW q \in Rows,
                    job'[q] \in {"waiting", "active"}
             PROVE  made'[q] < JobAttempts
  BY DEF AttemptsLeft
<1>0. /\ job \in [Rows -> JobState] /\ made \in [Rows -> 0..JobAttempts]
      /\ JobAttempts \in Nat \ {0}
      /\ job[q] \in {"waiting", "active"} => made[q] < JobAttempts
  BY OutboxAssumption DEF TypeOK, AttemptsLeft
<1>1. CASE UNCHANGED <<job, made>>
  BY <1>0, <1>1
<1>2. ASSUME NEW r \in Rows, Stall(r) PROVE made'[q] < JobAttempts
  BY <1>0, <1>2 DEF Stall
<1>3. ASSUME NEW r \in Rows, Forget(r) PROVE made'[q] < JobAttempts
  BY <1>0, <1>3 DEF Forget
<1>4. ASSUME NEW r \in Rows, Enqueue(r) PROVE made'[q] < JobAttempts
  BY <1>0, <1>4 DEF Enqueue, queue
<1>5. ASSUME NEW w \in Workers, NEW r \in Rows, Take(w, r) \/ Complete(w, r)
      PROVE  made'[q] < JobAttempts
  BY <1>0, <1>5 DEF Take, Complete, Holds
<1>6. ASSUME NEW w \in Workers, NEW r \in Rows, Throw(w, r) PROVE made'[q] < JobAttempts
  BY <1>0, <1>6 DEF Throw, LastAttempt, Holds, queue
<1>7. CASE RedisRestart
  BY <1>0, <1>7 DEF RedisRestart
<1>8. QED
  BY <1>1, <1>2, <1>3, <1>4, <1>5, <1>6, <1>7
  DEF Next, DispatchStep, Run, Write, Age, Purge, Lapse, Recover, Poll, Update, UpdateFails, Add,
      AddFails, Crash, Mark, MarkLost, vars, queue

-----------------------------------------------------------------------------
(* Outcomes and the runs they are about                                     *)

\* A run that was counted stays counted.
LEMMA ExecutedGrows ==
    TypeOK /\ [Next]_vars => \A r \in Rows : executed[r] > 0 => executed'[r] > 0
<1> SUFFICES ASSUME TypeOK, [Next]_vars, NEW q \in Rows, executed[q] > 0 PROVE executed'[q] > 0
  OBVIOUS
<1>1. CASE UNCHANGED executed
  BY <1>1
<1>2. ASSUME NEW w \in Workers, NEW r \in Rows, Complete(w, r) PROVE executed'[q] > 0
  BY <1>2 DEF Complete, TypeOK
<1>3. QED
  BY <1>1, <1>2
  DEF Next, DispatchStep, Run, Write, Age, Purge, Lapse, Recover, Stall, Poll, Update, UpdateFails, Add,
      AddFails, Crash, Mark, MarkLost, Forget, Take, Throw, RedisRestart, vars, runs

\* An outcome write starts with the end of the job's run.
LEMMA MarksStep == TypeOK /\ MarksFollowRuns /\ [Next]_vars => MarksFollowRuns'
<1> SUFFICES ASSUME TypeOK, MarksFollowRuns, [Next]_vars, NEW q \in Rows, NEW v \in Workers,
                    <<v, q, "SENT">> \in marks'
             PROVE  executed'[q] > 0
  BY DEF MarksFollowRuns, Marking
<1>1. CASE marks' \subseteq marks
  BY <1>1, ExecutedGrows DEF MarksFollowRuns, Marking
<1>2. ASSUME NEW w \in Workers, NEW r \in Rows, Complete(w, r) PROVE executed'[q] > 0
  <2>1. CASE <<v, q, "SENT">> \in marks
    BY <2>1, ExecutedGrows DEF MarksFollowRuns, Marking
  <2>2. CASE <<v, q, "SENT">> \notin marks
    <3>1. r = q
      BY <1>2, <2>2 DEF Complete
    <3>2. QED
      BY <1>2, <3>1 DEF Complete, TypeOK
  <2>3. QED
    BY <2>1, <2>2
<1>3. ASSUME NEW w \in Workers, NEW r \in Rows, Throw(w, r) PROVE executed'[q] > 0
  <2>1. <<v, q, "SENT">> \in marks
    BY <1>3 DEF Throw
  <2>2. QED
    BY <2>1, ExecutedGrows DEF MarksFollowRuns, Marking
<1>4. QED
  BY <1>1, <1>2, <1>3
  DEF Next, DispatchStep, Run, Write, Age, Purge, Lapse, Recover, Stall, Poll, Update, UpdateFails, Add,
      AddFails, Crash, Mark, MarkLost, Forget, Take, RedisRestart, vars

LEMMA SentStep == TypeOK /\ MarksFollowRuns /\ SentWasExecuted /\ [Next]_vars => SentWasExecuted'
<1> SUFFICES ASSUME TypeOK, MarksFollowRuns, SentWasExecuted, [Next]_vars, NEW q \in Rows,
                    row'[q] \in {"SENT", "purged"}
             PROVE  executed'[q] > 0
  BY DEF SentWasExecuted
<1>1. CASE row[q] \in {"SENT", "purged"}
  BY <1>1, ExecutedGrows DEF SentWasExecuted
<1>2. CASE row[q] \notin {"SENT", "purged"}
  <2>1. ASSUME NEW m \in marks, Mark(m) PROVE Marking(q, "SENT")
    <3>1. PICK w \in Workers, r \in Rows, o \in {"SENT", "FAILED"} : m = <<w, r, o>>
      BY DEF TypeOK
    <3>2. r = q /\ o = "SENT"
      BY <1>2, <2>1, <3>1 DEF Mark, MarkRow, TypeOK
    <3>3. QED
      BY <3>1, <3>2 DEF Marking
  <2>2. ASSUME NEW m \in marks, Mark(m) PROVE executed'[q] > 0
    BY <2>1, <2>2, ExecutedGrows DEF MarksFollowRuns
  <2>3. ASSUME NEW r \in Rows, Write(r) \/ Purge(r) PROVE FALSE
    BY <1>2, <2>3 DEF Write, Purge, TypeOK
  <2>4. ASSUME NEW w \in Workers, Update(w) PROVE FALSE
    BY <1>2, <2>4 DEF Update, TypeOK
  <2>5. row' = row => FALSE
    BY <1>2
  <2>6. QED
    BY <2>2, <2>3, <2>4, <2>5
    DEF Next, DispatchStep, Run, Age, Lapse, Recover, Stall, Poll, UpdateFails, Add,
        AddFails, Crash, MarkLost, Forget, Take, Complete, Throw, RedisRestart, vars, outbox
<1>3. QED
  BY <1>1, <1>2

-----------------------------------------------------------------------------
(* What the state of an undisturbed job tells                               *)

\* What Accounted says of one row.
AccountedAt(r) ==
    /\ \A w \in Workers : r \in running[w] <=> Holds(w, r)
    /\ job[r] = "active" => \E w \in Workers : lock[r] = {w}
    /\ executed[r] = IF job[r] = "completed" THEN 1 ELSE 0
    /\ row[r] = "FAILED" \/ Marking(r, "FAILED") => job[r] = "failed"

\* Calm ends for good.
LEMMA CalmBefore ==
    ASSUME TypeOK, [Next]_vars, NEW q \in Rows, Calm(q)'
    PROVE  Calm(q) /\ faults' = faults
<1>1. faults \in Nat /\ faults' = 0 /\ ~forgotten'[q]
  BY DEF TypeOK, Calm
<1>2. ~Fault
  BY <1>1 DEF Fault
<1>3. CASE UNCHANGED <<faults, forgotten>>
  BY <1>1, <1>3 DEF Calm
<1>4. ASSUME NEW r \in Rows, Forget(r) PROVE Calm(q) /\ faults' = faults
  BY <1>1, <1>4 DEF Forget, Calm, TypeOK
<1>5. QED
  BY <1>2, <1>3, <1>4
  DEF Next, DispatchStep, Run, Write, Age, Purge, Lapse, Recover, Stall, Poll, Update, UpdateFails, Add,
      AddFails, Crash, Mark, MarkLost, Take, Complete, Throw, RedisRestart, vars, runs

LEMMA AccountedStep == TypeOK /\ Accounted /\ [Next]_vars => Accounted'
<1> SUFFICES ASSUME TypeOK, Accounted, [Next]_vars, NEW q \in Rows, Calm(q)' PROVE AccountedAt(q)'
  BY DEF Accounted, AccountedAt, Marking, Holds, Calm
<1>0. /\ Calm(q) /\ AccountedAt(q) /\ faults' = faults /\ faults \in Nat /\ ~forgotten'[q]
  BY CalmBefore DEF Accounted, AccountedAt, TypeOK, Calm
<1>1. ~Fault
  BY <1>0 DEF Fault
<1>2. CASE UNCHANGED <<job, lock, running, executed>> /\ marks' \subseteq marks /\ row'[q] # "FAILED"
  BY <1>0, <1>2 DEF AccountedAt, Marking, Holds
<1>3. CASE UNCHANGED <<job, lock, running, executed, row>> /\ marks' \subseteq marks
  BY <1>0, <1>3 DEF AccountedAt, Marking, Holds
<1>4. ASSUME NEW r \in Rows, Write(r) \/ Purge(r) PROVE AccountedAt(q)'
  <2>1. row'[q] # "FAILED" \/ row'[q] = row[q]
    BY <1>4 DEF Write, Purge, TypeOK
  <2>2. UNCHANGED <<job, lock, running, executed, marks>>
    BY <1>4 DEF Write, Purge, queue, runs
  <2>3. QED
    BY <1>0, <2>1, <2>2 DEF AccountedAt, Marking, Holds
<1>5. ASSUME NEW w \in Workers, Update(w) PROVE AccountedAt(q)'
  <2>1. row'[q] # "FAILED" \/ row'[q] = row[q]
    BY <1>5 DEF Update, TypeOK
  <2>2. UNCHANGED <<job, lock, running, executed, marks>>
    BY <1>5 DEF Update, queue, runs
  <2>3. QED
    BY <1>0, <2>1, <2>2 DEF AccountedAt, Marking, Holds
<1>6. ASSUME NEW m \in marks, Mark(m) PROVE AccountedAt(q)'
  <2>1. PICK w \in Workers, r \in Rows, o \in {"SENT", "FAILED"} : m = <<w, r, o>>
    BY DEF TypeOK
  <2>2. row'[q] = "FAILED" => row[q] = "FAILED" \/ Marking(q, "FAILED")
    BY <1>6, <2>1 DEF Mark, MarkRow, TypeOK, Marking
  <2>3. UNCHANGED <<job, lock, running, executed>> /\ marks' \subseteq marks
    BY <1>6 DEF Mark, queue, runs
  <2>4. QED
    BY <1>0, <2>2, <2>3 DEF AccountedAt, Marking, Holds
<1>7. ASSUME NEW r \in Rows, Recover(r) PROVE AccountedAt(q)'
  <2>1. r # q
    BY <1>0, <1>7 DEF Recover, Stall, AccountedAt, Holds
  <2>2. /\ job'[q] = job[q] /\ lock'[q] = lock[q]
        /\ UNCHANGED <<running, executed, marks, row>>
    BY <1>7, <2>1 DEF Recover, Stall, TypeOK, runs, outbox
  <2>3. QED
    BY <1>0, <2>2 DEF AccountedAt, Marking, Holds
<1>8. ASSUME NEW r \in Rows, Forget(r) PROVE AccountedAt(q)'
  <2>1. r # q
    BY <1>0, <1>8 DEF Forget, TypeOK
  <2>2. /\ job'[q] = job[q] /\ UNCHANGED <<lock, running, executed, marks, row>>
    BY <1>8, <2>1 DEF Forget, TypeOK, outbox
  <2>3. QED
    BY <1>0, <2>2 DEF AccountedAt, Marking, Holds
<1>9. ASSUME NEW w \in Workers, NEW r \in Rows, Add(w, r) PROVE AccountedAt(q)'
  <2>1. UNCHANGED <<running, executed, marks, row>>
    BY <1>9 DEF Add, runs, outbox
  <2>2. \/ job'[q] = job[q] /\ lock'[q] = lock[q]
        \/ job[q] = "none" /\ job'[q] = "waiting"
    BY <1>9 DEF Add, Enqueue, TypeOK, queue
  <2>3. QED
    BY <1>0, <2>1, <2>2 DEF AccountedAt, Marking, Holds
<1>10. ASSUME NEW w \in Workers, NEW r \in Rows, Take(w, r) PROVE AccountedAt(q)'
  <2>1. UNCHANGED <<executed, marks, row>>
    BY <1>10 DEF Take, outbox
  <2>2. CASE r = q
    <3>1. /\ job[q] = "waiting" /\ job'[q] = "active" /\ lock'[q] = {w}
          /\ running'[w] = running[w] \cup {q} /\ \A v \in Workers \ {w} : running'[v] = running[v]
      BY <1>10, <2>2 DEF Take, TypeOK
    <3>2. \A v \in Workers : q \notin running[v]
      BY <1>0, <3>1 DEF AccountedAt, Holds
    <3>3. \A v \in Workers : q \in running'[v] <=> v = w
      BY <3>1, <3>2
    <3>4. QED
      BY <1>0, <2>1, <3>1, <3>3 DEF AccountedAt, Marking, Holds
  <2>3. CASE r # q
    <3>1. /\ job'[q] = job[q] /\ lock'[q] = lock[q]
          /\ \A v \in Workers : q \in running'[v] <=> q \in running[v]
      BY <1>10, <2>3 DEF Take, TypeOK
    <3>2. QED
      BY <1>0, <2>1, <3>1 DEF AccountedAt, Marking, Holds
  <2>4. QED
    BY <2>2, <2>3
<1>11. ASSUME NEW w \in Workers, NEW r \in Rows, Complete(w, r) PROVE AccountedAt(q)'
  <2>1. row' = row
    BY <1>11 DEF Complete, outbox
  <2>2. \A v \in Workers : <<v, q, "FAILED">> \in marks' => <<v, q, "FAILED">> \in marks
    BY <1>11 DEF Complete
  <2>3. CASE r = q
    <3>1. Holds(w, q)
      BY <1>0, <1>11, <2>3 DEF AccountedAt, Complete
    <3>2. /\ job'[q] = "completed" /\ executed[q] = 0 /\ executed'[q] = 1
          /\ running'[w] = running[w] \ {q} /\ \A v \in Workers \ {w} : running'[v] = running[v]
      BY <1>0, <1>11, <2>3, <3>1 DEF AccountedAt, Complete, TypeOK, Holds
    <3>3. \A v \in Workers : q \notin running'[v]
      BY <1>0, <3>1, <3>2 DEF AccountedAt, Holds
    <3>4. ~(row[q] = "FAILED" \/ Marking(q, "FAILED"))
      BY <1>0, <3>1 DEF AccountedAt, Holds
    <3>5. QED
      BY <2>1, <2>2, <3>2, <3>3, <3>4 DEF AccountedAt, Marking, Holds
  <2>4. CASE r # q
    <3>1. /\ job'[q] = job[q] /\ lock'[q] = lock[q] /\ executed'[q] = executed[q]
          /\ \A v \in Workers : q \in running'[v] <=> q \in running[v]
      BY <1>11, <2>4 DEF Complete, TypeOK
    <3>2. QED
      BY <1>0, <2>1, <2>2, <3>1 DEF AccountedAt, Marking, Holds
  <2>5. QED
    BY <2>3, <2>4
<1>12. ASSUME NEW w \in Workers, NEW r \in Rows, Throw(w, r) PROVE AccountedAt(q)'
  <2>1. row' = row /\ executed' = executed
    BY <1>12 DEF Throw, outbox
  <2>2. CASE r = q
    <3>1. Holds(w, q)
      BY <1>0, <1>12, <2>2 DEF AccountedAt, Throw
    <3>2. /\ running'[w] = running[w] \ {q} /\ \A v \in Workers \ {w} : running'[v] = running[v]
          /\ \/ job'[q] = "waiting" /\ marks' = marks
             \/ job'[q] = "failed"
      BY <1>12, <2>2, <3>1 DEF Throw, TypeOK
    <3>3. \A v \in Workers : q \notin running'[v]
      BY <1>0, <3>1, <3>2 DEF AccountedAt, Holds
    <3>4. ~(row[q] = "FAILED" \/ Marking(q, "FAILED")) /\ executed[q] = 0
      BY <1>0, <3>1 DEF AccountedAt, Holds
    <3>5. QED
      BY <2>1, <3>2, <3>3, <3>4 DEF AccountedAt, Marking, Holds
  <2>3. CASE r # q
    <3>1. /\ job'[q] = job[q] /\ lock'[q] = lock[q]
          /\ \A v \in Workers : q \in running'[v] <=> q \in running[v]
          /\ \A v \in Workers : <<v, q, "FAILED">> \in marks' => <<v, q, "FAILED">> \in marks
      BY <1>12, <2>3 DEF Throw, TypeOK, queue
    <3>2. QED
      BY <1>0, <2>1, <3>1 DEF AccountedAt, Marking, Holds
  <2>4. QED
    BY <2>2, <2>3
<1>13. QED
  BY <1>1, <1>3, <1>4, <1>5, <1>6, <1>7, <1>8, <1>9, <1>10, <1>11, <1>12
  DEF Next, DispatchStep, Run, Age, Lapse, Poll, UpdateFails, AddFails, Crash, MarkLost,
      RedisRestart, vars, outbox, queue, runs

-----------------------------------------------------------------------------
(* The theorems                                                             *)

\* Every reachable state accounts for the runs, locks and outcome writes of
\* each row.
THEOREM OutboxInvariant == Spec => []OutboxInductive
<1>1. Init => OutboxInductive
  <2> SUFFICES ASSUME Init PROVE OutboxInductive
    OBVIOUS
  <2>1. TypeOK
    BY OutboxAssumption DEF Init, TypeOK, RowStatus, JobState
  <2>2. AttemptsLeft /\ MarksFollowRuns /\ SentWasExecuted /\ Accounted
    BY DEF Init, AttemptsLeft, MarksFollowRuns, Marking, SentWasExecuted, Accounted, Holds
  <2>3. QED
    BY <2>1, <2>2 DEF OutboxInductive
<1>2. OutboxInductive /\ [Next]_vars => OutboxInductive'
  BY OutboxTypeStep, AttemptsStep, MarksStep, SentStep, AccountedStep DEF OutboxInductive
<1>3. QED
  BY <1>1, <1>2, PTL DEF Spec

\* The variables of Outbox keep their types: no job is attempted more often
\* than its attempts.
THEOREM OutboxTypeCorrect == Spec => []TypeOK
<1>1. OutboxInductive => TypeOK
  BY DEF OutboxInductive
<1>2. QED
  BY OutboxInvariant, <1>1, PTL

\* markOutboxSent never records a delivery before a run of the job returned,
\* whatever fails.
THEOREM DeliveredWasExecuted == Spec => []SentWasExecuted
<1>1. OutboxInductive => SentWasExecuted
  BY DEF OutboxInductive
<1>2. QED
  BY OutboxInvariant, <1>1, PTL

\* Any number of dispatchOutbox loops may read and add a row again: its job
\* runs once, for any number of workers, while nothing fails and the queue
\* remembers the job.
THEOREM ExecutedOnce == Spec => []OnceWhileRemembered
<1>1. OutboxInductive => OnceWhileRemembered
  <2> SUFFICES ASSUME OutboxInductive, NEW r \in Rows, executed[r] > 1
               PROVE  faults > 0 \/ forgotten[r]
    BY DEF OnceWhileRemembered
  <2>1. ~Calm(r)
    BY DEF OutboxInductive, Accounted
  <2>2. QED
    BY <2>1 DEF Calm, OutboxInductive, TypeOK
<1>2. QED
  BY OutboxInvariant, <1>1, PTL

\* Nor does markOutboxFailed give up a row whose job was run, in whatever order
\* the outcome writes of the workers land.
THEOREM GivenUpWasNotExecuted == Spec => []FailedWasNotExecuted
<1>1. OutboxInductive => FailedWasNotExecuted
  <2> SUFFICES ASSUME OutboxInductive, NEW r \in Rows, row[r] = "FAILED", executed[r] > 0
               PROVE  faults > 0 \/ forgotten[r]
    BY DEF FailedWasNotExecuted
  <2>1. ~Calm(r)
    BY DEF OutboxInductive, Accounted
  <2>2. QED
    BY <2>1 DEF Calm, OutboxInductive, TypeOK
<1>2. QED
  BY OutboxInvariant, <1>1, PTL
=============================================================================

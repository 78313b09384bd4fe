------------------------------- MODULE Outbox -------------------------------
(***************************************************************************)
(* The durable outbox: rows of NotificationOutbox, the dispatchers that    *)
(* hand them to the BullMQ queue (dispatchOutbox, one poll loop per worker *)
(* process), the jobs the workers run, and the writes that record the      *)
(* outcome (markOutboxSent, markOutboxFailed), which nothing waits for.    *)
(*                                                                         *)
(* BullMQ and Redis are external and modelled by how the code uses them:   *)
(* add with a jobId the queue still holds does nothing; a job is locked by *)
(* the worker that takes it; a lock that lapses returns the job to the     *)
(* queue while its first run may go on; finished jobs are forgotten after  *)
(* the retention of removeOnComplete and removeOnFail; a restart of the    *)
(* ephemeral Redis forgets every job.  Time is abstract: a row may turn    *)
(* stale at any moment after it was enqueued.                              *)
(***************************************************************************)
EXTENDS Integers, FiniteSets

CONSTANTS
    Rows,           \* outbox rows
    Workers,        \* worker processes
    JobAttempts,    \* attempts of a job (5 in the code)
    MaxFaults       \* bound: failed calls, crashes, lapsed locks, Redis restarts

ASSUME OutboxAssumption == IsFiniteSet(Rows) /\ JobAttempts \in Nat \ {0} /\ MaxFaults \in Nat

VARIABLES
    row,        \* status of each row; "absent" before it is written, "purged" after retention
    stale,      \* enqueuedAt is more than STALE_ENQUEUED_MS ago
    batch,      \* rows each dispatcher has read and not yet added to the queue
    added,      \* the row whose queue.add has returned and whose update has not, as a set
    job,        \* state of the job whose id is the row's, in the queue
    made,       \* its attemptsMade
    stalled,    \* jobs returned to the queue once because their lock had lapsed
    lock,       \* the worker holding its lock, as a set
    running,    \* rows whose job each worker is executing
    marks,      \* outcome writes started and not finished
    executed,   \* times the job ran to completion: never, once, more often (2)
    forgotten,  \* the queue has dropped a finished job of this row
    faults

outbox == <<row, stale>>
dispatch == <<batch, added>>
queue == <<job, made, stalled, lock>>
runs == <<running, executed, forgotten>>
vars == <<outbox, dispatch, queue, runs, marks, faults>>

RowStatus == {"absent", "PENDING", "ENQUEUED", "SENT", "FAILED", "purged"}
JobState  == {"none", "waiting", "active", "completed", "failed"}

TypeOK ==
    /\ row \in [Rows -> RowStatus]
    /\ stale \in [Rows -> BOOLEAN]
    /\ batch \in [Workers -> SUBSET Rows]
    /\ added \in [Workers -> SUBSET Rows]
    /\ job \in [Rows -> JobState]
    /\ made \in [Rows -> 0..JobAttempts]
    /\ stalled \subseteq Rows
    /\ lock \in [Rows -> SUBSET Workers]
    /\ running \in [Workers -> SUBSET Rows]
    /\ marks \subseteq Workers \X Rows \X {"SENT", "FAILED"}
    /\ executed \in [Rows -> 0..2]
    /\ forgotten \in [Rows -> BOOLEAN]
    /\ faults \in 0..MaxFaults

Init ==
    /\ row = [r \in Rows |-> "absent"]
    /\ stale = [r \in Rows |-> FALSE]
    /\ batch = [w \in Workers |-> {}]
    /\ added = [w \in Workers |-> {}]
    /\ job = [r \in Rows |-> "none"]
    /\ made = [r \in Rows |-> 0]
    /\ stalled = {}
    /\ lock = [r \in Rows |-> {}]
    /\ running = [w \in Workers |-> {}]
    /\ marks = {}
    /\ executed = [r \in Rows |-> 0]
    /\ forgotten = [r \in Rows |-> FALSE]
    /\ faults = 0

Fault == faults < MaxFaults /\ faults' = faults + 1

-----------------------------------------------------------------------------
(* Rows and dispatchers                                                     *)

\* The transaction that changed the booking commits its outbox row.
Write(r) ==
    /\ row[r] = "absent"
    /\ row' = [row EXCEPT ![r] = "PENDING"]
    /\ UNCHANGED <<stale, dispatch, queue, runs, marks, faults>>

\* Two minutes pass since the row was enqueued.
Age(r) ==
    /\ row[r] = "ENQUEUED" /\ ~stale[r]
    /\ stale' = [stale EXCEPT ![r] = TRUE]
    /\ UNCHANGED <<row, dispatch, queue, runs, marks, faults>>

\* Fault: stale rows are not looked for.
DuePendingOnly == {r \in Rows : row[r] = "PENDING"}

Due == {r \in Rows : row[r] = "PENDING" \/ (row[r] = "ENQUEUED" /\ stale[r])}

Dispatching(w) == batch[w] \cup added[w] # {}

\* dispatchOutbox reads its batch; tick starts none while one is under way.
Poll(w) ==
    /\ ~Dispatching(w) /\ Due # {}
    /\ batch' = [batch EXCEPT ![w] = Due]
    /\ UNCHANGED <<outbox, added, queue, runs, marks, faults>>

\* Fault: without a jobId each add makes a job of its own, which may run.
EnqueueAnew(r) ==
    /\ job' = [job EXCEPT ![r] = "waiting"]
    /\ made' = [made EXCEPT ![r] = 0]
    /\ stalled' = stalled \ {r}
    /\ lock' = [lock EXCEPT ![r] = {}]

\* queue.add with the row's id as jobId.
Enqueue(r) ==
    IF job[r] = "none"
      THEN /\ job' = [job EXCEPT ![r] = "waiting"]
           /\ made' = [made EXCEPT ![r] = 0]
           /\ UNCHANGED <<stalled, lock>>
      ELSE UNCHANGED queue

Add(w, r) ==
    /\ added[w] = {} /\ r \in batch[w]
    /\ Enqueue(r)
    /\ batch' = [batch EXCEPT ![w] = @ \ {r}]
    /\ added' = [added EXCEPT ![w] = {r}]
    /\ UNCHANGED <<outbox, runs, marks, faults>>

\* queue.add rejects: lastError is written and the loop goes on, unless that
\* write fails as well: the error leaves the loop and tick drops the batch.
AddFails(w, r) ==
    /\ Fault
    /\ added[w] = {} /\ r \in batch[w]
    /\ \E rest \in {batch[w] \ {r}, {}} : batch' = [batch EXCEPT ![w] = rest]
    /\ UNCHANGED <<outbox, added, queue, runs, marks>>

\* The update to ENQUEUED, whatever has become of the row since it was read.
Update(w) ==
    /\ \E r \in added[w] :
         /\ row' = [row EXCEPT ![r] = "ENQUEUED"]
         /\ stale' = [stale EXCEPT ![r] = FALSE]
    /\ added' = [added EXCEPT ![w] = {}]
    /\ UNCHANGED <<batch, queue, runs, marks, faults>>

\* The update fails, and the update of lastError does or does not fail too.
UpdateFails(w) ==
    /\ Fault
    /\ added[w] # {}
    /\ added' = [added EXCEPT ![w] = {}]
    /\ \E rest \in {batch[w], {}} : batch' = [batch EXCEPT ![w] = rest]
    /\ UNCHANGED <<outbox, queue, runs, marks>>

\* purgeDeliveredOutbox; the retention is days, longer than any dispatch.
Purge(r) ==
    /\ row[r] = "SENT"
    /\ \A w \in Workers : r \notin batch[w] \cup added[w]
    /\ row' = [row EXCEPT ![r] = "purged"]
    /\ UNCHANGED <<stale, dispatch, queue, runs, marks, faults>>

-----------------------------------------------------------------------------
(* Jobs                                                                     *)

\* Fault: the row is recorded as delivered when its job starts.
TakeMarking(w, r) ==
    /\ job[r] = "waiting" /\ r \notin running[w]
    /\ job' = [job EXCEPT ![r] = "active"]
    /\ lock' = [lock EXCEPT ![r] = {w}]
    /\ running' = [running EXCEPT ![w] = @ \cup {r}]
    /\ marks' = marks \cup {<<w, r, "SENT">>}
    /\ UNCHANGED <<outbox, dispatch, made, stalled, executed, forgotten, faults>>

\* A worker takes the job and its lock.
Take(w, r) ==
    /\ job[r] = "waiting" /\ r \notin running[w]
    /\ job' = [job EXCEPT ![r] = "active"]
    /\ lock' = [lock EXCEPT ![r] = {w}]
    /\ running' = [running EXCEPT ![w] = @ \cup {r}]
    /\ UNCHANGED <<outbox, dispatch, made, stalled, executed, forgotten, marks, faults>>

Holds(w, r) == job[r] = "active" /\ lock[r] = {w}

\* The processor returns.  Only the holder of the lock completes the job, and
\* then starts markOutboxSent.
Complete(w, r) ==
    /\ r \in running[w]
    /\ running' = [running EXCEPT ![w] = @ \ {r}]
    /\ executed' = [executed EXCEPT ![r] = IF @ = 0 THEN 1 ELSE 2]
    /\ IF Holds(w, r)
         THEN /\ job' = [job EXCEPT ![r] = "completed"]
              /\ lock' = [lock EXCEPT ![r] = {}]
              /\ marks' = marks \cup {<<w, r, "SENT">>}
         ELSE UNCHANGED <<job, lock, marks>>
    /\ UNCHANGED <<outbox, dispatch, made, stalled, forgotten, faults>>

\* Fault: one attempt too many.
LastAttemptOffByOne(r) == made[r] >= JobAttempts

\* attemptsMade reaches attempts with the attempt that has just failed.
LastAttempt(r) == made[r] + 1 >= JobAttempts

\* The processor throws.  The job waits for its next attempt, or fails for good
\* and markOutboxFailed is started.
Throw(w, r) ==
    /\ r \in running[w]
    /\ running' = [running EXCEPT ![w] = @ \ {r}]
    /\ IF Holds(w, r)
         THEN /\ made' = [made EXCEPT ![r] = @ + 1]
              /\ lock' = [lock EXCEPT ![r] = {}]
              /\ IF LastAttempt(r)
                   THEN /\ job' = [job EXCEPT ![r] = "failed"]
                        /\ marks' = marks \cup {<<w, r, "FAILED">>}
                   ELSE /\ job' = [job EXCEPT ![r] = "waiting"]
                        /\ UNCHANGED marks
         ELSE UNCHANGED <<queue, marks>>
    /\ UNCHANGED <<outbox, dispatch, stalled, executed, forgotten, faults>>

\* updateMany where status is not SENT; it finds no row once that is purged.
MarkRow(m) ==
    row' = IF row[m[2]] \notin {"SENT", "purged"} THEN [row EXCEPT ![m[2]] = m[3]] ELSE row

Mark(m) ==
    /\ m \in marks
    /\ marks' = marks \ {m}
    /\ MarkRow(m)
    /\ UNCHANGED <<stale, dispatch, queue, runs, faults>>

\* The write fails: it is logged and not tried again.
MarkLost(m) ==
    /\ Fault
    /\ m \in marks
    /\ marks' = marks \ {m}
    /\ UNCHANGED <<outbox, dispatch, queue, runs>>

-----------------------------------------------------------------------------
(* What the environment may do                                              *)

\* BullMQ returns a stalled job to the queue once (maxStalledCount); the second
\* time it fails the job, whose attemptsMade then says nothing of a last attempt,
\* so that the failed handler records nothing.
Stall(r) ==
    /\ job[r] = "active"
    /\ job' = [job EXCEPT ![r] = IF r \in stalled THEN "failed" ELSE "waiting"]
    /\ stalled' = stalled \cup {r}
    /\ lock' = [lock EXCEPT ![r] = {}]
    /\ UNCHANGED <<outbox, dispatch, made, runs, marks>>

\* The worker loses touch with Redis for longer than the lock lasts.
Lapse(r) == Fault /\ Stall(r)

\* The stalled check finds a job whose worker is gone.
Recover(r) ==
    /\ \A w \in lock[r] : r \notin running[w]
    /\ Stall(r)
    /\ UNCHANGED faults

\* A worker process stops, in the middle of whatever it does, and starts anew.
Crash(w) ==
    /\ Fault
    /\ batch' = [batch EXCEPT ![w] = {}]
    /\ added' = [added EXCEPT ![w] = {}]
    /\ running' = [running EXCEPT ![w] = {}]
    /\ marks' = {m \in marks : m[1] # w}
    /\ UNCHANGED <<outbox, queue, executed, forgotten>>

\* Redis restarts empty; jobs being executed go on without a lock.
RedisRestart ==
    /\ Fault
    /\ job' = [r \in Rows |-> "none"]
    /\ made' = [r \in Rows |-> 0]
    /\ stalled' = {}
    /\ lock' = [r \in Rows |-> {}]
    /\ UNCHANGED <<outbox, dispatch, runs, marks>>

\* removeOnComplete and removeOnFail.
Forget(r) ==
    /\ job[r] \in {"completed", "failed"}
    /\ job' = [job EXCEPT ![r] = "none"]
    /\ made' = [made EXCEPT ![r] = 0]
    /\ stalled' = stalled \ {r}
    /\ forgotten' = [forgotten EXCEPT ![r] = TRUE]
    /\ UNCHANGED <<outbox, dispatch, lock, running, executed, marks, faults>>

-----------------------------------------------------------------------------
DispatchStep(w) == Poll(w) \/ Update(w) \/ \E r \in Rows : Add(w, r)

Run(w, r) == Complete(w, r) \/ Throw(w, r)

Next ==
    \/ \E r \in Rows : Write(r) \/ Age(r) \/ Purge(r) \/ Lapse(r) \/ Recover(r) \/ Forget(r)
    \/ \E w \in Workers : DispatchStep(w) \/ UpdateFails(w) \/ Crash(w)
    \/ \E w \in Workers, r \in Rows : AddFails(w, r) \/ Take(w, r) \/ Run(w, r)
    \/ \E m \in marks : Mark(m) \/ MarkLost(m)
    \/ RedisRestart

Spec == Init /\ [][Next]_vars

\* The poll loop and the job workers run for as long as the processes do, the
\* clock advances, and BullMQ checks for stalled and expired jobs.  A job that is
\* picked up ends one way or the other.
Fairness ==
    /\ \A w \in Workers : WF_vars(DispatchStep(w))
    /\ \A r \in Rows : WF_vars(Age(r)) /\ WF_vars(Recover(r)) /\ WF_vars(Forget(r))
    /\ \A r \in Rows : WF_vars(\E w \in Workers : Take(w, r))
    /\ \A w \in Workers, r \in Rows : WF_vars(Run(w, r))
    /\ \A m \in Workers \X Rows \X {"SENT", "FAILED"} : WF_vars(Mark(m))

FairSpec == Spec /\ Fairness

-----------------------------------------------------------------------------
(* What makes it correct                                                    *)

\* A row is recorded as delivered only when its job has run to completion.
SentWasExecuted == \A r \in Rows : row[r] \in {"SENT", "purged"} => executed[r] > 0

\* However often a row is dispatched, by however many workers, its job runs once
\* as long as nothing fails and the queue remembers the job.
OnceWhileRemembered == \A r \in Rows : executed[r] > 1 => faults > 0 \/ forgotten[r]

\* Nor is a row given up that was delivered: the outcome writes of dispatchers
\* and workers, in whatever order they land, do not turn a completed job into a
\* failure.
FailedWasNotExecuted ==
    \A r \in Rows : row[r] = "FAILED" /\ executed[r] > 0 => faults > 0 \/ forgotten[r]

\* Their strengthening: nothing has failed and the queue remembers r's job.
Calm(r) == faults = 0 /\ ~forgotten[r]

\* The outcome of a run is on its way to the row.
Marking(r, outcome) == \E w \in Workers : <<w, r, outcome>> \in marks

\* Then the job's state tells all: the one worker executing it holds its lock,
\* it has run to completion when it is completed and only then, and it has
\* failed for good when the row says so or is about to.
Accounted ==
    \A r \in Rows : Calm(r) =>
        /\ \A w \in Workers : r \in running[w] <=> Holds(w, r)
        /\ job[r] = "active" => \E w \in Workers : lock[r] = {w}
        /\ executed[r] = IF job[r] = "completed" THEN 1 ELSE 0
        /\ row[r] = "FAILED" \/ Marking(r, "FAILED") => job[r] = "failed"

\* A job that may still run has attempts left, and a delivery is recorded after
\* the run it is about.
AttemptsLeft == \A r \in Rows : job[r] \in {"waiting", "active"} => made[r] < JobAttempts
MarksFollowRuns == \A r \in Rows : Marking(r, "SENT") => executed[r] > 0

\* The inductive invariant behind the four above.
OutboxInductive == TypeOK /\ AttemptsLeft /\ MarksFollowRuns /\ SentWasExecuted /\ Accounted

\* A Redis restart, a crash or a failed call never loses the intent: every row
\* is executed or recorded as FAILED.
IntentSurvives == \A r \in Rows : row[r] = "PENDING" ~> executed[r] > 0 \/ row[r] = "FAILED"

\* No row stays ENQUEUED for good.
RowsSettle == \A r \in Rows : row[r] = "ENQUEUED" ~> row[r] \in {"SENT", "FAILED", "purged"}

\* What the documentation says is dispatched again: PENDING rows and stale
\* ENQUEUED ones.  The update of a dispatcher that read the row earlier breaks it:
\* a row already recorded as delivered, or given up, is enqueued once more.
OnlyStaleRedispatched ==
    [][\A r \in Rows : row'[r] = "ENQUEUED" => row[r] \in {"PENDING", "ENQUEUED"}]_vars
=============================================================================

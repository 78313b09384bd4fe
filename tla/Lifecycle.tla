----------------------------- MODULE Lifecycle ------------------------------
(***************************************************************************)
(* A server process from its start to its exit and restart, and what shows *)
(* of it.  The API (start-production, server) migrates first, answers      *)
(* requests and /ready, which the web client's RuntimeGuard asks.  The     *)
(* worker runs jobs, polls the outbox and writes a heartbeat; it arms the  *)
(* timers of the last two after it has done each once.  Both drain on a    *)
(* signal, close their connections after the last request or job, and are  *)
(* forced out by a timer.  What runs without a connection or a job that    *)
(* the shutdown waits for is loose.                                        *)
(*                                                                         *)
(* The platform that restarts an exited process is external, and so are    *)
(* the database, Redis and the browser's network, which come and go.       *)
(***************************************************************************)
EXTENDS Integers, FiniteSets

CONSTANTS
    Work,               \* requests of the API or jobs of the worker, in flight
    Checks,             \* checks of RuntimeGuard in flight
    MaxMigrations,      \* MAX_MIGRATION_ATTEMPTS
    RetryBase, RetryMax,\* RETRY_DELAY_MS, RETRY_MAX_DELAY_MS; jitter is one fifth
    PollBase, PollMax,  \* OUTBOX_POLL_MS, OUTBOX_IDLE_MAX_POLL_MS
    MinBeat,            \* the shortest heartbeat interval (5 s in the code)
    BeatTTLs,           \* values of WORKER_HEARTBEAT_TTL_SECONDS, at least twice MinBeat
    MaxUpsets           \* bound: signals, uncaught errors and migrations blocked by another deployment

ASSUME LifeAssumption ==
    /\ {MaxMigrations, RetryBase, RetryMax, PollBase, PollMax, MinBeat} \subseteq Nat \ {0}
    /\ \A ttl \in BeatTTLs : ttl \in Nat /\ ttl >= 2 * MinBeat
    /\ MaxUpsets \in Nat

VARIABLES
    kind,           \* which process this is: "api" or "worker"
    phase,          \* migrating, serving, draining, closing or exited
    code,           \* the exit code it has, or will have when it closes
    active,         \* requests whose client waits, or jobs, under way
    loose,          \* handlers whose client has gone, or outcomes of jobs being recorded
    cut,            \* history: the last exit cut a request or a job short
    attempt, delay, \* the migration attempt; the migration's or the poll's delay
    polls,          \* the poll of the outbox: in progress ("tick"), set to a timer, or off
    database, redis, online,    \* up, or connected
    check, guard,   \* RuntimeGuard: its checks and the state it shows
    ttl, beat, due, \* heartbeat: its TTL, what is left of the key and until the next one
    missed,         \* heartbeats failed since the last one written (2: or more, or none was
                    \* since the worker started, or since it armed the interval)
    upsets          \* counter for MaxUpsets

work == <<active, loose, cut>>
process == <<phase, code, work, attempt, delay, polls>>
world == <<database, redis, online>>
ui == <<check, guard>>
heart == <<beat, due, missed>>
lifeVars == <<kind, process, world, ui, ttl, heart, upsets>>

Larger(a, b) == IF a > b THEN a ELSE b
Smaller(a, b) == IF a > b THEN b ELSE a

\* Fault: a heartbeat is written when the last one lapses.
BeatIntervalWhole(t) == Larger(MinBeat, t)

BeatInterval(t) == Larger(MinBeat, t \div 3)

\* Fault: the exponential delay has no maximum.
RetryDelaysUnbounded(n) == {RetryBase * 2^(n - 1)}

\* migrationRetryDelay, with the least, the middle and the largest jitter.
RetryDelays(n) ==
    LET e == Smaller(Larger(RetryBase, RetryMax), RetryBase * 2^(n - 1))
    IN  {(e * r + 2) \div 5 : r \in {4, 5, 6}}

\* nextOutboxPollDelay after a poll that dispatched rows or failed, or found none.
NextDelay(busy) ==
    IF busy THEN PollBase ELSE Smaller(Larger(PollBase, PollMax), 2 * delay)

\* The API begins with its migrations, the worker with a poll and a heartbeat.
FirstPhase == IF kind = "api" THEN "migrating" ELSE "starting"
FirstPoll == IF kind = "api" THEN "off" ELSE "tick"
FirstDelay == IF kind = "api" THEN 0 ELSE PollBase

LifeInit ==
    /\ kind \in {"api", "worker"}
    /\ phase = FirstPhase /\ polls = FirstPoll /\ delay = FirstDelay
    /\ code = 0 /\ active = {} /\ loose = {} /\ cut = FALSE
    /\ attempt = 1
    /\ database = TRUE /\ redis = TRUE
    /\ online \in IF kind = "api" THEN BOOLEAN ELSE {TRUE}
    /\ check = [c \in Checks |-> "idle"]
    /\ guard = IF online THEN "healthy" ELSE "offline"
    /\ ttl \in BeatTTLs
    /\ beat = 0 /\ due = 0 /\ missed = 2
    /\ upsets = 0

Upset == upsets < MaxUpsets /\ upsets' = upsets + 1

-----------------------------------------------------------------------------
(* Start, work, exit                                                        *)

Exit(c) ==
    /\ phase' = "exited" /\ code' = c
    /\ cut' = (active # {}) /\ active' = {} /\ loose' = {}
    /\ polls' = "off"

Migrate ==
    /\ phase = "migrating" /\ database
    /\ phase' = "serving" /\ delay' = 0
    /\ UNCHANGED <<kind, code, work, attempt, polls, world, ui, ttl, heart, upsets>>

\* prisma migrate fails: tried again after a delay, unless it was the last attempt.
MigrateFails ==
    /\ phase = "migrating"
    /\ IF database THEN Upset ELSE UNCHANGED upsets
    /\ \/ /\ attempt < MaxMigrations
          /\ attempt' = attempt + 1
          /\ delay' \in RetryDelays(attempt)
          /\ UNCHANGED <<phase, code, work, polls>>
       \/ attempt = MaxMigrations /\ Exit(1) /\ UNCHANGED <<attempt, delay>>
    /\ UNCHANGED <<kind, world, ui, ttl, heart>>

\* While the API drains, a connection kept alive may still bring a request; the
\* worker takes jobs from the moment it is made.
Accept(w) ==
    /\ phase \in IF kind = "api" THEN {"serving", "draining"} ELSE {"starting", "serving"}
    /\ w \notin active \cup loose
    /\ active' = active \cup {w}
    /\ UNCHANGED <<kind, phase, code, loose, cut, attempt, delay, polls, world, ui, ttl, heart, upsets>>

\* A request is answered.  After a job, its outcome may have to be recorded,
\* which nothing waits for.
Complete(w) ==
    /\ w \in active
    /\ active' = active \ {w}
    /\ loose' \in IF kind = "api" THEN {loose} ELSE {loose, loose \cup {w}}
    /\ UNCHANGED <<kind, phase, code, cut, attempt, delay, polls, world, ui, ttl, heart, upsets>>

\* The client closes its connection, and the handler goes on.
ClientGone(w) ==
    /\ kind = "api" /\ w \in active
    /\ active' = active \ {w} /\ loose' = loose \cup {w}
    /\ UNCHANGED <<kind, phase, code, cut, attempt, delay, polls, world, ui, ttl, heart, upsets>>

\* Such a handler returns, or the outcome is recorded, or could not be.
LooseEnds(w) ==
    /\ w \in loose
    /\ loose' = loose \ {w}
    /\ UNCHANGED <<kind, phase, code, active, cut, attempt, delay, polls, world, ui, ttl, heart, upsets>>

\* Fault: the flag of a shutdown under way is not looked at.  The second
\* server.close reports an error at once, and its callback closes the rest.
SignalAgain ==
    /\ phase \in {"migrating", "starting", "serving", "draining"} /\ Upset
    /\ CASE phase \in {"migrating", "starting"} -> Exit(1)
         [] phase = "serving" -> phase' = "draining" /\ code' = 0 /\ UNCHANGED <<work, polls>>
         [] phase = "draining" -> phase' = "closing" /\ UNCHANGED <<code, work, polls>>
    /\ UNCHANGED <<kind, attempt, delay, world, ui, ttl, heart>>

\* SIGTERM, SIGINT, an unhandled rejection or an uncaught exception: the
\* process drains, once, and the worker's timers are cleared.  The API's exit
\* code tells an error from a signal, the worker's does not.  A process that
\* still migrates or starts has no handler.
Signal ==
    /\ phase \in {"migrating", "starting", "serving", "draining", "closing"} /\ Upset
    /\ CASE phase \in {"migrating", "starting"} -> Exit(1)
         [] phase = "serving" ->
              /\ phase' = "draining"
              /\ code' \in IF kind = "api" THEN {0, 1} ELSE {0}
              /\ polls' = IF polls = "timer" THEN "off" ELSE polls
              /\ UNCHANGED work
         [] OTHER -> UNCHANGED <<phase, code, work, polls>>
    /\ UNCHANGED <<kind, attempt, delay, world, ui, ttl, heart>>

\* server.close is through with the last connection, or worker.close with the
\* last job.  Neither waits for what is loose, nor for a poll of the outbox.
Drained ==
    /\ phase = "draining" /\ active = {}
    /\ phase' = "closing"
    /\ UNCHANGED <<kind, code, work, attempt, delay, polls, world, ui, ttl, heart, upsets>>

\* The connections are closed, or failed to close, and the process exits.
Closed ==
    /\ phase = "closing"
    /\ Exit(code)
    /\ UNCHANGED <<kind, attempt, delay, world, ui, ttl, heart, upsets>>

\* Fault: the timer is cleared before the connections are closed.
ForceDraining ==
    /\ phase = "draining"
    /\ Exit(1)
    /\ UNCHANGED <<kind, attempt, delay, world, ui, ttl, heart, upsets>>

\* SHUTDOWN_GRACE_MS have passed.
ForceExit ==
    /\ phase \in {"draining", "closing"}
    /\ Exit(1)
    /\ UNCHANGED <<kind, attempt, delay, world, ui, ttl, heart, upsets>>

\* Started again by the platform.
Restart ==
    /\ phase = "exited"
    /\ phase' = FirstPhase /\ polls' = FirstPoll /\ delay' = FirstDelay
    /\ code' = 0 /\ cut' = FALSE
    /\ attempt' = 1
    /\ due' = 0 /\ missed' = 2
    /\ UNCHANGED <<kind, active, loose, world, ui, beat, ttl, upsets>>

\* The worker arms its timers after its first poll and its first heartbeat.
Started ==
    /\ phase = "starting" /\ polls = "timer" /\ missed # 2
    /\ phase' = "serving"
    /\ due' = BeatInterval(ttl) /\ missed' = 2
    /\ UNCHANGED <<kind, code, work, attempt, delay, polls, world, ui, ttl, beat, upsets>>

\* tick: a poll of the outbox begins when its timer fires.
PollStarts ==
    /\ phase \in {"serving", "draining", "closing"} /\ polls = "timer"
    /\ polls' = "tick"
    /\ UNCHANGED <<kind, phase, code, work, attempt, delay, world, ui, ttl, heart, upsets>>

\* It ends, and the timer is set again, even when the worker drains meanwhile.
PollEnds ==
    /\ polls = "tick"
    /\ polls' = "timer"
    /\ \E busy \in BOOLEAN : delay' = NextDelay(busy)
    /\ UNCHANGED <<kind, phase, code, work, attempt, world, ui, ttl, heart, upsets>>

-----------------------------------------------------------------------------
(* The heartbeat                                                            *)

\* A second passes; a heartbeat that is due comes first.
Second ==
    /\ kind = "worker" /\ phase = "serving" => due > 0
    /\ kind = "worker" /\ beat' = Larger(0, beat - 1)
    /\ due' = IF phase = "serving" THEN due - 1 ELSE due
    /\ UNCHANGED <<kind, process, world, ui, ttl, missed, upsets>>

\* The first heartbeat is written, or fails, while the worker starts.
FirstHeartbeat ==
    /\ phase = "starting" /\ missed = 2
    /\ \/ redis /\ beat' = ttl /\ missed' = 0
       \/ UNCHANGED beat /\ missed' = 1
    /\ UNCHANGED <<kind, process, world, ui, ttl, due, upsets>>

Heartbeat ==
    /\ kind = "worker" /\ phase = "serving" /\ due = 0
    /\ due' = BeatInterval(ttl)
    /\ \/ redis /\ beat' = ttl /\ missed' = 0
       \/ UNCHANGED beat /\ missed' = Smaller(2, missed + 1)
    /\ UNCHANGED <<kind, process, world, ui, ttl, upsets>>

-----------------------------------------------------------------------------
(* Readiness, as RuntimeGuard sees it                                       *)

\* /ready: 200 when both probes succeed within their time.
Ready == phase = "serving" /\ database /\ redis

\* Fault: no check while the state is healthy.
CheckStartsUnlessHealthy(c) ==
    /\ check[c] = "idle" /\ guard # "healthy"
    /\ IF online
         THEN check' = [check EXCEPT ![c] = "asked"] /\ UNCHANGED guard
         ELSE guard' = "offline" /\ UNCHANGED check
    /\ UNCHANGED <<kind, process, world, ttl, heart, upsets>>

\* check: every 30 seconds, and when the page is opened.
CheckStarts(c) ==
    /\ check[c] = "idle"
    /\ IF online
         THEN check' = [check EXCEPT ![c] = "asked"] /\ UNCHANGED guard
         ELSE guard' = "offline" /\ UNCHANGED check
    /\ UNCHANGED <<kind, process, world, ttl, heart, upsets>>

CheckServed(c) ==
    /\ check[c] = "asked" /\ online
    /\ check' = [check EXCEPT ![c] = IF Ready THEN "healthy" ELSE "degraded"]
    /\ UNCHANGED <<kind, process, world, guard, ttl, heart, upsets>>

\* The answer is shown when it arrives.
CheckAnswered(c) ==
    /\ check[c] \in {"healthy", "degraded"}
    /\ guard' = check[c]
    /\ check' = [check EXCEPT ![c] = "idle"]
    /\ UNCHANGED <<kind, process, world, ttl, heart, upsets>>

\* The fetch fails, or its four seconds are over, which takes longer than /ready.
CheckFails(c) ==
    /\ check[c] = "asked" /\ ~(online /\ Ready)
    /\ guard' = IF online THEN "degraded" ELSE "offline"
    /\ check' = [check EXCEPT ![c] = "idle"]
    /\ UNCHANGED <<kind, process, world, ttl, heart, upsets>>

GoOffline ==
    /\ online /\ online' = FALSE
    /\ guard' = "offline"
    /\ UNCHANGED <<kind, process, database, redis, check, ttl, heart, upsets>>

GoOnline(c) ==
    /\ ~online /\ online' = TRUE
    /\ check[c] = "idle" /\ check' = [check EXCEPT ![c] = "asked"]
    /\ UNCHANGED <<kind, process, database, redis, guard, ttl, heart, upsets>>

DependencyTurns ==
    /\ \/ database' = ~database /\ UNCHANGED redis
       \/ redis' = ~redis /\ UNCHANGED database
    /\ UNCHANGED <<kind, process, online, ui, ttl, heart, upsets>>

-----------------------------------------------------------------------------
GuardStep(c) ==
    kind = "api" /\ (CheckStarts(c) \/ CheckServed(c) \/ CheckAnswered(c) \/ CheckFails(c) \/ GoOnline(c))

LifeNext ==
    \/ Migrate \/ MigrateFails \/ Signal \/ Drained \/ Closed \/ ForceExit \/ Restart \/ Started
    \/ \E w \in Work : Accept(w) \/ Complete(w) \/ ClientGone(w) \/ LooseEnds(w)
    \/ PollStarts \/ PollEnds \/ Second \/ FirstHeartbeat \/ Heartbeat
    \/ kind = "api" /\ GoOffline
    \/ \E c \in Checks : GuardStep(c)
    \/ DependencyTurns

TryMigrate == Migrate \/ MigrateFails
StartGoesOn == Started \/ (database /\ redis /\ PollEnds) \/ (redis /\ FirstHeartbeat)
CheckAgain == kind = "api" /\ \E c \in Checks : CheckStarts(c)
CheckGoesOn(c) == kind = "api" /\ (CheckServed(c) \/ CheckAnswered(c) \/ CheckFails(c))

\* The timer fires, the platform restarts, migrations are tried, the worker's
\* start goes on while its database and Redis answer, and the guard goes on
\* checking; nothing makes a request, a job or a disconnect end.
LifeFairness ==
    /\ WF_lifeVars(ForceExit) /\ WF_lifeVars(Restart) /\ WF_lifeVars(TryMigrate)
    /\ WF_lifeVars(phase = "starting" /\ StartGoesOn)
    /\ WF_lifeVars(CheckAgain) /\ \A c \in Checks : WF_lifeVars(CheckGoesOn(c))

LifeSpec == LifeInit /\ [][LifeNext]_lifeVars /\ LifeFairness

-----------------------------------------------------------------------------
(* What makes it correct                                                    *)

\* Types; no delay exceeds its maximum by more than the jitter, but for
\* the rounding.
LifeTypeOK ==
    /\ kind \in {"api", "worker"}
    /\ phase \in {"migrating", "starting", "serving", "draining", "closing", "exited"}
    /\ phase = "migrating" => kind = "api"
    /\ phase = "starting" => kind = "worker"
    /\ polls \in IF kind = "api" THEN {"off"} ELSE {"off", "timer", "tick"}
    /\ code \in {0, 1} /\ cut \in BOOLEAN
    /\ active \subseteq Work /\ loose \subseteq Work
    /\ attempt \in 1..MaxMigrations
    /\ IF kind = "worker" THEN delay \in PollBase..Larger(PollBase, PollMax)
                          ELSE delay \in Nat /\ 5 * delay <= 6 * Larger(RetryBase, RetryMax) + 2
    /\ {database, redis, online} \subseteq BOOLEAN
    /\ check \in [Checks -> {"idle", "asked", "healthy", "degraded"}]
    /\ guard \in {"healthy", "degraded", "offline"}
    /\ ttl \in BeatTTLs /\ beat \in 0..ttl /\ due \in 0..BeatInterval(ttl) /\ missed \in 0..2
    /\ upsets \in 0..MaxUpsets

\* Connections are closed only after the last job and the last request whose
\* client waits, whatever signals arrive, and a process that exits with code 0
\* has cut none of these short.  It may cut a handler whose client has gone, an
\* outcome of a job that is being recorded, and a poll of the outbox.
CleanExit ==
    /\ phase = "exited" /\ code = 0 => ~cut
    /\ active # {} => phase \in {"starting", "serving", "draining"}

\* Once the database and Redis stay, a process serves, and serves again after
\* every exit, whatever hung or failed before: a migration, a start, a request,
\* a shutdown.
ServesAgain == <>[](database /\ redis) => []<>(phase = "serving")

\* A running worker shows in /ready from the first heartbeat of the interval
\* on: always while its heartbeats are written, and in spite of one that failed
\* when the TTL is longer than two intervals (with the smallest TTL, 10 s, it is
\* not).  Before, while it starts, its first heartbeat may lapse.
WorkerVisible ==
    kind = "worker" /\ phase = "serving" =>
        /\ missed = 0 => beat > 0
        /\ missed = 1 /\ ttl > 2 * BeatInterval(ttl) => beat > 0

\* The guard settles: once the network and the dependencies stay, the API comes
\* back and the guard shows it, and once the network stays away the guard shows
\* that, although answers of older checks arrive late.
GuardSettles ==
    kind = "api" =>
        /\ <>[](online /\ database /\ redis) => <>[](guard = "healthy")
        /\ <>[](~online) => <>[](guard = "offline")

\* The strengthening of WorkerVisible: the key has what is left of it since the
\* last heartbeat that was written.
HeartbeatLasts ==
    kind = "worker" /\ phase = "serving" =>
        /\ missed = 0 => beat >= ttl - BeatInterval(ttl) + due
        /\ missed = 1 => beat >= ttl - 2 * BeatInterval(ttl) + due

LifeInductive == LifeTypeOK /\ CleanExit /\ HeartbeatLasts
=============================================================================

------------------------------- MODULE Login --------------------------------
(***************************************************************************)
(* Attempts to log in to one account from one address: the fixed window of *)
(* redisRateLimit, the lock of login-throttle, the password check, and the *)
(* counting or clearing of failures after it.  Attempts overlap, keys of   *)
(* Redis lapse with the clock, and a call to Redis may fail: then the      *)
(* attempt goes on (fail open).  One Tick is a fraction of a second, since *)
(* Redis rounds the TTL that the lock is asked for to whole seconds.       *)
(***************************************************************************)
EXTENDS Integers, FiniteSets

CONSTANTS
    Attempts,       \* login requests in flight
    TicksPerSecond, \* ticks of the clock in a second
    RateLimit, RateWindow,
    MaxFailures, FailureWindow, LockTTL,    \* windows and TTL in ticks: whole seconds in the code
    MaxTime,        \* bound: ticks
    MaxRedisFaults  \* bound: failed calls to Redis

ASSUME LoginAssumption ==
    /\ IsFiniteSet(Attempts)
    /\ {TicksPerSecond, RateLimit, RateWindow, MaxFailures, FailureWindow, LockTTL} \subseteq Nat \ {0}
    /\ LockTTL >= TicksPerSecond
    /\ MaxTime \in Nat /\ MaxRedisFaults \in Nat

VARIABLES
    now,
    window,         \* the rate limit's key: its count (0: no key) and when it lapses
    failures,       \* the key of failures, likewise
    lockUntil,      \* when the lock's key lapses
    stage,          \* where each attempt is
    recent,         \* history: requests admitted in the last i ticks, for i up to RateWindow
    redisFaults     \* counter for MaxRedisFaults

loginVars == <<now, window, failures, lockUntil, stage, recent, redisFaults>>

NoKey == [count |-> 0, until |-> 0]
AtMost(n, max) == IF n > max THEN max ELSE n

\* Redis answers a TTL in seconds, rounded to the nearest one: 0 in the last
\* half of a second.
TTL(until) == (until - now + TicksPerSecond \div 2) \div TicksPerSecond
Locked == TTL(lockUntil) > 0

\* How long a lock keeps attempts out, and how often it can be set within a
\* window of failures.  More guesses than GuessBound are not told apart.
LockLasts == LockTTL - (TicksPerSecond - TicksPerSecond \div 2) + 1
LockRounds == (FailureWindow + LockLasts - 1) \div LockLasts
GuessBound == MaxFailures - 1 + LockRounds * Cardinality(Attempts)

LoginInit ==
    /\ now = 0
    /\ window = NoKey /\ failures = NoKey /\ lockUntil = 0
    /\ stage = [a \in Attempts |-> "idle"]
    /\ recent = [i \in 1..RateWindow |-> 0]
    /\ redisFaults = 0

Go(a, phase) == stage' = [stage EXCEPT ![a] = phase]

\* INCR, and EXPIRE when the key is new; a count above max is not told apart.
Incr(key, ttl, max) ==
    [count |-> AtMost(key.count + 1, max + 1),
     until |-> IF key.count = 0 THEN now + ttl ELSE key.until]

Admit(a) ==
    /\ Go(a, "admitted")
    /\ recent' = [i \in 1..RateWindow |-> recent[i] + 1]

\* Fault: the count is compared before this request is added to it.
WithinLateLimit(count) == count <= RateLimit + 1

WithinLimit(count) == count <= RateLimit

\* redisRateLimit: one script counts the request and reads the count.
Arrive(a) ==
    /\ stage[a] = "idle"
    /\ window' = Incr(window, RateWindow, RateLimit + 1)
    /\ IF WithinLimit(window'.count) THEN Admit(a) ELSE UNCHANGED <<stage, recent>>
    /\ UNCHANGED <<now, failures, lockUntil, redisFaults>>

\* assertLoginAllowed: 429 while the lock has a TTL above 0.
AssertAllowed(a) ==
    /\ stage[a] = "admitted"
    /\ Go(a, IF Locked THEN "idle" ELSE "allowed")
    /\ UNCHANGED <<now, window, failures, lockUntil, recent, redisFaults>>

\* verifyPassword, of the account's hash or of the dummy.
Verify(a) ==
    /\ stage[a] = "allowed"
    /\ Go(a, "right") \/ Go(a, "wrong")
    /\ UNCHANGED <<now, window, failures, lockUntil, recent, redisFaults>>

\* Fault: the lock is set when the count reaches the maximum, and not after it.
LocksOnce(count) == count = MaxFailures

Locks(count) == count >= MaxFailures

\* recordLoginFailure: one script; the lock's TTL starts again.
RecordFailure(a) ==
    /\ stage[a] = "wrong"
    /\ failures' = Incr(failures, FailureWindow, GuessBound)
    /\ lockUntil' = IF Locks(failures'.count) THEN now + LockTTL ELSE lockUntil
    /\ Go(a, "idle")
    /\ UNCHANGED <<now, window, recent, redisFaults>>

\* clearLoginFailures: both keys, even a lock that was set meanwhile; then the
\* password may be hashed again and the pair of tokens is issued.
ClearFailures(a) ==
    /\ stage[a] = "right"
    /\ failures' = NoKey /\ lockUntil' = 0
    /\ Go(a, "idle")
    /\ UNCHANGED <<now, window, recent, redisFaults>>

\* A call to Redis fails, and the attempt goes on without it.
RedisFails(a) ==
    /\ redisFaults < MaxRedisFaults /\ redisFaults' = redisFaults + 1
    /\ \/ stage[a] = "idle" /\ Admit(a)
       \/ stage[a] = "admitted" /\ Go(a, "allowed") /\ UNCHANGED recent
       \/ stage[a] \in {"wrong", "right"} /\ Go(a, "idle") /\ UNCHANGED recent
    /\ UNCHANGED <<now, window, failures, lockUntil>>

Lapse(key) == IF now + 1 >= key.until THEN NoKey ELSE key

Tick ==
    /\ now < MaxTime
    /\ now' = now + 1
    /\ window' = Lapse(window) /\ failures' = Lapse(failures)
    /\ recent' = [i \in 1..RateWindow |-> IF i = 1 THEN 0 ELSE recent[i - 1]]
    /\ UNCHANGED <<lockUntil, stage, redisFaults>>

LoginNext ==
    \/ Tick
    \/ \E a \in Attempts :
         Arrive(a) \/ AssertAllowed(a) \/ Verify(a) \/ RecordFailure(a) \/ ClearFailures(a) \/ RedisFails(a)

LoginSpec == LoginInit /\ [][LoginNext]_loginVars

-----------------------------------------------------------------------------
(* What makes it correct                                                    *)

\* At time t a key with this TTL is gone, or lapses later, within its TTL.
KeyOK(key, t, ttl) ==
    /\ key.count \in Nat
    /\ IF key.count = 0 THEN key = NoKey ELSE key.until \in t + 1 .. t + ttl

\* Types; every counter has a time to lapse at, no later than its window.
LoginTypeOK ==
    /\ now \in 0..MaxTime
    /\ KeyOK(window, now, RateWindow) /\ KeyOK(failures, now, FailureWindow)
    /\ lockUntil \in 0 .. now + LockTTL
    /\ stage \in [Attempts -> {"idle", "admitted", "allowed", "right", "wrong"}]
    /\ recent \in [1..RateWindow -> Nat]
    /\ redisFaults \in 0..MaxRedisFaults

\* While Redis answers, the passwords tried within one window of failures are
\* those below the maximum and, for each time the lock can be set in it, one
\* for each attempt that had passed the check before.  A lock is over as soon
\* as its TTL is rounded to 0, which may leave room for one more.
GuessesBounded == redisFaults = 0 => failures.count <= GuessBound

\* While Redis answers, no RateWindow of time admits more than twice the limit:
\* what a fixed window lets through around its end.
AdmissionsBounded == redisFaults = 0 => recent[RateWindow] <= 2 * RateLimit

\* The strengthening of GuessesBounded: within one window of failures the lock
\* has been set for a k-th time only after it has kept attempts out k - 1 times,
\* and each time no more attempts than there are had passed the check.
Checked == {a \in Attempts : stage[a] \in {"allowed", "right", "wrong"}}

GuessesPerLock ==
    redisFaults = 0 /\ failures.count >= MaxFailures =>
        \E k \in 1..LockRounds :
            /\ lockUntil >= failures.until - FailureWindow + LockTTL + (k - 1) * LockLasts
            /\ failures.count + (IF Locked THEN Cardinality(Checked) ELSE 0)
                 <= MaxFailures - 1 + k * Cardinality(Attempts)

\* The strengthening of AdmissionsBounded: what is admitted under a key is
\* counted in it, and before it came, no more than one window's.
AdmissionsPerKey ==
    redisFaults = 0 =>
        /\ \A i, j \in 1..RateWindow : i <= j => recent[i] <= recent[j]
        /\ IF window.count = 0
             THEN recent[1] = 0 /\ recent[RateWindow] <= RateLimit
             ELSE /\ recent[RateWindow] <= RateLimit + AtMost(window.count, RateLimit)
                  /\ recent[now - (window.until - RateWindow) + 1] <= AtMost(window.count, RateLimit)

LoginInductive == LoginTypeOK /\ GuessesPerLock /\ GuessesBounded /\ AdmissionsPerKey
=============================================================================

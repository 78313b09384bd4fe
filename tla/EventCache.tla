----------------------------- MODULE EventCache -----------------------------
(***************************************************************************)
(* cacheAside, as eventCache.detail and eventCache.list use it: readers    *)
(* look for a key, compete for its miss lock, load from the database and   *)
(* store, while writers commit and then invalidate.  The detail key is     *)
(* deleted by an invalidation; a list key contains a version which the     *)
(* invalidation increments, so that older pages are never asked for again. *)
(*                                                                         *)
(* What is cached is abstracted to how many writes had been committed when *)
(* it was loaded.  Redis is external: a failed call is a miss, a lost lock *)
(* or a lost write, and it counts as a fault; so does a restart, which     *)
(* empties it and sets the list version back.  Time is abstract: a lock    *)
(* may lapse and an entry expire at any moment.                            *)
(***************************************************************************)
EXTENDS Integers, FiniteSets

CONSTANTS
    Readers,    \* read requests in flight
    Writers,    \* requests and jobs that change events
    Polls,      \* times a reader without the lock looks again (5 in the code)
    MaxWrites,  \* bound: commits
    MaxFaults   \* bound: failed Redis calls, Redis restarts, requests cut off

ASSUME CacheAssumption ==
    IsFiniteSet(Writers) /\ Polls \in Nat /\ MaxWrites \in Nat /\ MaxFaults \in Nat

VARIABLES
    db,         \* writes committed
    acked,      \* the latest write that has been invalidated and answered
    cached,     \* the entry of each key, as a set
    version,    \* the list version, 0 when there is none
    lock,       \* the reader whose token each lock key holds, as a set
    lapsed,     \* readers whose lock lapsed while they held it
    call,       \* the read requests
    write,      \* the write each writer has committed and not invalidated, as a set
    faults

vars == <<db, acked, cached, version, lock, lapsed, call, write, faults>>

Keys == {<<"detail", 0>>} \cup {<<"list", n>> : n \in 0..MaxWrites}
Phases == {"idle", "reading", "locking", "polling", "checking", "loading", "storing", "releasing", "done"}
Values == 0..MaxWrites
Entries == {{}} \cup {{v} : v \in Values}

\* value: what will be answered, {} for an error; floor: acked when the request came.
Call == [phase : Phases, key : Keys, owner : BOOLEAN, polls : 0..Polls,
         value : Entries, floor : Values]

NoCall == [phase |-> "idle", key |-> <<"detail", 0>>, owner |-> FALSE, polls |-> 0,
           value |-> {}, floor |-> 0]

TypeOK ==
    /\ db \in Values /\ acked \in Values
    /\ cached \in [Keys -> Entries]
    /\ version \in 0..MaxWrites
    /\ lock \in [Keys -> SUBSET Readers]
    /\ lapsed \subseteq Readers
    /\ call \in [Readers -> Call]
    /\ write \in [Writers -> SUBSET Values]
    /\ faults \in 0..MaxFaults

Init ==
    /\ db = 0 /\ acked = 0 /\ version = 0 /\ faults = 0
    /\ cached = [k \in Keys |-> {}]
    /\ lock = [k \in Keys |-> {}]
    /\ lapsed = {}
    /\ call = [c \in Readers |-> NoCall]
    /\ write = [w \in Writers |-> {}]

Fault == faults < MaxFaults /\ faults' = faults + 1

At(c, phase) == call[c].phase = phase
Key(c) == call[c].key
Hit(c) == cached[Key(c)] # {}

\* c goes on in another phase; Found(c) takes the cached entry along.
Go(c, phase) == call' = [call EXCEPT ![c].phase = phase]
Found(c, phase) == call' = [call EXCEPT ![c].phase = phase, ![c].value = cached[Key(c)]]

-----------------------------------------------------------------------------
(* Readers                                                                  *)

\* A request for the detail, or for a list page under the version it reads now;
\* when that read fails, under version 0.
Ask(c, k) ==
    /\ At(c, "idle")
    /\ call' = [call EXCEPT ![c] = [NoCall EXCEPT !.phase = "reading", !.key = k, !.floor = acked]]
    /\ \/ k \in {<<"detail", 0>>, <<"list", version>>} /\ UNCHANGED faults
       \/ k = <<"list", 0>> /\ version # 0 /\ Fault
    /\ UNCHANGED <<db, acked, cached, version, lock, lapsed, write>>

Read(c) ==
    /\ At(c, "reading")
    /\ IF Hit(c) THEN Found(c, "done") ELSE Go(c, "locking")
    /\ UNCHANGED <<db, acked, cached, version, lock, lapsed, write, faults>>

\* SET NX of the lock key, with a token of this request.
Lock(c) ==
    /\ At(c, "locking")
    /\ IF lock[Key(c)] = {}
         THEN /\ lock' = [lock EXCEPT ![Key(c)] = {c}]
              /\ call' = [call EXCEPT ![c].phase = "checking", ![c].owner = TRUE]
         ELSE Go(c, "polling") /\ UNCHANGED lock
    /\ UNCHANGED <<db, acked, cached, version, lapsed, write, faults>>

\* Fault: the reader polls until the entry is there.
PollOn(c) ==
    /\ At(c, "polling")
    /\ Hit(c) /\ Found(c, "done")
    /\ UNCHANGED <<db, acked, cached, version, lock, lapsed, write, faults>>

\* Fault: one poll too many.
PollOnceMore(c) ==
    /\ At(c, "polling")
    /\ IF call[c].polls > Polls THEN Go(c, "loading")
       ELSE IF Hit(c) THEN Found(c, "done")
       ELSE call' = [call EXCEPT ![c].polls = @ + 1]
    /\ UNCHANGED <<db, acked, cached, version, lock, lapsed, write, faults>>

\* A reader without the lock looks a few times, then loads for itself.
Poll(c) ==
    /\ At(c, "polling")
    /\ IF call[c].polls = Polls THEN Go(c, "loading")
       ELSE IF Hit(c) THEN Found(c, "done")
       ELSE call' = [call EXCEPT ![c].polls = @ + 1]
    /\ UNCHANGED <<db, acked, cached, version, lock, lapsed, write, faults>>

\* The owner looks again: another owner may have stored since its first look.
Recheck(c) ==
    /\ At(c, "checking")
    /\ IF Hit(c) THEN Found(c, "releasing") ELSE Go(c, "loading")
    /\ UNCHANGED <<db, acked, cached, version, lock, lapsed, write, faults>>

Load(c) ==
    /\ At(c, "loading")
    /\ call' = [call EXCEPT ![c].phase = IF call[c].owner THEN "storing" ELSE "done",
                            ![c].value = {db}]
    /\ UNCHANGED <<db, acked, cached, version, lock, lapsed, write, faults>>

\* The loader throws: no such event, or no database.
LoadFails(c) ==
    /\ At(c, "loading")
    /\ Go(c, IF call[c].owner THEN "releasing" ELSE "done")
    /\ UNCHANGED <<db, acked, cached, version, lock, lapsed, write, faults>>

Store(c) ==
    /\ At(c, "storing")
    /\ cached' = [cached EXCEPT ![Key(c)] = call[c].value]
    /\ Go(c, "releasing")
    /\ UNCHANGED <<db, acked, version, lock, lapsed, write, faults>>

\* Fault: the lock key is deleted without comparing the token.
FreesAnyLock(c) == {}

\* RELEASE_LOCK_SCRIPT deletes the lock key only if it holds the caller's token.
Frees(c) == lock[Key(c)] \ {c}

Release(c) ==
    /\ At(c, "releasing")
    /\ lock' = [lock EXCEPT ![Key(c)] = Frees(c)]
    /\ lapsed' = lapsed \ {c}
    /\ Go(c, "done")
    /\ UNCHANGED <<db, acked, cached, version, write, faults>>

Answer(c) ==
    /\ At(c, "done")
    /\ call' = [call EXCEPT ![c] = NoCall]
    /\ UNCHANGED <<db, acked, cached, version, lock, lapsed, write, faults>>

\* A failed Redis call: the read misses, the lock is not taken, the entry is not
\* stored, the lock is left to lapse.
CallFails(c) ==
    /\ Fault
    /\ \/ At(c, "reading") /\ Go(c, "locking")
       \/ At(c, "locking") /\ Go(c, "polling")
       \/ At(c, "polling") /\ call[c].polls < Polls /\ call' = [call EXCEPT ![c].polls = @ + 1]
       \/ At(c, "checking") /\ Go(c, "loading")
       \/ At(c, "storing") /\ Go(c, "releasing")
       \/ At(c, "releasing") /\ Go(c, "done")
    /\ lapsed' = lapsed \ (IF At(c, "releasing") THEN {c} ELSE {})
    /\ UNCHANGED <<db, acked, cached, version, lock, write>>

\* SET NX succeeds and its answer is lost: the lock stays until it lapses.
LockAnswerLost(c) ==
    /\ Fault
    /\ At(c, "locking") /\ lock[Key(c)] = {}
    /\ lock' = [lock EXCEPT ![Key(c)] = {c}]
    /\ Go(c, "polling")
    /\ UNCHANGED <<db, acked, cached, version, lapsed, write>>

\* The API process stops in the middle of the request.
CutOff(c) ==
    /\ Fault
    /\ ~At(c, "idle")
    /\ call' = [call EXCEPT ![c] = NoCall]
    /\ lapsed' = lapsed \ {c}
    /\ UNCHANGED <<db, acked, cached, version, lock, write>>

-----------------------------------------------------------------------------
(* Writers                                                                  *)

CommitWrite(w) ==
    /\ write[w] = {} /\ db < MaxWrites
    /\ db' = db + 1
    /\ write' = [write EXCEPT ![w] = {db + 1}]
    /\ UNCHANGED <<acked, cached, version, lock, lapsed, call, faults>>

Latest(v) == IF v > acked THEN v ELSE acked

\* Fault: only the detail is invalidated.
DropDetail ==
    /\ cached' = [cached EXCEPT ![<<"detail", 0>>] = {}]
    /\ UNCHANGED version

\* invalidateEventCache: the detail is deleted and the list version incremented
\* in one MULTI.
Invalidate ==
    /\ cached' = [cached EXCEPT ![<<"detail", 0>>] = {}]
    /\ version' = version + 1

Acknowledge(w) ==
    /\ Invalidate
    /\ \E v \in write[w] : acked' = Latest(v)
    /\ write' = [write EXCEPT ![w] = {}]
    /\ UNCHANGED <<db, lock, lapsed, call, faults>>

\* The invalidation fails and is logged; the request is answered all the same.
AcknowledgeStale(w) ==
    /\ Fault
    /\ \E v \in write[w] : acked' = Latest(v)
    /\ write' = [write EXCEPT ![w] = {}]
    /\ UNCHANGED <<db, cached, version, lock, lapsed, call>>

-----------------------------------------------------------------------------
(* Redis                                                                    *)

Lapse(k) ==
    /\ lock[k] # {}
    /\ lock' = [lock EXCEPT ![k] = {}]
    /\ lapsed' = lapsed \cup {c \in lock[k] : call[c].owner /\ Key(c) = k}
    /\ UNCHANGED <<db, acked, cached, version, call, write, faults>>

Expire(k) ==
    /\ cached[k] # {}
    /\ cached' = [cached EXCEPT ![k] = {}]
    /\ UNCHANGED <<db, acked, version, lock, lapsed, call, write, faults>>

Restart ==
    /\ Fault
    /\ cached' = [k \in Keys |-> {}]
    /\ lock' = [k \in Keys |-> {}]
    /\ lapsed' = lapsed \cup {c \in Readers : lock[Key(c)] = {c} /\ call[c].owner}
    /\ version' = 0
    /\ UNCHANGED <<db, acked, call, write>>

-----------------------------------------------------------------------------
ReadStep(c) ==
    \/ Read(c) \/ Lock(c) \/ Poll(c) \/ Recheck(c) \/ Load(c) \/ LoadFails(c)
    \/ Store(c) \/ Release(c) \/ Answer(c)

Next ==
    \/ \E c \in Readers : ReadStep(c) \/ CallFails(c) \/ LockAnswerLost(c) \/ CutOff(c)
    \/ \E c \in Readers, k \in Keys : Ask(c, k)
    \/ \E w \in Writers : CommitWrite(w) \/ Acknowledge(w) \/ AcknowledgeStale(w)
    \/ \E k \in Keys : Lapse(k) \/ Expire(k)
    \/ Restart

Spec == Init /\ [][Next]_vars

\* A request that has begun goes on until it is answered.
FairSpec == Spec /\ \A c \in Readers : WF_vars(ReadStep(c))

-----------------------------------------------------------------------------
(* What makes it correct                                                    *)

Fresh(c) == At(c, "done") => \A v \in call[c].value : v >= call[c].floor

\* As long as Redis does not fail, a list answers with every write that was
\* acknowledged before it was asked for: a page loaded before a write and stored
\* after its invalidation is stored under a version nobody asks for any more.
ListsFresh ==
    faults = 0 => \A c \in Readers : Key(c)[1] = "list" => Fresh(c)

\* Who works under the miss lock either holds it or has outlasted it: no other
\* request takes away a lock that has not lapsed.
OwnersHoldLock ==
    \A c \in Readers :
        call[c].owner /\ call[c].phase \in {"checking", "loading", "storing", "releasing"}
          => lock[Key(c)] = {c} \/ c \in lapsed

\* Their strengthening.  Only who took the miss lock works as its owner.
OwnersWork ==
    \A c \in Readers : call[c].owner
      => call[c].phase \in {"checking", "loading", "storing", "releasing", "done"}

\* Every invalidation and every acknowledgement follows a commit of its own.
Invalidating == {w \in Writers : write[w] # {}}
AcksFollowCommits ==
    /\ version + Cardinality(Invalidating) <= db
    /\ acked <= db /\ \A w \in Writers : \A v \in write[w] : v <= db
    /\ \A c \in Readers : call[c].floor <= db

AsksList(c) == ~At(c, "idle") /\ Key(c)[1] = "list"

\* While Redis does not fail, nothing is asked for or stored under a version to
\* come, what is stored or loaded under the present one shows every write
\* acknowledged, and under an older one every write acknowledged when it was
\* asked for.
VersionsTell ==
    faults = 0 =>
        /\ \A k \in Keys : k[1] = "list" /\ k[2] > version => cached[k] = {}
        /\ \A v \in cached[<<"list", version>>] : v >= acked
        /\ \A c \in Readers : AsksList(c) =>
             /\ Key(c)[2] <= version
             /\ Key(c)[2] = version => \A v \in call[c].value : v >= acked
             /\ \A v \in cached[Key(c)] : v >= call[c].floor
             /\ \A d \in Readers : AsksList(d) /\ Key(d) = Key(c)
                  => \A v \in call[d].value : v >= call[c].floor

\* The inductive invariant behind the three.
CacheInductive == TypeOK /\ OwnersWork /\ OwnersHoldLock /\ AcksFollowCommits /\ VersionsTell

\* Every read is answered, whatever becomes of the owner of the lock.
ReadsAnswered == \A c \in Readers : ~At(c, "idle") ~> At(c, "idle")

\* What the tests say of the detail: once a write is acknowledged, the detail
\* shows it.  A reader that loaded the row before the write and stores it after
\* the invalidation breaks it.
DetailsFresh ==
    faults = 0 => \A c \in Readers : Key(c)[1] = "detail" => Fresh(c)
=============================================================================

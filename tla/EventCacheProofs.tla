-------------------------- MODULE EventCacheProofs --------------------------
(***************************************************************************)
(* Proofs about module EventCache, for any readers, writers, polls and     *)
(* bounds: who works under a miss lock holds it or has outlasted it, and   *)
(* no list page older than an acknowledged write is answered.              *)
(*                                                                         *)
(* ListsFresh is about the answer; VersionsTell carries it from the moment *)
(* a page is loaded, over its storing, to the readers that find it: pages  *)
(* of the present version show every write acknowledged so far, because    *)
(* each acknowledgement begins a version nobody has asked for.             *)
(***************************************************************************)
EXTENDS EventCache, FiniteSetTheorems, TLAPS

-----------------------------------------------------------------------------
(* Readers at work                                                          *)

\* The calls a read step makes, but for the value it takes along.
Work(c) ==
    \/ \E phase \in Phases : Go(c, phase) \/ Found(c, phase)
    \/ call' = [call EXCEPT ![c].phase = "checking", ![c].owner = TRUE]
    \/ call[c].polls < Polls /\ call' = [call EXCEPT ![c].polls = @ + 1]
    \/ \E phase \in Phases : call' = [call EXCEPT ![c].phase = phase, ![c].value = {db}]
    \/ call' = [call EXCEPT ![c] = NoCall]

LEMMA NoCallType == NoCall \in Call
BY CacheAssumption DEF NoCall, Call, Phases, Keys, Entries, Values

LEMMA WorkTypes ==
    ASSUME TypeOK, NEW c \in Readers, Work(c)
    PROVE  call' \in [Readers -> Call]
<1> USE CacheAssumption
<1>1. call \in [Readers -> Call] /\ call[c] \in Call /\ cached[Key(c)] \in Entries
  BY DEF TypeOK, Call, Key
<1>2. CASE \E phase \in Phases : Go(c, phase)
  BY <1>1, <1>2 DEF Go, Call
<1>3. CASE \E phase \in Phases : Found(c, phase)
  BY <1>1, <1>3 DEF Found, Call
<1>4. CASE call' = [call EXCEPT ![c].phase = "checking", ![c].owner = TRUE]
  BY <1>1, <1>4 DEF Call, Phases
<1>5. CASE call[c].polls < Polls /\ call' = [call EXCEPT ![c].polls = @ + 1]
  BY <1>1, <1>5 DEF Call
<1>6. CASE \E phase \in Phases : call' = [call EXCEPT ![c].phase = phase, ![c].value = {db}]
  <2>1. {db} \in Entries
    BY DEF TypeOK, Entries
  <2>2. QED
    BY <1>1, <1>6, <2>1 DEF Call
<1>7. CASE call' = [call EXCEPT ![c] = NoCall]
  BY <1>1, <1>7, NoCallType
<1>8. QED
  BY <1>2, <1>3, <1>4, <1>5, <1>6, <1>7 DEF Work

LEMMA StepsWork ==
    ASSUME TypeOK, NEW c \in Readers,
           ReadStep(c) \/ CallFails(c) \/ LockAnswerLost(c) \/ CutOff(c)
    PROVE  Work(c)
<1>1. call[c].polls \in 0..Polls /\ Polls \in Nat
  BY CacheAssumption DEF TypeOK, Call
<1>2. CASE Read(c) \/ Lock(c) \/ Recheck(c) \/ Load(c) \/ LoadFails(c) \/ Store(c) \/ Release(c)
  BY <1>2 DEF Read, Lock, Recheck, Load, LoadFails, Store, Release, Work, Phases
<1>3. CASE Poll(c)
  BY <1>1, <1>3 DEF Poll, Work, Phases
<1>4. CASE Answer(c) \/ CutOff(c)
  BY <1>4 DEF Answer, CutOff, Work
<1>5. CASE CallFails(c) \/ LockAnswerLost(c)
  BY <1>5 DEF CallFails, LockAnswerLost, Work, Phases
<1>6. QED
  BY <1>2, <1>3, <1>4, <1>5 DEF ReadStep

\* The request that comes in.
LEMMA AskTypes ==
    ASSUME TypeOK, NEW c \in Readers, NEW k \in Keys, Ask(c, k)
    PROVE  /\ call' \in [Readers -> Call]
           /\ call'[c].phase = "reading" /\ call'[c].key = k /\ ~call'[c].owner
           /\ call'[c].value = {} /\ call'[c].floor = acked
           /\ \A d \in Readers \ {c} : call'[d] = call[d]
<1> DEFINE new == [NoCall EXCEPT !.phase = "reading", !.key = k, !.floor = acked]
<1>1. call' = [call EXCEPT ![c] = new]
  BY DEF Ask
<1>2. new \in Call
  <2>1. NoCall \in Call /\ acked \in Values
    BY NoCallType DEF TypeOK
  <2>2. QED
    BY <2>1 DEF Call, Phases
<1>3. /\ new.phase = "reading" /\ new.key = k /\ ~new.owner /\ new.value = {} /\ new.floor = acked
  BY DEF NoCall
<1> HIDE DEF new
<1>4. QED
  BY <1>1, <1>2, <1>3 DEF TypeOK

-----------------------------------------------------------------------------
(* Types                                                                    *)

\* A writer that has committed leaves room for one more invalidation.
LEMMA RoomForVersion ==
    ASSUME TypeOK, AcksFollowCommits, NEW w \in Writers, write[w] # {}
    PROVE  /\ version + 1 \in Values
           /\ IsFiniteSet(Invalidating) /\ Cardinality(Invalidating) \in Nat
           /\ Cardinality(Invalidating \ {w}) = Cardinality(Invalidating) - 1
<1>1. Invalidating \subseteq Writers /\ w \in Invalidating
  BY DEF Invalidating
<1>2. IsFiniteSet(Invalidating)
  BY <1>1, CacheAssumption, FS_Subset
<1>3. Cardinality(Invalidating) \in Nat /\ Cardinality(Invalidating) # 0
  BY <1>1, <1>2, FS_CardinalityType, FS_EmptySet
<1>4. Cardinality(Invalidating \ {w}) = Cardinality(Invalidating) - 1
  BY <1>1, <1>2, FS_RemoveElement
<1>5. version + 1 \in Values
  BY <1>3, CacheAssumption DEF AcksFollowCommits, TypeOK, Values
<1>6. QED
  BY <1>2, <1>3, <1>4, <1>5

LEMMA CacheTypeStep == TypeOK /\ AcksFollowCommits /\ [Next]_vars => TypeOK'
<1> SUFFICES ASSUME TypeOK, AcksFollowCommits, [Next]_vars PROVE TypeOK'
  OBVIOUS
<1> USE CacheAssumption
<1>0. <<"detail", 0>> \in Keys /\ {} \in Entries
  BY DEF Keys, Entries
<1>1. ASSUME NEW c \in Readers, ReadStep(c) \/ CallFails(c) \/ LockAnswerLost(c) \/ CutOff(c)
      PROVE  TypeOK'
  <2>1. call' \in [Readers -> Call] /\ call \in [Readers -> Call] /\ Key(c) \in Keys
        /\ call[c].value \in Entries
    BY <1>1, StepsWork, WorkTypes DEF TypeOK, Call, Key
  <2>2. /\ db' = db /\ acked' = acked /\ version' = version /\ write' = write
        /\ faults' \in 0..MaxFaults
    BY <1>1 DEF ReadStep, CallFails, LockAnswerLost, CutOff, Fault, Read, Lock, Poll, Recheck, Load,
                LoadFails, Store, Release, Answer, TypeOK
  <2>3. cached' \in [Keys -> Entries]
    BY <1>1, <2>1 DEF ReadStep, CallFails, LockAnswerLost, CutOff, Read, Lock, Poll, Recheck, Load,
                LoadFails, Store, Release, Answer, TypeOK
  <2>4. lapsed' \subseteq Readers
    BY <1>1 DEF ReadStep, CallFails, LockAnswerLost, CutOff, Read, Lock, Poll, Recheck, Load,
                LoadFails, Store, Release, Answer, TypeOK
  <2>5. lock' \in [Keys -> SUBSET Readers]
    BY <1>1, <2>1 DEF ReadStep, CallFails, LockAnswerLost, CutOff, Read, Lock, Poll, Recheck, Load,
                LoadFails, Store, Release, Frees, Answer, TypeOK
  <2>6. QED
    BY <2>1, <2>2, <2>3, <2>4, <2>5 DEF TypeOK
<1>2. ASSUME NEW c \in Readers, NEW k \in Keys, Ask(c, k) PROVE TypeOK'
  <2>1. call' \in [Readers -> Call]
    BY <1>2, AskTypes
  <2>2. QED
    BY <1>2, <2>1 DEF Ask, Fault, TypeOK
<1>3. ASSUME NEW w \in Writers, CommitWrite(w) PROVE TypeOK'
  BY <1>3 DEF CommitWrite, TypeOK, Values
<1>4. ASSUME NEW w \in Writers, Acknowledge(w) PROVE TypeOK'
  <2>1. PICK v \in write[w] : acked' = Latest(v)
    BY <1>4 DEF Acknowledge
  <2>2. version + 1 \in Values
    BY <2>1, RoomForVersion
  <2>3. acked' \in Values
    BY <2>1 DEF Latest, TypeOK
  <2>4. QED
    BY <1>0, <1>4, <2>2, <2>3 DEF Acknowledge, Invalidate, TypeOK, Values
<1>5. ASSUME NEW w \in Writers, AcknowledgeStale(w) PROVE TypeOK'
  <2>1. PICK v \in write[w] : acked' = Latest(v)
    BY <1>5 DEF AcknowledgeStale
  <2>2. acked' \in Values
    BY <2>1 DEF Latest, TypeOK
  <2>3. QED
    BY <1>5, <2>2 DEF AcknowledgeStale, Fault, TypeOK
<1>6. ASSUME NEW k \in Keys, Lapse(k) \/ Expire(k) PROVE TypeOK'
  BY <1>0, <1>6 DEF Lapse, Expire, TypeOK
<1>7. CASE Restart
  BY <1>0, <1>7 DEF Restart, Fault, TypeOK
<1>8. CASE UNCHANGED vars
  BY <1>8 DEF vars, TypeOK
<1>9. QED
  BY <1>1, <1>2, <1>3, <1>4, <1>5, <1>6, <1>7, <1>8 DEF Next

-----------------------------------------------------------------------------
(* The miss lock                                                            *)

LEMMA OwnersWorkStep == TypeOK /\ OwnersWork /\ [Next]_vars => OwnersWork'
<1> SUFFICES ASSUME TypeOK, OwnersWork, [Next]_vars, NEW d \in Readers, call'[d].owner
             PROVE  call'[d].phase \in {"checking", "loading", "storing", "releasing", "done"}
  BY DEF OwnersWork
<1>0. /\ call \in [Readers -> Call]
      /\ call[d].owner => call[d].phase \in {"checking", "loading", "storing", "releasing", "done"}
  BY DEF TypeOK, OwnersWork
<1>1. CASE call'[d] = call[d]
  BY <1>0, <1>1
<1>2. ASSUME NEW c \in Readers, ReadStep(c)
      PROVE  call'[d].phase \in {"checking", "loading", "storing", "releasing", "done"}
  BY <1>0, <1>2 DEF ReadStep, Read, Lock, Poll, Recheck, Load, LoadFails, Store, Release, Answer,
     Go, Found, At, Call, NoCall
<1>3. ASSUME NEW c \in Readers, CallFails(c) \/ LockAnswerLost(c) \/ CutOff(c)
      PROVE  call'[d].phase \in {"checking", "loading", "storing", "releasing", "done"}
  BY <1>0, <1>3 DEF CallFails, LockAnswerLost, CutOff, Go, At, Call, NoCall
<1>4. ASSUME NEW c \in Readers, NEW k \in Keys, Ask(c, k)
      PROVE  call'[d].phase \in {"checking", "loading", "storing", "releasing", "done"}
  BY <1>0, <1>4, AskTypes
<1>5. QED
  BY <1>1, <1>2, <1>3, <1>4
  DEF Next, CommitWrite, Acknowledge, AcknowledgeStale, Lapse, Expire, Restart, vars

\* c works under the miss lock of its key.
Owning(c) == call[c].owner /\ call[c].phase \in {"checking", "loading", "storing", "releasing"}

LEMMA OwnersHoldStep ==
    TypeOK /\ OwnersWork /\ OwnersHoldLock /\ [Next]_vars => OwnersHoldLock'
<1> SUFFICES ASSUME TypeOK, OwnersWork, OwnersHoldLock, [Next]_vars, NEW d \in Readers, Owning(d)'
             PROVE  lock'[Key(d)'] = {d} \/ d \in lapsed'
  BY DEF OwnersHoldLock, Owning
<1>0. /\ call \in [Readers -> Call] /\ lock \in [Keys -> SUBSET Readers] /\ Key(d) \in Keys
      /\ Owning(d) => lock[Key(d)] = {d} \/ d \in lapsed
  BY DEF TypeOK, OwnersHoldLock, Owning, Call, Key
<1>1. ASSUME Owning(d), Key(d)' = Key(d), lock'[Key(d)] = lock[Key(d)] \/ lock[Key(d)] # {d},
             lapsed \subseteq lapsed' \cup (Readers \ {d})
      PROVE  lock'[Key(d)'] = {d} \/ d \in lapsed'
  BY <1>0, <1>1
<1>2. ASSUME NEW c \in Readers, Lock(c) PROVE lock'[Key(d)'] = {d} \/ d \in lapsed'
  <2>1. CASE c = d
    BY <1>0, <1>2, <2>1 DEF Lock, Go, Key, Owning, At, OwnersWork, Call
  <2>2. CASE c # d
    <3>1. Owning(d) /\ Key(d)' = Key(d) /\ lapsed' = lapsed
      BY <1>0, <1>2, <2>2 DEF Lock, Go, Key, Owning
    <3>2. lock'[Key(d)] = lock[Key(d)] \/ lock[Key(d)] # {d}
      BY <1>0, <1>2 DEF Lock
    <3>3. QED
      BY <1>1, <3>1, <3>2
  <2>3. QED
    BY <2>1, <2>2
<1>3. ASSUME NEW c \in Readers, Release(c) PROVE lock'[Key(d)'] = {d} \/ d \in lapsed'
  <2>1. c # d
    BY <1>0, <1>3 DEF Release, Go, Owning, Call
  <2>2. Owning(d) /\ Key(d)' = Key(d) /\ lapsed' = lapsed \ {c}
    BY <1>0, <1>3, <2>1 DEF Release, Go, Key, Owning
  <2>3. lock'[Key(d)] = lock[Key(d)] \/ lock[Key(d)] # {d} \/ lock'[Key(d)] = {d}
    BY <1>0, <1>3, <2>1 DEF Release, Frees
  <2>4. QED
    BY <1>0, <1>1, <2>1, <2>2, <2>3
<1>4. ASSUME NEW c \in Readers, LockAnswerLost(c) PROVE lock'[Key(d)'] = {d} \/ d \in lapsed'
  <2>1. c # d
    BY <1>0, <1>4 DEF LockAnswerLost, Go, Owning, Call
  <2>2. Owning(d) /\ Key(d)' = Key(d) /\ lapsed' = lapsed
    BY <1>0, <1>4, <2>1 DEF LockAnswerLost, Go, Key, Owning
  <2>3. lock'[Key(d)] = lock[Key(d)] \/ lock[Key(d)] # {d}
    BY <1>0, <1>4 DEF LockAnswerLost
  <2>4. QED
    BY <1>1, <2>2, <2>3
<1>5. ASSUME NEW c \in Readers,
             Read(c) \/ Poll(c) \/ Recheck(c) \/ Load(c) \/ LoadFails(c) \/ Store(c) \/ Answer(c)
      PROVE  lock'[Key(d)'] = {d} \/ d \in lapsed'
  <2>1. Owning(d) /\ Key(d)' = Key(d)
    BY <1>0, <1>5 DEF Read, Poll, Recheck, Load, LoadFails, Store, Answer, Go, Found, Key, At,
       Owning, OwnersWork, Call, NoCall
  <2>2. lock' = lock /\ lapsed' = lapsed
    BY <1>5 DEF Read, Poll, Recheck, Load, LoadFails, Store, Answer
  <2>3. QED
    BY <1>1, <2>1, <2>2
<1>6. ASSUME NEW c \in Readers, CallFails(c) \/ CutOff(c)
      PROVE  lock'[Key(d)'] = {d} \/ d \in lapsed'
  <2>1. Owning(d) /\ Key(d)' = Key(d)
    <3>1. CASE CutOff(c)
      BY <1>0, <3>1 DEF CutOff, Key, Owning, NoCall
    <3>2. CASE CallFails(c)
      <4>1. \/ \E phase \in Phases : Go(c, phase)
            \/ call' = [call EXCEPT ![c].polls = @ + 1]
        BY <3>2 DEF CallFails, Phases
      <4>2. /\ call'[d].owner = call[d].owner /\ call'[d].key = call[d].key
            /\ c # d => call'[d].phase = call[d].phase
        BY <1>0, <4>1 DEF Go, Call
      <4>3. CASE c = d
        BY <1>0, <3>2, <4>2, <4>3 DEF CallFails, Go, At, Owning, OwnersWork, Key, Call
      <4>4. CASE c # d
        BY <1>0, <4>2, <4>4 DEF Owning, Key
      <4>5. QED
        BY <4>3, <4>4
    <3>3. QED
      BY <1>6, <3>1, <3>2
  <2>2. lock' = lock
    BY <1>6 DEF CallFails, CutOff
  <2>3. d \in lapsed => d \in lapsed'
    BY <1>0, <1>6 DEF CallFails, CutOff, Go, At, Owning, Call, NoCall
  <2>4. QED
    BY <1>0, <2>1, <2>2, <2>3
<1>7. ASSUME NEW c \in Readers, NEW k \in Keys, Ask(c, k)
      PROVE  lock'[Key(d)'] = {d} \/ d \in lapsed'
  <2>1. c # d
    BY <1>7, AskTypes DEF Owning
  <2>2. call'[d] = call[d] /\ lock' = lock /\ lapsed' = lapsed
    BY <1>7, <2>1, AskTypes DEF Ask
  <2>3. QED
    BY <1>0, <2>2 DEF Owning, Key
<1>8. ASSUME NEW k \in Keys, Lapse(k) PROVE lock'[Key(d)'] = {d} \/ d \in lapsed'
  BY <1>0, <1>8 DEF Lapse, Owning, Key
<1>9. CASE Restart
  BY <1>0, <1>9 DEF Restart, Owning, Key
<1>10. CASE UNCHANGED <<call, lock, lapsed>>
  BY <1>0, <1>10 DEF Owning, Key
<1>11. QED
  BY <1>2, <1>3, <1>4, <1>5, <1>6, <1>7, <1>8, <1>9, <1>10
  DEF Next, ReadStep, CommitWrite, Acknowledge, AcknowledgeStale, Expire, vars

-----------------------------------------------------------------------------
(* Commits, invalidations and what was read                                 *)

\* A reader's step leaves the request it serves as it is, or ends it.
LEMMA SameRequest ==
    ASSUME TypeOK, NEW c \in Readers,
           ReadStep(c) \/ CallFails(c) \/ LockAnswerLost(c) \/ CutOff(c)
    PROVE  /\ \A d \in Readers \ {c} : call'[d] = call[d]
           /\ \/ call'[c] = NoCall
              \/ /\ call'[c].key = call[c].key /\ call'[c].floor = call[c].floor
                 /\ call[c].phase # "idle"
                 /\ \/ call'[c].value = call[c].value
                    \/ call'[c].value = cached[Key(c)]
                    \/ call'[c].value = {db}
           /\ UNCHANGED <<db, acked, version, write>>
           /\ faults' = faults \/ Fault
           /\ cached' = cached \/ (call[c].phase # "idle"
                                     /\ cached' = [cached EXCEPT ![Key(c)] = call[c].value])
<1>1. call \in [Readers -> Call]
  BY DEF TypeOK
<1>2. call[c].phase # "idle"
  BY DEF ReadStep, CallFails, LockAnswerLost, CutOff, Read, Lock, Poll, Recheck, Load, LoadFails,
         Store, Release, Answer, At
<1>3. Work(c)
  BY StepsWork
<1>4. \A d \in Readers \ {c} : call'[d] = call[d]
  BY <1>1, <1>3 DEF Work, Go, Found
<1>5. CASE call' = [call EXCEPT ![c] = NoCall]
  BY <1>1, <1>2, <1>4, <1>5 DEF ReadStep, CallFails, LockAnswerLost, CutOff, Read, Lock, Poll, Recheck, Load,
     LoadFails, Store, Release, Answer
<1>6. CASE call' # [call EXCEPT ![c] = NoCall]
  <2>1. /\ call'[c].key = call[c].key /\ call'[c].floor = call[c].floor
        /\ \/ call'[c].value = call[c].value
           \/ call'[c].value = cached[Key(c)]
           \/ call'[c].value = {db}
    <3>1. call[c] \in Call
      BY <1>1
    <3>2. CASE \E phase \in Phases : Go(c, phase)
      BY <1>1, <3>1, <3>2 DEF Go, Call
    <3>3. CASE \E phase \in Phases : Found(c, phase)
      BY <1>1, <3>1, <3>3 DEF Found, Call
    <3>4. CASE call' = [call EXCEPT ![c].phase = "checking", ![c].owner = TRUE]
      BY <1>1, <3>1, <3>4 DEF Call
    <3>5. CASE call' = [call EXCEPT ![c].polls = @ + 1]
      BY <1>1, <3>1, <3>5 DEF Call
    <3>6. CASE \E phase \in Phases : call' = [call EXCEPT ![c].phase = phase, ![c].value = {db}]
      BY <1>1, <3>1, <3>6 DEF Call
    <3>7. QED
      BY <1>3, <1>6, <3>2, <3>3, <3>4, <3>5, <3>6 DEF Work
  <2>2. /\ UNCHANGED <<db, acked, version, write>>
        /\ faults' = faults \/ Fault
        /\ cached' = cached \/ cached' = [cached EXCEPT ![Key(c)] = call[c].value]
    BY DEF ReadStep, CallFails, LockAnswerLost, CutOff, Read, Lock, Poll, Recheck, Load,
       LoadFails, Store, Release, Answer
  <2>3. QED
    BY <1>2, <1>4, <2>1, <2>2
<1>7. QED
  BY <1>5, <1>6

LEMMA AcksStep == TypeOK /\ AcksFollowCommits /\ [Next]_vars => AcksFollowCommits'
<1> SUFFICES ASSUME TypeOK, AcksFollowCommits, [Next]_vars PROVE AcksFollowCommits'
  OBVIOUS
<1> DEFINE n == Cardinality(Invalidating)
<1>0. /\ version \in Nat /\ db \in Nat /\ acked \in Nat /\ n \in Nat /\ IsFiniteSet(Invalidating)
      /\ \A w \in Writers : write[w] \subseteq Nat
      /\ \A c \in Readers : call[c].floor \in Nat
      /\ write \in [Writers -> SUBSET Values] /\ call \in [Readers -> Call]
  <2>1. IsFiniteSet(Invalidating)
    BY CacheAssumption, FS_Subset DEF Invalidating
  <2>2. n \in Nat
    BY <2>1, FS_CardinalityType
  <2>3. QED
    BY <2>1, <2>2, CacheAssumption DEF TypeOK, Values, Call
<1>1. /\ version + n <= db /\ acked <= db /\ \A w \in Writers : \A v \in write[w] : v <= db
      /\ \A c \in Readers : call[c].floor <= db
  BY DEF AcksFollowCommits
<1> HIDE DEF n
<1>2. ASSUME UNCHANGED <<db, acked, write>>, version' = version \/ version' = 0,
             \A c \in Readers : call'[c].floor <= db
      PROVE  AcksFollowCommits'
  <2>1. Invalidating' = Invalidating
    BY <1>2 DEF Invalidating
  <2>2. version' + n <= db
    BY <1>0, <1>1, <1>2
  <2>3. QED
    BY <1>1, <1>2, <2>1, <2>2 DEF AcksFollowCommits, n
<1>3. ASSUME NEW c \in Readers, ReadStep(c) \/ CallFails(c) \/ LockAnswerLost(c) \/ CutOff(c)
      PROVE  AcksFollowCommits'
  <2>1. \A d \in Readers : call'[d].floor = call[d].floor \/ call'[d].floor = 0
    BY <1>3, SameRequest DEF NoCall
  <2>2. UNCHANGED <<db, acked, version, write>>
    BY <1>3, SameRequest
  <2>3. QED
    BY <1>0, <1>1, <1>2, <2>1, <2>2
<1>4. ASSUME NEW c \in Readers, NEW k \in Keys, Ask(c, k) PROVE AcksFollowCommits'
  <2>1. \A d \in Readers : call'[d].floor <= db
    BY <1>1, <1>4, AskTypes
  <2>2. QED
    BY <1>2, <1>4, <2>1 DEF Ask
<1>5. ASSUME NEW w \in Writers, CommitWrite(w) PROVE AcksFollowCommits'
  <2>1. Invalidating' = Invalidating \cup {w} /\ w \notin Invalidating
    BY <1>0, <1>5 DEF CommitWrite, Invalidating
  <2>2. Cardinality(Invalidating') = n + 1
    BY <1>0, <2>1, FS_AddElement DEF n
  <2>3. /\ db' = db + 1 /\ UNCHANGED <<acked, version, call>>
        /\ \A x \in Writers : write'[x] = write[x] \/ write'[x] = {db + 1}
    BY <1>0, <1>5 DEF CommitWrite
  <2>4. \A x \in Writers : \A v \in write'[x] : v <= db'
    BY <1>0, <1>1, <2>3
  <2>5. \A c \in Readers : call'[c].floor <= db'
    BY <1>0, <1>1, <2>3
  <2>6. version' + (n + 1) <= db' /\ acked' <= db'
    BY <1>0, <1>1, <2>3
  <2>7. QED
    BY <2>2, <2>4, <2>5, <2>6 DEF AcksFollowCommits
<1>6. ASSUME NEW w \in Writers, Acknowledge(w) \/ AcknowledgeStale(w) PROVE AcksFollowCommits'
  <2>1. PICK v \in write[w] : acked' = Latest(v)
    BY <1>6 DEF Acknowledge, AcknowledgeStale
  <2>2. acked' <= db
    BY <1>1, <2>1 DEF Latest
  <2>3. Invalidating' = Invalidating \ {w} /\ Cardinality(Invalidating \ {w}) = n - 1
    <3>1. Invalidating' = Invalidating \ {w}
      BY <1>0, <1>6 DEF Acknowledge, AcknowledgeStale, Invalidating
    <3>2. QED
      BY <2>1, <3>1, RoomForVersion DEF n
  <2>4. db' = db /\ call' = call /\ (version' = version + 1 \/ version' = version)
    BY <1>6 DEF Acknowledge, AcknowledgeStale, Invalidate
  <2>5. version' + (n - 1) <= db
    BY <1>0, <1>1, <2>4
  <2>6. \A x \in Writers : write'[x] \subseteq write[x]
    BY <1>0, <1>6 DEF Acknowledge, AcknowledgeStale
  <2>7. QED
    BY <1>1, <2>2, <2>3, <2>4, <2>5, <2>6 DEF AcksFollowCommits
<1>7. ASSUME NEW k \in Keys, Lapse(k) \/ Expire(k) PROVE AcksFollowCommits'
  BY <1>1, <1>2, <1>7 DEF Lapse, Expire
<1>8. CASE Restart
  BY <1>1, <1>2, <1>8 DEF Restart
<1>9. CASE UNCHANGED vars
  BY <1>1, <1>2, <1>9 DEF vars
<1>10. QED
  BY <1>3, <1>4, <1>5, <1>6, <1>7, <1>8, <1>9 DEF Next

-----------------------------------------------------------------------------
(* What the list versions tell                                              *)

\* What VersionsTell says of one request, and of one request about another.
Current(c) == /\ Key(c)[2] <= version
              /\ Key(c)[2] = version => \A v \in call[c].value : v >= acked
              /\ \A v \in cached[Key(c)] : v >= call[c].floor
Agrees(d, c) == Key(d) = Key(c) => \A v \in call[d].value : v >= call[c].floor

LEMMA VersionsParts ==
    VersionsTell <=>
      (faults = 0 =>
         /\ \A k \in Keys : k[1] = "list" /\ k[2] > version => cached[k] = {}
         /\ \A v \in cached[<<"list", version>>] : v >= acked
         /\ \A c \in Readers : AsksList(c) => Current(c)
         /\ \A c, d \in Readers : AsksList(c) /\ AsksList(d) => Agrees(d, c))
BY Zenon DEF VersionsTell, Current, Agrees

LEMMA VersionsStep == TypeOK /\ AcksFollowCommits /\ VersionsTell /\ [Next]_vars => VersionsTell'
<1> SUFFICES ASSUME TypeOK, AcksFollowCommits, VersionsTell, [Next]_vars, faults' = 0
             PROVE  /\ \A k \in Keys : k[1] = "list" /\ k[2] > version' => cached'[k] = {}
                    /\ \A v \in cached'[<<"list", version'>>] : v >= acked'
                    /\ \A c \in Readers : AsksList(c)' => Current(c)'
                    /\ \A c, d \in Readers : AsksList(c)' /\ AsksList(d)' => Agrees(d, c)'
  BY DEF VersionsTell, Current, Agrees, AsksList, At, Key
<1> DEFINE here == <<"list", version>>
<1>0. /\ version \in Nat /\ version \in Values /\ db \in Nat /\ acked \in Nat /\ faults \in Nat
      /\ here \in Keys /\ cached \in [Keys -> Entries]
      /\ call \in [Readers -> Call] /\ \A c \in Readers : Key(c) \in Keys /\ call[c].floor \in Nat
  BY CacheAssumption DEF TypeOK, Values, Keys, Call, Key
<1>1. ~Fault
  BY <1>0 DEF Fault
<1>2. faults = 0
  BY <1>0, <1>1
  DEF Next, ReadStep, CallFails, LockAnswerLost, CutOff, Read, Lock, Poll, Recheck, Load, LoadFails,
      Store, Release, Answer, Ask, CommitWrite, Acknowledge, AcknowledgeStale, Lapse, Expire, Restart, vars
<1>3. /\ \A k \in Keys : k[1] = "list" /\ k[2] > version => cached[k] = {}
      /\ \A v \in cached[here] : v >= acked
      /\ \A c \in Readers : AsksList(c) => Current(c)
      /\ \A c, d \in Readers : AsksList(c) /\ AsksList(d) => Agrees(d, c)
  BY <1>2, VersionsParts
<1>4. acked <= db /\ \A c \in Readers : call[c].floor <= db
  BY DEF AcksFollowCommits
<1> DEFINE Told == /\ \A k \in Keys : k[1] = "list" /\ k[2] > version' => cached'[k] = {}
                   /\ \A v \in cached'[<<"list", version'>>] : v >= acked'
                   /\ \A c \in Readers : AsksList(c)' => Current(c)'
                   /\ \A c, d \in Readers : AsksList(c)' /\ AsksList(d)' => Agrees(d, c)'
<1>5. ASSUME UNCHANGED <<version, acked, call>>, \A k \in Keys : cached'[k] \subseteq cached[k]
      PROVE  Told
  <2>1. \A c \in Readers : Key(c)' = Key(c) /\ AsksList(c)' = AsksList(c)
    BY <1>5 DEF Key, AsksList, At
  <2>2. \A c \in Readers : AsksList(c)' => Current(c)'
    BY <1>0, <1>3, <1>5, <2>1 DEF Current
  <2>3. \A c, d \in Readers : AsksList(c)' /\ AsksList(d)' => Agrees(d, c)'
    BY <1>3, <1>5, <2>1 DEF Agrees
  <2>4. QED
    BY <1>0, <1>3, <1>5, <2>2, <2>3
<1>6. ASSUME NEW c \in Readers, ReadStep(c) PROVE Told
  <2>1. /\ \A d \in Readers \ {c} : call'[d] = call[d]
        /\ \/ call'[c] = NoCall
           \/ /\ call'[c].key = call[c].key /\ call'[c].floor = call[c].floor
              /\ call[c].phase # "idle"
              /\ \/ call'[c].value = call[c].value
                 \/ call'[c].value = cached[Key(c)]
                 \/ call'[c].value = {db}
        /\ UNCHANGED <<db, acked, version>>
        /\ cached' = cached \/ (call[c].phase # "idle"
                                  /\ cached' = [cached EXCEPT ![Key(c)] = call[c].value])
    BY <1>6, SameRequest
  <2>2. \A d \in Readers : AsksList(d)' => AsksList(d) /\ Key(d)' = Key(d) /\ call'[d].floor = call[d].floor
    BY <2>1 DEF AsksList, At, Key, NoCall
  <2>3. \A d \in Readers : AsksList(d)' =>
          \/ call'[d].value = call[d].value
          \/ call'[d].value = cached[Key(d)]
          \/ call'[d].value = {db}
    BY <2>1 DEF AsksList, At, NoCall
  <2>4. \A k \in Keys : cached'[k] = cached[k] \/ (k = Key(c) /\ call[c].phase # "idle" /\ cached'[k] = call[c].value)
    BY <1>0, <2>1
  <2>5. ASSUME NEW k \in Keys, k[1] = "list", k[2] > version PROVE cached'[k] = {}
    <3>1. k # Key(c) \/ ~AsksList(c)
      BY <1>0, <1>3, <2>5 DEF Current, Keys
    <3>2. QED
      BY <1>3, <2>4, <2>5, <3>1 DEF AsksList, At
  <2>6. ASSUME NEW v \in cached'[here] PROVE v >= acked
    <3>1. CASE v \in cached[here]
      BY <1>3, <3>1
    <3>2. CASE here = Key(c) /\ call[c].phase # "idle" /\ v \in call[c].value
      BY <1>3, <3>2 DEF AsksList, At, Current
    <3>3. QED
      BY <1>0, <2>4, <2>6, <3>1, <3>2
  <2>7. ASSUME NEW d \in Readers, AsksList(d)' PROVE Current(d)'
    <3>1. AsksList(d) /\ Key(d)' = Key(d) /\ call'[d].floor = call[d].floor /\ Current(d)
      BY <1>3, <2>2, <2>7
    <3>2. ASSUME Key(d)[2] = version, NEW v \in call'[d].value PROVE v >= acked
      <4>1. Key(d) = here
        BY <1>0, <3>1, <3>2 DEF AsksList, Keys
      <4>2. QED
        BY <1>3, <1>4, <1>0, <2>3, <2>7, <3>1, <3>2, <4>1 DEF Current
    <3>3. ASSUME NEW v \in cached'[Key(d)] PROVE v >= call[d].floor
      <4>1. CASE v \in cached[Key(d)]
        BY <3>1, <4>1 DEF Current
      <4>2. CASE Key(d) = Key(c) /\ call[c].phase # "idle" /\ v \in call[c].value
        <5>1. AsksList(c)
          BY <3>1, <4>2 DEF AsksList, At
        <5>2. Agrees(c, d)
          BY <1>3, <3>1, <5>1
        <5>3. QED
          BY <4>2, <5>2 DEF Agrees
      <4>3. QED
        BY <1>0, <2>4, <3>3, <4>1, <4>2
    <3>4. QED
      BY <2>1, <3>1, <3>2, <3>3 DEF Current
  <2>8. ASSUME NEW e \in Readers, NEW d \in Readers, AsksList(e)', AsksList(d)' PROVE Agrees(d, e)'
    <3>1. /\ AsksList(d) /\ AsksList(e) /\ Key(d)' = Key(d) /\ Key(e)' = Key(e)
          /\ call'[e].floor = call[e].floor /\ Current(e) /\ Agrees(d, e)
      BY <1>3, <2>2, <2>8
    <3>2. ASSUME Key(d) = Key(e), NEW v \in call'[d].value PROVE v >= call[e].floor
      BY <1>0, <1>4, <2>3, <2>8, <3>1, <3>2 DEF Agrees, Current
    <3>3. QED
      BY <3>1, <3>2 DEF Agrees
  <2>9. QED
    BY <2>1, <2>5, <2>6, <2>7, <2>8
<1>7. ASSUME NEW c \in Readers, NEW k \in Keys, Ask(c, k) PROVE Told
  <2>1. /\ k \in {<<"detail", 0>>, here} /\ UNCHANGED <<db, acked, cached, version>>
        /\ call'[c].key = k /\ call'[c].value = {} /\ call'[c].floor = acked
        /\ \A d \in Readers \ {c} : call'[d] = call[d]
    BY <1>1, <1>7, AskTypes DEF Ask
  <2>2. \A d \in Readers : AsksList(d)' =>
          \/ d = c /\ Key(d)' = here /\ call'[d].value = {} /\ call'[d].floor = acked
          \/ AsksList(d) /\ Key(d)' = Key(d) /\ call'[d].value = call[d].value
             /\ call'[d].floor = call[d].floor
    BY <2>1 DEF AsksList, At, Key
  <2>3. ASSUME NEW d \in Readers, AsksList(d)' PROVE Current(d)'
    <3>1. CASE d = c /\ Key(d)' = here /\ call'[d].value = {} /\ call'[d].floor = acked
      BY <1>0, <1>3, <2>1, <3>1 DEF Current
    <3>2. CASE AsksList(d) /\ Key(d)' = Key(d) /\ call'[d].value = call[d].value
               /\ call'[d].floor = call[d].floor
      BY <1>3, <2>1, <3>2 DEF Current
    <3>3. QED
      BY <2>2, <2>3, <3>1, <3>2
  <2>4. ASSUME NEW e \in Readers, NEW d \in Readers, AsksList(e)', AsksList(d)' PROVE Agrees(d, e)'
    <3>1. CASE call'[d].value = {}
      BY <3>1 DEF Agrees
    <3>2. CASE /\ AsksList(d) /\ Key(d)' = Key(d) /\ call'[d].value = call[d].value
               /\ e = c /\ Key(e)' = here /\ call'[e].floor = acked
      <4>1. Current(d)
        BY <1>3, <3>2
      <4>2. Key(d) = here => Key(d)[2] = version
        OBVIOUS
      <4>3. QED
        BY <3>2, <4>1, <4>2 DEF Agrees, Current
    <3>3. CASE /\ AsksList(d) /\ Key(d)' = Key(d) /\ call'[d].value = call[d].value
               /\ AsksList(e) /\ Key(e)' = Key(e) /\ call'[e].floor = call[e].floor
      BY <1>3, <3>3 DEF Agrees
    <3>4. QED
      BY <2>2, <2>4, <3>1, <3>2, <3>3
  <2>5. QED
    BY <1>3, <2>1, <2>3, <2>4
<1>8. ASSUME NEW w \in Writers, CommitWrite(w) PROVE Told
  BY <1>5, <1>8 DEF CommitWrite
<1>9. ASSUME NEW w \in Writers, Acknowledge(w) PROVE Told
  <2>1. PICK v \in write[w] : acked' = Latest(v)
    BY <1>9 DEF Acknowledge
  <2>2. /\ version' = version + 1 /\ call' = call /\ <<"list", version + 1>> \in Keys
        /\ cached' = [cached EXCEPT ![<<"detail", 0>>] = {}]
    BY <1>9, <2>1, RoomForVersion DEF Acknowledge, Invalidate, Keys, Values
  <2>3. \A k \in Keys : cached'[k] = cached[k] \/ cached'[k] = {}
    BY <1>0, <2>2
  <2>4. \A c \in Readers : Key(c)' = Key(c) /\ AsksList(c)' = AsksList(c)
    BY <2>2 DEF Key, AsksList, At
  <2>5. ASSUME NEW k \in Keys, k[1] = "list", k[2] > version' PROVE cached'[k] = {}
    <3>1. k[2] > version
      BY <1>0, <2>2, <2>5 DEF Keys
    <3>2. QED
      BY <1>3, <2>3, <2>5, <3>1
  <2>6. cached'[<<"list", version'>>] = {}
    BY <1>0, <1>3, <2>2, <2>3
  <2>7. ASSUME NEW c \in Readers, AsksList(c)' PROVE Current(c)'
    <3>1. Current(c) /\ Key(c)[2] \in Nat
      BY <1>0, <1>3, <2>4, <2>7, CacheAssumption DEF Keys
    <3>2. QED
      BY <1>0, <2>2, <2>3, <2>4, <3>1 DEF Current
  <2>8. \A c, d \in Readers : AsksList(c)' /\ AsksList(d)' => Agrees(d, c)'
    BY <1>3, <2>2, <2>4 DEF Agrees
  <2>9. QED
    BY <2>5, <2>6, <2>7, <2>8
<1>10. ASSUME NEW k \in Keys, Lapse(k) \/ Expire(k) PROVE Told
  BY <1>0, <1>5, <1>10 DEF Lapse, Expire
<1>11. CASE UNCHANGED vars
  BY <1>5, <1>11 DEF vars
<1>12. QED
  BY <1>1, <1>6, <1>7, <1>8, <1>9, <1>10, <1>11
  DEF Next, CallFails, LockAnswerLost, CutOff, AcknowledgeStale, Restart

-----------------------------------------------------------------------------
(* The theorems                                                             *)

\* Every reachable state keeps what the locks and the list versions mean.
THEOREM CacheInvariant == Spec => []CacheInductive
<1>1. Init => CacheInductive
  <2> SUFFICES ASSUME Init PROVE CacheInductive
    OBVIOUS
  <2>1. TypeOK
    BY NoCallType, CacheAssumption DEF Init, TypeOK, Values, Entries
  <2>2. OwnersWork /\ OwnersHoldLock
    BY DEF Init, OwnersWork, OwnersHoldLock, NoCall
  <2>3. AcksFollowCommits
    <3>1. Invalidating = {}
      BY DEF Init, Invalidating
    <3>2. QED
      BY <3>1, FS_EmptySet DEF Init, AcksFollowCommits, NoCall
  <2>4. <<"list", 0>> \in Keys
    BY CacheAssumption DEF Keys
  <2>5. VersionsTell
    BY <2>4 DEF Init, VersionsTell, AsksList, At, NoCall
  <2>6. QED
    BY <2>1, <2>2, <2>3, <2>5 DEF CacheInductive
<1>2. CacheInductive /\ [Next]_vars => CacheInductive'
  BY CacheTypeStep, OwnersWorkStep, OwnersHoldStep, AcksStep, VersionsStep DEF CacheInductive
<1>3. QED
  BY <1>1, <1>2, PTL DEF Spec

\* The variables of EventCache keep their types: no key ever holds two entries.
THEOREM CacheTypeCorrect == Spec => []TypeOK
<1>1. CacheInductive => TypeOK
  BY DEF CacheInductive
<1>2. QED
  BY CacheInvariant, <1>1, PTL

\* cacheAside and RELEASE_LOCK_SCRIPT: a request that works under the miss lock
\* holds it, unless it has lapsed; a late release takes nobody's lock away.
THEOREM OwnersKeepLock == Spec => []OwnersHoldLock
<1>1. CacheInductive => OwnersHoldLock
  BY DEF CacheInductive
<1>2. QED
  BY CacheInvariant, <1>1, PTL

\* eventCache.list, for any number of readers and writers: while Redis does not
\* fail, no page is answered that is older than a write acknowledged before it
\* was asked for.
THEOREM ListsStayFresh == Spec => []ListsFresh
<1>1. CacheInductive => ListsFresh
  <2> SUFFICES ASSUME CacheInductive, faults = 0, NEW c \in Readers, Key(c)[1] = "list", At(c, "done"),
                      NEW v \in call[c].value
               PROVE  v >= call[c].floor
    BY DEF ListsFresh, Fresh
  <2>1. AsksList(c)
    BY DEF AsksList, At
  <2>2. Agrees(c, c)
    BY <2>1, VersionsParts DEF CacheInductive
  <2>3. QED
    BY <2>2 DEF Agrees
<1>2. QED
  BY CacheInvariant, <1>1, PTL
=============================================================================

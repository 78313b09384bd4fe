-------------------------- MODULE FulfilmentProofs --------------------------
(***************************************************************************)
(* Proofs about module Fulfilment: the accounts of the confirmation jobs,  *)
(* and that no user gets more mails than grants and extra runs.            *)
(*                                                                         *)
(* Neither is inductive alone.  The accounts need that a job is one user's *)
(* (JobsOfOne); the bound on the mails needs to know of every mail whether *)
(* its run has settled the row, holds it and has returned, or was extra    *)
(* (MailsExplained), and then the accounts bound the first two by the      *)
(* grants.  A run changes one job, so each step is a matter of which of    *)
(* the three sets counted there that job leaves and enters (MailingAfter). *)
(***************************************************************************)
EXTENDS Fulfilment, BookingsProofs

-----------------------------------------------------------------------------
(* Counting jobs                                                            *)

LEMMA MailersCard ==
    ASSUME NEW S, S \subseteq Mailers
    PROVE  IsFiniteSet(S) /\ Cardinality(S) \in Nat
BY SubsetCard, MailAssumption

LEMMA ActiveCard ==
    ASSUME NEW u
    PROVE  /\ Active(u) \subseteq Mailers /\ Cardinality(Active(u)) \in Nat
           /\ Returned(u) \subseteq Mailers /\ Cardinality(Returned(u)) \in Nat
           /\ Repeating(u) \subseteq Mailers /\ Cardinality(Repeating(u)) \in Nat
           /\ Cardinality(Returned(u)) <= Cardinality(Active(u))
<1>1. /\ Active(u) \subseteq Mailers /\ Returned(u) \subseteq Active(u)
      /\ Repeating(u) \subseteq Mailers
  BY DEF Active, Returned, Repeating
<1>2. QED
  BY <1>1, MailersCard, SubsetCard

Tally(b) == IF b THEN 1 ELSE 0

\* A set of mailers that one of them may leave or enter.
LEMMA SwapCard ==
    ASSUME NEW S, S \subseteq Mailers, NEW m, NEW b \in BOOLEAN,
           NEW T, T = IF b THEN S \cup {m} ELSE S \ {m}
    PROVE  Cardinality(T) = Cardinality(S) - Tally(m \in S) + Tally(b)
<1>1. IsFiniteSet(S) /\ Cardinality(S) \in Nat
  BY MailersCard
<1>2. CASE b /\ m \in S
  <2>1. T = S
    BY <1>2
  <2>2. QED
    BY <1>1, <1>2, <2>1 DEF Tally
<1>3. CASE b /\ m \notin S
  BY <1>1, <1>3, FS_AddElement DEF Tally
<1>4. CASE ~b /\ m \in S
  <2>1. T = S \ {m}
    BY <1>4
  <2>2. Cardinality(S \ {m}) = Cardinality(S) - 1
    BY <1>1, <1>4, FS_RemoveElement
  <2>3. Tally(m \in S) = 1 /\ Tally(b) = 0
    BY <1>4 DEF Tally
  <2>4. QED
    BY <1>1, <2>1, <2>2, <2>3
<1>5. CASE ~b /\ m \notin S
  <2>1. T = S
    BY <1>5
  <2>2. QED
    BY <1>1, <1>5, <2>1 DEF Tally
<1>6. QED
  BY <1>2, <1>3, <1>4, <1>5

\* Which of the sets a job j of mailer m puts m in.
Held(j, u)  == u \in j.users /\ j.holds
Back(j, u)  == u \in j.users /\ j.holds /\ j.phase = "returned"
Again(j, u) == u \in j.users /\ ~j.holds /\ j.phase = "sending"

\* The counts after one job has changed.
LEMMA JobsAfter ==
    ASSUME NEW m \in Mailers, NEW j \in Job, job \in [Mailers -> Job],
           job' = [job EXCEPT ![m] = j], NEW u
    PROVE  /\ Cardinality(Active(u)') = Cardinality(Active(u)) - Tally(Held(job[m], u)) + Tally(Held(j, u))
           /\ Cardinality(Returned(u)') = Cardinality(Returned(u)) - Tally(Back(job[m], u)) + Tally(Back(j, u))
           /\ Cardinality(Repeating(u)') = Cardinality(Repeating(u)) - Tally(Again(job[m], u)) + Tally(Again(j, u))
<1>1. /\ Active(u)' = IF Held(j, u) THEN Active(u) \cup {m} ELSE Active(u) \ {m}
      /\ Returned(u)' = IF Back(j, u) THEN Returned(u) \cup {m} ELSE Returned(u) \ {m}
      /\ Repeating(u)' = IF Again(j, u) THEN Repeating(u) \cup {m} ELSE Repeating(u) \ {m}
  BY DEF Active, Returned, Repeating, Held, Back, Again
<1>2. /\ m \in Active(u) <=> Held(job[m], u)
      /\ m \in Returned(u) <=> Back(job[m], u)
      /\ m \in Repeating(u) <=> Again(job[m], u)
  BY DEF Active, Returned, Repeating, Held, Back, Again
<1>3. Held(j, u) \in BOOLEAN /\ Back(j, u) \in BOOLEAN /\ Again(j, u) \in BOOLEAN
  BY DEF Held, Back, Again, Job
<1>4. /\ Cardinality(Active(u)') = Cardinality(Active(u)) - Tally(m \in Active(u)) + Tally(Held(j, u))
      /\ Cardinality(Returned(u)') = Cardinality(Returned(u)) - Tally(m \in Returned(u)) + Tally(Back(j, u))
      /\ Cardinality(Repeating(u)') = Cardinality(Repeating(u)) - Tally(m \in Repeating(u)) + Tally(Again(j, u))
  BY <1>1, <1>3, ActiveCard, SwapCard
<1>5. QED
  BY <1>2, <1>4 DEF Tally

-----------------------------------------------------------------------------
(* The bookings below                                                       *)

\* Grants are not taken back.
LEMMA BookingsGrow ==
    ASSUME TypeOK, [Next]_vars
    PROVE  \A u \in Users : confirmations'[u] >= confirmations[u]
<1>1. \A u \in Users : confirmations[u] \in Nat
  BY DEF TypeOK
<1>2. ASSUME NEW s \in Slots, Commit(s) PROVE \A u \in Users : confirmations'[u] >= confirmations[u]
  BY <1>2 DEF Commit, TypeOK
<1>3. ASSUME NEW s \in Slots, Step(s) \/ Crash(s), ~Commit(s) PROVE confirmations' = confirmations
  <2>1. ASSUME NEW u \in Users, BeginBook(s, u) \/ BeginCancel(s, u) \/ RetryEnds(s, u)
        PROVE  confirmations' = confirmations
    BY <2>1 DEF BeginBook, BeginCancel, RetryEnds, rows
  <2>2. CASE BeginPromote(s) \/ BeginRepeat(s)
    BY <2>2, PromoteRun
  <2>3. CASE Abort(s) \/ GiveUp(s) \/ Finish(s) \/ Crash(s)
    BY <2>3 DEF Abort, GiveUp, Finish, Crash, rows
  <2>4. QED
    BY <1>3, <2>1, <2>2, <2>3 DEF Step, Request
<1>4. CASE EventStarts \/ UNCHANGED vars
  BY <1>1, <1>4 DEF EventStarts, vars, rows
<1>5. QED
  BY <1>1, <1>2, <1>3, <1>4 DEF Next

\* The bookings keep their invariant: the mail jobs leave them alone, but for
\* the count of crashes.
LEMMA BookingsKept ==
    ASSUME Inductive, [FulfilmentNext]_allVars
    PROVE  Inductive'
<1>1. CASE [Next]_vars
  BY <1>1, TypeStep, ShapeStep, JobsStep, SeatsStep DEF Inductive, WellFormed
<1>2. ASSUME NEW m \in Mailers, MailStep(m) PROVE UNCHANGED vars
  BY <1>2 DEF MailStep, ReadBooking, Read, Send, Complete, vars
<1>3. ASSUME NEW m \in Mailers, AttemptFails(m) \/ \E u \in Users : ReadAgain(m, u)
      PROVE  Inductive'
  <2>1. /\ UNCHANGED <<rows, event, jobs, tx, requests>> /\ crashes' \in 0..MaxCrashes
        /\ UNCHANGED <<status, older, confirmations, promotions, failedPromotions, released>>
    BY <1>3, BoundsAssumption DEF AttemptFails, ReadAgain, Read, Inductive, TypeOK, rows, jobs
  <2>2. TypeOK' /\ TxShape' /\ JobsCovered'
    <3>1. TypeOK'
      BY <2>1 DEF Inductive, TypeOK
    <3>2. TxShape'
      BY <2>1 DEF Inductive, TxShape, Running, Idle
    <3>3. JobsCovered'
      BY <2>1 DEF Inductive, JobsCovered, Promoting
    <3>4. QED
      BY <3>1, <3>2, <3>3
  <2>3. GrantsFit' /\ NoOversell'
    BY <2>1, SeatsAtRest
  <2>4. QED
    BY <2>2, <2>3 DEF Inductive
<1>4. CASE UNCHANGED allVars
  BY <1>1, <1>4 DEF allVars
<1>5. QED
  BY <1>1, <1>2, <1>3, <1>4 DEF FulfilmentNext

-----------------------------------------------------------------------------
(* The accounts                                                             *)

\* What the steps need to know of the state, with the types spelt out.
LEMMA Facts ==
    ASSUME FulfilmentInductive
    PROVE  /\ job \in [Mailers -> Job]
           /\ settled \in [Users -> Nat] /\ abandoned \in [Users -> Nat]
           /\ mails \in [Users -> Nat] /\ told \in [Users -> Nat] /\ extra \in [Users -> Nat]
           /\ \A u \in Users :
                /\ confirmations[u] \in Nat /\ told[u] <= confirmations[u]
                /\ settled[u] + abandoned[u] + Cardinality(Active(u)) <= confirmations[u]
                /\ mails[u] + Cardinality(Repeating(u))
                     <= settled[u] + Cardinality(Returned(u)) + extra[u]
BY DEF FulfilmentInductive, FulfilmentTypeOK, MailsExplained, TypeOK

\* The parts of the invariant that are about the mail jobs.
Mailing == FulfilmentTypeOK /\ JobsOfOne /\ MailsExplained

\* The bookings grant more, and leave the jobs alone.
LEMMA MailingAtRest ==
    ASSUME FulfilmentInductive, TypeOK', [Next]_vars, UNCHANGED mailVars
    PROVE  Mailing'
<1>1. \A u \in Users : confirmations'[u] >= confirmations[u] /\ confirmations'[u] \in Nat
  BY BookingsGrow DEF FulfilmentInductive, Inductive, TypeOK
<1>2. UNCHANGED <<job, settled, abandoned, mails, told, extra>>
  BY DEF mailVars
<1>3. \A u : Active(u)' = Active(u) /\ Returned(u)' = Returned(u) /\ Repeating(u)' = Repeating(u)
  BY <1>2 DEF Active, Returned, Repeating
<1>4. ASSUME NEW u \in Users
      PROVE  /\ told[u] <= confirmations'[u]
             /\ settled[u] + abandoned[u] + Cardinality(Active(u)) <= confirmations'[u]
  <2>1. Cardinality(Active(u)) \in Nat /\ settled[u] \in Nat /\ abandoned[u] \in Nat /\ told[u] \in Nat
    BY ActiveCard, Facts
  <2>2. QED
    BY <1>1, <2>1, Facts
<1>5. FulfilmentTypeOK'
  BY <1>2, <1>3, <1>4 DEF FulfilmentInductive, FulfilmentTypeOK
<1>6. JobsOfOne'
  <2> SUFFICES ASSUME NEW m \in Mailers, job[m].phase # "idle"
               PROVE  \E u \in Users : job[m].users = {u} /\ job[m].seen <= confirmations'[u]
    BY <1>2 DEF JobsOfOne, FulfilmentInductive
  <2>1. PICK u \in Users : job[m].users = {u} /\ job[m].seen <= confirmations[u]
    BY DEF JobsOfOne, FulfilmentInductive
  <2>2. job[m].seen \in Nat /\ confirmations[u] \in Nat
    BY Facts DEF Job
  <2>3. QED
    BY <1>1, <2>1, <2>2
<1>7. MailsExplained'
  BY <1>2, <1>3 DEF MailsExplained, FulfilmentInductive
<1>8. QED
  BY <1>5, <1>6, <1>7 DEF Mailing

\* g is f with d more for u.
Bumped(g, f, u, d) == g = [f EXCEPT ![u] = @ + d]

LEMMA BumpedAt ==
    ASSUME NEW f \in [Users -> Nat], NEW g, NEW u \in Users, NEW d \in {0, 1}, Bumped(g, f, u, d)
    PROVE  /\ g \in [Users -> Nat] /\ g[u] = f[u] + d
           /\ \A v \in Users \ {u} : g[v] = f[v]
BY DEF Bumped

LEMMA BumpedNot == ASSUME NEW f \in [Users -> Nat], NEW u \in Users PROVE Bumped(f, f, u, 0)
BY DEF Bumped

\* Job j is u's, as JobsOfOne has it.
JobOf(j, u) == IF j.phase = "idle" THEN j.users = {} ELSE j.users = {u} /\ j.seen <= confirmations[u]

\* The job of mailer m, of user u, becomes j, and the counts of u grow by as
\* much as given, each by at most one: what the job gives up of its row goes to
\* the settled or abandoned, and every mail that it sends or may yet send is
\* covered.
Balanced(m, j, u, ds, da, dm, de) ==
    /\ job' = [job EXCEPT ![m] = j]
    /\ {ds, da, dm, de} \subseteq {0, 1}
    /\ Bumped(settled', settled, u, ds) /\ Bumped(abandoned', abandoned, u, da)
    /\ Bumped(mails', mails, u, dm) /\ Bumped(extra', extra, u, de)
    /\ \/ ds + da + Tally(Held(j, u)) <= Tally(Held(job[m], u))
       \/ /\ ds = 0 /\ da = 0
          /\ settled[u] + abandoned[u] + Cardinality(Active(u)) < confirmations[u]
    /\ dm + Tally(Again(j, u)) + Tally(Back(job[m], u))
         <= ds + de + Tally(Back(j, u)) + Tally(Again(job[m], u))

\* A balanced step keeps the accounts.
LEMMA MailingAfter ==
    ASSUME FulfilmentInductive, TypeOK', UNCHANGED confirmations,
           NEW m \in Mailers, NEW j \in Job, NEW u \in Users, NEW ds, NEW da, NEW dm, NEW de,
           Balanced(m, j, u, ds, da, dm, de), job[m].users \subseteq {u}, JobOf(j, u),
           told' \in [Users -> Nat], \A v \in Users : told'[v] <= confirmations[v]
    PROVE  Mailing'
<1>0. /\ job' = [job EXCEPT ![m] = j]
      /\ ds \in {0, 1} /\ da \in {0, 1} /\ dm \in {0, 1} /\ de \in {0, 1}
      /\ Bumped(settled', settled, u, ds) /\ Bumped(abandoned', abandoned, u, da)
      /\ Bumped(mails', mails, u, dm) /\ Bumped(extra', extra, u, de)
      /\ \/ ds + da + Tally(Held(j, u)) <= Tally(Held(job[m], u))
         \/ /\ ds = 0 /\ da = 0
            /\ settled[u] + abandoned[u] + Cardinality(Active(u)) < confirmations[u]
      /\ dm + Tally(Again(j, u)) + Tally(Back(job[m], u))
           <= ds + de + Tally(Back(j, u)) + Tally(Again(job[m], u))
  BY DEF Balanced
<1>1. /\ job \in [Mailers -> Job] /\ job' \in [Mailers -> Job]
      /\ settled' \in [Users -> Nat] /\ abandoned' \in [Users -> Nat]
      /\ mails' \in [Users -> Nat] /\ extra' \in [Users -> Nat]
  BY <1>0, Facts, BumpedAt
<1>2. ASSUME NEW v \in Users
      PROVE  /\ settled'[v] + abandoned'[v] + Cardinality(Active(v)') <= confirmations[v]
             /\ mails'[v] + Cardinality(Repeating(v)')
                  <= settled'[v] + Cardinality(Returned(v)') + extra'[v]
  <2>1. /\ Cardinality(Active(v)) \in Nat /\ Cardinality(Returned(v)) \in Nat
        /\ Cardinality(Repeating(v)) \in Nat
    BY ActiveCard
  <2>2. /\ settled[v] \in Nat /\ abandoned[v] \in Nat /\ mails[v] \in Nat /\ extra[v] \in Nat
        /\ confirmations[v] \in Nat
        /\ settled[v] + abandoned[v] + Cardinality(Active(v)) <= confirmations[v]
        /\ mails[v] + Cardinality(Repeating(v)) <= settled[v] + Cardinality(Returned(v)) + extra[v]
    BY Facts
  <2>3. /\ Cardinality(Active(v)') = Cardinality(Active(v)) - Tally(Held(job[m], v)) + Tally(Held(j, v))
        /\ Cardinality(Returned(v)') = Cardinality(Returned(v)) - Tally(Back(job[m], v)) + Tally(Back(j, v))
        /\ Cardinality(Repeating(v)') = Cardinality(Repeating(v)) - Tally(Again(job[m], v)) + Tally(Again(j, v))
    BY <1>0, <1>1, JobsAfter
  <2>4. \A k, w : Tally(Held(k, w)) \in {0, 1} /\ Tally(Back(k, w)) \in {0, 1} /\ Tally(Again(k, w)) \in {0, 1}
    BY DEF Tally
  <2>5. CASE v = u
    <3>1. /\ settled'[v] = settled[v] + ds /\ abandoned'[v] = abandoned[v] + da
          /\ mails'[v] = mails[v] + dm /\ extra'[v] = extra[v] + de
      BY <1>0, <2>5, Facts, BumpedAt
    <3>2. Tally(Held(j, u)) \in {0, 1} /\ Tally(Held(job[m], u)) \in {0, 1}
      BY <2>4
    <3>3. settled'[v] + abandoned'[v] + Cardinality(Active(v)') <= confirmations[v]
      BY <1>0, <2>1, <2>2, <2>3, <2>5, <3>1, <3>2
    <3>4. /\ Tally(Back(j, u)) \in {0, 1} /\ Tally(Back(job[m], u)) \in {0, 1}
          /\ Tally(Again(j, u)) \in {0, 1} /\ Tally(Again(job[m], u)) \in {0, 1}
      BY <2>4
    <3>5. mails'[v] + Cardinality(Repeating(v)') <= settled'[v] + Cardinality(Returned(v)') + extra'[v]
      BY <1>0, <2>1, <2>2, <2>3, <2>5, <3>1, <3>4
    <3>6. QED
      BY <3>3, <3>5
  <2>6. CASE v # u
    <3>1. v \notin job[m].users /\ v \notin j.users
      BY <2>6 DEF JobOf
    <3>2. /\ Cardinality(Active(v)') = Cardinality(Active(v))
          /\ Cardinality(Returned(v)') = Cardinality(Returned(v))
          /\ Cardinality(Repeating(v)') = Cardinality(Repeating(v))
      BY <2>1, <2>3, <3>1 DEF Tally, Held, Back, Again
    <3>3. /\ settled'[v] = settled[v] /\ abandoned'[v] = abandoned[v]
          /\ mails'[v] = mails[v] /\ extra'[v] = extra[v]
      BY <1>0, <2>6, Facts, BumpedAt
    <3>4. QED
      BY <2>2, <3>2, <3>3
  <2>7. QED
    BY <2>5, <2>6
<1>3. FulfilmentTypeOK' /\ MailsExplained'
  BY <1>1, <1>2 DEF FulfilmentTypeOK, MailsExplained
<1>4. JobsOfOne'
  <2> SUFFICES ASSUME NEW n \in Mailers
               PROVE  IF job'[n].phase = "idle" THEN job'[n].users = {}
                      ELSE \E v \in Users : job'[n].users = {v} /\ job'[n].seen <= confirmations[v]
    BY DEF JobsOfOne
  <2>1. CASE n = m
    BY <1>0, <1>1, <2>1 DEF JobOf
  <2>2. CASE n # m
    BY <1>0, <1>1, <2>2 DEF JobsOfOne, FulfilmentInductive
  <2>3. QED
    BY <2>1, <2>2
<1>5. QED
  BY <1>3, <1>4 DEF Mailing

\* A job is taken, or runs again: a run that may mail once too often is counted.
LEMMA MailingOnRead ==
    ASSUME FulfilmentInductive, TypeOK', NEW m \in Mailers, NEW u \in Users,
           ReadBooking(m, u) \/ ReadAgain(m, u)
    PROVE  Mailing'
<1>1. PICK holds \in BOOLEAN : /\ Read(m, u, holds)
                               /\ holds => Waiting(u) > 0 /\ extra' = extra
                               /\ ~holds => extra' = [extra EXCEPT ![u] = @ + 1]
  BY DEF ReadBooking, ReadAgain
<1> DEFINE j == [phase |-> IF Returns(u) THEN "returned" ELSE "sending",
                 users |-> {u}, seen |-> confirmations[u], holds |-> holds]
<1>2. /\ j \in Job /\ j.users = {u} /\ j.seen = confirmations[u] /\ j.holds = holds
      /\ j.phase \in {"returned", "sending"} /\ confirmations[u] \in Nat
  BY Facts DEF Job
<1>3. /\ job' = [job EXCEPT ![m] = j] /\ job[m].users = {}
      /\ UNCHANGED <<confirmations, settled, abandoned, mails, told>>
  BY <1>1 DEF Read, rows, FulfilmentInductive, JobsOfOne
<1> HIDE DEF j
<1>0. JobOf(j, u) /\ job[m].users \subseteq {u}
  BY <1>2, <1>3 DEF JobOf
<1>4. /\ Tally(Held(job[m], u)) = 0 /\ Tally(Back(job[m], u)) = 0 /\ Tally(Again(job[m], u)) = 0
      /\ \A v \in Users : told'[v] <= confirmations[v]
      /\ told' \in [Users -> Nat]
  BY <1>3, Facts DEF Tally, Held, Back, Again
<1>5. /\ Bumped(settled', settled, u, 0) /\ Bumped(abandoned', abandoned, u, 0)
      /\ Bumped(mails', mails, u, 0)
  BY <1>3, Facts, BumpedNot
<1>6. CASE holds
  <2>1. Bumped(extra', extra, u, 0)
    BY <1>1, <1>6, Facts, BumpedNot
  <2>2. Tally(Again(j, u)) = 0 /\ Tally(Back(j, u)) \in {0, 1}
    BY <1>2, <1>6 DEF Tally, Again
  <2>3. settled[u] + abandoned[u] + Cardinality(Active(u)) < confirmations[u]
    BY <1>1, <1>2, <1>6, ActiveCard, Facts DEF Waiting
  <2>4. Balanced(m, j, u, 0, 0, 0, 0)
    BY <1>3, <1>4, <1>5, <2>1, <2>2, <2>3 DEF Balanced
  <2>5. QED
    BY <1>0, <1>2, <1>3, <1>4, <2>4, MailingAfter
<1>7. CASE ~holds
  <2>1. Bumped(extra', extra, u, 1)
    BY <1>1, <1>7 DEF Bumped
  <2>2. Tally(Again(j, u)) \in {0, 1} /\ Tally(Back(j, u)) = 0 /\ Tally(Held(j, u)) = 0
    BY <1>2, <1>7 DEF Tally, Back, Held
  <2>3. Balanced(m, j, u, 0, 0, 0, 1)
    BY <1>3, <1>4, <1>5, <2>1, <2>2 DEF Balanced
  <2>4. QED
    BY <1>0, <1>2, <1>3, <1>4, <2>3, MailingAfter
<1>8. QED
  BY <1>6, <1>7

\* A mail leaves: a run that holds its row has now returned, and a run that
\* does not has been counted.
LEMMA MailingOnSend ==
    ASSUME FulfilmentInductive, TypeOK', NEW m \in Mailers, Send(m)
    PROVE  Mailing'
<1>1. PICK u \in Users : job[m].users = {u} /\ job[m].seen <= confirmations[u]
  BY DEF FulfilmentInductive, JobsOfOne, Send
<1>2. job \in [Mailers -> Job] /\ job[m] \in Job /\ job[m].seen \in Nat
  BY Facts DEF Job
<1>3. /\ Bumped(mails', mails, u, 1)
      /\ told' = [told EXCEPT ![u] = IF job[m].seen > @ THEN job[m].seen ELSE @]
      /\ UNCHANGED <<confirmations, settled, abandoned, extra>>
      /\ job[m].phase = "sending"
  BY <1>1 DEF Send, Deliver, vars, rows, Bumped
<1> DEFINE j == [job[m] EXCEPT !.phase = "returned"]
<1>4. /\ j \in Job /\ j.users = {u} /\ j.seen = job[m].seen /\ j.phase = "returned"
      /\ j.holds = job[m].holds
  BY <1>1, <1>2 DEF Job
<1>5. job' = [job EXCEPT ![m] = j]
  BY <1>2 DEF Send
<1> HIDE DEF j
<1>6. /\ Bumped(settled', settled, u, 0) /\ Bumped(abandoned', abandoned, u, 0)
      /\ Bumped(extra', extra, u, 0)
  BY <1>3, Facts, BumpedNot
<1>7. told' \in [Users -> Nat] /\ \A v \in Users : told'[v] <= confirmations[v]
  BY <1>1, <1>2, <1>3, Facts
<1>8. /\ Tally(Held(j, u)) = Tally(Held(job[m], u))
      /\ Tally(Back(job[m], u)) = 0 /\ Tally(Again(j, u)) = 0
      /\ Tally(Held(j, u)) \in {0, 1}
      /\ Tally(Back(j, u)) + Tally(Again(job[m], u)) = 1
  BY <1>1, <1>2, <1>3, <1>4 DEF Tally, Held, Back, Again, Job
<1>9. /\ Tally(Back(j, u)) \in {0, 1} /\ Tally(Again(job[m], u)) \in {0, 1}
  BY DEF Tally
<1>10. Balanced(m, j, u, 0, 0, 1, 0)
  BY <1>3, <1>5, <1>6, <1>8, <1>9 DEF Balanced
<1>11. JobOf(j, u) /\ job[m].users \subseteq {u}
  BY <1>1, <1>4 DEF JobOf
<1>12. QED
  BY <1>3, <1>4, <1>7, <1>10, <1>11, MailingAfter

\* A run ends, completed or failed: the row it holds is settled or given up, or
\* waits again, and a mail it sent is accounted for.
LEMMA MailingOnEnd ==
    ASSUME FulfilmentInductive, TypeOK', NEW m \in Mailers, Complete(m) \/ AttemptFails(m)
    PROVE  Mailing'
<1>1. PICK u \in Users : job[m].users = {u}
  BY DEF Complete, AttemptFails, FulfilmentInductive, JobsOfOne
<1>2. /\ job \in [Mailers -> Job] /\ job[m] \in Job /\ job[m].holds \in BOOLEAN
      /\ NoJob \in Job /\ NoJob.users = {} /\ NoJob.phase = "idle"
  BY Facts DEF Job, NoJob
<1>3. /\ job' = [job EXCEPT ![m] = NoJob]
      /\ UNCHANGED <<confirmations, mails, told>>
  BY DEF Complete, AttemptFails, vars, rows
<1>4. /\ Tally(Held(NoJob, u)) = 0 /\ Tally(Back(NoJob, u)) = 0 /\ Tally(Again(NoJob, u)) = 0
      /\ Tally(Held(job[m], u)) = Tally(job[m].holds)
      /\ Tally(Back(job[m], u)) = Tally(job[m].holds /\ job[m].phase = "returned")
      /\ Tally(Again(job[m], u)) \in {0, 1}
  BY <1>1, <1>2 DEF Tally, Held, Back, Again
<1>5. /\ Bumped(mails', mails, u, 0)
      /\ told' \in [Users -> Nat] /\ \A v \in Users : told'[v] <= confirmations[v]
  BY <1>3, Facts, BumpedNot
<1>6. JobOf(NoJob, u) /\ job[m].users \subseteq {u}
  BY <1>1, <1>2 DEF JobOf
<1>7. CASE Complete(m)
  <2>1. /\ job[m].phase = "returned" /\ UNCHANGED <<abandoned, extra>>
        /\ settled' = IF job[m].holds THEN [settled EXCEPT ![u] = @ + 1] ELSE settled
    BY <1>1, <1>7 DEF Complete
  <2>2. Bumped(settled', settled, u, Tally(job[m].holds))
    BY <1>2, <2>1, Facts, BumpedNot DEF Bumped, Tally
  <2>3. Bumped(abandoned', abandoned, u, 0) /\ Bumped(extra', extra, u, 0)
    BY <2>1, Facts, BumpedNot
  <2>4. /\ Tally(job[m].holds) \in {0, 1}
        /\ Tally(job[m].holds /\ job[m].phase = "returned") = Tally(job[m].holds)
    BY <2>1 DEF Tally
  <2>5. Balanced(m, NoJob, u, Tally(job[m].holds), 0, 0, 0)
    BY <1>3, <1>4, <1>5, <2>2, <2>3, <2>4 DEF Balanced
  <2>6. QED
    BY <1>2, <1>3, <1>5, <1>6, <2>5, MailingAfter
<1>8. CASE AttemptFails(m)
  <2>1. /\ settled' = settled
        /\ abandoned' = abandoned \/ (job[m].holds /\ abandoned' = [abandoned EXCEPT ![u] = @ + 1])
        /\ extra' = [v \in Users |-> IF v = u /\ job[m].phase = "returned" THEN extra[v] + 1 ELSE extra[v]]
    BY <1>1, <1>8 DEF AttemptFails
  <2>2. PICK da \in {0, 1} : Bumped(abandoned', abandoned, u, da) /\ da <= Tally(job[m].holds)
    BY <1>2, <2>1, Facts, BumpedNot DEF Bumped, Tally
  <2>3. Bumped(settled', settled, u, 0)
    BY <2>1, Facts, BumpedNot
  <2>4. Bumped(extra', extra, u, Tally(job[m].phase = "returned"))
    <3>1. extra \in [Users -> Nat]
      BY Facts
    <3>2. CASE job[m].phase = "returned"
      BY <2>1, <3>1, <3>2 DEF Bumped, Tally
    <3>3. CASE job[m].phase # "returned"
      <4>1. extra' = extra /\ Tally(job[m].phase = "returned") = 0
        BY <2>1, <3>1, <3>3 DEF Tally
      <4>2. QED
        BY <3>1, <4>1, BumpedNot
    <3>4. QED
      BY <3>2, <3>3
  <2>5. /\ Tally(job[m].phase = "returned") \in {0, 1} /\ Tally(job[m].holds) \in {0, 1}
        /\ Tally(job[m].holds /\ job[m].phase = "returned") <= Tally(job[m].phase = "returned")
        /\ Tally(job[m].holds /\ job[m].phase = "returned") \in {0, 1}
    BY DEF Tally
  <2>6. Balanced(m, NoJob, u, 0, da, 0, Tally(job[m].phase = "returned"))
    BY <1>3, <1>4, <1>5, <2>2, <2>3, <2>4, <2>5 DEF Balanced
  <2>7. QED
    BY <1>2, <1>3, <1>5, <1>6, <2>6, MailingAfter
<1>9. QED
  BY <1>7, <1>8

LEMMA MailingStep ==
    ASSUME FulfilmentInductive, [FulfilmentNext]_allVars
    PROVE  Mailing'
<1>0. TypeOK'
  BY BookingsKept DEF FulfilmentInductive, Inductive
<1>1. CASE [Next]_vars /\ UNCHANGED mailVars
  BY <1>0, <1>1, MailingAtRest
<1>2. ASSUME NEW m \in Mailers, NEW u \in Users, ReadBooking(m, u) \/ ReadAgain(m, u) PROVE Mailing'
  BY <1>0, <1>2, MailingOnRead
<1>3. ASSUME NEW m \in Mailers, Send(m) PROVE Mailing'
  BY <1>0, <1>3, MailingOnSend
<1>4. ASSUME NEW m \in Mailers, Complete(m) \/ AttemptFails(m) PROVE Mailing'
  BY <1>0, <1>4, MailingOnEnd
<1>5. CASE UNCHANGED allVars
  BY <1>1, <1>5 DEF allVars
<1>6. QED
  BY <1>1, <1>2, <1>3, <1>4, <1>5 DEF FulfilmentNext, MailStep

-----------------------------------------------------------------------------
(* The theorems                                                             *)

LEMMA InitFulfilment == FulfilmentInit => FulfilmentInductive
<1> SUFFICES ASSUME FulfilmentInit PROVE FulfilmentInductive
  OBVIOUS
<1>1. Inductive /\ TypeOK
  BY InitInductive DEF FulfilmentInit, Inductive
<1>2. \A u \in Users : confirmations[u] = 0
  BY DEF FulfilmentInit, Init
<1>3. NoJob \in Job /\ NoJob.phase = "idle" /\ NoJob.users = {}
  BY DEF NoJob, Job
<1>4. job \in [Mailers -> Job] /\ \A m \in Mailers : job[m] = NoJob
  BY <1>3 DEF FulfilmentInit
<1>5. ASSUME NEW u \in Users
      PROVE  /\ Cardinality(Active(u)) = 0 /\ Cardinality(Returned(u)) = 0
             /\ Cardinality(Repeating(u)) = 0
             /\ settled[u] = 0 /\ abandoned[u] = 0 /\ mails[u] = 0 /\ told[u] = 0 /\ extra[u] = 0
  <2>1. Active(u) = {} /\ Returned(u) = {} /\ Repeating(u) = {}
    BY <1>3, <1>4 DEF Active, Returned, Repeating
  <2>2. QED
    BY <2>1, FS_EmptySet DEF FulfilmentInit
<1>6. FulfilmentTypeOK
  BY <1>1, <1>2, <1>4, <1>5 DEF FulfilmentInit, FulfilmentTypeOK
<1>7. JobsOfOne
  BY <1>3, <1>4 DEF JobsOfOne
<1>8. MailsExplained
  BY <1>2, <1>5 DEF MailsExplained
<1>9. QED
  BY <1>1, <1>6, <1>7, <1>8 DEF FulfilmentInductive

\* The invariant holds in every reachable state: bookings, mailers that read,
\* send and complete, runs of rows done with, runs that lose their job, and
\* attempts that fail anywhere preserve it.
THEOREM FulfilmentInvariant == FulfilmentSpec => []FulfilmentInductive
<1>1. FulfilmentInductive /\ [FulfilmentNext]_allVars => FulfilmentInductive'
  BY BookingsKept, MailingStep DEF FulfilmentInductive, Mailing
<1>2. QED
  BY InitFulfilment, <1>1, PTL DEF FulfilmentSpec

\* A user gets no more mails than grants, repeated runs and attempts that failed
\* after the mail, for any number of mailers, retries and bookings cancelled and
\* made again.
THEOREM MailsAreBounded == FulfilmentSpec => []MailsBounded
<1>1. ASSUME FulfilmentInductive, NEW u \in Users PROVE mails[u] <= confirmations[u] + extra[u]
  <2>1. /\ Cardinality(Active(u)) \in Nat /\ Cardinality(Returned(u)) \in Nat
        /\ Cardinality(Repeating(u)) \in Nat
        /\ Cardinality(Returned(u)) <= Cardinality(Active(u))
    BY ActiveCard
  <2>2. /\ settled[u] \in Nat /\ abandoned[u] \in Nat /\ mails[u] \in Nat /\ confirmations[u] \in Nat
        /\ extra[u] \in Nat
        /\ settled[u] + abandoned[u] + Cardinality(Active(u)) <= confirmations[u]
        /\ mails[u] + Cardinality(Repeating(u)) <= settled[u] + Cardinality(Returned(u)) + extra[u]
    BY <1>1, Facts
  <2>3. QED
    BY <2>1, <2>2
<1>2. FulfilmentInductive => MailsBounded
  BY <1>1 DEF MailsBounded
<1>3. QED
  BY FulfilmentInvariant, <1>2, PTL
=============================================================================

---------------------------- MODULE SessionProofs ----------------------------
(***************************************************************************)
(* Proofs about modules RefreshTokens and Session: a family never has two  *)
(* live tokens, a replay ends its chain, the browser keeps its session,    *)
(* and a sign-out ends it.                                                 *)
(*                                                                         *)
(* The first two rest on the links: each token of a family leads to all    *)
(* that were issued in it later (Linked), so that an unrevoked one is its  *)
(* newest, and only the newest is ever rotated.  A replay keeps what it is *)
(* about to revoke (AboutToRevoke) because a rotation meanwhile writes one *)
(* of its rows and dooms it.                                               *)
(*                                                                         *)
(* The other two follow each token from the commit that issues it to the   *)
(* cookie: it is in one answer, nobody in the browser can use it before    *)
(* (AnswersAlone), so that what is newer than it went astray; and what is  *)
(* newer than the cookie is in an answer or went astray (CookieNewest).    *)
(***************************************************************************)
EXTENDS Session, FiniteSetTheorems, TLAPS

-----------------------------------------------------------------------------
(* Links                                                                    *)

LEMMA IdsCard ==
    ASSUME NEW S, S \subseteq Ids, NEW T, T \subseteq S
    PROVE  /\ Cardinality(T) \in Nat /\ Cardinality(S) \in Nat
           /\ Cardinality(T) <= Cardinality(S)
<1>1. IsFiniteSet(Ids)
  BY FS_Interval, TokensAssumption DEF Ids
<1>2. IsFiniteSet(S) /\ IsFiniteSet(T)
  BY <1>1, FS_Subset
<1>3. QED
  BY <1>2, FS_Subset, FS_CardinalityType

\* The links lead to later tokens of the same family only.
LEMMA ReplacementsLater ==
    ASSUME TypeOK, NEW i \in Ids, NEW j \in Replacements(i)
    PROVE  j \in Issued /\ family[j] = family[i] /\ j > i /\ next[i] # {} /\ i \in revoked
<1> DEFINE later == {k \in Ids : family[k] = family[i] /\ family[k] # 0 /\ k > i /\ next[i] # {}}
<1>1. next[i] \subseteq later
  BY DEF TypeOK, Ids
<1>2. ASSUME NEW k \in later PROVE next[k] \subseteq later
  BY DEF TypeOK, Ids
<1>3. j \in later
  BY <1>1, <1>2, later \subseteq {k \in Ids : k > i} DEF Replacements
<1>4. QED
  BY <1>3 DEF Issued, TypeOK

\* Only the newest token of a family can be unrevoked.
LEMMA UnrevokedIsNewest ==
    ASSUME TypeOK, Linked, NEW i \in Issued, i \notin revoked, NEW j \in Issued, family[j] = family[i]
    PROVE  j <= i
<1>1. i \in Ids /\ j \in Ids /\ i \in Int /\ j \in Int
  BY DEF Issued, Ids
<1>2. CASE i < j
  BY <1>1, <1>2, ReplacementsLater DEF Linked
<1>3. QED
  BY <1>1, <1>2

\* A replay follows the links to every later token that is near enough.
LEMMA ChainCovers ==
    ASSUME TypeOK, Linked, NEW i \in Issued, NEW j \in Issued, family[j] = family[i], j > i,
           Cardinality(Links(i, j)) <= MaxDepth
    PROVE  j \in Chain(i)
<1>1. i \in Ids /\ j \in Ids /\ i \in Int /\ j \in Int
  BY DEF Issued, Ids
<1>2. j \in Replacements(i)
  BY <1>1 DEF Linked
<1> DEFINE before == {k \in Replacements(i) : k <= j}
<1>3. before \subseteq Links(i, j)
  BY <1>1, ReplacementsLater DEF Links, Issued, Ids
<1>4. Cardinality(before) <= MaxDepth
  <2>1. Links(i, j) \subseteq Ids
    BY DEF Links, Issued
  <2>2. QED
    BY <1>3, <2>1, IdsCard, TokensAssumption
<1>5. QED
  BY <1>2, <1>4 DEF Chain

-----------------------------------------------------------------------------
(* Steps that issue no token                                                *)

LEMMA IdleType == Idle \in Transaction
BY TokensAssumption DEF Idle, Transaction

\* Families and links stay, and with them what is said of them.
LEMMA LinksKept ==
    ASSUME UNCHANGED <<family, next>>
    PROVE  /\ Issued' = Issued /\ Unissued' = Unissued
           /\ \A i : Replacements(i)' = Replacements(i)
           /\ \A i, j : Links(i, j)' = Links(i, j)
           /\ InOrder => InOrder'
           /\ Linked => Linked'
<1>1. Issued' = Issued /\ Unissued' = Unissued
  BY DEF Issued, Unissued
<1>2. \A i : Replacements(i)' = Replacements(i)
  BY DEF Replacements
<1>3. \A i, j : Links(i, j)' = Links(i, j)
  BY <1>1 DEF Links
<1>4. QED
  BY <1>1, <1>2, <1>3 DEF InOrder, Linked

\* A commit that writes rows dooms whoever is about to write one of them.
LEMMA DoomSound ==
    ASSUME TokensInductive, UNCHANGED <<family, next>>, NEW W, revoked' = revoked \cup W,
           NEW D, tx' = Doom(W, D)
    PROVE  RefreshesSound' /\ tx' \in [Slots -> Transaction]
<1> USE DEF TokensInductive
<1>1. tx \in [Slots -> Transaction] /\ Idle \in Transaction
  BY IdleType DEF TypeOK
<1>2. ASSUME NEW s \in Slots
      PROVE  \/ tx'[s] = Idle
             \/ tx[s].writes \cap W # {} /\ tx'[s] = [tx[s] EXCEPT !.doomed = TRUE]
             \/ tx[s].writes \cap W = {} /\ tx'[s] = tx[s]
  BY DEF Doom, Conflict
<1>3. ASSUME NEW s \in Slots PROVE [tx[s] EXCEPT !.doomed = TRUE] \in Transaction
  BY <1>1 DEF Transaction
<1>4. tx' \in [Slots -> Transaction]
  <2>1. \A s \in Slots : tx'[s] \in Transaction
    BY <1>1, <1>2, <1>3
  <2>2. QED
    BY <2>1 DEF Doom
<1>5. ASSUME NEW s \in Slots, tx[s].kind # "none", tx[s].writes \cap W = {}, tx'[s] = tx[s]
      PROVE  RefreshSound(tx[s])'
  BY <1>5, LinksKept DEF RefreshesSound, RefreshSound, AboutToRevoke
<1>6. ASSUME NEW s \in Slots, tx[s].kind # "none", tx'[s] = [tx[s] EXCEPT !.doomed = TRUE]
      PROVE  RefreshSound(tx[s])'
  <2>1. /\ tx'[s].kind = tx[s].kind /\ tx'[s].given = tx[s].given /\ tx'[s].writes = tx[s].writes
        /\ tx'[s].doomed
    BY <1>1, <1>6 DEF Transaction
  <2>2. RefreshSound(tx[s])
    BY <1>6 DEF RefreshesSound
  <2>3. QED
    BY <2>1, <2>2, LinksKept DEF RefreshSound
<1>7. ASSUME NEW s \in Slots
      PROVE  IF tx'[s].kind = "none" THEN tx'[s] = Idle ELSE RefreshSound(tx[s])'
  <2>1. CASE tx'[s] = Idle
    BY <2>1 DEF Idle
  <2>2. CASE tx[s].kind = "none"
    <3>1. tx[s] = Idle
      BY <2>2 DEF RefreshesSound
    <3>2. tx'[s] = Idle
      <4>1. tx[s].writes \cap W = {}
        BY <3>1 DEF Idle
      <4>2. QED
        BY <1>2, <3>1, <4>1
    <3>3. QED
      BY <2>1, <3>2
  <2>3. CASE tx[s].kind # "none" /\ tx'[s] # Idle
    <3>1. tx'[s].kind = tx[s].kind
      BY <1>1, <1>2, <2>3 DEF Transaction
    <3>2. QED
      BY <1>2, <1>5, <1>6, <2>3, <3>1
  <2>4. QED
    BY <2>1, <2>2, <2>3
<1>8. QED
  BY <1>4, <1>7 DEF RefreshesSound

\* Rows may be revoked: nothing that is said of revoked tokens is lost.
LEMMA RevokeMore ==
    ASSUME TokensInductive, UNCHANGED <<family, next>>, NEW W, revoked' = revoked \cup W,
           W \subseteq Issued, replayed \subseteq replayed', replayed' \subseteq revoked,
           loggedOut \subseteq loggedOut', loggedOut' \subseteq Issued,
           \A i \in W : Ended(family[i])',
           \A i \in replayed' \ replayed, j \in Issued :
               family[j] = family[i] /\ j > i /\ Cardinality(Links(i, j)) <= MaxDepth => j \in revoked',
           expired' \subseteq Ids, tx' \in [Slots -> Transaction], RefreshesSound'
    PROVE  TokensInductive'
<1> USE DEF TokensInductive
<1>1. TypeOK'
  BY DEF TypeOK, Explained, Issued
<1>2. InOrder' /\ Linked'
  BY LinksKept
<1>3. ASSUME NEW i \in revoked, next[i] = {} PROVE Ended(family[i])'
  BY <1>3 DEF Explained, Ended
<1>4. Explained'
  BY <1>3, LinksKept DEF Explained
<1>5. ReplayRevokesChain'
  BY LinksKept DEF ReplayRevokesChain
<1>6. QED
  BY <1>1, <1>2, <1>4, <1>5

LEMMA ExpireStep ==
    ASSUME TokensInductive, NEW i \in Ids, Expire(i)
    PROVE  TokensInductive'
<1>1. /\ UNCHANGED <<family, next, revoked, replayed, loggedOut>> /\ tx' = tx
      /\ expired' = expired \cup {i}
  BY DEF Expire
<1>2. RefreshesSound'
  BY <1>1, LinksKept DEF TokensInductive, RefreshesSound, RefreshSound, AboutToRevoke, Idle
<1>3. QED
  BY <1>1, <1>2, RevokeMore DEF TokensInductive, TypeOK, Explained, Ended

LEMMA LogoutStep ==
    ASSUME TokensInductive, NEW i \in Ids, Logout(i)
    PROVE  TokensInductive'
<1>1. /\ UNCHANGED <<family, next, replayed, expired>> /\ i \in Issued
      /\ revoked' = revoked \cup {i} /\ loggedOut' = loggedOut \cup {family[i]}
  BY DEF Logout
<1>2. RefreshesSound' /\ tx' \in [Slots -> Transaction]
  <2>1. CASE i \in revoked
    <3>1. tx' = tx /\ revoked' = revoked
      BY <1>1, <2>1 DEF Logout
    <3>2. QED
      BY <1>1, <3>1, LinksKept
      DEF TokensInductive, TypeOK, RefreshesSound, RefreshSound, AboutToRevoke, Idle
  <2>2. CASE i \notin revoked
    BY <1>1, <2>2, DoomSound DEF Logout
  <2>3. QED
    BY <2>1, <2>2
<1>3. \A j \in {i} : Ended(family[j])'
  BY <1>1 DEF Ended
<1>4. loggedOut' \subseteq Issued /\ replayed \subseteq revoked /\ expired \subseteq Ids
  BY <1>1 DEF TokensInductive, InOrder, Explained, TypeOK
<1>5. replayed' \ replayed = {} /\ replayed' \subseteq revoked /\ {i} \subseteq Issued
  BY <1>1, <1>4
<1>6. QED
  BY <1>1, <1>2, <1>3, <1>4, <1>5, RevokeMore

LEMMA CommitReplayStep ==
    ASSUME TokensInductive, NEW s \in Slots, CommitReplay(s)
    PROVE  TokensInductive'
<1> DEFINE g == tx[s].given
           W == tx[s].writes
<1>1. /\ UNCHANGED <<family, next, loggedOut, expired>>
      /\ revoked' = revoked \cup W /\ replayed' = replayed \cup {g}
      /\ tx' = Doom(W, {s})
  BY DEF CommitReplay
<1>2. /\ g \in Issued /\ g \in revoked /\ AboutToRevoke(tx[s])
      /\ \A j \in W : j \in Issued /\ family[j] = family[g]
  BY DEF TokensInductive, RefreshesSound, RefreshSound, CommitReplay
<1>3. RefreshesSound' /\ tx' \in [Slots -> Transaction]
  BY <1>1, DoomSound
<1>4. \A i \in W : Ended(family[i])'
  BY <1>1, <1>2 DEF Ended
<1>5. \A j \in Issued :
        family[j] = family[g] /\ j > g /\ Cardinality(Links(g, j)) <= MaxDepth => j \in revoked'
  BY <1>1, <1>2 DEF AboutToRevoke
<1>6. QED
  BY <1>1, <1>2, <1>3, <1>4, <1>5, RevokeMore DEF TokensInductive, TypeOK, Explained

LEMMA FailStep ==
    ASSUME TokensInductive, NEW s \in Slots, Fail(s)
    PROVE  TokensInductive'
<1>1. /\ UNCHANGED <<family, next, revoked, expired, replayed, loggedOut>>
      /\ tx' = [tx EXCEPT ![s] = Idle]
  BY DEF Fail, tokens
<1>2. Idle \in Transaction /\ Idle.kind = "none" /\ tx \in [Slots -> Transaction]
  BY IdleType DEF Idle, TokensInductive, TypeOK
<1>3. tx' \in [Slots -> Transaction]
  BY <1>1, <1>2
<1>4. ASSUME NEW r \in Slots
      PROVE  IF tx'[r].kind = "none" THEN tx'[r] = Idle ELSE RefreshSound(tx[r])'
  <2>1. CASE r = s
    BY <1>1, <1>2, <2>1
  <2>2. CASE r # s
    <3>1. tx'[r] = tx[r]
      BY <1>1, <1>2, <2>2
    <3>2. QED
      BY <1>1, <3>1, LinksKept DEF TokensInductive, RefreshesSound, RefreshSound, AboutToRevoke
  <2>3. QED
    BY <2>1, <2>2
<1>5. RefreshesSound'
  BY <1>4 DEF RefreshesSound
<1>6. QED
  BY <1>1, <1>3, <1>5, RevokeMore DEF TokensInductive, TypeOK, Explained, Ended

LEMMA BeginRefreshStep ==
    ASSUME TokensInductive, NEW s \in Slots, NEW i \in Ids, BeginRefresh(s, i)
    PROVE  TokensInductive'
<1> DEFINE t == IF i \in revoked
                  THEN [kind |-> "replay", given |-> i, writes |-> ReplayWrites(i), doomed |-> FALSE]
                  ELSE [kind |-> "rotate", given |-> i, writes |-> {i}, doomed |-> FALSE]
<1>1. /\ UNCHANGED <<family, next, revoked, expired, replayed, loggedOut>>
      /\ tx' = [tx EXCEPT ![s] = t] /\ i \in Issued
  BY DEF BeginRefresh, tokens
<1>2. ReplayWrites(i) \subseteq Replacements(i) /\ Replacements(i) \subseteq Ids
  BY DEF ReplayWrites, Chain, Replacements
<1>3. t \in Transaction /\ t.kind # "none" /\ t.given = i
  BY <1>2 DEF Transaction, Ids
<1>4. tx \in [Slots -> Transaction]
  BY DEF TokensInductive, TypeOK
<1>5. RefreshSound(t)
  <2>1. CASE i \in revoked
    <3>1. \A j \in ReplayWrites(i) : j \in Issued /\ family[j] = family[i]
      BY <1>2, ReplacementsLater DEF TokensInductive
    <3>2. AboutToRevoke(t)
      BY <1>1, <2>1, ChainCovers DEF AboutToRevoke, ReplayWrites, TokensInductive
    <3>3. QED
      BY <1>1, <2>1, <3>1, <3>2 DEF RefreshSound
  <2>2. CASE i \notin revoked
    BY <1>1, <2>2 DEF RefreshSound
  <2>3. QED
    BY <2>1, <2>2
<1> HIDE DEF t
<1>6. ASSUME NEW r \in Slots
      PROVE  IF tx'[r].kind = "none" THEN tx'[r] = Idle ELSE RefreshSound(tx[r])'
  <2>1. CASE r = s
    <3>1. tx'[r] = t
      BY <1>1, <1>4, <2>1
    <3>2. QED
      BY <1>1, <1>3, <1>5, <3>1, LinksKept DEF RefreshSound, AboutToRevoke
  <2>2. CASE r # s
    <3>1. tx'[r] = tx[r]
      BY <1>1, <1>4, <2>2
    <3>2. QED
      BY <1>1, <3>1, LinksKept DEF TokensInductive, RefreshesSound, RefreshSound, AboutToRevoke
  <2>3. QED
    BY <2>1, <2>2
<1>7. tx' \in [Slots -> Transaction]
  BY <1>1, <1>3, <1>4
<1>8. RefreshesSound'
  BY <1>6 DEF RefreshesSound
<1>9. QED
  BY <1>1, <1>7, <1>8, RevokeMore DEF TokensInductive, TypeOK, Explained, Ended

-----------------------------------------------------------------------------
(* Steps that issue a token                                                 *)

LEMMA IssueOne ==
    ASSUME TokensInductive, NEW n \in Ids, Fresh(n), NEW f, f \in Issued \/ f = n,
           family' = [family EXCEPT ![n] = f]
    PROVE  /\ Issued' = Issued \cup {n} /\ n \notin Issued
           /\ family'[n] = f /\ \A i \in Issued : family'[i] = family[i] /\ i < n
           /\ family' \in [Ids -> 0..MaxTokens] /\ InOrder'
           /\ \A i, j \in Issued : Links(i, j)' = Links(i, j)
<1>1. /\ n \in Unissued /\ \A j \in Unissued : n <= j
      /\ family \in [Ids -> 0..MaxTokens] /\ f \in Ids /\ f # 0
      /\ Issued \subseteq Ids /\ Ids \subseteq Int /\ Unissued \subseteq Ids
  BY TokensAssumption DEF Fresh, TokensInductive, TypeOK, Issued, Unissued, Ids
<1>2. Issued' = Issued \cup {n} /\ n \notin Issued /\ Unissued' = Unissued \ {n}
  BY <1>1 DEF Issued, Unissued
<1>3. family'[n] = f /\ \A i \in Issued : family'[i] = family[i]
  BY <1>1, <1>2
<1>4. \A i \in Issued : i < n
  BY <1>1 DEF TokensInductive, InOrder
<1>5. family' \in [Ids -> 0..MaxTokens]
  BY <1>1 DEF Ids
<1>6. InOrder'
  <2>1. ASSUME NEW i \in Issued' PROVE family'[i] \in Issued'
    BY <1>2, <1>3, <2>1 DEF TokensInductive, InOrder
  <2>2. ASSUME NEW i \in Issued', NEW j \in Unissued' PROVE i < j
    <3>1. CASE i = n
      BY <1>1, <1>2, <2>2, <3>1
    <3>2. CASE i # n
      BY <1>2, <2>2, <3>2 DEF TokensInductive, InOrder
    <3>3. QED
      BY <3>1, <3>2
  <2>3. QED
    BY <2>1, <2>2 DEF InOrder
<1>7. ASSUME NEW i \in Issued, NEW j \in Issued PROVE Links(i, j)' = Links(i, j)
  <2>1. ~(n <= j)
    BY <1>1, <1>4
  <2>2. QED
    BY <1>2, <1>3, <2>1 DEF Links
<1>8. QED
  BY <1>2, <1>3, <1>4, <1>5, <1>6, <1>7

\* What a transaction is about to do does not depend on a token issued
\* meanwhile, unless it is of the same family.
LEMMA LoginStep ==
    ASSUME TokensInductive, Login
    PROVE  TokensInductive'
<1>1. PICK n \in Ids : Fresh(n) /\ family' = [family EXCEPT ![n] = n]
  BY DEF Login
<1>2. UNCHANGED <<revoked, expired, next, tx, replayed, loggedOut>>
  BY DEF Login
<1>3. /\ Issued' = Issued \cup {n} /\ n \notin Issued
      /\ family'[n] = n /\ \A i \in Issued : family'[i] = family[i] /\ i < n
      /\ family' \in [Ids -> 0..MaxTokens] /\ InOrder'
      /\ \A i, j \in Issued : Links(i, j)' = Links(i, j)
  BY <1>1, IssueOne
<1>4. \A i \in Issued : family'[i] # n
  BY <1>3 DEF TokensInductive, InOrder
<1>5. \A i : Replacements(i)' = Replacements(i)
  BY <1>2 DEF Replacements
<1>6. TypeOK'
  <2>1. ASSUME NEW i \in Ids, NEW j \in next[i]
        PROVE  j > i /\ i \in revoked /\ family'[j] = family'[i] /\ family'[i] # 0
    <3>1. /\ j > i /\ i \in revoked /\ family[j] = family[i] /\ family[i] # 0
          /\ i \in Issued /\ j \in Issued
      BY DEF TokensInductive, TypeOK, Issued
    <3>2. QED
      BY <1>3, <3>1
  <2>2. QED
    BY <1>2, <1>3, <2>1 DEF TokensInductive, TypeOK
<1>7. Linked'
  BY <1>3, <1>4, <1>5 DEF TokensInductive, Linked
<1>8. RefreshesSound'
  <2> SUFFICES ASSUME NEW s \in Slots, tx[s].kind # "none" PROVE RefreshSound(tx[s])'
    BY <1>2 DEF TokensInductive, RefreshesSound, Idle
  <2>1. RefreshSound(tx[s]) /\ tx[s].given \in Issued
    BY DEF TokensInductive, RefreshesSound, RefreshSound
  <2>2. family'[tx[s].given] # n
    BY <1>4, <2>1
  <2>3. ASSUME AboutToRevoke(tx[s]) PROVE AboutToRevoke(tx[s])'
    BY <1>2, <1>3, <2>1, <2>2, <2>3 DEF AboutToRevoke
  <2>4. QED
    BY <1>2, <1>3, <2>1, <2>3 DEF RefreshSound
<1>9. Explained'
  BY <1>2, <1>3 DEF TokensInductive, Explained, Ended
<1>10. ReplayRevokesChain'
  <2> SUFFICES ASSUME NEW i \in replayed, NEW j \in Issued', family'[j] = family'[i], j > i,
                      Cardinality(Links(i, j)') <= MaxDepth
               PROVE  j \in revoked
    BY <1>2 DEF ReplayRevokesChain
  <2>1. i \in Issued /\ j \in Issued
    BY <1>3, <1>4 DEF TokensInductive, Explained
  <2>2. QED
    BY <1>3, <2>1 DEF TokensInductive, ReplayRevokesChain
<1>11. QED
  BY <1>3, <1>6, <1>7, <1>8, <1>9, <1>10 DEF TokensInductive

\* A rotation issues the newest token of the family of the newest.
LEMMA Rotation ==
    ASSUME TokensInductive, NEW s \in Slots, CommitRotation(s)
    PROVE  LET g == tx[s].given
           IN  /\ g \in Issued /\ g \notin revoked /\ next[g] = {}
               /\ \A i \in Issued : family[i] = family[g] => i <= g
               /\ \E n \in Ids :
                    /\ Fresh(n) /\ next' = [next EXCEPT ![g] = {n}]
                    /\ family' = [family EXCEPT ![n] = family[g]]
                    /\ Issued' = Issued \cup {n} /\ n \notin Issued
                    /\ family'[n] = family[g] /\ \A i \in Issued : family'[i] = family[i] /\ i < n
                    /\ family' \in [Ids -> 0..MaxTokens] /\ InOrder'
                    /\ \A i, j \in Issued : Links(i, j)' = Links(i, j)
<1> DEFINE g == tx[s].given
<1>1. g \in Issued /\ g \notin revoked
  BY DEF TokensInductive, RefreshesSound, RefreshSound, CommitRotation
<1>2. next[g] = {}
  BY <1>1 DEF TokensInductive, TypeOK, Issued
<1>3. \A i \in Issued : family[i] = family[g] => i <= g
  BY <1>1, UnrevokedIsNewest DEF TokensInductive
<1>4. PICK n \in Ids : /\ Fresh(n) /\ next' = [next EXCEPT ![g] = {n}]
                       /\ family' = [family EXCEPT ![n] = family[g]]
  BY DEF CommitRotation
<1>5. family[g] \in Issued
  BY <1>1 DEF TokensInductive, InOrder
<1>6. /\ Issued' = Issued \cup {n} /\ n \notin Issued
      /\ family'[n] = family[g] /\ \A i \in Issued : family'[i] = family[i] /\ i < n
      /\ family' \in [Ids -> 0..MaxTokens] /\ InOrder'
      /\ \A i, j \in Issued : Links(i, j)' = Links(i, j)
  BY <1>4, <1>5, IssueOne
<1>7. QED
  BY <1>1, <1>2, <1>3, <1>4, <1>6

LEMMA CommitRotationStep ==
    ASSUME TokensInductive, NEW s \in Slots, CommitRotation(s)
    PROVE  TokensInductive'
<1> DEFINE g == tx[s].given
<1>1. /\ g \in Issued /\ g \notin revoked /\ next[g] = {}
      /\ \A i \in Issued : family[i] = family[g] => i <= g
  BY Rotation
<1>2. PICK n \in Ids :
        /\ Fresh(n) /\ next' = [next EXCEPT ![g] = {n}]
        /\ Issued' = Issued \cup {n} /\ n \notin Issued
        /\ family'[n] = family[g] /\ \A i \in Issued : family'[i] = family[i] /\ i < n
        /\ family' \in [Ids -> 0..MaxTokens] /\ InOrder'
        /\ \A i, j \in Issued : Links(i, j)' = Links(i, j)
  BY Rotation
<1>3. /\ UNCHANGED <<expired, replayed, loggedOut>>
      /\ revoked' = revoked \cup {g} /\ tx' = Doom({g}, {s})
  BY DEF CommitRotation
<1>4. /\ next \in [Ids -> SUBSET Ids] /\ tx \in [Slots -> Transaction] /\ revoked \subseteq Issued
      /\ Issued \subseteq Ids /\ Ids \subseteq Int /\ replayed \subseteq revoked /\ family[g] # 0
  BY <1>1 DEF TokensInductive, TypeOK, Explained, Issued, Ids
<1> HIDE DEF g
<1>5. next'[g] = {n} /\ \A i \in Ids : i # g => next'[i] = next[i]
  BY <1>1, <1>2, <1>4
<1>6. TypeOK'
  <2>1. ASSUME NEW i \in Ids, NEW j \in next'[i]
        PROVE  j > i /\ i \in revoked' /\ family'[j] = family'[i] /\ family'[i] # 0
    <3>1. CASE i = g
      BY <1>1, <1>2, <1>3, <1>4, <1>5, <2>1, <3>1
    <3>2. CASE i # g
      <4>1. /\ j > i /\ i \in revoked /\ family[j] = family[i] /\ family[i] # 0
            /\ i \in Issued /\ j \in Issued
        BY <1>5, <2>1, <3>2 DEF TokensInductive, TypeOK, Issued
      <4>2. QED
        BY <1>2, <1>3, <4>1
    <3>3. QED
      BY <3>1, <3>2
  <2>2. tx' \in [Slots -> Transaction]
    BY <1>3, <1>4, IdleType DEF Doom, Transaction
  <2>3. next' \in [Ids -> SUBSET Ids]
    BY <1>2, <1>4
  <2>4. QED
    BY <1>1, <1>2, <1>3, <1>4, <2>1, <2>2, <2>3 DEF TokensInductive, TypeOK
<1>7. Linked'
  <2>1. ASSUME NEW i \in Issued, NEW j \in Issued, j \in Replacements(i) PROVE j \in Replacements(i)'
    <3> SUFFICES ASSUME NEW S \in SUBSET {k \in Ids : k > i}, next'[i] \subseteq S, \A k \in S : next'[k] \subseteq S
                 PROVE  j \in S
      BY <1>4 DEF Replacements
    <3>1. next[i] \subseteq S /\ \A k \in S : next[k] \subseteq S
      BY <1>1, <1>4, <1>5
    <3>2. QED
      BY <2>1, <3>1 DEF Replacements
  <2>2. ASSUME NEW i \in Issued, family[i] = family[g] PROVE n \in Replacements(i)'
    <3> SUFFICES ASSUME NEW S \in SUBSET {k \in Ids : k > i}, next'[i] \subseteq S, \A k \in S : next'[k] \subseteq S
                 PROVE  n \in S
      BY DEF Replacements
    <3>1. CASE i = g
      BY <1>5, <3>1
    <3>2. CASE i # g
      <4>1. g \in Replacements(i)
        BY <1>1, <1>4, <2>2, <3>2 DEF TokensInductive, Linked
      <4>2. next[i] \subseteq S /\ \A k \in S : next[k] \subseteq S
        BY <1>1, <1>4, <1>5
      <4>3. g \in S
        BY <4>1, <4>2 DEF Replacements
      <4>4. QED
        BY <1>5, <4>3
    <3>3. QED
      BY <3>1, <3>2
  <2>3. ASSUME NEW i \in Issued', NEW j \in Issued', family'[i] = family'[j], i < j
        PROVE  j \in Replacements(i)'
    <3>1. i \in Issued
      BY <1>2, <1>4, <2>3
    <3>2. CASE j = n
      BY <1>2, <2>2, <2>3, <3>1, <3>2
    <3>3. CASE j # n
      BY <1>2, <2>1, <2>3, <3>1, <3>3 DEF TokensInductive, Linked
    <3>4. QED
      BY <3>2, <3>3
  <2>4. QED
    BY <2>3 DEF Linked
\* The new token is one link further than the newest before it.
<1>8. ASSUME NEW d \in Issued, d \in revoked, NEW W, g \notin W,
             \A j \in Issued :
                 family[j] = family[d] /\ j > d /\ Cardinality(Links(d, j)) <= MaxDepth
                   => j \in W \cup revoked
      PROVE  \A j \in Issued' :
                 family'[j] = family'[d] /\ j > d /\ Cardinality(Links(d, j)') <= MaxDepth
                   => j \in W \cup revoked'
  <2> SUFFICES ASSUME NEW j \in Issued', family'[j] = family'[d], j > d,
                      Cardinality(Links(d, j)') <= MaxDepth
               PROVE  j \in W \cup revoked'
    OBVIOUS
  <2>1. CASE j \in Issued
    <3>1. family[j] = family[d] /\ Cardinality(Links(d, j)) <= MaxDepth
      BY <1>2, <2>1
    <3>2. QED
      BY <1>3, <1>8, <2>1, <3>1
  <2>2. CASE j = n
    <3>1. family[d] = family[g] /\ d # g
      BY <1>1, <1>2, <1>8, <2>2
    <3>2. d < g
      <4>1. d <= g /\ d \in Int /\ g \in Int
        BY <1>1, <1>4, <3>1
      <4>2. QED
        BY <3>1, <4>1
    <3>3. Links(d, g) \subseteq Links(d, n)' /\ Links(d, n)' \subseteq Ids
      <4>1. ASSUME NEW k \in Issued, family[k] = family[d], d < k, k <= g
            PROVE  k \in Issued' /\ family'[k] = family'[d] /\ k <= n
        <5>1. k < n /\ k \in Int /\ n \in Int
          BY <1>2, <1>4
        <5>2. QED
          BY <1>2, <4>1, <5>1
      <4>2. Links(d, n)' \subseteq Ids
        BY DEF Links, Issued
      <4>3. QED
        BY <4>1, <4>2 DEF Links
    <3>4. Cardinality(Links(d, g)) <= MaxDepth
      <4>1. /\ Cardinality(Links(d, g)) \in Nat /\ Cardinality(Links(d, n)') \in Nat
            /\ Cardinality(Links(d, g)) <= Cardinality(Links(d, n)')
        BY <3>3, IdsCard
      <4>2. QED
        BY <2>2, <4>1, TokensAssumption
    <3>5. g \in W \cup revoked
      BY <1>1, <1>8, <3>1, <3>2, <3>4
    <3>6. QED
      BY <1>1, <1>8, <3>5
  <2>3. QED
    BY <1>2, <2>1, <2>2
<1>9. RefreshesSound'
  <2> SUFFICES ASSUME NEW r \in Slots
               PROVE  IF tx'[r].kind = "none" THEN tx'[r] = Idle ELSE RefreshSound(tx[r])'
    BY DEF RefreshesSound
  <2>1. \/ tx'[r] = Idle
        \/ g \in tx[r].writes /\ tx'[r] = [tx[r] EXCEPT !.doomed = TRUE]
        \/ g \notin tx[r].writes /\ tx'[r] = tx[r]
    BY <1>3 DEF Doom, Conflict
  <2>2. CASE tx'[r] = Idle
    BY <2>2 DEF Idle
  <2>3. CASE tx[r].kind = "none"
    <3>1. tx[r] = Idle /\ g \notin tx[r].writes
      BY <2>3 DEF TokensInductive, RefreshesSound, Idle
    <3>2. tx'[r] = Idle
      BY <2>1, <3>1
    <3>3. QED
      BY <2>2, <3>2
  <2>4. CASE tx[r].kind # "none" /\ tx'[r] # Idle
    <3>1. RefreshSound(tx[r]) /\ tx[r].given \in Issued
      BY <2>4 DEF TokensInductive, RefreshesSound, RefreshSound
    <3>2. /\ tx'[r].kind = tx[r].kind /\ tx'[r].given = tx[r].given /\ tx'[r].writes = tx[r].writes
          /\ tx'[r].doomed \/ (tx'[r].doomed = tx[r].doomed /\ g \notin tx[r].writes)
      BY <1>4, <2>1, <2>4 DEF Transaction
    <3>3. ASSUME tx[r].kind = "replay", AboutToRevoke(tx[r]), g \notin tx[r].writes
          PROVE  AboutToRevoke(tx[r])'
      <4>1. PICK d \in Issued : d = tx[r].given
        BY <3>1
      <4>2. d \in revoked
        BY <3>1, <3>3, <4>1 DEF RefreshSound
      <4>3. \A j \in Issued :
              family[j] = family[d] /\ j > d /\ Cardinality(Links(d, j)) <= MaxDepth
                => j \in tx[r].writes \cup revoked
        BY <3>3, <4>1 DEF AboutToRevoke
      <4>4. \A j \in Issued' :
              family'[j] = family'[d] /\ j > d /\ Cardinality(Links(d, j)') <= MaxDepth
                => j \in tx[r].writes \cup revoked'
        BY <3>3, <4>2, <4>3, <1>8
      <4>5. QED
        BY <3>2, <4>1, <4>4 DEF AboutToRevoke
    <3>4. ASSUME NEW j \in Issued, family[j] = family[tx[r].given]
          PROVE  j \in Issued' /\ family'[j] = family'[tx[r].given]
      BY <1>2, <3>1, <3>4
    <3>5. tx'[r].given \in Issued'
      BY <1>2, <3>1, <3>2
    <3>6. CASE tx[r].kind = "rotate"
      <4>1. tx[r].writes = {tx[r].given} /\ (tx[r].doomed \/ tx[r].given \notin revoked)
        BY <3>1, <3>6 DEF RefreshSound
      <4>2. QED
        BY <1>3, <3>2, <3>5, <3>6, <4>1 DEF RefreshSound
    <3>7. CASE tx[r].kind = "replay"
      <4>1. /\ tx[r].given \in revoked'
            /\ \A j \in tx[r].writes : j \in Issued' /\ family'[j] = family'[tx[r].given]
        BY <1>3, <3>1, <3>4, <3>7 DEF RefreshSound
      <4>2. tx[r].doomed \/ AboutToRevoke(tx[r])
        BY <3>1, <3>7 DEF RefreshSound
      <4>3. tx'[r].doomed \/ AboutToRevoke(tx[r])'
        BY <3>2, <3>3, <3>7, <4>2
      <4>4. QED
        BY <3>2, <3>5, <3>7, <4>1, <4>3 DEF RefreshSound
    <3>8. tx[r].kind \in {"none", "rotate", "replay"}
      BY <1>4 DEF Transaction
    <3>9. QED
      BY <2>4, <3>2, <3>6, <3>7, <3>8
  <2>5. QED
    BY <2>2, <2>3, <2>4
<1>10. Explained'
  <2>1. ASSUME NEW i \in revoked', next'[i] = {} PROVE Ended(family[i])'
    <3>1. i # g /\ i \in revoked /\ next[i] = {}
      BY <1>3, <1>4, <1>5, <2>1
    <3>2. Ended(family[i])
      BY <3>1 DEF TokensInductive, Explained
    <3>3. QED
      BY <1>2, <1>3, <1>4, <3>1, <3>2 DEF Ended
  <2>2. QED
    BY <1>1, <1>2, <1>3, <2>1 DEF TokensInductive, Explained
<1>11. ReplayRevokesChain'
  <2> SUFFICES ASSUME NEW i \in replayed, NEW j \in Issued', family'[j] = family'[i], j > i,
                      Cardinality(Links(i, j)') <= MaxDepth
               PROVE  j \in revoked'
    BY <1>3 DEF ReplayRevokesChain
  <2>1. i \in Issued /\ i \in revoked
    BY <1>4
  <2>2. \A k \in Issued :
          family[k] = family[i] /\ k > i /\ Cardinality(Links(i, k)) <= MaxDepth => k \in {} \cup revoked
    BY DEF TokensInductive, ReplayRevokesChain
  <2>3. j \in {} \cup revoked'
    BY <1>8, <2>1, <2>2
  <2>4. QED
    BY <2>3
<1>12. QED
  BY <1>2, <1>6, <1>7, <1>9, <1>10, <1>11 DEF TokensInductive

-----------------------------------------------------------------------------
(* The theorems about the tokens                                            *)

LEMMA InitTokens == Init => TokensInductive
<1> SUFFICES ASSUME Init PROVE TokensInductive
  OBVIOUS
<1>1. Issued = {}
  BY DEF Init, Issued
<1>2. TypeOK
  BY IdleType, TokensAssumption DEF Init, TypeOK
<1>3. RefreshesSound
  BY DEF Init, RefreshesSound, Idle
<1>4. InOrder /\ Linked /\ Explained /\ ReplayRevokesChain
  BY <1>1 DEF Init, InOrder, Linked, Explained, ReplayRevokesChain
<1>5. QED
  BY <1>2, <1>3, <1>4 DEF TokensInductive

LEMMA TokensStep == TokensInductive /\ [Next]_vars => TokensInductive'
<1> SUFFICES ASSUME TokensInductive, [Next]_vars PROVE TokensInductive'
  OBVIOUS
<1>1. CASE UNCHANGED vars
  <2>1. UNCHANGED <<family, revoked, expired, next, tx, replayed, loggedOut>>
    BY <1>1 DEF vars, tokens
  <2>2. RefreshesSound'
    BY <2>1, LinksKept DEF TokensInductive, RefreshesSound, RefreshSound, AboutToRevoke, Idle
  <2>3. QED
    BY <2>1, <2>2, RevokeMore DEF TokensInductive, TypeOK, Explained, Ended
<1>2. QED
  BY <1>1, LoginStep, ExpireStep, LogoutStep, CommitRotationStep, CommitReplayStep, FailStep,
     BeginRefreshStep DEF Next

\* Of a family at most the newest token is unrevoked.
LEMMA OneUnrevoked == TokensInductive => OneLivePerFamily
<1> SUFFICES ASSUME TokensInductive, NEW i \in Issued, NEW j \in Issued,
                    family[i] = family[j], Live(i), Live(j)
             PROVE  i = j
  BY DEF OneLivePerFamily
<1>1. i <= j /\ j <= i
  BY UnrevokedIsNewest DEF TokensInductive, Live
<1>2. QED
  BY <1>1 DEF Issued, Ids

\* The invariant holds whatever refreshes, replays, logouts and failures do to
\* the tokens, and whoever presents them.
THEOREM TokensInvariant == Spec => []TokensInductive
BY InitTokens, TokensStep, PTL DEF Spec

-----------------------------------------------------------------------------
(* The session over the tokens                                              *)

\* Every step of the session is a step of the tokens, or leaves them.
LEMMA StepsOfTokens ==
    ASSUME SessionInductive, [SessionNext]_allVars
    PROVE  [Next]_vars
<1>1. Calls \subseteq Slots /\ \A c \in Calls : call[c].given \in Ids \/ call[c].given = 0
  BY CallsAssumption DEF SessionInductive, SessionTypeOK, Issued
<1>2. ASSUME NEW c \in Calls, Served(c) PROVE [Next]_vars
  <2>1. CASE ServeLogin(c)
    BY <2>1 DEF ServeLogin, Next
  <2>2. CASE ServeRefresh(c)
    BY <1>1, <2>2 DEF ServeRefresh, Next
  <2>3. CASE ServeRotation(c) \/ ServeRefusal(c)
    BY <1>1, <2>3 DEF ServeRotation, ServeRefusal, Next
  <2>4. CASE ServeLogout(c)
    BY <1>1, <2>4 DEF ServeLogout, Next
  <2>5. QED
    BY <1>2, <2>1, <2>2, <2>3, <2>4 DEF Served
<1>3. ASSUME NEW c \in Calls, Answered(c) PROVE UNCHANGED vars
  BY <1>3 DEF Answered, AnswerRefusal, AnswerRefresh, AnswerMe, AnswerLogin, AnswerLogout, LogoutFails, Lose
<1>4. ASSUME NEW c \in Calls, NEW t \in Tabs, Mount(c, t) \/ Retry(c, t) \/ HandleAuth(c, t) \/ SignOut(c, t)
      PROVE  UNCHANGED vars
  BY <1>4 DEF Mount, Retry, HandleAuth, SignOut
<1>5. ASSUME NEW t \in Tabs, AccessExpires(t) PROVE UNCHANGED vars
  BY <1>5 DEF AccessExpires
<1>6. ASSUME NEW s \in Slots, Foreign(s) \/ ForeignRotation(s) PROVE Next
  BY <1>6 DEF Foreign, ForeignRotation, Next
<1>7. ASSUME NEW i \in Ids, TokenExpires(i) PROVE Next
  BY <1>7 DEF TokenExpires, Next
<1>8. CASE UNCHANGED allVars
  BY <1>8 DEF allVars
<1>9. QED
  BY <1>2, <1>3, <1>4, <1>5, <1>6, <1>7, <1>8 DEF SessionNext

\* What the tabs hold, and the bound.
LEMMA TabsType ==
    ASSUME SessionInductive, [SessionNext]_allVars
    PROVE  /\ access' \in [Tabs -> {"none", "good", "late"}] /\ user' \subseteq Tabs
           /\ mishaps' \in 0..MaxMishaps
<1>1. /\ access \in [Tabs -> {"none", "good", "late"}] /\ user \subseteq Tabs
      /\ mishaps \in 0..MaxMishaps /\ MaxMishaps \in Nat
      /\ \A c \in Calls : call[c].tab \subseteq Tabs
  BY CallsAssumption DEF SessionInductive, SessionTypeOK, Call
<1>2. ASSUME Mishap PROVE mishaps' \in 0..MaxMishaps
  BY <1>1, <1>2 DEF Mishap
<1>3. ASSUME NEW c \in Calls, NEW t \in Tabs, Mount(c, t) \/ Retry(c, t) \/ HandleAuth(c, t) \/ SignOut(c, t)
      PROVE  access' \in [Tabs -> {"none", "good", "late"}] /\ user' \subseteq Tabs /\ mishaps' \in 0..MaxMishaps
  BY <1>1, <1>3 DEF Mount, Retry, HandleAuth, SignOut
<1>4. ASSUME NEW t \in Tabs, AccessExpires(t)
      PROVE  access' \in [Tabs -> {"none", "good", "late"}] /\ user' \subseteq Tabs /\ mishaps' \in 0..MaxMishaps
  BY <1>1, <1>4 DEF AccessExpires
<1>5. ASSUME NEW c \in Calls, Served(c) PROVE UNCHANGED <<access, user, mishaps>>
  BY <1>5 DEF Served, ServeLogin, ServeRefresh, ServeRotation, ServeRefusal, ServeLogout
<1>6. ASSUME NEW c \in Calls, Answered(c)
      PROVE  access' \in [Tabs -> {"none", "good", "late"}] /\ user' \subseteq Tabs /\ mishaps' \in 0..MaxMishaps
  BY <1>1, <1>2, <1>6
  DEF Answered, AnswerRefusal, AnswerRefresh, AnswerMe, AnswerLogin, AnswerLogout, LogoutFails, Lose, SignedOut
<1>7. ASSUME NEW s \in Slots, Foreign(s) \/ ForeignRotation(s)
      PROVE  UNCHANGED <<access, user>> /\ mishaps' \in 0..MaxMishaps
  BY <1>1, <1>2, <1>7 DEF Foreign, ForeignRotation
<1>8. ASSUME NEW i \in Ids, TokenExpires(i)
      PROVE  UNCHANGED <<access, user>> /\ mishaps' \in 0..MaxMishaps
  BY <1>2, <1>8 DEF TokenExpires
<1>9. CASE UNCHANGED allVars
  BY <1>1, <1>9 DEF allVars, sessionVars
<1>10. QED
  BY <1>1, <1>3, <1>4, <1>5, <1>6, <1>7, <1>8, <1>9 DEF SessionNext

\* What the steps below establish.
Delivery ==
    /\ jar \in Issued \cup {0} /\ call \in [Calls -> Call]
    /\ \A c \in Calls : {call[c].given, call[c].got} \subseteq Issued \cup {0}
    /\ astray \cup raced \subseteq Issued
    /\ CallsServed /\ AnswersAlone
    /\ AnswersNewest /\ CookieNewest /\ SignOutNewest /\ SignedOutEnded

\* A slot's transaction after a commit, unless it has ended, is what it was.
LEMMA DoomKeeps ==
    ASSUME tx \in [Slots -> Transaction], NEW W, NEW D, tx' = Doom(W, D), NEW s \in Slots
    PROVE  tx'[s].kind # "none" => tx[s].kind # "none" /\ tx'[s].given = tx[s].given /\ s \notin D
BY DEF Doom, Transaction, Idle

-----------------------------------------------------------------------------
(* Steps of one call that issue no token                                    *)

LEMMA CallStepQuiet ==
    ASSUME SessionInductive, UNCHANGED family,
           NEW c \in Calls, NEW r \in Call, call' = [call EXCEPT ![c] = r],
           r.got = 0, r.given \in {0, jar, call[c].given},
           jar' \in {jar, 0, call[c].got},
           astray \subseteq astray', raced \subseteq raced', astray' \cup raced' \subseteq Issued,
           Does(c, "refresh", "answered") /\ call[c].got # 0 => jar' = call[c].got \/ call[c].got \in astray',
           r.op = "logout" /\ r.phase = "sent" => r.given = jar /\ Undelivered \subseteq raced',
           \A s \in Calls \ {c} : tx'[s].kind # "none" => tx[s].kind # "none" /\ tx'[s].given = tx[s].given,
           tx'[c].kind # "none" => r.op = "refresh" /\ r.phase = "served" /\ tx'[c].given = r.given,
           revoked \subseteq revoked',
           \A i \in Issued \ revoked' :
               family[i] \in loggedOut' => family[i] \in loggedOut \/ Covers(astray \cup raced, i)
    PROVE  Delivery'
<1> USE DEF SessionInductive
<1>1. /\ call \in [Calls -> Call] /\ jar \in Issued \cup {0} /\ 0 \notin Issued
      /\ \A d \in Calls : {call[d].given, call[d].got} \subseteq Issued \cup {0}
      /\ call'[c] = r /\ \A d \in Calls : d # c => call'[d] = call[d]
      /\ Issued' = Issued
  BY DEF SessionTypeOK, Issued, Ids
<1>2. /\ jar' \in Issued' \cup {0} /\ call' \in [Calls -> Call]
      /\ \A d \in Calls : {call'[d].given, call'[d].got} \subseteq Issued' \cup {0}
      /\ astray' \cup raced' \subseteq Issued'
  BY <1>1
<1>3. CallsServed'
  BY <1>1 DEF CallsServed, Does
<1>4. ASSUME NEW d \in Calls, call'[d].got # 0 PROVE d # c /\ call'[d] = call[d] /\ call[d].got # 0
  BY <1>1, <1>4
<1>5. AnswersAlone'
  <2> SUFFICES ASSUME NEW d \in Calls, call'[d].got # 0
               PROVE  /\ jar' # call'[d].got
                      /\ \A e \in Calls : call'[e].given # call'[d].got /\ (call'[e].got = call'[d].got => e = d)
    BY DEF AnswersAlone
  <2>1. d # c /\ call'[d] = call[d] /\ call[d].got # 0
    BY <1>4
  <2>2. /\ jar # call[d].got
        /\ \A e \in Calls : call[e].given # call[d].got /\ (call[e].got = call[d].got => e = d)
    BY <2>1 DEF AnswersAlone
  <2>3. jar' # call[d].got
    BY <2>1, <2>2
  <2>4. ASSUME NEW e \in Calls PROVE call'[e].given # call[d].got /\ (call'[e].got = call[d].got => e = d)
    BY <1>1, <2>1, <2>2
  <2>5. QED
    BY <2>1, <2>3, <2>4
<1>6. ASSUME NEW i \in Issued, NEW S, NEW T, NewerThan(i, S), S \subseteq T
      PROVE  \A j \in Issued : family[j] = family[i] /\ j > i => \E k \in T : family[k] = family[j] /\ k <= j
  BY <1>6 DEF NewerThan, Covers
<1>7. AnswersNewest'
  <2> SUFFICES ASSUME NEW d \in Calls, call'[d].got # 0
               PROVE  \A j \in Issued : family[j] = family[call'[d].got] /\ j > call'[d].got =>
                        \E k \in astray' : family[k] = family[j] /\ k <= j
    BY <1>1 DEF AnswersNewest, NewerThan, Covers
  <2>1. call'[d] = call[d] /\ call[d].got # 0 /\ call[d].got \in Issued
    BY <1>1, <1>4
  <2>2. NewerThan(call[d].got, astray)
    BY <2>1 DEF AnswersNewest
  <2>3. QED
    BY <1>6, <2>1, <2>2
<1>8. CookieNewest'
  <2> SUFFICES ASSUME jar' # 0, NEW j \in Issued, family[j] = family[jar'], j > jar'
               PROVE  \E k \in astray' \cup Undelivered' : family[k] = family[j] /\ k <= j
    BY <1>1 DEF CookieNewest, NewerThan, Covers
  <2>1. CASE jar' = call[c].got
    <3>1. NewerThan(call[c].got, astray) /\ call[c].got \in Issued
      BY <1>1, <2>1 DEF AnswersNewest
    <3>2. QED
      BY <1>6, <2>1, <3>1
  <2>2. CASE jar' = jar /\ jar' # call[c].got
    <3>1. PICK k \in astray \cup Undelivered : family[k] = family[j] /\ k <= j
      BY <1>1, <2>2 DEF CookieNewest, NewerThan, Covers
    <3>2. k \in astray' \cup Undelivered'
      <4>1. CASE k \in astray
        BY <4>1
      <4>2. CASE k \in Undelivered
        <5>1. PICK d \in Calls : Does(d, "refresh", "answered") /\ k = call[d].got /\ k # 0
          BY <4>2 DEF Undelivered
        <5>2. CASE d = c
          BY <2>2, <5>1, <5>2
        <5>3. CASE d # c
          BY <1>1, <5>1, <5>3 DEF Undelivered, Does
        <5>4. QED
          BY <5>2, <5>3
      <4>3. QED
        BY <3>1, <4>1, <4>2
    <3>3. QED
      BY <3>1, <3>2
  <2>3. QED
    BY <2>1, <2>2
<1>9. SignOutNewest'
  <2> SUFFICES ASSUME NEW d \in Calls, call'[d].op = "logout", call'[d].phase = "sent", call'[d].given # 0,
                      NEW j \in Issued, family[j] = family[call'[d].given], j > call'[d].given
               PROVE  \E k \in astray' \cup raced' : family[k] = family[j] /\ k <= j
    BY <1>1 DEF SignOutNewest, NewerThan, Covers, Does
  <2>1. CASE d = c
    <3>1. call'[d].given = jar /\ jar # 0 /\ Undelivered \subseteq raced'
      BY <1>1, <2>1
    <3>2. QED
      BY <3>1 DEF CookieNewest, NewerThan, Covers
  <2>2. CASE d # c
    <3>1. call'[d] = call[d]
      BY <1>1, <2>2
    <3>2. NewerThan(call[d].given, astray \cup raced) /\ call[d].given \in Issued
      BY <1>1, <3>1 DEF SignOutNewest, Does
    <3>3. QED
      BY <3>1, <3>2 DEF NewerThan, Covers
  <2>3. QED
    BY <2>1, <2>2
<1>10. SignedOutEnded'
  <2> SUFFICES ASSUME NEW i \in Issued \ revoked', family[i] \in loggedOut'
               PROVE  \E k \in astray' \cup raced' : family[k] = family[i] /\ k <= i
    BY <1>1 DEF SignedOutEnded, Covers
  <2>1. Covers(astray \cup raced, i)
    BY DEF SignedOutEnded
  <2>2. QED
    BY <2>1 DEF Covers
<1>11. QED
  BY <1>2, <1>3, <1>5, <1>7, <1>8, <1>9, <1>10 DEF Delivery

\* Steps of no call: what a call is served for stays.
LEMMA StepElsewhere ==
    ASSUME SessionInductive, UNCHANGED <<family, jar, call, astray, raced, loggedOut>>, revoked \subseteq revoked',
           \A s \in Calls : tx'[s].kind # "none" => tx[s].kind # "none" /\ tx'[s].given = tx[s].given
    PROVE  Delivery'
<1>1. Issued' = Issued /\ Undelivered' = Undelivered
  BY DEF Issued, Undelivered, Does
<1>2. /\ jar' \in Issued' \cup {0} /\ call' \in [Calls -> Call]
      /\ \A c \in Calls : {call'[c].given, call'[c].got} \subseteq Issued' \cup {0}
      /\ astray' \cup raced' \subseteq Issued'
  BY <1>1 DEF SessionInductive, SessionTypeOK
<1>3. CallsServed' /\ AnswersAlone'
  BY DEF SessionInductive, CallsServed, AnswersAlone, Does
<1>4. AnswersNewest' /\ CookieNewest' /\ SignOutNewest'
  BY <1>1 DEF SessionInductive, AnswersNewest, CookieNewest, SignOutNewest, NewerThan, Covers, Does
<1>5. SignedOutEnded'
  BY <1>1 DEF SessionInductive, SignedOutEnded, Covers
<1>6. QED
  BY <1>2, <1>3, <1>4, <1>5 DEF Delivery

-----------------------------------------------------------------------------
(* Steps that issue a token                                                 *)

\* A step issues the token n.
Issues(n) ==
    /\ n \notin Issued /\ Issued' = Issued \cup {n}
    /\ \A i \in Issued : family'[i] = family[i] /\ i < n
    /\ UNCHANGED <<jar, loggedOut>> /\ revoked \subseteq revoked'
    /\ astray \subseteq astray' /\ raced \subseteq raced' /\ astray' \cup raced' \subseteq Issued'

\* The token is in the answer of a call, the one member of C, if it has one.
Takes(n, C) ==
    /\ call' \in [Calls -> Call] /\ \A c, d \in C : c = d
    /\ \A d \in Calls \ C : call'[d] = call[d]
    /\ \A c \in C : /\ call[c].got = 0 /\ call'[c].got = n /\ call'[c].given = 0
                    /\ call'[c].phase = "answered" /\ call'[c].op \in {"refresh", "login"}
    /\ \A s \in Calls : tx'[s].kind # "none" => s \notin C /\ tx[s].kind # "none" /\ tx'[s].given = tx[s].given

\* It replaces g, the newest of its family.
Succeeds(n, g) ==
    /\ family'[n] = family[g] /\ \A i \in Issued : family[i] = family[g] => i <= g
    /\ \/ n \in astray'
       \/ /\ \A d \in Calls : call[d].got # g
          /\ n \in Undelivered' /\ (SigningOut => n \in raced')

LEMMA IssueStep ==
    ASSUME SessionInductive, NEW n \in Ids, NEW C \in SUBSET Calls, Issues(n), Takes(n, C),
           \/ family'[n] = n /\ n \notin loggedOut
           \/ \E g \in Issued \ revoked : Succeeds(n, g)
    PROVE  Delivery'
<1> USE DEF SessionInductive, Issues, Takes, Succeeds
<1>1. /\ call \in [Calls -> Call] /\ jar \in Issued \cup {0} /\ 0 \notin Issued'
      /\ \A d \in Calls : {call[d].given, call[d].got} \subseteq Issued \cup {0}
      /\ astray \cup raced \subseteq Issued /\ n # 0 /\ n \in Int
  BY DEF SessionTypeOK, Issued, Ids
<1>2. /\ \A i \in Issued : i \in Int /\ family[i] \in Issued /\ family[i] < n /\ family[i] # n
      /\ loggedOut \subseteq Issued
  BY DEF TokensInductive, InOrder, Explained, Issued, Ids
<1>3. /\ jar' \in Issued' \cup {0}
      /\ \A d \in Calls : {call'[d].given, call'[d].got} \subseteq Issued' \cup {0}
      /\ astray' \cup raced' \subseteq Issued'
  BY <1>1
<1>4. CallsServed'
  BY <1>1 DEF CallsServed, Does
<1>5. ASSUME NEW d \in Calls, d \notin C PROVE call'[d] = call[d] /\ call'[d].got # n /\ call'[d].given # n
  BY <1>1, <1>5
<1>6. AnswersAlone'
  <2> SUFFICES ASSUME NEW c \in Calls, call'[c].got # 0
               PROVE  /\ jar # call'[c].got
                      /\ \A d \in Calls : call'[d].given # call'[c].got /\ (call'[d].got = call'[c].got => d = c)
    BY DEF AnswersAlone
  <2>1. CASE c \in C
    BY <1>1, <1>5, <2>1
  <2>2. CASE c \notin C
    <3>1. call'[c] = call[c] /\ call[c].got # n
      BY <1>5, <2>2
    <3>2. /\ jar # call[c].got
          /\ \A d \in Calls : call[d].given # call[c].got /\ (call[d].got = call[c].got => d = c)
      BY <3>1 DEF AnswersAlone
    <3>3. QED
      BY <1>5, <2>2, <3>1, <3>2
  <2>3. QED
    BY <2>1, <2>2
<1>7. ASSUME NEW i \in Issued, NEW S \in SUBSET Issued, NEW T, NewerThan(i, S), S \subseteq T,
             family'[n] = family[i] => \E k \in T : family'[k] = family'[n] /\ k <= n
      PROVE  \A j \in Issued' : family'[j] = family'[i] /\ j > i => \E k \in T : family'[k] = family'[j] /\ k <= j
  BY <1>7 DEF NewerThan, Covers
<1>8. Undelivered \subseteq Undelivered' /\ Undelivered \subseteq Issued
  <2>1. ASSUME NEW k \in Undelivered PROVE k \in Undelivered' /\ k \in Issued
    <3>1. PICK d \in Calls : Does(d, "refresh", "answered") /\ k = call[d].got /\ k # 0
      BY DEF Undelivered
    <3>2. call'[d] = call[d]
      BY <3>1
    <3>3. QED
      BY <1>1, <3>1, <3>2 DEF Undelivered, Does
  <2>2. QED
    BY <2>1
<1>9. AnswersNewest'
  <2> SUFFICES ASSUME NEW c \in Calls, call'[c].got # 0
               PROVE  \A j \in Issued' : family'[j] = family'[call'[c].got] /\ j > call'[c].got =>
                        \E k \in astray' : family'[k] = family'[j] /\ k <= j
    BY DEF AnswersNewest, NewerThan, Covers
  <2>1. CASE c \in C
    <3>1. call'[c].got = n /\ \A j \in Issued' : ~(j > n)
      BY <1>1, <1>2, <2>1
    <3>2. QED
      BY <3>1
  <2>2. CASE c \notin C
    <3>1. call'[c] = call[c] /\ call[c].got # 0 /\ call[c].got \in Issued
      BY <1>1, <1>5, <2>2
    <3> DEFINE x == call[c].got
    <3>2. NewerThan(x, astray) /\ astray \in SUBSET Issued
      BY <1>1, <3>1 DEF AnswersNewest
    <3>3. ASSUME family'[n] = family[x] PROVE \E k \in astray' : family'[k] = family'[n] /\ k <= n
      <4>1. PICK g \in Issued \ revoked :
              /\ family'[n] = family[g] /\ \A i \in Issued : family[i] = family[g] => i <= g
              /\ n \in astray' \/ \A d \in Calls : call[d].got # g
        BY <1>2, <3>1, <3>3
      <4>2. CASE n \in astray'
        BY <1>1, <4>2
      <4>3. CASE \A d \in Calls : call[d].got # g
        <5>1. x \in Int /\ g \in Int /\ x # g /\ x <= g
          BY <1>2, <3>1, <3>3, <4>1, <4>3
        <5>2. Covers(astray, g)
          BY <3>2, <3>3, <4>1, <5>1 DEF NewerThan
        <5>3. PICK k \in astray : family[k] = family[g] /\ k <= g
          BY <5>2 DEF Covers
        <5>4. k \in Issued /\ k < n
          BY <1>1, <5>3
        <5>5. QED
          BY <1>1, <1>2, <4>1, <5>3, <5>4
      <4>4. QED
        BY <4>1, <4>2, <4>3
    <3> HIDE DEF x
    <3>4. x \in Issued /\ call'[c].got = x
      BY <3>1 DEF x
    <3>5. QED
      BY <1>7, <3>2, <3>3, <3>4
  <2>3. QED
    BY <2>1, <2>2
<1>10. CookieNewest'
  <2> SUFFICES ASSUME jar # 0
               PROVE  \A j \in Issued' : family'[j] = family'[jar] /\ j > jar =>
                        \E k \in astray' \cup Undelivered' : family'[k] = family'[j] /\ k <= j
    BY DEF CookieNewest, NewerThan, Covers
  <2>1. jar \in Issued /\ NewerThan(jar, astray \cup Undelivered) /\ astray \cup Undelivered \in SUBSET Issued
    BY <1>1, <1>8 DEF CookieNewest
  <2>2. family'[n] = family[jar] => \E k \in astray' \cup Undelivered' : family'[k] = family'[n] /\ k <= n
    <3>1. n <= n /\ (family'[n] = family[jar] => n \in astray' \cup Undelivered')
      BY <1>1, <1>2, <2>1
    <3>2. QED
      BY <3>1
  <2>3. astray \cup Undelivered \subseteq astray' \cup Undelivered'
    BY <1>8
  <2>4. QED
    BY <1>7, <2>1, <2>2, <2>3
<1>11. SignOutNewest'
  <2> SUFFICES ASSUME NEW c \in Calls, Does(c, "logout", "sent")', call'[c].given # 0
               PROVE  \A j \in Issued' : family'[j] = family'[call'[c].given] /\ j > call'[c].given =>
                        \E k \in astray' \cup raced' : family'[k] = family'[j] /\ k <= j
    BY DEF SignOutNewest, NewerThan, Covers
  <2>1. c \notin C /\ call'[c] = call[c]
    BY DEF Does
  <2>2. Does(c, "logout", "sent") /\ SigningOut
    BY <2>1 DEF Does, SigningOut
  <2>3. PICK h \in Issued : h = call'[c].given
    BY <1>1, <2>1
  <2>4. NewerThan(h, astray \cup raced) /\ astray \cup raced \in SUBSET Issued
    BY <1>1, <2>1, <2>2, <2>3 DEF SignOutNewest
  <2>5. family'[n] = family[h] => \E k \in astray' \cup raced' : family'[k] = family'[n] /\ k <= n
    <3>1. n <= n /\ (family'[n] = family[h] => n \in astray' \cup raced')
      BY <1>1, <1>2, <2>2
    <3>2. QED
      BY <3>1
  <2>6. astray \cup raced \subseteq astray' \cup raced'
    OBVIOUS
  <2>7. \A j \in Issued' : family'[j] = family'[h] /\ j > h =>
            \E k \in astray' \cup raced' : family'[k] = family'[j] /\ k <= j
    BY <1>7, <2>4, <2>5, <2>6
  <2>8. QED
    BY <2>3, <2>7
<1>12. SignedOutEnded'
  <2> SUFFICES ASSUME NEW i \in Issued' \ revoked', family'[i] \in loggedOut
               PROVE  \E k \in astray' \cup raced' : family'[k] = family'[i] /\ k <= i
    BY DEF SignedOutEnded, Covers
  <2>1. ASSUME NEW j \in Issued \ revoked, family[j] \in loggedOut, family'[i] = family[j], j <= i
        PROVE  \E k \in astray' \cup raced' : family'[k] = family'[i] /\ k <= i
    <3>1. PICK k \in astray \cup raced : family[k] = family[j] /\ k <= j
      BY <2>1 DEF SignedOutEnded, Covers
    <3>2. k \in Issued /\ k \in Int /\ j \in Int /\ i \in Int
      BY <1>1, <1>2
    <3>3. QED
      BY <2>1, <3>1, <3>2
  <2>2. CASE i = n
    <3>1. PICK g \in Issued \ revoked : family'[n] = family[g]
      BY <1>2, <2>2
    <3>2. g <= n /\ family[g] \in loggedOut
      BY <1>1, <1>2, <2>2, <3>1
    <3>3. QED
      BY <2>1, <2>2, <3>1, <3>2
  <2>3. CASE i # n
    <3>1. i \in Issued \ revoked /\ family'[i] = family[i] /\ i <= i
      BY <1>2, <2>3
    <3>2. QED
      BY <2>1, <3>1
  <2>4. QED
    BY <2>2, <2>3
<1>13. QED
  BY <1>3, <1>4, <1>6, <1>9, <1>10, <1>11, <1>12 DEF Delivery

-----------------------------------------------------------------------------
(* The actions of the session                                               *)

\* Only a call that refreshes has a transaction, and only while it is served.
LEMMA ServedHasTx ==
    ASSUME SessionInductive, NEW c \in Calls, ~Does(c, "refresh", "served")
    PROVE  tx[c].kind = "none"
BY DEF SessionInductive, CallsServed

\* What is on its way to a tab, or came there, has been issued.
LEMMA HeldIssued ==
    ASSUME SessionInductive
    PROVE  /\ call \in [Calls -> Call] /\ jar \in Issued \cup {0}
           /\ \A c \in Calls : {call[c].given, call[c].got} \subseteq Issued \cup {0}
           /\ astray \cup raced \subseteq Issued /\ Undelivered \subseteq Issued
           /\ Issued \subseteq 0..MaxTokens
<1>1. /\ call \in [Calls -> Call] /\ jar \in Issued \cup {0}
      /\ \A c \in Calls : {call[c].given, call[c].got} \subseteq Issued \cup {0}
      /\ astray \cup raced \subseteq Issued
  BY DEF SessionInductive, SessionTypeOK
<1>2. Undelivered \subseteq Issued
  BY <1>1 DEF Undelivered
<1>3. QED
  BY <1>1, <1>2, TokensAssumption DEF Issued, Ids

LEMMA LeaveStep ==
    ASSUME SessionInductive, NEW c \in Calls, NEW t \in Tabs,
           Mount(c, t) \/ Retry(c, t) \/ HandleAuth(c, t) \/ SignOut(c, t)
    PROVE  Delivery'
<1>1. PICK op \in {"refresh", "login", "logout"} :
        Send(c, op, t) /\ (op = "logout" => Undelivered \subseteq raced')
  BY DEF Mount, Retry, HandleAuth, SignOut
<1> DEFINE r == [phase |-> "sent", op |-> op, tab |-> {t}, given |-> jar, got |-> 0]
<1>2. call[c].phase = "idle" /\ call' = [call EXCEPT ![c] = r]
  BY <1>1 DEF Send
<1>3. /\ UNCHANGED <<family, revoked, loggedOut, tx, jar, astray>>
      /\ raced \subseteq raced' /\ raced' \subseteq raced \cup Undelivered
  BY DEF Mount, Retry, HandleAuth, SignOut, vars, tokens
<1>4. r \in Call
  <2>1. jar \in 0..MaxTokens /\ 0 \in 0..MaxTokens
    BY HeldIssued, TokensAssumption
  <2>2. QED
    BY <2>1 DEF Call
<1>5. r.got = 0 /\ r.given = jar /\ r.op = op /\ tx[c].kind = "none" /\ ~Does(c, "refresh", "answered")
  BY <1>2, ServedHasTx DEF Does
<1>6. astray' \cup raced' \subseteq Issued
  BY <1>3, HeldIssued
<1> HIDE DEF r
<1>7. QED
  BY <1>1, <1>2, <1>3, <1>4, <1>5, <1>6, CallStepQuiet

LEMMA AnswerStep ==
    ASSUME SessionInductive, NEW c \in Calls, Answered(c)
    PROVE  Delivery'
<1>1. PICK r \in {NoCall, [NoCall EXCEPT !.phase = "me", !.tab = call[c].tab]} : call' = [call EXCEPT ![c] = r]
  BY DEF Answered, AnswerRefusal, AnswerRefresh, AnswerMe, AnswerLogin, AnswerLogout, LogoutFails, Lose,
         SignedOut, End
<1>2. r \in Call /\ r.got = 0 /\ r.given = 0 /\ r.op = "none"
  <2>1. call[c].tab \in SUBSET Tabs /\ 0 \in 0..MaxTokens
    BY HeldIssued, TokensAssumption DEF Call
  <2>2. NoCall \in Call /\ NoCall.got = 0 /\ NoCall.given = 0 /\ NoCall.op = "none"
    BY <2>1 DEF NoCall, Call
  <2>3. CASE r = NoCall
    BY <2>2, <2>3
  <2>4. CASE r = [NoCall EXCEPT !.phase = "me", !.tab = call[c].tab]
    <3> HIDE DEF NoCall
    <3>1. QED
      BY <2>1, <2>2, <2>4 DEF Call
  <2>5. QED
    BY <2>3, <2>4
<1>3. UNCHANGED <<family, revoked, loggedOut, tx, raced>>
  BY DEF Answered, AnswerRefusal, AnswerRefresh, AnswerMe, AnswerLogin, AnswerLogout, LogoutFails, Lose,
         vars, tokens
<1>4. /\ jar' \in {jar, 0, call[c].got}
      /\ astray \subseteq astray' /\ astray' \subseteq astray \cup ({call[c].got} \ {0})
      /\ Does(c, "refresh", "answered") /\ call[c].got # 0 => jar' = call[c].got \/ call[c].got \in astray'
  BY DEF Answered, AnswerRefusal, AnswerRefresh, AnswerMe, AnswerLogin, AnswerLogout, LogoutFails, Lose, Does
<1>5. ~Does(c, "refresh", "served")
  BY DEF Answered, AnswerRefusal, AnswerRefresh, AnswerMe, AnswerLogin, AnswerLogout, LogoutFails, Lose, Does,
         SessionInductive, CallsServed
<1>6. tx[c].kind = "none"
  BY <1>5, ServedHasTx
<1>7. astray' \cup raced' \subseteq Issued
  BY <1>3, <1>4, HeldIssued
<1>8. QED
  BY <1>1, <1>2, <1>3, <1>4, <1>6, <1>7, CallStepQuiet

LEMMA ReplyRecord ==
    ASSUME SessionInductive, NEW c \in Calls, NEW got \in 0..MaxTokens, Reply(c, got)
    PROVE  \E r \in Call :
             /\ call' = [call EXCEPT ![c] = r]
             /\ r.phase = "answered" /\ r.op = call[c].op /\ r.given = 0 /\ r.got = got
<1>1. call[c] \in Call /\ 0 \in 0..MaxTokens
  BY HeldIssued, TokensAssumption
<1> DEFINE r == [call[c] EXCEPT !.phase = "answered", !.given = 0, !.got = got]
<1>2. r \in Call /\ r.phase = "answered" /\ r.op = call[c].op /\ r.given = 0 /\ r.got = got
  BY <1>1 DEF Call
<1>3. call' = [call EXCEPT ![c] = r]
  BY HeldIssued DEF Reply
<1>4. QED
  BY <1>2, <1>3

LEMMA ServeRefreshStep ==
    ASSUME SessionInductive, NEW c \in Calls, ServeRefresh(c)
    PROVE  Delivery'
<1>1. /\ Does(c, "refresh", "sent") /\ UNCHANGED <<jar, astray, raced>> /\ call[c] \in Call
      /\ call[c].got = 0 /\ astray \cup raced \subseteq Issued /\ tx[c].kind = "none" /\ 0 \in 0..MaxTokens
      /\ tx \in [Slots -> Transaction] /\ Calls \subseteq Slots
  BY HeldIssued, ServedHasTx, TokensAssumption, CallsAssumption
  DEF ServeRefresh, Does, SessionInductive, CallsServed, TokensInductive, SessionTypeOK, TypeOK
<1>2. CASE Reply(c, 0) /\ UNCHANGED vars
  <2>1. PICK r \in Call :
          /\ call' = [call EXCEPT ![c] = r]
          /\ r.phase = "answered" /\ r.op = call[c].op /\ r.given = 0 /\ r.got = 0
    BY <1>1, <1>2, ReplyRecord
  <2>2. UNCHANGED <<family, revoked, loggedOut, tx>>
    BY <1>2 DEF vars, tokens
  <2>3. QED
    BY <1>1, <2>1, <2>2, CallStepQuiet DEF Does
<1>3. CASE call' = [call EXCEPT ![c].phase = "served"] /\ BeginRefresh(c, call[c].given)
  <2> DEFINE r == [call[c] EXCEPT !.phase = "served"]
  <2>1. call' = [call EXCEPT ![c] = r]
    BY <1>3, HeldIssued
  <2>2. r \in Call /\ r.op = "refresh" /\ r.phase = "served" /\ r.given = call[c].given /\ r.got = 0
    BY <1>1 DEF Call, Does
  <2>3. UNCHANGED <<family, revoked, loggedOut>>
    BY <1>3 DEF BeginRefresh, tokens
  <2>4. tx'[c].given = call[c].given /\ \A s \in Calls \ {c} : tx'[s] = tx[s]
    BY <1>1, <1>3 DEF BeginRefresh
  <2> HIDE DEF r
  <2>5. QED
    BY <1>1, <2>1, <2>2, <2>3, <2>4, CallStepQuiet DEF Does
<1>4. QED
  BY <1>2, <1>3 DEF ServeRefresh

LEMMA ServeRefusalStep ==
    ASSUME SessionInductive, NEW c \in Calls, ServeRefusal(c)
    PROVE  Delivery'
<1>1. /\ UNCHANGED <<jar, astray, raced>> /\ astray \cup raced \subseteq Issued /\ 0 \in 0..MaxTokens
      /\ tx \in [Slots -> Transaction] /\ Calls \subseteq Slots
  BY HeldIssued, TokensAssumption, CallsAssumption
  DEF ServeRefusal, SessionInductive, TokensInductive, SessionTypeOK, TypeOK
<1>2. Does(c, "refresh", "served")
  BY ServedHasTx DEF ServeRefusal, CommitReplay, Fail
<1>3. PICK r \in Call :
        /\ call' = [call EXCEPT ![c] = r]
        /\ r.phase = "answered" /\ r.op = call[c].op /\ r.given = 0 /\ r.got = 0
  BY <1>1, ReplyRecord DEF ServeRefusal
<1>4. UNCHANGED <<family, loggedOut>> /\ revoked \subseteq revoked'
  BY DEF ServeRefusal, CommitReplay, Fail, tokens
<1>5. /\ tx'[c].kind = "none"
      /\ \A s \in Calls \ {c} : tx'[s].kind # "none" => tx[s].kind # "none" /\ tx'[s].given = tx[s].given
  <2>1. CASE CommitReplay(c)
    <3>1. tx' = Doom(tx[c].writes, {c})
      BY <2>1 DEF CommitReplay
    <3>2. QED
      BY <1>1, <3>1, DoomKeeps
  <2>2. CASE Fail(c)
    BY <1>1, <2>2 DEF Fail, Idle
  <2>3. QED
    BY <2>1, <2>2 DEF ServeRefusal
<1>6. r.op = "refresh" /\ ~Does(c, "refresh", "answered")
  BY <1>2, <1>3 DEF Does
<1>7. QED
  BY <1>1, <1>3, <1>4, <1>5, <1>6, CallStepQuiet

\* The token that is signed out is unrevoked only if it is the newest of its
\* family: what is live after it is newer.
LEMMA ServeLogoutStep ==
    ASSUME SessionInductive, NEW c \in Calls, ServeLogout(c)
    PROVE  Delivery'
<1> DEFINE g == call[c].given
<1>1. /\ UNCHANGED <<jar, astray, raced>> /\ astray \cup raced \subseteq Issued /\ 0 \in 0..MaxTokens
      /\ tx \in [Slots -> Transaction] /\ Calls \subseteq Slots /\ g \in Issued \cup {0}
  BY HeldIssued, TokensAssumption, CallsAssumption
  DEF ServeLogout, SessionInductive, TokensInductive, SessionTypeOK, TypeOK
<1>2. Does(c, "logout", "sent") /\ tx[c].kind = "none" /\ ~Does(c, "refresh", "answered")
  BY ServedHasTx DEF ServeLogout, Does
<1>3. PICK r \in Call :
        /\ call' = [call EXCEPT ![c] = r]
        /\ r.phase = "answered" /\ r.op = call[c].op /\ r.given = 0 /\ r.got = 0
  BY <1>1, ReplyRecord DEF ServeLogout
<1>4. CASE g = 0
  <2>1. UNCHANGED <<family, revoked, loggedOut, tx>>
    BY <1>4 DEF ServeLogout, vars, tokens
  <2>2. QED
    BY <1>1, <1>2, <1>3, <2>1, CallStepQuiet
<1>5. CASE g # 0
  <2>1. /\ UNCHANGED family /\ revoked' = revoked \cup {g} /\ loggedOut' = loggedOut \cup {family[g]}
        /\ tx' = tx \/ tx' = Doom({g}, {})
    BY <1>5 DEF ServeLogout, Logout
  <2>2. \A s \in Calls : tx'[s].kind # "none" => tx[s].kind # "none" /\ tx'[s].given = tx[s].given
    BY <1>1, <2>1, DoomKeeps
  <2>3. ASSUME NEW i \in Issued \ revoked', family[i] = family[g] PROVE Covers(astray \cup raced, i)
    <3>1. g <= i /\ g # i /\ g \in Int /\ i \in Int
      BY <1>1, <1>5, <2>1, <2>3, UnrevokedIsNewest DEF SessionInductive, TokensInductive, Issued, Ids
    <3>2. NewerThan(g, astray \cup raced)
      BY <1>2, <1>5 DEF SessionInductive, SignOutNewest
    <3>3. QED
      BY <2>3, <3>1, <3>2 DEF NewerThan
  <2>4. \A i \in Issued \ revoked' :
            family[i] \in loggedOut' => family[i] \in loggedOut \/ Covers(astray \cup raced, i)
    BY <2>1, <2>3
  <2>5. r.op # "refresh" /\ tx'[c].kind = "none" /\ r.phase # "sent"
    BY <1>2, <1>3, <2>2 DEF Does
  <2>6. UNCHANGED family /\ revoked \subseteq revoked'
    BY <2>1
  <2>7. QED
    BY <1>1, <1>2, <1>3, <2>2, <2>4, <2>5, <2>6, CallStepQuiet
<1>6. QED
  BY <1>4, <1>5

LEMMA ServeLoginStep ==
    ASSUME SessionInductive, NEW c \in Calls, ServeLogin(c)
    PROVE  Delivery'
<1>1. PICK n \in Ids : Fresh(n) /\ family' = [family EXCEPT ![n] = n]
  BY DEF ServeLogin, Login
<1>2. PICK j \in Ids : Fresh(j) /\ Reply(c, j)
  BY DEF ServeLogin
<1>3. j = n
  BY <1>1, <1>2 DEF Fresh, Unissued, Ids
<1>4. /\ Issued' = Issued \cup {n} /\ n \notin Issued
      /\ family'[n] = n /\ \A i \in Issued : family'[i] = family[i] /\ i < n
  BY <1>1, IssueOne DEF SessionInductive
<1>5. /\ UNCHANGED <<jar, loggedOut, revoked, astray, raced, tx>>
      /\ astray' \cup raced' \subseteq Issued /\ n \notin loggedOut /\ n \in 0..MaxTokens
  BY <1>4, HeldIssued, TokensAssumption
  DEF ServeLogin, Login, SessionInductive, TokensInductive, Explained, Ids
<1>6. Does(c, "login", "sent") /\ tx[c].kind = "none" /\ call[c].got = 0
  BY ServedHasTx DEF ServeLogin, Does, SessionInductive, CallsServed
<1>7. PICK r \in Call :
        /\ call' = [call EXCEPT ![c] = r]
        /\ r.phase = "answered" /\ r.op = call[c].op /\ r.given = 0 /\ r.got = n
  BY <1>2, <1>3, <1>5, ReplyRecord
<1> DEFINE C == {c}
<1>8. /\ call' \in [Calls -> Call] /\ C \in SUBSET Calls /\ \A a, b \in C : a = b
      /\ \A d \in Calls \ C : call'[d] = call[d]
      /\ \A d \in C : /\ call[d].got = 0 /\ call'[d].got = n /\ call'[d].given = 0
                      /\ call'[d].phase = "answered" /\ call'[d].op \in {"refresh", "login"}
  BY <1>6, <1>7, HeldIssued DEF Does
<1>9. \A s \in Calls : tx'[s].kind # "none" => s \notin C /\ tx[s].kind # "none" /\ tx'[s].given = tx[s].given
  BY <1>5, <1>6
<1>10. /\ revoked \subseteq revoked' /\ astray \subseteq astray' /\ raced \subseteq raced'
       /\ astray' \cup raced' \subseteq Issued' /\ UNCHANGED <<jar, loggedOut>>
       /\ family'[n] = n /\ n \notin loggedOut
  BY <1>4, <1>5
<1>11. Issues(n) /\ Takes(n, C)
  BY <1>4, <1>8, <1>9, <1>10 DEF Issues, Takes
<1>12. QED
  BY <1>8, <1>10, <1>11, IssueStep

LEMMA ServeRotationStep ==
    ASSUME SessionInductive, NEW c \in Calls, ServeRotation(c)
    PROVE  Delivery'
<1> DEFINE g == tx[c].given
<1>1. /\ tx \in [Slots -> Transaction] /\ c \in Slots /\ Calls \subseteq Slots
      /\ CommitRotation(c) /\ TokensInductive
  BY CallsAssumption DEF ServeRotation, SessionInductive, TokensInductive, SessionTypeOK, TypeOK
<1>2. /\ g \in Issued /\ g \notin revoked
      /\ \A i \in Issued : family[i] = family[g] => i <= g
  BY <1>1, Rotation
<1>3. PICK n \in Ids :
        /\ Fresh(n) /\ Issued' = Issued \cup {n} /\ n \notin Issued
        /\ family'[n] = family[g] /\ \A i \in Issued : family'[i] = family[i] /\ i < n
  BY <1>1, Rotation
<1>4. PICK j \in Ids : Fresh(j) /\ Reply(c, j) /\ raced' = IF SigningOut THEN raced \cup {j} ELSE raced
  BY DEF ServeRotation
<1>5. j = n
  BY <1>3, <1>4 DEF Fresh, Unissued, Ids
<1>6. Does(c, "refresh", "served") /\ call[c].given = g /\ call[c].got = 0
  BY DEF ServeRotation, CommitRotation, SessionInductive, CallsServed, Does
<1>7. /\ UNCHANGED <<jar, loggedOut, astray>> /\ revoked \subseteq revoked'
      /\ raced \subseteq raced' /\ (SigningOut => n \in raced')
      /\ astray' \cup raced' \subseteq Issued' /\ n \in 0..MaxTokens /\ n # 0
  BY <1>1, <1>3, <1>4, <1>5, HeldIssued, TokensAssumption DEF ServeRotation, CommitRotation, Ids
<1>8. PICK r \in Call :
        /\ call' = [call EXCEPT ![c] = r]
        /\ r.phase = "answered" /\ r.op = call[c].op /\ r.given = 0 /\ r.got = n
  BY <1>4, <1>5, <1>7, ReplyRecord
<1> DEFINE C == {c}
<1>9. /\ call' \in [Calls -> Call] /\ C \in SUBSET Calls /\ \A a, b \in C : a = b
      /\ \A d \in Calls \ C : call'[d] = call[d]
      /\ \A d \in C : /\ call[d].got = 0 /\ call'[d].got = n /\ call'[d].given = 0
                      /\ call'[d].phase = "answered" /\ call'[d].op \in {"refresh", "login"}
  BY <1>6, <1>8, HeldIssued DEF Does
<1>10. n \in Undelivered'
  <2>1. call'[c] = r /\ r.op = "refresh"
    BY <1>6, <1>8, HeldIssued DEF Does
  <2>2. QED
    BY <1>7, <1>8, <2>1 DEF Undelivered, Does
<1>11. \A d \in Calls : call[d].got # g
  <2>1. AnswersAlone /\ g # 0
    BY <1>2 DEF SessionInductive, Issued, Ids
  <2>2. QED
    BY <1>6, <2>1 DEF AnswersAlone
<1>12. \A s \in Calls : tx'[s].kind # "none" => s \notin C /\ tx[s].kind # "none" /\ tx'[s].given = tx[s].given
  <2>1. tx' = Doom({g}, {c})
    BY <1>1 DEF CommitRotation
  <2>2. QED
    BY <1>1, <2>1, DoomKeeps
<1>13. Issues(n) /\ Takes(n, C)
  BY <1>3, <1>7, <1>9, <1>12 DEF Issues, Takes
<1>14. Succeeds(n, g)
  BY <1>2, <1>3, <1>7, <1>10, <1>11 DEF Succeeds
<1>15. QED
  BY <1>2, <1>9, <1>13, <1>14, IssueStep

LEMMA ForeignRotationStep ==
    ASSUME SessionInductive, NEW s \in Slots \ Calls, ForeignRotation(s)
    PROVE  Delivery'
<1> DEFINE g == tx[s].given
<1>1. /\ tx \in [Slots -> Transaction] /\ Calls \subseteq Slots
      /\ CommitRotation(s) /\ TokensInductive
  BY CallsAssumption DEF ForeignRotation, SessionInductive, TokensInductive, SessionTypeOK, TypeOK
<1>2. /\ g \in Issued /\ g \notin revoked
      /\ \A i \in Issued : family[i] = family[g] => i <= g
  BY <1>1, Rotation
<1>3. PICK n \in Ids :
        /\ Fresh(n) /\ Issued' = Issued \cup {n} /\ n \notin Issued
        /\ family'[n] = family[g] /\ \A i \in Issued : family'[i] = family[i] /\ i < n
  BY <1>1, Rotation
<1>4. PICK j \in Ids : Fresh(j) /\ astray' = astray \cup {j}
  BY DEF ForeignRotation
<1>5. j = n
  BY <1>3, <1>4 DEF Fresh, Unissued, Ids
<1>6. /\ UNCHANGED <<jar, loggedOut, call, raced>> /\ revoked \subseteq revoked'
      /\ astray \subseteq astray' /\ n \in astray'
      /\ astray' \cup raced' \subseteq Issued' /\ call' \in [Calls -> Call]
  BY <1>1, <1>3, <1>4, <1>5, HeldIssued DEF ForeignRotation, CommitRotation
<1> DEFINE C == {}
<1>7. \A r \in Calls : tx'[r].kind # "none" => r \notin C /\ tx[r].kind # "none" /\ tx'[r].given = tx[r].given
  <2>1. tx' = Doom({g}, {s})
    BY <1>1 DEF CommitRotation
  <2>2. QED
    BY <1>1, <2>1, DoomKeeps
<1>8. /\ C \in SUBSET Calls /\ \A a, b \in C : a = b
      /\ \A d \in Calls \ C : call'[d] = call[d]
      /\ \A d \in C : /\ call[d].got = 0 /\ call'[d].got = n /\ call'[d].given = 0
                      /\ call'[d].phase = "answered" /\ call'[d].op \in {"refresh", "login"}
  BY <1>6
<1>9. Issues(n) /\ Takes(n, C) /\ Succeeds(n, g)
  BY <1>2, <1>3, <1>6, <1>7, <1>8 DEF Issues, Takes, Succeeds
<1>10. QED
  BY <1>2, <1>8, <1>9, IssueStep

LEMMA ForeignStep ==
    ASSUME SessionInductive, NEW s \in Slots \ Calls, Foreign(s)
    PROVE  Delivery'
<1>1. tx \in [Slots -> Transaction] /\ Calls \subseteq Slots
  BY CallsAssumption DEF SessionInductive, TokensInductive, SessionTypeOK, TypeOK
<1>2. UNCHANGED <<family, jar, call, astray, raced, loggedOut>> /\ revoked \subseteq revoked'
  BY DEF Foreign, BeginRefresh, CommitReplay, Fail, tokens
<1>3. \A r \in Calls : tx'[r].kind # "none" => tx[r].kind # "none" /\ tx'[r].given = tx[r].given
  <2>1. CASE CommitReplay(s)
    <3>1. tx' = Doom(tx[s].writes, {s})
      BY <2>1 DEF CommitReplay
    <3>2. QED
      BY <1>1, <3>1, DoomKeeps
  <2>2. CASE Fail(s)
    BY <1>1, <2>2 DEF Fail
  <2>3. CASE \E i \in Ids : BeginRefresh(s, i)
    BY <1>1, <2>3 DEF BeginRefresh
  <2>4. QED
    BY <2>1, <2>2, <2>3 DEF Foreign
<1>4. QED
  BY <1>2, <1>3, StepElsewhere

LEMMA SessionStep == SessionInductive /\ [SessionNext]_allVars => SessionInductive'
<1> SUFFICES ASSUME SessionInductive, [SessionNext]_allVars PROVE SessionInductive'
  OBVIOUS
<1>1. TokensInductive'
  BY StepsOfTokens, TokensStep DEF SessionInductive
<1>2. Delivery'
  <2>1. ASSUME NEW t \in Tabs, AccessExpires(t) PROVE Delivery'
    BY <2>1, StepElsewhere DEF AccessExpires, vars, tokens
  <2>2. ASSUME NEW i \in Ids, TokenExpires(i) PROVE Delivery'
    BY <2>2, StepElsewhere, CallsAssumption DEF TokenExpires, Expire
  <2>3. CASE UNCHANGED allVars
    BY <2>3, StepElsewhere DEF allVars, vars, tokens, sessionVars
  <2>4. ASSUME NEW c \in Calls, Served(c) PROVE Delivery'
    BY <2>4, ServeLoginStep, ServeRefreshStep, ServeRotationStep, ServeRefusalStep, ServeLogoutStep DEF Served
  <2>5. QED
    BY <2>1, <2>2, <2>3, <2>4, LeaveStep, AnswerStep, ForeignStep, ForeignRotationStep DEF SessionNext
<1>3. SessionTypeOK'
  BY <1>1, <1>2, TabsType DEF SessionTypeOK, TokensInductive, Delivery
<1>4. QED
  BY <1>1, <1>2, <1>3 DEF SessionInductive, Delivery

LEMMA InitSession == SessionInit => SessionInductive
<1> SUFFICES ASSUME SessionInit PROVE SessionInductive
  OBVIOUS
<1>1. TokensInductive
  BY InitTokens DEF SessionInit
<1>2. call \in [Calls -> Call] /\ \A c \in Calls : call[c] = NoCall /\ NoCall.got = 0 /\ NoCall.given = 0 /\ NoCall.op = "none"
  BY TokensAssumption DEF SessionInit, Call, NoCall
<1>3. Issued = {} /\ Calls \subseteq Slots /\ \A s \in Slots : tx[s].kind = "none"
  BY CallsAssumption DEF SessionInit, Init, Issued, Idle
<1>4. SessionTypeOK
  BY <1>1, <1>2, CallsAssumption DEF SessionInit, SessionTypeOK, TokensInductive
<1>5. CallsServed /\ AnswersAlone /\ AnswersNewest /\ CookieNewest /\ SignOutNewest /\ SignedOutEnded
  BY <1>2, <1>3
  DEF SessionInit, CallsServed, AnswersAlone, AnswersNewest, CookieNewest, SignOutNewest, SignedOutEnded, Does
<1>6. QED
  BY <1>1, <1>4, <1>5 DEF SessionInductive

-----------------------------------------------------------------------------
(* The theorems about the session                                           *)

\* The inductive invariant holds, however calls of the tabs, copies of tokens,
\* losses and failures interleave.
THEOREM SessionInvariant == SessionSpec => []SessionInductive
BY InitSession, SessionStep, PTL DEF SessionSpec

\* Types; the cookie and every token on its way to it have been issued.
THEOREM SessionTypeCorrect == SessionSpec => []SessionTypeOK
<1>1. SessionInductive => SessionTypeOK
  BY DEF SessionInductive
<1>2. QED
  BY <1>1, SessionInvariant, PTL

\* No interleaving of refresh, replay and logout leaves a family two live tokens:
\* the rotation that reads a token unrevoked and loses to another is rolled back.
THEOREM OneLive == SessionSpec => []OneLivePerFamily
<1>1. SessionInductive => OneLivePerFamily
  BY OneUnrevoked DEF SessionInductive
<1>2. QED
  BY <1>1, SessionInvariant, PTL

\* revokeReplacementChain revokes every replacement within its MaxDepth links,
\* those that were being issued when it ran too.
THEOREM ReplayEndsChain == SessionSpec => []ReplayRevokesChain
<1>1. SessionInductive => ReplayRevokesChain
  BY DEF SessionInductive, TokensInductive
<1>2. QED
  BY <1>1, SessionInvariant, PTL

\* While no answer is on its way, refreshSession leaves the browser a live cookie,
\* unless it expired, its family was signed out or replayed, or lost a token.
THEOREM SessionIsKept == SessionSpec => []SessionKept
<1>1. SessionInductive => SessionKept
  <2> SUFFICES ASSUME SessionInductive, jar # 0, ~InFlight(jar), jar \notin expired, family[jar] \notin loggedOut
               PROVE  Live(jar) \/ \E i \in replayed \cup astray : family[i] = family[jar]
    BY DEF SessionKept
  <2>1. jar \in Issued /\ jar \in Ids
    BY HeldIssued DEF Issued
  <2>2. CASE jar \notin revoked
    BY <2>1, <2>2 DEF Live
  <2>3. CASE jar \in revoked /\ next[jar] = {}
    <3>1. Ended(family[jar])
      BY <2>3 DEF SessionInductive, TokensInductive, Explained
    <3>2. QED
      BY <3>1 DEF Ended
  <2>4. CASE next[jar] # {}
    <3>1. PICK j \in Ids : j \in next[jar] /\ j > jar /\ family[j] = family[jar] /\ j \in Issued
      BY <2>1, <2>4 DEF SessionInductive, TokensInductive, TypeOK, Issued
    <3>2. Covers(astray \cup Undelivered, j)
      BY <3>1 DEF SessionInductive, CookieNewest, NewerThan
    <3>3. PICK k \in astray \cup Undelivered : family[k] = family[jar]
      BY <3>1, <3>2 DEF Covers
    <3>4. CASE k \in Undelivered
      BY <3>3, <3>4 DEF Undelivered, InFlight
    <3>5. QED
      BY <3>3, <3>4
  <2>5. QED
    BY <2>2, <2>3, <2>4
<1>2. QED
  BY <1>1, SessionInvariant, PTL

\* A served logout ends its family: what is live in it went astray before, or
\* was issued by a refresh that crossed the logout.
THEOREM SignOutEnds == SessionSpec => []SignOutEndsSession
<1>1. SessionInductive => SignOutEndsSession
  BY DEF SessionInductive, SignedOutEnded, SignOutEndsSession, Covers, Live
<1>2. QED
  BY <1>1, SessionInvariant, PTL
=============================================================================

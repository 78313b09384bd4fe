--------------------------- MODULE RefreshTokens ----------------------------
(***************************************************************************)
(* Refresh tokens: each login starts a family of tokens, refresh rotates   *)
(* the token it is given (revokes it and links its replacement), a replay  *)
(* of a revoked token revokes the replacement chain, logout revokes the    *)
(* token it is given.  A client may present any token ever issued: an old  *)
(* tab, a lost answer or a copy does.                                      *)
(*                                                                         *)
(* refresh is one SERIALIZABLE transaction without a retry; logout is one  *)
(* statement.  PostgreSQL lets only one of two concurrent writers of a row *)
(* commit.  Read dependencies need no more than that here: a token that a  *)
(* replay reads unrevoked it also writes, and a revoked one is never       *)
(* written again.                                                          *)
(***************************************************************************)
EXTENDS Integers, FiniteSets

CONSTANTS
    Slots,      \* refresh requests in flight
    MaxTokens,  \* bound: tokens issued
    MaxDepth    \* links revokeReplacementChain follows (100 in the code)

ASSUME TokensAssumption == MaxTokens \in Nat /\ MaxDepth \in Nat \ {0}

Ids == 1..MaxTokens

VARIABLES
    family,     \* the login each token descends from, 0 when it is not issued yet
    revoked,    \* tokens whose revokedAt is set
    expired,    \* tokens whose expiresAt has passed
    next,       \* replacedById of each token, as a set
    tx,         \* what each request is doing
    replayed,   \* history: tokens whose replay was answered after its commit
    loggedOut   \* history: families a logout was answered for

tokens == <<family, revoked, expired, next>>
vars == <<tokens, tx, replayed, loggedOut>>

Transaction == [kind : {"none", "rotate", "replay"}, given : 0..MaxTokens,
                writes : SUBSET Ids, doomed : BOOLEAN]
Idle == [kind |-> "none", given |-> 0, writes |-> {}, doomed |-> FALSE]

\* Types, and the shape of the links: they lead from a revoked token forward to
\* an issued one of its family, so that following them ends.
TypeOK ==
    /\ family \in [Ids -> 0..MaxTokens]
    /\ revoked \subseteq Ids /\ expired \subseteq Ids
    /\ next \in [Ids -> SUBSET Ids]
    /\ \A i \in Ids : \A j \in next[i] : j > i /\ i \in revoked /\ family[j] = family[i] /\ family[i] # 0
    /\ tx \in [Slots -> Transaction]
    /\ replayed \subseteq Ids
    /\ loggedOut \subseteq Ids

Init ==
    /\ family = [i \in Ids |-> 0]
    /\ revoked = {} /\ expired = {}
    /\ next = [i \in Ids |-> {}]
    /\ tx = [s \in Slots |-> Idle]
    /\ replayed = {} /\ loggedOut = {}

Issued == {i \in Ids : family[i] # 0}
Unissued == Ids \ Issued
\* Token ids are given in the order of creation.
Fresh(i) == i \in Unissued /\ \A j \in Unissued : i <= j
Live(i) == i \in Issued \ (revoked \cup expired)

\* The tokens that the links lead to from i, all created after it: those in
\* every set that has i's replacement and the replacement of each of its tokens.
Replacements(i) ==
    {j \in Ids : \A S \in SUBSET {k \in Ids : k > i} :
        next[i] \subseteq S /\ (\A k \in S : next[k] \subseteq S) => j \in S}

\* Those that revokeReplacementChain follows from i, the first MaxDepth of them.
Chain(i) ==
    LET after == Replacements(i)
    IN  {j \in after : Cardinality({k \in after : k <= j}) <= MaxDepth}

\* Fault: the level is READ COMMITTED, where a blocked writer goes on.
NoConflict(writes, t) == FALSE

\* Two transactions that write the same row do not both commit.
Conflict(writes, t) == writes \cap t.writes # {}

\* The other transactions, after one that wrote these rows has committed.
Doom(writes, done) ==
    [s \in Slots |->
        IF s \in done THEN Idle
        ELSE IF Conflict(writes, tx[s]) THEN [tx[s] EXCEPT !.doomed = TRUE]
        ELSE tx[s]]

-----------------------------------------------------------------------------
\* login, signup: issuePair.
Login ==
    /\ \E i \in Ids : Fresh(i) /\ family' = [family EXCEPT ![i] = i]
    /\ UNCHANGED <<revoked, expired, next, tx, replayed, loggedOut>>

Expire(i) ==
    /\ i \in Issued \ expired
    /\ expired' = expired \cup {i}
    /\ UNCHANGED <<family, revoked, next, tx, replayed, loggedOut>>

\* Fault: only the token that was presented is revoked again.
ReplayWritesSelf(i) == {}

\* The rows a replay revokes.
ReplayWrites(i) == Chain(i) \ revoked

\* refresh with token i takes its snapshot.  An unknown or expired token is
\* answered 401 and changes nothing.
BeginRefresh(s, i) ==
    /\ tx[s].kind = "none"
    /\ i \in Issued \ expired
    /\ tx' = [tx EXCEPT ![s] =
          IF i \in revoked
            THEN [kind |-> "replay", given |-> i, writes |-> ReplayWrites(i), doomed |-> FALSE]
            ELSE [kind |-> "rotate", given |-> i, writes |-> {i}, doomed |-> FALSE]]
    /\ UNCHANGED <<tokens, replayed, loggedOut>>

\* Fault: the replacement is created outside the transaction, and is lost.
CommitRotationAlone(s) ==
    /\ tx[s].kind = "rotate" /\ ~tx[s].doomed
    /\ \E j \in Ids : Fresh(j) /\ next' = [next EXCEPT ![tx[s].given] = {j}]
    /\ revoked' = revoked \cup {tx[s].given}
    /\ tx' = Doom({tx[s].given}, {s})
    /\ UNCHANGED <<family, expired, replayed, loggedOut>>

\* The replacement is created, linked, and its predecessor revoked.
CommitRotation(s) ==
    /\ tx[s].kind = "rotate" /\ ~tx[s].doomed
    /\ \E j \in Ids :
         /\ Fresh(j)
         /\ family' = [family EXCEPT ![j] = family[tx[s].given]]
         /\ next' = [next EXCEPT ![tx[s].given] = {j}]
    /\ revoked' = revoked \cup {tx[s].given}
    /\ tx' = Doom({tx[s].given}, {s})
    /\ UNCHANGED <<expired, replayed, loggedOut>>

CommitReplay(s) ==
    /\ tx[s].kind = "replay" /\ ~tx[s].doomed
    /\ revoked' = revoked \cup tx[s].writes
    /\ replayed' = replayed \cup {tx[s].given}
    /\ tx' = Doom(tx[s].writes, {s})
    /\ UNCHANGED <<family, expired, next, loggedOut>>

\* The transaction is rolled back, by a conflict or with its process: an error.
Fail(s) ==
    /\ tx[s].kind # "none"
    /\ tx' = [tx EXCEPT ![s] = Idle]
    /\ UNCHANGED <<tokens, replayed, loggedOut>>

\* Fault: a refresh that has read the row unrevoked goes on after the logout.
LogoutUnnoticed(i) ==
    /\ i \in Issued
    /\ revoked' = revoked \cup {i}
    /\ loggedOut' = loggedOut \cup {family[i]}
    /\ UNCHANGED <<family, expired, next, tx, replayed>>

\* logout with token i: its row is revoked if it is not yet.
Logout(i) ==
    /\ i \in Issued
    /\ revoked' = revoked \cup {i}
    /\ loggedOut' = loggedOut \cup {family[i]}
    /\ tx' = IF i \in revoked THEN tx ELSE Doom({i}, {})
    /\ UNCHANGED <<family, expired, next, replayed>>

Next ==
    \/ Login
    \/ \E i \in Ids : Expire(i) \/ Logout(i)
    \/ \E s \in Slots : CommitRotation(s) \/ CommitReplay(s) \/ Fail(s)
    \/ \E s \in Slots, i \in Ids : BeginRefresh(s, i)

Spec == Init /\ [][Next]_vars

-----------------------------------------------------------------------------
(* What makes it correct                                                    *)

\* A family never has two live tokens: of two refreshes with the same token, in
\* two tabs or as a retry of a lost answer, at most one is given a replacement.
OneLivePerFamily ==
    \A i, j \in Issued : family[i] = family[j] /\ Live(i) /\ Live(j) => i = j

\* The replacements from i to j.
Links(i, j) == {k \in Issued : family[k] = family[i] /\ i < k /\ k <= j}

\* After a replay, the replacements of the replayed token are revoked, MaxDepth
\* of them, and when there are no more, no refresh that was under way brings the
\* family back to life.
ReplayRevokesChain ==
    \A i \in replayed, j \in Issued :
        family[j] = family[i] /\ j > i /\ Cardinality(Links(i, j)) <= MaxDepth => j \in revoked

\* The strengthening of both: tokens are issued in order, and those of a family
\* are linked, each to all that were issued in it after it.
InOrder == \A i \in Issued : family[i] \in Issued /\ \A j \in Unissued : i < j
Linked == \A i, j \in Issued : family[i] = family[j] /\ i < j => j \in Replacements(i)

\* A refresh under way is about to write rows of one family.  Unless a commit
\* has doomed it, a rotation's token is not revoked, and a replay is about to
\* revoke what is not.
AboutToRevoke(t) ==
    \A j \in Issued :
        family[j] = family[t.given] /\ j > t.given /\ Cardinality(Links(t.given, j)) <= MaxDepth
            => j \in t.writes \cup revoked

RefreshSound(t) ==
    /\ t.given \in Issued
    /\ t.kind = "rotate" => t.writes = {t.given} /\ (t.doomed \/ t.given \notin revoked)
    /\ t.kind = "replay" =>
         /\ t.given \in revoked
         /\ \A j \in t.writes : j \in Issued /\ family[j] = family[t.given]
         /\ t.doomed \/ AboutToRevoke(t)

RefreshesSound == \A s \in Slots : IF tx[s].kind = "none" THEN tx[s] = Idle ELSE RefreshSound(tx[s])

\* Tokens replayed are revoked ones; a token revoked without a replacement is of
\* a family that was signed out or replayed.
Ended(f) == f \in loggedOut \/ \E r \in replayed : family[r] = f
Explained ==
    /\ replayed \subseteq revoked /\ revoked \subseteq Issued /\ loggedOut \subseteq Issued
    /\ \A i \in revoked : next[i] = {} => Ended(family[i])

TokensInductive ==
    TypeOK /\ InOrder /\ Linked /\ RefreshesSound /\ Explained /\ ReplayRevokesChain
=============================================================================

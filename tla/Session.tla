------------------------------- MODULE Session -------------------------------
(***************************************************************************)
(* The web client's session over the refresh tokens of module              *)
(* RefreshTokens.  The tabs of a browser share one cookie (the jar) and    *)
(* each hold an access token in memory and show a user.  A request         *)
(* answered 401 refreshes (refreshSession), a new tab starts with a        *)
(* refresh, a form signs in (handleAuth) and a button signs out (signOut). *)
(* A call leaves with the cookie of that moment, is served, and answered   *)
(* later: the cookie of the answer is set when it arrives, in any order,   *)
(* or never, when the call or its answer is lost.                          *)
(*                                                                         *)
(* Slots of RefreshTokens that are not Calls belong to a foreign client    *)
(* that may present any token ever issued.                                 *)
(***************************************************************************)
EXTENDS RefreshTokens

CONSTANTS
    Tabs,       \* tabs of the browser
    Calls,      \* its calls in flight, of any tab
    MaxMishaps  \* bound: calls lost or failed, copies presented, tokens expired

ASSUME CallsAssumption == Calls \subseteq Slots /\ MaxMishaps \in Nat

VARIABLES
    jar,        \* the refresh_token cookie, 0 when there is none
    access,     \* each tab's access token
    user,       \* tabs that show a user
    call,       \* the calls in flight
    astray,     \* history: tokens issued to a foreign client or in an answer that was lost
    raced,      \* history: tokens issued by a refresh that a sign-out crossed
    mishaps     \* counter for MaxMishaps

sessionVars == <<jar, access, user, call, astray, raced, mishaps>>
allVars == <<vars, sessionVars>>

Call == [phase : {"idle", "sent", "served", "answered", "me"}, op : {"none", "refresh", "login", "logout"},
         tab : SUBSET Tabs, given : 0..MaxTokens, got : 0..MaxTokens]
NoCall == [phase |-> "idle", op |-> "none", tab |-> {}, given |-> 0, got |-> 0]

SessionInit ==
    /\ Init
    /\ jar = 0
    /\ access = [t \in Tabs |-> "none"] /\ user = {}
    /\ call = [c \in Calls |-> NoCall]
    /\ astray = {} /\ raced = {} /\ mishaps = 0

Mishap == mishaps < MaxMishaps /\ mishaps' = mishaps + 1

Does(c, op, phase) == call[c].op = op /\ call[c].phase = phase
End(c) == call' = [call EXCEPT ![c] = NoCall]
\* A refresh has committed and its answer is on the way.
Undelivered == {call[c].got : c \in {d \in Calls : Does(d, "refresh", "answered")}} \ {0}
SigningOut == \E c \in Calls : Does(c, "logout", "sent")

-----------------------------------------------------------------------------
(* Calls leave with the cookie                                              *)

Send(c, op, t) ==
    /\ call[c].phase = "idle"
    /\ call' = [call EXCEPT ![c] = [phase |-> "sent", op |-> op, tab |-> {t}, given |-> jar, got |-> 0]]

\* A tab is opened or loaded again: what it had in memory is gone.
Mount(c, t) ==
    /\ Send(c, "refresh", t)
    /\ access' = [access EXCEPT ![t] = "none"] /\ user' = user \ {t}
    /\ UNCHANGED <<vars, jar, astray, raced, mishaps>>

\* request: a call of a tab that shows a user was answered 401.
Retry(c, t) ==
    /\ t \in user /\ access[t] # "good"
    /\ Send(c, "refresh", t)
    /\ UNCHANGED <<vars, jar, access, user, astray, raced, mishaps>>

HandleAuth(c, t) ==
    /\ t \notin user
    /\ Send(c, "login", t)
    /\ UNCHANGED <<vars, jar, access, user, astray, raced, mishaps>>

SignOut(c, t) ==
    /\ t \in user
    /\ Send(c, "logout", t)
    /\ raced' = raced \cup Undelivered
    /\ UNCHANGED <<vars, jar, access, user, astray, mishaps>>

\* The access token's 15 minutes pass.
AccessExpires(t) ==
    /\ access[t] = "good"
    /\ access' = [access EXCEPT ![t] = "late"]
    /\ UNCHANGED <<vars, jar, user, call, astray, raced, mishaps>>

-----------------------------------------------------------------------------
(* Calls are served                                                         *)

Reply(c, got) == call' = [call EXCEPT ![c].phase = "answered", ![c].given = 0, ![c].got = got]

ServeLogin(c) ==
    /\ Does(c, "login", "sent")
    /\ Login
    /\ \E j \in Ids : Fresh(j) /\ Reply(c, j)
    /\ UNCHANGED <<jar, access, user, astray, raced, mishaps>>

\* Without a cookie, or with an expired token, the answer is 401 at once.
ServeRefresh(c) ==
    /\ Does(c, "refresh", "sent")
    /\ IF call[c].given = 0 \/ call[c].given \in expired
         THEN Reply(c, 0) /\ UNCHANGED vars
         ELSE call' = [call EXCEPT ![c].phase = "served"] /\ BeginRefresh(c, call[c].given)
    /\ UNCHANGED <<jar, access, user, astray, raced, mishaps>>

ServeRotation(c) ==
    /\ CommitRotation(c)
    /\ \E j \in Ids :
         /\ Fresh(j)
         /\ Reply(c, j)
         /\ raced' = IF SigningOut THEN raced \cup {j} ELSE raced
    /\ UNCHANGED <<jar, access, user, astray, mishaps>>

\* Answered 401, or 500 when the transaction is rolled back.
ServeRefusal(c) ==
    /\ CommitReplay(c) \/ Fail(c)
    /\ Reply(c, 0)
    /\ UNCHANGED <<jar, access, user, astray, raced, mishaps>>

ServeLogout(c) ==
    /\ Does(c, "logout", "sent")
    /\ IF call[c].given = 0 THEN UNCHANGED vars ELSE Logout(call[c].given)
    /\ Reply(c, 0)
    /\ UNCHANGED <<jar, access, user, astray, raced, mishaps>>

-----------------------------------------------------------------------------
(* Calls are answered                                                       *)

\* A refusal signs the tab out and leaves the cookie.
AnswerRefusal(c) ==
    /\ Does(c, "refresh", "answered") /\ call[c].got = 0
    /\ access' = [t \in Tabs |-> IF t \in call[c].tab THEN "none" ELSE access[t]]
    /\ user' = user \ call[c].tab
    /\ End(c)
    /\ UNCHANGED <<vars, jar, astray, raced, mishaps>>

\* Fault: the answer does not set the cookie.
AnswerTokenOnly(c) ==
    /\ Does(c, "refresh", "answered") /\ call[c].got # 0
    /\ access' = [t \in Tabs |-> IF t \in call[c].tab THEN "good" ELSE access[t]]
    /\ call' = [call EXCEPT ![c] = [NoCall EXCEPT !.phase = "me", !.tab = call[c].tab]]
    /\ UNCHANGED <<vars, jar, user, astray, raced, mishaps>>

\* The new token is set, and the user asked for with it.
AnswerRefresh(c) ==
    /\ Does(c, "refresh", "answered") /\ call[c].got # 0
    /\ jar' = call[c].got
    /\ access' = [t \in Tabs |-> IF t \in call[c].tab THEN "good" ELSE access[t]]
    /\ call' = [call EXCEPT ![c] = [NoCall EXCEPT !.phase = "me", !.tab = call[c].tab]]
    /\ UNCHANGED <<vars, user, astray, raced, mishaps>>

\* /v1/auth/me is answered, whatever has happened in the tab meanwhile, or fails.
AnswerMe(c) ==
    /\ call[c].phase = "me"
    /\ user' = user \cup call[c].tab \/ UNCHANGED user
    /\ End(c)
    /\ UNCHANGED <<vars, jar, access, astray, raced, mishaps>>

AnswerLogin(c) ==
    /\ Does(c, "login", "answered")
    /\ jar' = call[c].got
    /\ access' = [t \in Tabs |-> IF t \in call[c].tab THEN "good" ELSE access[t]]
    /\ user' = user \cup call[c].tab
    /\ End(c)
    /\ UNCHANGED <<vars, astray, raced, mishaps>>

\* The tab shows "Signed out securely."
SignedOut(c) ==
    /\ access' = [t \in Tabs |-> IF t \in call[c].tab THEN "none" ELSE access[t]]
    /\ user' = user \ call[c].tab
    /\ End(c)

AnswerLogout(c) ==
    /\ Does(c, "logout", "answered")
    /\ jar' = 0
    /\ SignedOut(c)
    /\ UNCHANGED <<vars, astray, raced, mishaps>>

\* A logout that fails or is lost, before or after it was served: the cookie
\* stays, the tab says the same.
LogoutFails(c) ==
    /\ call[c].op = "logout" /\ Mishap
    /\ SignedOut(c)
    /\ UNCHANGED <<vars, jar, astray, raced>>

\* The call, or its answer, is lost: refreshSession catches it and changes
\* nothing, handleAuth reports it.
Lose(c) ==
    /\ call[c].op \in {"refresh", "login"} /\ call[c].phase \in {"sent", "answered"}
    /\ Mishap
    /\ astray' = astray \cup ({call[c].got} \ {0})
    /\ End(c)
    /\ UNCHANGED <<vars, jar, access, user, raced>>

\* A copy of a token is presented from elsewhere.
Foreign(s) ==
    /\ \/ Mishap /\ \E i \in Ids : BeginRefresh(s, i)
       \/ UNCHANGED mishaps /\ (CommitReplay(s) \/ Fail(s))
    /\ UNCHANGED <<jar, access, user, call, astray, raced>>

ForeignRotation(s) ==
    /\ CommitRotation(s)
    /\ \E j \in Ids : Fresh(j) /\ astray' = astray \cup {j}
    /\ UNCHANGED <<jar, access, user, call, raced, mishaps>>

TokenExpires(i) ==
    /\ Expire(i) /\ Mishap
    /\ UNCHANGED <<jar, access, user, call, astray, raced>>

Served(c) == ServeLogin(c) \/ ServeRefresh(c) \/ ServeRotation(c) \/ ServeRefusal(c) \/ ServeLogout(c)
Answered(c) ==
    AnswerRefusal(c) \/ AnswerRefresh(c) \/ AnswerMe(c) \/ AnswerLogin(c) \/ AnswerLogout(c) \/ LogoutFails(c) \/ Lose(c)

SessionNext ==
    \/ \E c \in Calls, t \in Tabs : Mount(c, t) \/ Retry(c, t) \/ HandleAuth(c, t) \/ SignOut(c, t)
    \/ \E t \in Tabs : AccessExpires(t)
    \/ \E c \in Calls : Served(c) \/ Answered(c)
    \/ \E s \in Slots \ Calls : Foreign(s) \/ ForeignRotation(s)
    \/ \E i \in Ids : TokenExpires(i)

SessionSpec == SessionInit /\ [][SessionNext]_allVars

-----------------------------------------------------------------------------
(* What makes it correct                                                    *)

\* Types; the cookie and every token on its way to it have been issued.
SessionTypeOK ==
    /\ jar \in Issued \cup {0}
    /\ access \in [Tabs -> {"none", "good", "late"}] /\ user \subseteq Tabs
    /\ call \in [Calls -> Call]
    /\ \A c \in Calls : {call[c].given, call[c].got} \subseteq Issued \cup {0}
    /\ astray \cup raced \subseteq Issued
    /\ mishaps \in 0..MaxMishaps

InFlight(i) == \E c \in Calls : call[c].got # 0 /\ family[call[c].got] = family[i]

\* The browser keeps its session: with nothing on the way to it, the cookie is
\* a live token, unless it expired, its family was signed out or replayed (two
\* tabs refreshed at once, or a copy was used), or a token of its family went
\* astray.
SessionKept ==
    jar # 0 /\ ~InFlight(jar) /\ jar \notin expired /\ family[jar] \notin loggedOut
        => \/ Live(jar)
           \/ \E i \in replayed \cup astray : family[i] = family[jar]

\* A sign-out that was served ends the session, in every tab and copy: what
\* is still live in its family went astray before, or was issued by a refresh
\* that crossed the sign-out on its way.
SignOutEndsSession ==
    \A i \in Issued : family[i] \in loggedOut /\ Live(i) =>
        \E j \in astray \cup raced : family[j] = family[i] /\ j <= i

\* The strengthening of both.  A call that refreshes is served by its slot of
\* RefreshTokens; a token on its way to the browser is in one answer only, and
\* nobody in the browser has it yet.
CallsServed ==
    \A c \in Calls :
        /\ call[c].got # 0 => call[c].phase = "answered" /\ call[c].op \in {"refresh", "login"}
        /\ tx[c].kind # "none" => Does(c, "refresh", "served") /\ tx[c].given = call[c].given

AnswersAlone ==
    \A c \in Calls : call[c].got # 0 =>
        /\ jar # call[c].got
        /\ \A d \in Calls : call[d].given # call[c].got /\ (call[d].got = call[c].got => d = c)

\* T holds a token of i's family from before j, or j itself.
Covers(T, j) == \E k \in T : family[k] = family[j] /\ k <= j

\* What was issued after a token that is in an answer, in the cookie, or on its
\* way to be signed out went astray, or is in an answer itself, or raced.
NewerThan(i, T) == \A j \in Issued : family[j] = family[i] /\ j > i => Covers(T, j)

AnswersNewest == \A c \in Calls : call[c].got # 0 => NewerThan(call[c].got, astray)
CookieNewest  == jar # 0 => NewerThan(jar, astray \cup Undelivered)
SignOutNewest ==
    \A c \in Calls : Does(c, "logout", "sent") /\ call[c].given # 0 => NewerThan(call[c].given, astray \cup raced)
SignedOutEnded == \A i \in Issued \ revoked : family[i] \in loggedOut => Covers(astray \cup raced, i)

SessionInductive ==
    /\ TokensInductive /\ SessionTypeOK
    /\ CallsServed /\ AnswersAlone
    /\ AnswersNewest /\ CookieNewest /\ SignOutNewest /\ SignedOutEnded
=============================================================================

----------------------------- MODULE MCPlatform -----------------------------
(***************************************************************************)
(* An instance for TLC of the components beside the core, which share no   *)
(* state with one another: a behaviour moves the one that focus names, and *)
(* the others stay in an initial state.                                    *)
(***************************************************************************)
EXTENDS Login, Lifecycle, Catalog, ShellCache

CONSTANTS all, some, first, second, js1, js2, css

VARIABLE focus

Components == {"login", "life", "catalog", "shell"}

\* Both lists fill two pages.
TwoPages == [f \in {all, some} |-> 2]

\* Two deployments with a style sheet in common.
SharedStyle == [d \in {first, second} |-> IF d = first THEN {js1, css} ELSE {js2, css}]

\* The other components stay in one of their initial states.
StayStill ==
    /\ focus # "life" => kind = "api" /\ online /\ \A t \in BeatTTLs : ttl <= t
    /\ focus # "shell" => deployed = first

PlatformInit ==
    /\ focus \in Components
    /\ LoginInit /\ LifeInit /\ CatalogInit /\ ShellInit
    /\ StayStill

PlatformNext ==
    /\ UNCHANGED focus
    /\ \/ focus = "login" /\ LoginNext /\ UNCHANGED <<lifeVars, catalogVars, shellVars>>
       \/ focus = "life" /\ LifeNext /\ UNCHANGED <<loginVars, catalogVars, shellVars>>
       \/ focus = "catalog" /\ CatalogNext /\ UNCHANGED <<loginVars, lifeVars, shellVars>>
       \/ focus = "shell" /\ ShellNext /\ UNCHANGED <<loginVars, lifeVars, catalogVars>>

platformVars == <<focus, loginVars, lifeVars, catalogVars, shellVars>>

\* LifeFairness, while the process is what moves.
FocusedFairness ==
    /\ WF_lifeVars(focus = "life" /\ ForceExit)
    /\ WF_lifeVars(focus = "life" /\ Restart)
    /\ WF_lifeVars(focus = "life" /\ TryMigrate)
    /\ WF_lifeVars(focus = "life" /\ phase = "starting" /\ StartGoesOn)
    /\ WF_lifeVars(focus = "life" /\ CheckAgain)
    /\ \A c \in Checks : WF_lifeVars(focus = "life" /\ CheckGoesOn(c))

\* ServesAgain, of a process that moves: once the database and Redis stay, the
\* API and the worker serve after every start, exit and restart, although
\* requests hang and a forced exit cuts them.
ProcessServesAgain == focus = "life" => ServesAgain

PlatformSpec == PlatformInit /\ [][PlatformNext]_platformVars /\ FocusedFairness

\* The web client's list of events alone.
CatalogAlone ==
    PlatformInit /\ focus = "catalog" /\ [][PlatformNext]_platformVars

\* The four inductive invariants, with the types: what they say is told there.
PlatformInductive == LoginInductive /\ LifeInductive /\ CatalogInductive /\ ShellInductive
=============================================================================

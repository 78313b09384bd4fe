----------------------------- MODULE ShellCache -----------------------------
(***************************************************************************)
(* The service worker of the web client and the server it asks.  A         *)
(* deployment is an index.html and the hashed assets it names.  The worker *)
(* saves the page of every navigation under "/", answers assets from its   *)
(* cache first, and precaches a page and its assets when it is installed,  *)
(* again when its script has changed.  The server answers a path it does   *)
(* not have, so the asset of another deployment too, with index.html.      *)
(*                                                                         *)
(* One page is loaded at a time; a navigation gives the one before up.     *)
(* The browser's own HTTP cache is left out.                               *)
(***************************************************************************)
CONSTANTS
    Deployments,
    Assets,
    Uses,           \* the assets each deployment's page names
    None, File      \* under "/": nothing, or a file that is not the page

ASSUME ShellAssumption ==
    /\ Uses \in [Deployments -> SUBSET Assets]
    /\ None \notin Deployments /\ File \notin Deployments \cup {None}

VARIABLES
    deployed,       \* what the server has
    connected,
    controlling,    \* a worker is active
    install,        \* the installation under way, if any
    root,           \* what the shell cache has under "/"
    static,         \* what the static cache has for each asset: nothing, the asset or a page
    load,           \* the page being loaded, if any
    whole,          \* history: deployments loaded or precached to the end
    doubtful        \* history: assets that were to be fetched when the server had another deployment

shellVars == <<deployed, connected, controlling, install, root, static, load, whole, doubtful>>

PageOf(d) == {[page |-> d, left |-> Uses[d], kept |-> controlling]}

ShellInit ==
    /\ deployed \in Deployments
    /\ connected = TRUE /\ controlling = FALSE
    /\ install = {} /\ load = {}
    /\ root = None
    /\ static = [a \in Assets |-> "nothing"]
    /\ whole = {} /\ doubtful = {}

\* express.static, and index.html for any other path, with status 200.
Served(a) == IF a \in Uses[deployed] THEN "asset" ELSE "page"

-----------------------------------------------------------------------------
(* precacheAppShell                                                         *)

\* register, of the first script or of a changed one: the page is saved first.
InstallStarts ==
    /\ install = {} /\ connected
    /\ root' = deployed
    /\ install' = {[page |-> deployed, left |-> Uses[deployed]]}
    /\ UNCHANGED <<deployed, connected, controlling, static, load, whole, doubtful>>

\* staticCache.add overwrites.
Precache(a) ==
    /\ connected
    /\ \E i \in install :
         /\ a \in i.left
         /\ install' = {[i EXCEPT !.left = @ \ {a}]}
    /\ static' = [static EXCEPT ![a] = Served(a)]
    /\ UNCHANGED <<deployed, connected, controlling, root, load, whole, doubtful>>

\* A download fails: what has been saved stays.
InstallFails ==
    /\ install # {} /\ install' = {}
    /\ UNCHANGED <<deployed, connected, controlling, root, static, load, whole, doubtful>>

\* Fault: activation does not wait for the downloads.
ActivateUnawaited ==
    /\ install # {} /\ install' = {}
    /\ controlling' = TRUE
    /\ whole' = whole \cup {i.page : i \in install}
    /\ UNCHANGED <<deployed, connected, root, static, load, doubtful>>

\* skipWaiting, and clients.claim: open pages are controlled from here on.
Activate ==
    /\ \E i \in install : i.left = {}
    /\ install' = {}
    /\ controlling' = TRUE
    /\ whole' = whole \cup {i.page : i \in install}
    /\ UNCHANGED <<deployed, connected, root, static, load, doubtful>>

-----------------------------------------------------------------------------
(* networkFirstNavigation, cacheFirstStatic                                 *)

\* The page comes from the network, and is saved if it is ok and controlled.
NavigateOnline ==
    /\ connected
    /\ \/ load' = PageOf(deployed) /\ root' = IF controlling THEN deployed ELSE root
       \/ load' = {} /\ UNCHANGED root
    /\ UNCHANGED <<deployed, connected, controlling, install, static, whole, doubtful>>

\* A file of the site, /icon.svg say, is opened as a page: it is saved under "/" too.
NavigateToFile ==
    /\ connected /\ controlling
    /\ root' = File /\ load' = {}
    /\ UNCHANGED <<deployed, connected, controlling, install, static, whole, doubtful>>

\* Without the network, "/" is answered from the cache.  /offline.html is for
\* when nothing is saved there.
NavigateOffline ==
    /\ ~connected
    /\ load' = IF controlling /\ root \in Deployments THEN PageOf(root) ELSE {}
    /\ UNCHANGED <<deployed, connected, controlling, install, root, static, whole, doubtful>>

LoadGoesOn(a) ==
    \E l \in load :
        /\ a \in l.left
        /\ load' = {[l EXCEPT !.left = @ \ {a}]}
        /\ whole' = whole \cup {p \in {l.page} : l.kept /\ l.left = {a}}

FromCache(a) ==
    /\ controlling /\ static[a] # "nothing"
    /\ LoadGoesOn(a)
    /\ UNCHANGED <<deployed, connected, controlling, install, root, static, doubtful>>

\* Fault: what was fetched is not put into the cache.
FromNetworkUnsaved(a) ==
    /\ connected /\ ~(controlling /\ static[a] # "nothing")
    /\ LoadGoesOn(a)
    /\ UNCHANGED <<deployed, connected, controlling, install, root, static, doubtful>>

FromNetwork(a) ==
    /\ connected /\ ~(controlling /\ static[a] # "nothing")
    /\ LoadGoesOn(a)
    /\ static' = IF controlling THEN [static EXCEPT ![a] = Served(a)] ELSE static
    /\ UNCHANGED <<deployed, connected, controlling, install, root, doubtful>>

-----------------------------------------------------------------------------
\* What is to be fetched for a page of another deployment than d.
Foreign(d) ==
    {a \in Assets :
        \/ \E i \in install : i.page # d /\ a \in i.left
        \/ static[a] = "nothing" /\ \E l \in load : l.page # d /\ a \in l.left}

Deploy(d) ==
    /\ d # deployed /\ deployed' = d
    /\ doubtful' = doubtful \cup Foreign(d)
    /\ UNCHANGED <<connected, controlling, install, root, static, load, whole>>

ConnectionTurns ==
    /\ connected' = ~connected
    /\ doubtful' = doubtful \cup Foreign(deployed)
    /\ UNCHANGED <<deployed, controlling, install, root, static, load, whole>>

ShellNext ==
    \/ InstallStarts \/ InstallFails \/ Activate
    \/ NavigateOnline \/ NavigateToFile \/ NavigateOffline
    \/ \E a \in Assets : Precache(a) \/ FromCache(a) \/ FromNetwork(a)
    \/ \E d \in Deployments : Deploy(d)
    \/ ConnectionTurns

ShellSpec == ShellInit /\ [][ShellNext]_shellVars

-----------------------------------------------------------------------------
(* What makes it correct                                                    *)

ShellTypeOK ==
    /\ deployed \in Deployments /\ {connected, controlling} \subseteq BOOLEAN
    /\ install \subseteq [page : Deployments, left : SUBSET Assets] /\ \A i, j \in install : i = j
    /\ root \in Deployments \cup {None, File}
    /\ static \in [Assets -> {"nothing", "asset", "page"}]
    /\ load \subseteq [page : Deployments, left : SUBSET Assets, kept : BOOLEAN]
    /\ \A l, m \in load : l = m
    /\ whole \subseteq Deployments /\ doubtful \subseteq Assets

\* "keep the shell available when your connection drops": a worker in control
\* has a page for "/", and when that page was once loaded or precached to the
\* end, it starts without the network, with the assets themselves and no page in
\* their place, unless the server had another deployment by the time they
\* were fetched.
OfflineStartWorks ==
    controlling =>
        /\ root # None
        /\ root \in whole => \A a \in Uses[root] \ doubtful : static[a] = "asset"

\* The strengthening: what is saved in place of an asset is doubtful, since the
\* server has another deployment when it is fetched; and what has been fetched
\* under control stays saved.
OnlyDoubtfulReplaced ==
    /\ \A a \in Assets : static[a] = "page" => a \in doubtful
    /\ \A i \in install : i.page # deployed => i.left \subseteq doubtful
    /\ connected => \A l \in load : \A a \in l.left :
           l.page # deployed /\ static[a] = "nothing" => a \in doubtful

FetchedIsSaved ==
    /\ \A i \in install : i.left \subseteq Uses[i.page] /\ \A a \in Uses[i.page] \ i.left : static[a] # "nothing"
    /\ \A l \in load :
         /\ l.left \subseteq Uses[l.page]
         /\ l.kept => controlling /\ \A a \in Uses[l.page] \ l.left : static[a] # "nothing"
    /\ \A d \in whole : \A a \in Uses[d] : static[a] # "nothing"

ShellInductive ==
    /\ ShellTypeOK /\ OnlyDoubtfulReplaced /\ FetchedIsSaved
    /\ controlling \/ install # {} => root # None
=============================================================================

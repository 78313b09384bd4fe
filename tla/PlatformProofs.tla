---------------------------- MODULE PlatformProofs ---------------------------
(***************************************************************************)
(* Proofs about the components beside the core: the service worker's cache *)
(* (ShellCache), the life of a process (Lifecycle), the web client's list  *)
(* of events (Catalog) and the login throttle (Login).  Each has an        *)
(* inductive invariant of its own; PlatformInvariant puts the four         *)
(* together for the specification that TLC checks.                         *)
(***************************************************************************)
EXTENDS MCPlatform, FiniteSetTheorems, TLAPS

-----------------------------------------------------------------------------
(* The service worker's cache                                               *)

LEMMA PageOfType ==
    ASSUME NEW d \in Deployments, controlling \in BOOLEAN
    PROVE  /\ PageOf(d) \subseteq [page : Deployments, left : SUBSET Assets, kept : BOOLEAN]
           /\ \A l, m \in PageOf(d) : l = m
           /\ \A l \in PageOf(d) : l.page = d /\ l.left = Uses[d] /\ l.kept = controlling
<1> DEFINE p == [page |-> d, left |-> Uses[d], kept |-> controlling]
<1>1. PageOf(d) = {p} /\ p \in [page : Deployments, left : SUBSET Assets, kept : BOOLEAN]
  BY ShellAssumption DEF PageOf
<1>2. p.page = d /\ p.left = Uses[d] /\ p.kept = controlling
  OBVIOUS
<1> HIDE DEF p
<1>3. QED
  BY <1>1, <1>2

LEMMA ShellTypeStep ==
    ASSUME ShellTypeOK, [ShellNext]_shellVars
    PROVE  ShellTypeOK'
<1> USE DEF ShellTypeOK
<1>1. CASE InstallStarts
  <2> DEFINE i == [page |-> deployed, left |-> Uses[deployed]]
  <2>1. install' = {i} /\ i \in [page : Deployments, left : SUBSET Assets]
    BY <1>1, ShellAssumption DEF InstallStarts
  <2>2. QED
    BY <1>1, <2>1 DEF InstallStarts
<1>2. ASSUME NEW a \in Assets, Precache(a) PROVE ShellTypeOK'
  <2>1. PICK i \in install : install' = {[i EXCEPT !.left = @ \ {a}]}
    BY <1>2 DEF Precache
  <2>2. [i EXCEPT !.left = @ \ {a}] \in [page : Deployments, left : SUBSET Assets]
    BY <2>1
  <2>3. static' \in [Assets -> {"nothing", "asset", "page"}]
    BY <1>2 DEF Precache, Served
  <2>4. QED
    BY <1>2, <2>1, <2>2, <2>3 DEF Precache
<1>3. CASE InstallFails
  BY <1>3 DEF InstallFails
<1>4. CASE Activate
  <2>1. whole' \subseteq Deployments
    BY <1>4 DEF Activate
  <2>2. QED
    BY <1>4, <2>1 DEF Activate
<1>5. CASE NavigateOnline
  BY <1>5, PageOfType DEF NavigateOnline
<1>6. CASE NavigateToFile \/ NavigateOffline
  <2>1. CASE NavigateToFile
    BY <2>1 DEF NavigateToFile
  <2>2. CASE NavigateOffline
    BY <2>2, PageOfType DEF NavigateOffline
  <2>3. QED
    BY <1>6, <2>1, <2>2
<1>7. ASSUME NEW a \in Assets, FromCache(a) \/ FromNetwork(a) PROVE ShellTypeOK'
  <2>1. PICK l \in load : /\ load' = {[l EXCEPT !.left = @ \ {a}]}
                          /\ whole' = whole \cup {p \in {l.page} : l.kept /\ l.left = {a}}
    BY <1>7 DEF FromCache, FromNetwork, LoadGoesOn
  <2>2. [l EXCEPT !.left = @ \ {a}] \in [page : Deployments, left : SUBSET Assets, kept : BOOLEAN]
    BY <2>1
  <2>3. whole' \subseteq Deployments
    BY <2>1
  <2>4. static' \in [Assets -> {"nothing", "asset", "page"}]
    BY <1>7 DEF FromCache, FromNetwork, Served
  <2>5. QED
    BY <1>7, <2>1, <2>2, <2>3, <2>4 DEF FromCache, FromNetwork
<1>8. ASSUME NEW d PROVE Foreign(d) \subseteq Assets
  BY DEF Foreign
<1>9. ASSUME NEW d \in Deployments, Deploy(d) PROVE ShellTypeOK'
  BY <1>8, <1>9 DEF Deploy
<1>10. CASE ConnectionTurns
  BY <1>8, <1>10 DEF ConnectionTurns
<1>11. CASE UNCHANGED shellVars
  BY <1>11 DEF shellVars
<1>12. QED
  BY <1>1, <1>2, <1>3, <1>4, <1>5, <1>6, <1>7, <1>9, <1>10, <1>11 DEF ShellNext

\* What is saved stays saved, or is replaced by what is.
LEMMA SavedStays ==
    ASSUME ShellInductive, [ShellNext]_shellVars
    PROVE  \A a \in Assets : static[a] # "nothing" => static'[a] # "nothing"
<1>1. ASSUME NEW b \in Assets, Precache(b) \/ FromNetwork(b)
      PROVE  \A a \in Assets : static[a] # "nothing" => static'[a] # "nothing"
  BY <1>1 DEF Precache, FromNetwork, Served, ShellInductive, ShellTypeOK
<1>2. QED
  BY <1>1 DEF ShellNext, shellVars, InstallStarts, InstallFails, Activate, NavigateOnline, NavigateToFile,
              NavigateOffline, FromCache, Deploy, ConnectionTurns

LEMMA DoubtfulStep ==
    ASSUME ShellInductive, [ShellNext]_shellVars
    PROVE  OnlyDoubtfulReplaced'
<1> USE DEF ShellInductive, OnlyDoubtfulReplaced
<1>1. static \in [Assets -> {"nothing", "asset", "page"}] /\ controlling \in BOOLEAN /\ deployed \in Deployments
  BY DEF ShellTypeOK
<1>2. CASE InstallStarts
  BY <1>2 DEF InstallStarts
<1>3. ASSUME NEW a \in Assets, Precache(a) PROVE OnlyDoubtfulReplaced'
  <2>1. PICK i \in install : a \in i.left /\ install' = {[i EXCEPT !.left = @ \ {a}]}
    BY <1>3 DEF Precache
  <2>2. i.left \subseteq Uses[i.page] /\ i \in [page : Deployments, left : SUBSET Assets]
    BY <2>1 DEF FetchedIsSaved, ShellTypeOK
  <2>3. /\ static' = [static EXCEPT ![a] = Served(a)]
        /\ UNCHANGED <<deployed, connected, load, doubtful>>
    BY <1>3 DEF Precache
  <2>4. Served(a) = "page" => a \in doubtful
    BY <2>1, <2>2 DEF Served
  <2>5. \A b \in Assets : static'[b] = "page" => b \in doubtful
    BY <1>1, <2>3, <2>4
  <2>6. \A j \in install' : j.page # deployed => j.left \subseteq doubtful
    BY <2>1, <2>2
  <2>7. Served(a) # "nothing"
    BY DEF Served
  <2>8. \A l \in load : \A b \in l.left \cap Assets : static'[b] = "nothing" => static[b] = "nothing"
    BY <1>1, <2>3, <2>7
  <2>9. \A l \in load : l.left \subseteq Assets
    BY DEF ShellTypeOK
  <2>10. QED
    BY <2>3, <2>5, <2>6, <2>8, <2>9
<1>4. CASE InstallFails \/ Activate
  BY <1>4 DEF InstallFails, Activate
<1>5. CASE NavigateOnline
  <2>1. \A l \in load' : l.page = deployed
    BY <1>1, <1>5, PageOfType DEF NavigateOnline
  <2>2. QED
    BY <1>5, <2>1 DEF NavigateOnline
<1>6. CASE NavigateToFile \/ NavigateOffline
  BY <1>6 DEF NavigateToFile, NavigateOffline
<1>7. ASSUME NEW a \in Assets, FromCache(a) \/ FromNetwork(a) PROVE OnlyDoubtfulReplaced'
  <2>1. PICK l \in load : a \in l.left /\ load' = {[l EXCEPT !.left = @ \ {a}]}
    BY <1>7 DEF FromCache, FromNetwork, LoadGoesOn
  <2>2. l.left \subseteq Uses[l.page] /\ l \in [page : Deployments, left : SUBSET Assets, kept : BOOLEAN]
    BY <2>1 DEF FetchedIsSaved, ShellTypeOK
  <2>3. UNCHANGED <<deployed, connected, install, doubtful>>
    BY <1>7 DEF FromCache, FromNetwork
  <2>4. \A b \in Assets : static'[b] = "page" => b \in doubtful
    <3>1. CASE static' = static
      BY <3>1
    <3>2. CASE static' # static
      <4>1. /\ connected /\ controlling /\ static[a] = "nothing"
            /\ static' = [static EXCEPT ![a] = Served(a)]
        BY <1>1, <1>7, <3>2 DEF FromCache, FromNetwork
      <4>2. Served(a) = "page" => a \in doubtful
        BY <2>1, <2>2, <4>1 DEF Served
      <4>3. QED
        BY <1>1, <4>1, <4>2
    <3>3. QED
      BY <3>1, <3>2
  <2>5. \A m \in load' : m.page = l.page /\ m.left \subseteq l.left
    BY <2>1, <2>2
  <2>6. \A b \in l.left : static'[b] = "nothing" => static[b] = "nothing"
    BY <2>2, SavedStays
  <2>7. QED
    BY <2>1, <2>3, <2>4, <2>5, <2>6
<1>8. ASSUME NEW d \in Deployments, UNCHANGED <<install, load, static>>, deployed' = d,
             doubtful' = doubtful \cup Foreign(d)
      PROVE  OnlyDoubtfulReplaced'
  <2>1. /\ \A i \in install : i.left \subseteq Assets
        /\ \A l \in load : l.left \subseteq Assets
    BY DEF ShellTypeOK
  <2>2. \A i \in install : i.page # d => i.left \subseteq doubtful'
    BY <1>8, <2>1 DEF Foreign
  <2>3. \A l \in load : \A a \in l.left : l.page # d /\ static[a] = "nothing" => a \in doubtful'
    BY <1>8, <2>1 DEF Foreign
  <2>4. QED
    BY <1>8, <2>2, <2>3
<1>9. ASSUME NEW d \in Deployments, Deploy(d) PROVE OnlyDoubtfulReplaced'
  BY <1>8, <1>9 DEF Deploy
<1>10. CASE ConnectionTurns
  BY <1>1, <1>8, <1>10 DEF ConnectionTurns
<1>11. CASE UNCHANGED shellVars
  BY <1>11 DEF shellVars
<1>12. QED
  BY <1>2, <1>3, <1>4, <1>5, <1>6, <1>7, <1>9, <1>10, <1>11 DEF ShellNext

LEMMA SavedStep ==
    ASSUME ShellInductive, [ShellNext]_shellVars
    PROVE  FetchedIsSaved'
<1> DEFINE saved(S) == \A a \in S : static[a] # "nothing"
           kept(S) == \A a \in S : static'[a] # "nothing"
           goodInstall(i) == i.left \subseteq Uses[i.page] /\ saved(Uses[i.page] \ i.left)
           goodLoad(l) == /\ l.left \subseteq Uses[l.page]
                          /\ l.kept => controlling /\ saved(Uses[l.page] \ l.left)
<1>1. /\ static \in [Assets -> {"nothing", "asset", "page"}] /\ controlling \in BOOLEAN /\ deployed \in Deployments
      /\ \A i \in install : i \in [page : Deployments, left : SUBSET Assets]
      /\ \A l \in load : l \in [page : Deployments, left : SUBSET Assets, kept : BOOLEAN]
      /\ whole \subseteq Deployments /\ \A d \in Deployments : Uses[d] \subseteq Assets
  BY ShellAssumption DEF ShellInductive, ShellTypeOK
<1>2. ASSUME NEW S, S \subseteq Assets, saved(S) PROVE kept(S)
  BY <1>2, SavedStays
<1>3. /\ \A i \in install : goodInstall(i)
      /\ \A l \in load : goodLoad(l)
      /\ \A d \in whole : saved(Uses[d])
  BY DEF ShellInductive, FetchedIsSaved
<1>4. \A d \in whole : kept(Uses[d])
  BY <1>1, <1>2, <1>3
<1>5. \A i \in install : i.left \subseteq Uses[i.page] /\ kept(Uses[i.page] \ i.left)
  <2> SUFFICES ASSUME NEW i \in install PROVE i.left \subseteq Uses[i.page] /\ kept(Uses[i.page] \ i.left)
    OBVIOUS
  <2>1. Uses[i.page] \ i.left \subseteq Assets /\ goodInstall(i)
    BY <1>1, <1>3
  <2>2. QED
    BY <1>2, <2>1
<1>6. \A l \in load : l.left \subseteq Uses[l.page] /\ (l.kept => controlling /\ kept(Uses[l.page] \ l.left))
  <2> SUFFICES ASSUME NEW l \in load
               PROVE  l.left \subseteq Uses[l.page] /\ (l.kept => controlling /\ kept(Uses[l.page] \ l.left))
    OBVIOUS
  <2>1. Uses[l.page] \ l.left \subseteq Assets /\ goodLoad(l)
    BY <1>1, <1>3
  <2>2. QED
    BY <1>2, <2>1
<1> HIDE DEF saved, goodInstall, goodLoad
<1>7. ASSUME controlling => controlling',
             \A d \in whole' \ whole : kept(Uses[d]),
             \A i \in install' \ install : i.left \subseteq Uses[i.page] /\ kept(Uses[i.page] \ i.left),
             \A l \in load' \ load :
                 l.left \subseteq Uses[l.page] /\ (l.kept => controlling' /\ kept(Uses[l.page] \ l.left))
      PROVE  FetchedIsSaved'
  <2>1. \A d \in whole' : kept(Uses[d])
    BY <1>4, <1>7
  <2>2. \A i \in install' : i.left \subseteq Uses[i.page] /\ kept(Uses[i.page] \ i.left)
    BY <1>5, <1>7
  <2>3. \A l \in load' : l.left \subseteq Uses[l.page] /\ (l.kept => controlling' /\ kept(Uses[l.page] \ l.left))
    BY <1>6, <1>7
  <2>4. QED
    BY <2>1, <2>2, <2>3 DEF FetchedIsSaved
<1>8. CASE InstallStarts
  <2>1. /\ install' = {[page |-> deployed, left |-> Uses[deployed]]}
        /\ UNCHANGED <<controlling, whole, load>>
    BY <1>8 DEF InstallStarts
  <2>2. \A i \in install' : i.left \subseteq Uses[i.page] /\ kept(Uses[i.page] \ i.left)
    BY <2>1
  <2>3. QED
    BY <1>7, <2>1, <2>2
<1>9. ASSUME NEW a \in Assets, Precache(a) PROVE FetchedIsSaved'
  <2>1. PICK i \in install : a \in i.left /\ install' = {[i EXCEPT !.left = @ \ {a}]}
    BY <1>9 DEF Precache
  <2>2. static' = [static EXCEPT ![a] = Served(a)] /\ UNCHANGED <<controlling, whole, load>>
    BY <1>9 DEF Precache
  <2>3. static'[a] # "nothing"
    BY <1>1, <2>2 DEF Served
  <2> DEFINE j == [i EXCEPT !.left = @ \ {a}]
  <2>4. j.page = i.page /\ j.left = i.left \ {a}
    BY <1>1
  <2>5. j.left \subseteq Uses[j.page] /\ kept(Uses[j.page] \ j.left)
    BY <1>5, <2>1, <2>3, <2>4
  <2> HIDE DEF j
  <2>6. install' = {j}
    BY <2>1 DEF j
  <2>7. QED
    BY <1>7, <2>2, <2>5, <2>6
<1>10. CASE InstallFails
  BY <1>7, <1>10 DEF InstallFails
<1>11. CASE Activate
  <2>1. \A i \in install : i.left = {}
    BY <1>11 DEF Activate, ShellInductive, ShellTypeOK
  <2>2. \A d \in whole' \ whole : kept(Uses[d])
    BY <1>5, <1>11, <2>1 DEF Activate
  <2>3. QED
    BY <1>7, <1>11, <2>2 DEF Activate
<1>12. ASSUME NEW d \in Deployments, load' \subseteq PageOf(d), UNCHANGED <<controlling, install, whole>>
       PROVE  FetchedIsSaved'
  <2>1. \A l \in load' : l.page = d /\ l.left = Uses[d] /\ l.kept = controlling
    BY <1>1, <1>12, PageOfType
  <2>2. QED
    BY <1>7, <1>12, <2>1
<1>13. CASE NavigateOnline \/ NavigateToFile \/ NavigateOffline
  BY <1>1, <1>12, <1>13 DEF NavigateOnline, NavigateToFile, NavigateOffline
<1>14. ASSUME NEW a \in Assets, FromCache(a) \/ FromNetwork(a) PROVE FetchedIsSaved'
  <2>1. PICK l \in load : /\ a \in l.left /\ load' = {[l EXCEPT !.left = @ \ {a}]}
                          /\ whole' = whole \cup {p \in {l.page} : l.kept /\ l.left = {a}}
    BY <1>14 DEF FromCache, FromNetwork, LoadGoesOn
  <2>2. UNCHANGED <<controlling, install>>
    BY <1>14 DEF FromCache, FromNetwork
  <2>3. controlling => static'[a] # "nothing"
    BY <1>1, <1>14 DEF FromCache, FromNetwork, Served
  <2> DEFINE m == [l EXCEPT !.left = @ \ {a}]
  <2>4. m.page = l.page /\ m.left = l.left \ {a} /\ m.kept = l.kept
    BY <1>1
  <2>5. m.left \subseteq Uses[m.page] /\ (m.kept => controlling /\ kept(Uses[m.page] \ m.left))
    BY <1>6, <2>1, <2>3, <2>4
  <2>6. l.kept /\ l.left = {a} => kept(Uses[l.page])
    BY <2>4, <2>5
  <2> HIDE DEF m
  <2>7. load' = {m}
    BY <2>1 DEF m
  <2>8. \A d \in whole' \ whole : kept(Uses[d])
    BY <2>1, <2>6
  <2>9. QED
    BY <1>7, <2>2, <2>5, <2>7, <2>8
<1>15. ASSUME NEW d \in Deployments, Deploy(d) PROVE FetchedIsSaved'
  BY <1>7, <1>15 DEF Deploy
<1>16. CASE ConnectionTurns \/ UNCHANGED shellVars
  BY <1>7, <1>16 DEF ConnectionTurns, shellVars
<1>17. QED
  BY <1>8, <1>9, <1>10, <1>11, <1>13, <1>14, <1>15, <1>16 DEF ShellNext

LEMMA ShellStep == ShellInductive /\ [ShellNext]_shellVars => ShellInductive'
<1> SUFFICES ASSUME ShellInductive, [ShellNext]_shellVars PROVE ShellInductive'
  OBVIOUS
<1>1. controlling' \/ install' # {} => root' # None
  <2>1. None # File /\ None \notin Deployments
    BY ShellAssumption
  <2>2. QED
    BY <2>1 DEF ShellInductive, ShellTypeOK, ShellNext, shellVars, InstallStarts, InstallFails, Activate,
           NavigateOnline, NavigateToFile, NavigateOffline, Precache, FromCache, FromNetwork, Deploy, ConnectionTurns
<1>2. QED
  BY <1>1, ShellTypeStep, DoubtfulStep, SavedStep DEF ShellInductive

LEMMA InitShell == ShellInit => ShellInductive
BY DEF ShellInit, ShellInductive, ShellTypeOK, OnlyDoubtfulReplaced, FetchedIsSaved

\* A worker in control starts the app offline: the page under "/" that was once
\* whole has its assets, but for those the server no longer had.
THEOREM OfflineStart == ShellSpec => []OfflineStartWorks
<1>1. ShellInductive => OfflineStartWorks
  <2> SUFFICES ASSUME ShellInductive, root \in whole, NEW a \in Uses[root] \ doubtful PROVE static[a] = "asset"
    BY DEF ShellInductive, OfflineStartWorks
  <2>1. a \in Assets /\ static[a] \in {"nothing", "asset", "page"}
    BY ShellAssumption DEF ShellInductive, ShellTypeOK
  <2>2. QED
    BY <2>1 DEF ShellInductive, OnlyDoubtfulReplaced, FetchedIsSaved
<1>2. QED
  BY <1>1, InitShell, ShellStep, PTL DEF ShellSpec

-----------------------------------------------------------------------------
(* The life of a process                                                    *)

LEMMA BeatIntervals ==
    ASSUME NEW t \in BeatTTLs
    PROVE  t \in Nat /\ BeatInterval(t) \in Nat \ {0} /\ BeatInterval(t) < t
BY LifeAssumption DEF BeatInterval, Larger

\* A set of k members has 2^k subsets: the powers of two are numbers.
LEMMA PowerNat ==
    ASSUME NEW k \in Nat
    PROVE  2^k \in Nat
<1>1. IsFiniteSet(1..k) /\ Cardinality(1..k) = k
  BY FS_Interval
<1>2. IsFiniteSet(SUBSET (1..k)) /\ Cardinality(SUBSET (1..k)) = 2^k
  BY <1>1, FS_SUBSET
<1>3. QED
  BY <1>2, FS_CardinalityType

LEMMA RetryDelaysType ==
    ASSUME NEW n \in Nat \ {0}, NEW d \in RetryDelays(n)
    PROVE  d \in Nat /\ 5 * d <= 6 * Larger(RetryBase, RetryMax) + 2
<1> DEFINE power == 2^(n - 1)
           cap == Larger(RetryBase, RetryMax)
           e == Smaller(cap, RetryBase * power)
<1>1. power \in Nat
  BY PowerNat
<1>2. cap \in Nat /\ RetryBase \in Nat
  BY LifeAssumption DEF Larger
<1> HIDE DEF power, cap
<1>3. RetryBase * power \in Nat
  BY <1>1, <1>2
<1>4. e \in Nat /\ e <= cap
  BY <1>2, <1>3 DEF Smaller
<1>5. PICK r \in {4, 5, 6} : d = (e * r + 2) \div 5
  BY DEF RetryDelays, power, cap
<1> HIDE DEF e
<1>6. d \in Nat /\ 5 * d <= 6 * cap + 2
  <2>1. CASE r = 4
    BY <1>2, <1>4, <1>5, <2>1
  <2>2. CASE r = 5
    BY <1>2, <1>4, <1>5, <2>2
  <2>3. CASE r = 6
    BY <1>2, <1>4, <1>5, <2>3
  <2>4. QED
    BY <1>5, <2>1, <2>2, <2>3
<1>7. QED
  BY <1>6 DEF cap

LEMMA NextDelayType ==
    ASSUME delay \in PollBase..Larger(PollBase, PollMax), NEW busy \in BOOLEAN
    PROVE  NextDelay(busy) \in PollBase..Larger(PollBase, PollMax)
BY LifeAssumption DEF NextDelay, Larger, Smaller

\* The process alone: its phase, exit code, work and delays.
ProcessType ==
    /\ phase \in {"migrating", "starting", "serving", "draining", "closing", "exited"}
    /\ phase = "migrating" => kind = "api"
    /\ phase = "starting" => kind = "worker"
    /\ polls \in IF kind = "api" THEN {"off"} ELSE {"off", "timer", "tick"}
    /\ code \in {0, 1} /\ cut \in BOOLEAN
    /\ active \subseteq Work /\ loose \subseteq Work
    /\ attempt \in 1..MaxMigrations
    /\ IF kind = "worker" THEN delay \in PollBase..Larger(PollBase, PollMax)
                          ELSE delay \in Nat /\ 5 * delay <= 6 * Larger(RetryBase, RetryMax) + 2

LEMMA ProcessStep ==
    ASSUME kind \in {"api", "worker"}, ProcessType, CleanExit, [LifeNext]_lifeVars
    PROVE  ProcessType' /\ CleanExit' /\ UNCHANGED <<kind, ttl>>
<1> USE DEF ProcessType, CleanExit, work
<1>1. CASE Migrate
  BY <1>1, LifeAssumption DEF Migrate, Larger, world, ui, heart
<1>2. CASE MigrateFails
  <2>1. UNCHANGED <<kind, ttl>> /\ phase = "migrating"
    BY <1>2 DEF MigrateFails
  <2>2. CASE attempt = MaxMigrations /\ Exit(1) /\ UNCHANGED <<attempt, delay>>
    BY <2>1, <2>2 DEF Exit
  <2>3. CASE attempt < MaxMigrations /\ attempt' = attempt + 1 /\ delay' \in RetryDelays(attempt)
             /\ UNCHANGED <<phase, code, work, polls>>
    BY <2>1, <2>3, RetryDelaysType, LifeAssumption
  <2>4. QED
    BY <1>2, <2>2, <2>3 DEF MigrateFails
<1>3. CASE Signal
  <2>1. UNCHANGED <<kind, ttl, attempt, delay>>
    BY <1>3 DEF Signal
  <2>2. CASE phase \in {"migrating", "starting"}
    <3>1. Exit(1)
      BY <1>3, <2>2 DEF Signal
    <3>2. QED
      BY <2>1, <3>1 DEF Exit
  <2>3. CASE phase = "serving"
    <3>1. /\ phase' = "draining" /\ code' \in {0, 1} /\ UNCHANGED work
          /\ polls' = polls \/ (polls = "timer" /\ polls' = "off")
      BY <1>3, <2>3 DEF Signal
    <3>2. polls' \in IF kind = "api" THEN {"off"} ELSE {"off", "timer", "tick"}
      BY <3>1
    <3>3. QED
      BY <2>1, <2>3, <3>1, <3>2
  <2>4. CASE phase \in {"draining", "closing"}
    <3>1. UNCHANGED <<phase, code, work, polls>>
      BY <1>3, <2>4 DEF Signal
    <3>2. QED
      BY <2>1, <3>1
  <2>5. QED
    BY <1>3, <2>2, <2>3, <2>4 DEF Signal
<1>4. CASE Drained
  BY <1>4 DEF Drained
<1>5. CASE Closed
  BY <1>5 DEF Closed, Exit
<1>6. CASE ForceExit
  BY <1>6 DEF ForceExit, Exit
<1>7. CASE Restart
  <2>1. UNCHANGED <<kind, ttl, active>> /\ attempt' = 1 /\ code' = 0 /\ cut' = FALSE
        /\ phase' = (IF kind = "api" THEN "migrating" ELSE "starting")
        /\ polls' = (IF kind = "api" THEN "off" ELSE "tick")
        /\ delay' = (IF kind = "api" THEN 0 ELSE PollBase)
        /\ UNCHANGED loose
    BY <1>7 DEF Restart, FirstPhase, FirstPoll, FirstDelay
  <2>2. 1 \in 1..MaxMigrations /\ PollBase \in PollBase..Larger(PollBase, PollMax)
    BY LifeAssumption DEF Larger
  <2>3. 0 \in Nat /\ 5 * 0 <= 6 * Larger(RetryBase, RetryMax) + 2
    BY LifeAssumption DEF Larger
  <2>4. active = {}
    BY <1>7 DEF Restart
  <2>5. CASE kind = "api"
    BY <2>1, <2>2, <2>3, <2>4, <2>5
  <2>6. CASE kind = "worker"
    BY <2>1, <2>2, <2>3, <2>4, <2>6
  <2>7. QED
    BY <2>5, <2>6
<1>8. ASSUME NEW w \in Work, Accept(w) \/ Complete(w) \/ ClientGone(w) \/ LooseEnds(w)
      PROVE  ProcessType' /\ CleanExit' /\ UNCHANGED <<kind, ttl>>
  <2>1. CASE Accept(w)
    BY <2>1 DEF Accept
  <2>2. CASE Complete(w)
    <3>1. loose' \subseteq Work
      BY <2>2 DEF Complete
    <3>2. QED
      BY <2>2, <3>1 DEF Complete
  <2>3. CASE ClientGone(w) \/ LooseEnds(w)
    BY <2>3 DEF ClientGone, LooseEnds
  <2>4. QED
    BY <1>8, <2>1, <2>2, <2>3
<1>9. CASE Started \/ PollStarts \/ PollEnds
  <2>1. CASE Started
    BY <2>1 DEF Started
  <2>2. CASE PollStarts
    BY <2>2 DEF PollStarts
  <2>3. CASE PollEnds
    <3>1. kind = "worker" /\ polls = "tick"
      BY <2>3 DEF PollEnds
    <3>2. delay' \in PollBase..Larger(PollBase, PollMax)
      BY <2>3, <3>1, NextDelayType DEF PollEnds
    <3>3. QED
      BY <2>3, <3>1, <3>2 DEF PollEnds
  <2>4. QED
    BY <1>9, <2>1, <2>2, <2>3
<1>10. CASE Second \/ FirstHeartbeat \/ Heartbeat \/ GoOffline \/ DependencyTurns \/ UNCHANGED lifeVars
  BY <1>10 DEF Second, FirstHeartbeat, Heartbeat, GoOffline, DependencyTurns, lifeVars, process
<1>11. ASSUME NEW c \in Checks, GuardStep(c) PROVE UNCHANGED <<process, kind, ttl>>
  BY <1>11 DEF GuardStep, CheckStarts, CheckServed, CheckAnswered, CheckFails, GoOnline
<1>12. QED
  BY <1>1, <1>2, <1>3, <1>4, <1>5, <1>6, <1>7, <1>8, <1>9, <1>10, <1>11 DEF LifeNext, process

LEMMA WorldStep ==
    ASSUME LifeTypeOK, [LifeNext]_lifeVars
    PROVE  /\ {database, redis, online}' \subseteq BOOLEAN
           /\ check' \in [Checks -> {"idle", "asked", "healthy", "degraded"}]
           /\ guard' \in {"healthy", "degraded", "offline"}
           /\ upsets' \in 0..MaxUpsets
<1> USE DEF LifeTypeOK
<1>1. ASSUME NEW c \in Checks, GuardStep(c)
      PROVE  /\ UNCHANGED <<database, redis, upsets>> /\ online' \in BOOLEAN
             /\ check' \in [Checks -> {"idle", "asked", "healthy", "degraded"}]
             /\ guard' \in {"healthy", "degraded", "offline"}
  BY <1>1 DEF GuardStep, CheckStarts, CheckServed, CheckAnswered, CheckFails, GoOnline, world
<1>2. CASE GoOffline \/ DependencyTurns
  BY <1>2 DEF GoOffline, DependencyTurns, ui
<1>3. CASE Signal \/ MigrateFails
  <2>1. upsets' \in 0..MaxUpsets
    BY <1>3, LifeAssumption DEF Signal, MigrateFails, Upset
  <2>2. QED
    BY <1>3, <2>1 DEF Signal, MigrateFails, world, ui
<1>4. ASSUME NEW w \in Work, Accept(w) \/ Complete(w) \/ ClientGone(w) \/ LooseEnds(w)
      PROVE  UNCHANGED <<world, ui, upsets>>
  BY <1>4 DEF Accept, Complete, ClientGone, LooseEnds
<1>5. CASE \/ Migrate \/ Drained \/ Closed \/ ForceExit \/ Restart \/ Started \/ PollStarts \/ PollEnds
           \/ Second \/ FirstHeartbeat \/ Heartbeat \/ UNCHANGED lifeVars
  BY <1>5 DEF Migrate, Drained, Closed, ForceExit, Restart, Started, PollStarts, PollEnds, Second,
     FirstHeartbeat, Heartbeat, lifeVars, world, ui
<1>6. QED
  BY <1>1, <1>2, <1>3, <1>4, <1>5 DEF LifeNext, world, ui

LEMMA HeartStep ==
    ASSUME LifeTypeOK, HeartbeatLasts, [LifeNext]_lifeVars
    PROVE  /\ beat' \in 0..ttl /\ due' \in 0..BeatInterval(ttl) /\ missed' \in 0..2
           /\ UNCHANGED ttl => HeartbeatLasts'
<1> DEFINE I == BeatInterval(ttl)
<1>1. /\ ttl \in Nat /\ I \in Nat \ {0} /\ I < ttl
      /\ beat \in 0..ttl /\ due \in 0..I /\ missed \in 0..2
  BY BeatIntervals DEF LifeTypeOK
<1>2. /\ BeatInterval(ttl') = I \/ ttl' # ttl
      /\ kind = "worker" /\ phase = "serving" =>
           /\ missed = 0 => beat >= ttl - I + due
           /\ missed = 1 => beat >= ttl - 2 * I + due
  BY DEF HeartbeatLasts
<1> HIDE DEF I
<1>3. ASSUME /\ beat' \in 0..ttl /\ due' \in 0..I /\ missed' \in 0..2
             /\ ttl' = ttl => (kind' = "worker" /\ phase' = "serving" =>
                  /\ missed' = 0 => beat' >= ttl - I + due'
                  /\ missed' = 1 => beat' >= ttl - 2 * I + due')
      PROVE  /\ beat' \in 0..ttl /\ due' \in 0..BeatInterval(ttl) /\ missed' \in 0..2
             /\ UNCHANGED ttl => HeartbeatLasts'
  BY <1>3 DEF HeartbeatLasts, I
<1>4. CASE Second
  <2>1. beat' = Larger(0, beat - 1) /\ UNCHANGED <<missed, phase, kind>>
        /\ due' = (IF phase = "serving" THEN due - 1 ELSE due) /\ (phase = "serving" => due > 0)
    BY <1>4 DEF Second, process
  <2>2. QED
    BY <1>1, <1>2, <1>3, <2>1 DEF Larger
<1>5. CASE Heartbeat
  <2>1. /\ due = 0 /\ due' = I /\ UNCHANGED <<kind, phase>> /\ kind = "worker" /\ phase = "serving"
        /\ (beat' = ttl /\ missed' = 0) \/ (beat' = beat /\ missed' = Smaller(2, missed + 1))
    BY <1>5 DEF Heartbeat, process, I
  <2>2. QED
    BY <1>1, <1>2, <1>3, <2>1 DEF Smaller
<1>6. CASE Restart \/ Started
  <2>1. due' \in {0, I} /\ beat' = beat /\ missed' = 2
    BY <1>6 DEF Restart, Started, I
  <2>2. QED
    BY <1>1, <1>3, <2>1
<1>0. CASE FirstHeartbeat
  <2>1. phase' = "starting" /\ due' = due /\ beat' \in {ttl, beat} /\ missed' \in {0, 1}
    BY <1>0 DEF FirstHeartbeat, process
  <2>2. QED
    BY <1>1, <1>3, <2>1
<1>7. ASSUME UNCHANGED heart, kind' = kind, phase' = "serving" => phase = "serving" \/ kind = "api"
      PROVE  /\ beat' \in 0..ttl /\ due' \in 0..BeatInterval(ttl) /\ missed' \in 0..2
             /\ UNCHANGED ttl => HeartbeatLasts'
  BY <1>1, <1>2, <1>3, <1>7 DEF heart
<1>8. ASSUME NEW w \in Work, Accept(w) \/ Complete(w) \/ ClientGone(w) \/ LooseEnds(w)
      PROVE  UNCHANGED heart /\ kind' = kind /\ phase' = phase
  BY <1>8 DEF Accept, Complete, ClientGone, LooseEnds
<1>9. ASSUME NEW c \in Checks, GuardStep(c)
      PROVE  UNCHANGED heart /\ kind' = kind /\ phase' = phase
  BY <1>9 DEF GuardStep, CheckStarts, CheckServed, CheckAnswered, CheckFails, GoOnline, process
<1>10. CASE PollStarts \/ PollEnds \/ GoOffline \/ DependencyTurns \/ Drained \/ Closed \/ ForceExit \/ UNCHANGED lifeVars
  <2>1. UNCHANGED heart /\ kind' = kind /\ (phase' = phase \/ phase' # "serving")
    BY <1>10 DEF PollStarts, PollEnds, GoOffline, DependencyTurns, Drained, Closed, ForceExit, Exit, process, lifeVars
  <2>2. QED
    BY <1>7, <2>1
<1>11. CASE Migrate \/ MigrateFails \/ Signal
  <2>1. UNCHANGED heart /\ kind' = kind /\ (phase = "migrating" \/ phase' = phase \/ phase' # "serving")
    BY <1>11 DEF Migrate, MigrateFails, Signal, Exit
  <2>2. QED
    BY <1>7, <2>1 DEF LifeTypeOK
<1>12. QED
  BY <1>0, <1>4, <1>5, <1>6, <1>7, <1>8, <1>9, <1>10, <1>11 DEF LifeNext

LEMMA LifeStep == LifeInductive /\ [LifeNext]_lifeVars => LifeInductive'
<1> SUFFICES ASSUME LifeInductive, [LifeNext]_lifeVars PROVE LifeInductive'
  OBVIOUS
<1>1. ProcessType' /\ CleanExit' /\ UNCHANGED <<kind, ttl>>
  BY ProcessStep DEF LifeInductive, LifeTypeOK, ProcessType
<1>2. /\ beat' \in 0..ttl' /\ due' \in 0..BeatInterval(ttl') /\ missed' \in 0..2
      /\ HeartbeatLasts'
  BY <1>1, HeartStep DEF LifeInductive
<1>3. LifeTypeOK'
  BY <1>1, <1>2, WorldStep DEF LifeInductive, LifeTypeOK, ProcessType
<1>4. QED
  BY <1>1, <1>2, <1>3 DEF LifeInductive

LEMMA InitLife == LifeInit => LifeInductive
<1> SUFFICES ASSUME LifeInit PROVE LifeInductive
  OBVIOUS
<1> USE DEF LifeInit, FirstPhase, FirstPoll, FirstDelay
<1>1. ttl \in Nat /\ BeatInterval(ttl) \in Nat \ {0}
  BY BeatIntervals
<1>2. 1 \in 1..MaxMigrations /\ PollBase \in PollBase..Larger(PollBase, PollMax) /\ MaxUpsets \in Nat
  BY LifeAssumption DEF Larger
<1>3. 0 \in Nat /\ 5 * 0 <= 6 * Larger(RetryBase, RetryMax) + 2
  BY LifeAssumption DEF Larger
<1>4. beat \in 0..ttl /\ due \in 0..BeatInterval(ttl) /\ missed \in 0..2 /\ HeartbeatLasts
  BY <1>1 DEF HeartbeatLasts
<1>5. ProcessType /\ CleanExit
  <2>1. CASE kind = "api"
    BY <1>2, <1>3, <2>1 DEF ProcessType, CleanExit
  <2>2. CASE kind = "worker"
    BY <1>2, <2>2 DEF ProcessType, CleanExit
  <2>3. QED
    BY <2>1, <2>2
<1>6. /\ check \in [Checks -> {"idle", "asked", "healthy", "degraded"}]
      /\ online \in BOOLEAN /\ guard \in {"healthy", "degraded", "offline"} /\ upsets \in 0..MaxUpsets
  <2>1. online \in BOOLEAN
    OBVIOUS
  <2>2. guard \in {"healthy", "degraded", "offline"}
    OBVIOUS
  <2>3. QED
    BY <1>2, <2>1, <2>2
<1>7. QED
  BY <1>4, <1>5, <1>6 DEF LifeInductive, LifeTypeOK, ProcessType

\* Types, for every attempt: the delay before a migration stays within its
\* maximum and the jitter, the delay of the polls within theirs.
THEOREM LifeTypeCorrect == LifeSpec => []LifeTypeOK
<1>1. LifeInductive => LifeTypeOK
  BY DEF LifeInductive
<1>2. QED
  BY <1>1, InitLife, LifeStep, PTL DEF LifeSpec

\* Whatever signals, errors and timers arrive: connections are closed after the
\* last job and the last request whose client waits, and exit code 0 says that
\* none of these was cut short.
THEOREM ExitsClean == LifeSpec => []CleanExit
<1>1. LifeInductive => CleanExit
  BY DEF LifeInductive
<1>2. QED
  BY <1>1, InitLife, LifeStep, PTL DEF LifeSpec

\* The worker's key outlives the wait for its next heartbeat, and one that
\* failed when the TTL is longer than two intervals.
THEOREM WorkerIsVisible == LifeSpec => []WorkerVisible
<1>1. LifeInductive => WorkerVisible
  <2> SUFFICES ASSUME LifeInductive PROVE WorkerVisible
    OBVIOUS
  <2>1. /\ ttl \in Nat /\ BeatInterval(ttl) \in Nat /\ BeatInterval(ttl) < ttl
        /\ due \in Nat /\ beat \in Int
    BY BeatIntervals DEF LifeInductive, LifeTypeOK
  <2>2. QED
    BY <2>1 DEF LifeInductive, HeartbeatLasts, WorkerVisible
<1>2. QED
  BY <1>1, InitLife, LifeStep, PTL DEF LifeSpec

-----------------------------------------------------------------------------
(* The list of events on screen                                             *)

LEMMA PagesClosed ==
    /\ 1 \in Pages
    /\ \A p \in Pages : p \in Nat /\ \A q \in 1..p : q \in Pages
    /\ \A f \in Filters : \A q \in 1..PagesOf[f] : q \in Pages
BY CatalogAssumption DEF Pages

LEMMA QueryType ==
    ASSUME NEW p \in Pages, NEW f \in Filters
    PROVE  Q(p, f) \in Query /\ Q(p, f).page = p /\ Q(p, f).filter = f
BY DEF Q, Query

\* Start counts the loads of its queries, and of no other.
LEMMA StartCounts ==
    ASSUME loads \in [Query -> 0..MaxLoads], NEW call, NEW effect, Start(call, effect)
    PROVE  /\ loads' \in [Query -> 0..MaxLoads]
           /\ \A q \in Query : IF q \in call \cup effect THEN loads'[q] > 0 ELSE loads'[q] = loads[q]
           /\ loading' = (loading \/ call \cup effect # {})
<1>1. ASSUME NEW S, NEW q PROVE Cardinality(S \cap {q}) = IF q \in S THEN 1 ELSE 0
  <2>1. CASE q \in S
    <3>1. S \cap {q} = {q}
      BY <2>1
    <3>2. QED
      BY <2>1, <3>1, FS_Singleton
  <2>2. CASE q \notin S
    <3>1. S \cap {q} = {}
      BY <2>2
    <3>2. QED
      BY <2>2, <3>1, FS_EmptySet
  <2>3. QED
    BY <2>1, <2>2
<1>2. \A q \in Query : loads'[q] = loads[q] + (Cardinality(call \cap {q}) + Cardinality(effect \cap {q}))
  BY DEF Start
<1>3. ASSUME NEW q \in Query PROVE IF q \in call \cup effect THEN loads'[q] > 0 ELSE loads'[q] = loads[q]
  <2>1. loads[q] \in 0..MaxLoads /\ loads[q] \in Nat
    BY CatalogAssumption
  <2>2. loads'[q] = loads[q] + ((IF q \in call THEN 1 ELSE 0) + (IF q \in effect THEN 1 ELSE 0))
    <3>1. /\ Cardinality(call \cap {q}) = IF q \in call THEN 1 ELSE 0
          /\ Cardinality(effect \cap {q}) = IF q \in effect THEN 1 ELSE 0
      BY <1>1
    <3>2. loads'[q] = loads[q] + (Cardinality(call \cap {q}) + Cardinality(effect \cap {q}))
      BY <1>2
    <3>3. QED
      BY <3>1, <3>2
  <2>3. QED
    BY <2>1, <2>2
<1>4. loads' \in [Query -> 0..MaxLoads]
  <2>1. \A q \in Query : loads'[q] \in 0..MaxLoads
    BY DEF Start
  <2>2. loads' = [q \in Query |-> loads'[q]]
    BY DEF Start
  <2>3. QED
    BY <2>1, <2>2
<1>5. QED
  BY <1>3, <1>4 DEF Start

\* A step that starts loads.  For a patient user, nothing was loading before,
\* and what is loaded is what was asked for.
LEMMA AskStep ==
    ASSUME CatalogInductive, NEW call, NEW effect, Start(call, effect), call \cup effect \subseteq Query,
           asked' \in Query, page' \in Pages, form' \in Filters, view' = view, job' \subseteq job,
           excuse' \in BOOLEAN, cleared' \in BOOLEAN,
           ~excuse' /\ ~cleared' =>
               NothingLoads /\ call \cup effect = {asked'} /\ page' = asked'.page /\ job' = {}
    PROVE  CatalogInductive'
<1>1. /\ loads \in [Query -> 0..MaxLoads] /\ loading \in BOOLEAN /\ (loading => ~NothingLoads)
      /\ loads' \in [Query -> 0..MaxLoads]
      /\ loading' = (loading \/ call \cup effect # {})
      /\ \A q \in Query : IF q \in call \cup effect THEN loads'[q] > 0 ELSE loads'[q] = loads[q]
  BY StartCounts DEF CatalogInductive, CatalogTypeOK
<1>2. loading' \in BOOLEAN
  BY <1>1
<1>3. CatalogTypeOK'
  BY <1>1, <1>2 DEF CatalogInductive, CatalogTypeOK
<1>4. loading' => ~NothingLoads'
  <2>1. ASSUME NEW q \in call \cup effect PROVE loads'[q] # 0
    BY <1>1, <2>1
  <2>2. ASSUME NEW q \in Query, loads[q] # 0 PROVE loads'[q] # 0
    BY <1>1, <2>1, <2>2
  <2>3. QED
    BY <1>1, <2>1, <2>2 DEF NothingLoads
<1>5. ASSUME ~excuse', ~cleared'
      PROVE  /\ page' = asked'.page /\ job' = {} /\ loads'[asked'] > 0
             /\ \A r \in Query : loads'[r] > 0 => r = asked'
  BY <1>1, <1>5 DEF NothingLoads
<1>6. PatientUserWaits'
  <2>1. ASSUME loads'[asked'] > 0 PROVE ~NothingLoads'
    BY <1>1, <2>1 DEF NothingLoads
  <2>2. QED
    BY <1>5, <2>1 DEF PatientUserWaits
<1>7. QED
  BY <1>3, <1>4, <1>6 DEF CatalogInductive

\* The effect loads the page of the label, unless the list shows it already.
LEMMA EffectType ==
    ASSUME NEW p \in Pages, NEW f \in Filters
    PROVE  /\ EffectOf(p, f) \subseteq {Q(p, f)} /\ EffectOf(p, f) \subseteq Query
           /\ p # page /\ p # view.page => EffectOf(p, f) = {Q(p, f)}
BY QueryType DEF EffectOf

LEMMA CatalogStep == CatalogInductive /\ [CatalogNext]_catalogVars => CatalogInductive'
<1> SUFFICES ASSUME CatalogInductive, [CatalogNext]_catalogVars PROVE CatalogInductive'
  OBVIOUS
<1>1. /\ page \in Pages /\ form \in Filters /\ All \in Filters /\ view \in Query /\ asked \in Query
      /\ {loading, excuse, cleared} \subseteq BOOLEAN /\ loads \in [Query -> 0..MaxLoads]
      /\ \A j \in job : j \in [reload : Query, creates : BOOLEAN]
      /\ 1 \in Pages /\ page \in Nat
  BY PagesClosed, CatalogAssumption DEF CatalogInductive, CatalogTypeOK
<1>2. Quiet <=> job = {} /\ NothingLoads
  BY DEF Quiet, NothingLoads
<1>3. /\ loading => ~NothingLoads
      /\ ~excuse /\ ~cleared =>
           /\ page = asked.page
           /\ \A q \in Query : loads[q] > 0 => q = asked
           /\ NothingLoads => view = asked
           /\ \A j \in job : NothingLoads /\ j.reload = Q(IF j.creates THEN 1 ELSE page, form)
  BY DEF CatalogInductive, PatientUserWaits
<1>4. ASSUME NEW f \in Filters, Type(f) PROVE CatalogInductive'
  <2>1. excuse' \in BOOLEAN /\ (~excuse' => ~excuse /\ job = {})
    BY <1>1, <1>4 DEF Type
  <2>2. CatalogTypeOK'
    BY <1>4, <2>1 DEF Type, CatalogInductive, CatalogTypeOK
  <2>3. QED
    BY <1>3, <1>4, <2>1, <2>2 DEF Type, CatalogInductive, PatientUserWaits, NothingLoads
<1>5. ASSUME NEW p \in {page - 1, page + 1}, ChangePage(p) PROVE CatalogInductive'
  <2>1. p \in Pages
    BY <1>1, <1>5, PagesClosed DEF ChangePage, HasPage, Query
  <2>2. /\ page' = p /\ Start({}, EffectOf(p, form)) /\ UNCHANGED <<form, view, job, cleared>>
        /\ asked' = Q(p, form) /\ excuse' = (excuse \/ ~Quiet)
    BY <1>5 DEF ChangePage, Ask
  <2>3. ASSUME ~excuse', ~cleared' PROVE NothingLoads /\ EffectOf(p, form) = {Q(p, form)} /\ job = {}
    <3>1. ~excuse /\ ~cleared /\ Quiet
      BY <2>2, <2>3
    <3>2. p # page /\ view.page = page
      BY <1>1, <1>2, <1>3, <3>1
    <3>3. QED
      BY <1>1, <1>2, <2>1, <3>1, <3>2, EffectType
  <2>4. {} \cup EffectOf(p, form) = EffectOf(p, form) /\ excuse' \in BOOLEAN
    BY <1>1, <2>2
  <2>5. QED
    BY <1>1, <2>1, <2>2, <2>3, <2>4, AskStep, QueryType, EffectType
<1>6. CASE ApplyFilters
  <2>1. /\ page' = 1 /\ Start({Q(1, form)}, EffectOf(1, form)) /\ UNCHANGED <<form, view, job>>
        /\ asked' = Q(1, form) /\ excuse' = ~Quiet /\ cleared' = FALSE
    BY <1>6 DEF ApplyFilters
  <2>2. {Q(1, form)} \cup EffectOf(1, form) = {Q(1, form)} /\ excuse' \in BOOLEAN
    BY <1>1, <2>1, EffectType
  <2>3. QED
    BY <1>1, <1>2, <2>1, <2>2, AskStep, QueryType
<1>7. CASE ClearFilters
  <2>1. /\ page' = 1 /\ form' = All /\ Start({Q(1, form)}, EffectOf(1, All)) /\ UNCHANGED <<view, job>>
        /\ asked' = Q(1, All) /\ excuse' = (excuse \/ ~Quiet) /\ cleared' = TRUE
    BY <1>7 DEF ClearFilters, Ask
  <2>2. {Q(1, form)} \cup EffectOf(1, All) \subseteq Query /\ excuse' \in BOOLEAN
    BY <1>1, <2>1, EffectType, QueryType
  <2>3. QED
    BY <1>1, <2>1, <2>2, AskStep, QueryType
<1>8. ASSUME NEW creates \in BOOLEAN, StartJob(creates) PROVE CatalogInductive'
  <2> DEFINE j == [reload |-> Q(IF creates THEN 1 ELSE page, form), creates |-> creates]
  <2>1. /\ job' = {j} /\ excuse' = (excuse \/ ~Quiet)
        /\ UNCHANGED <<page, form, view, loading, loads, asked, cleared>>
    BY <1>8 DEF StartJob
  <2>2. j \in [reload : Query, creates : BOOLEAN] /\ excuse' \in BOOLEAN
    BY <1>1, <2>1, QueryType
  <2>3. j.reload = Q(IF j.creates THEN 1 ELSE page, form)
    OBVIOUS
  <2> HIDE DEF j
  <2>4. CatalogTypeOK'
    BY <2>1, <2>2 DEF CatalogInductive, CatalogTypeOK
  <2>5. QED
    BY <1>2, <1>3, <2>1, <2>3, <2>4 DEF CatalogInductive, PatientUserWaits, NothingLoads
<1>9. CASE EndJob
  <2>1. PICK j \in job : /\ page' = (IF j.creates THEN 1 ELSE page)
                         /\ Start({j.reload}, EffectOf(page', form)) /\ asked' = j.reload
    BY <1>9 DEF EndJob
  <2>2. job' = {} /\ UNCHANGED <<form, view, excuse, cleared>>
    BY <1>9 DEF EndJob
  <2>3. page' \in Pages /\ j.reload \in Query
    BY <1>1, <2>1
  <2>4. {j.reload} \cup EffectOf(page', form) \subseteq Query
    BY <1>1, <2>3, EffectType
  <2>5. ASSUME ~excuse, ~cleared
        PROVE  NothingLoads /\ {j.reload} \cup EffectOf(page', form) = {j.reload} /\ page' = j.reload.page
    <3>1. NothingLoads /\ j.reload = Q(page', form)
      BY <1>3, <2>1, <2>5
    <3>2. QED
      BY <1>1, <2>3, <3>1, EffectType, QueryType
  <2>6. QED
    BY <1>1, <2>1, <2>2, <2>3, <2>4, <2>5, AskStep
<1>10. CASE FailJob
  <2>1. CatalogTypeOK'
    BY <1>10 DEF FailJob, CatalogInductive, CatalogTypeOK
  <2>2. QED
    BY <1>3, <1>10, <2>1 DEF FailJob, CatalogInductive, PatientUserWaits, NothingLoads
<1>11. ASSUME NEW q \in Query, Answer(q) \/ Fail(q) PROVE CatalogInductive'
  <2>1. loads[q] > 0 /\ loads' = [loads EXCEPT ![q] = @ - 1] /\ loading' = FALSE
        /\ UNCHANGED <<page, form, job, asked, cleared>>
    BY <1>11 DEF Answer, Fail
  <2>2. loads' \in [Query -> 0..MaxLoads] /\ \A r \in Query : loads'[r] > 0 => loads[r] > 0
    BY <1>1, <2>1, CatalogAssumption
  <2>3. (view' = q /\ excuse' = excuse) \/ (view' = view /\ excuse' = TRUE)
    BY <1>11 DEF Answer, Fail
  <2>4. CatalogTypeOK'
    BY <2>1, <2>2, <2>3 DEF CatalogInductive, CatalogTypeOK
  <2>5. ASSUME ~excuse', ~cleared PROVE view' = asked /\ job = {}
    <3>1. q = asked /\ ~NothingLoads
      BY <1>1, <1>3, <2>1, <2>3, <2>5 DEF NothingLoads
    <3>2. QED
      BY <1>3, <2>3, <2>5, <3>1
  <2>6. PatientUserWaits'
    BY <1>3, <2>1, <2>2, <2>3, <2>5 DEF PatientUserWaits
  <2>7. QED
    BY <2>1, <2>4, <2>6 DEF CatalogInductive
<1>12. CASE UNCHANGED catalogVars
  BY <1>12 DEF catalogVars, CatalogInductive, CatalogTypeOK, PatientUserWaits, NothingLoads
<1>13. QED
  BY <1>4, <1>5, <1>6, <1>7, <1>8, <1>9, <1>10, <1>11, <1>12 DEF CatalogNext

LEMMA InitCatalog == CatalogInit => CatalogInductive
<1> SUFFICES ASSUME CatalogInit PROVE CatalogInductive
  OBVIOUS
<1>1. 1 \in Pages /\ All \in Filters /\ 0 \in 0..MaxLoads
  BY PagesClosed, CatalogAssumption
<1>2. Q(1, All) \in Query /\ Q(1, All).page = 1
  BY <1>1, QueryType
<1>3. CatalogTypeOK
  BY <1>1, <1>2 DEF CatalogInit, CatalogTypeOK
<1>4. NothingLoads /\ ~loading
  BY DEF CatalogInit, NothingLoads
<1>5. PatientUserWaits
  BY <1>2 DEF CatalogInit, PatientUserWaits
<1>6. QED
  BY <1>3, <1>4, <1>5 DEF CatalogInductive

\* Whatever loads overlap and fail: once all is quiet, a user who did one thing
\* after the other is shown the list asked for last, and nothing loads.
THEOREM PatientUserIsAnswered == CatalogSpec => []PatientUserSeesAnswer
<1>1. CatalogInductive => PatientUserSeesAnswer
  BY DEF CatalogInductive, PatientUserWaits, PatientUserSeesAnswer, Quiet, NothingLoads
<1>2. QED
  BY <1>1, InitCatalog, CatalogStep, PTL DEF CatalogSpec

-----------------------------------------------------------------------------
(* The login throttle                                                       *)

\* Redis rounds: the TTL is above 0 while at least the longer half of a second
\* is left.
LEMMA RoundedTTL ==
    ASSUME NEW t \in Nat, NEW until \in Nat
    PROVE  (until - t + TicksPerSecond \div 2) \div TicksPerSecond > 0
               <=> until - t >= TicksPerSecond - TicksPerSecond \div 2
<1>1. ASSUME NEW s \in Nat \ {0}, NEW x \in Int
      PROVE  x \div s > 0 <=> x >= s
  OBVIOUS
<1>2. TicksPerSecond \in Nat \ {0} /\ TicksPerSecond \div 2 \in Nat
  BY LoginAssumption
<1>3. until - t + TicksPerSecond \div 2 \in Int
  BY <1>2
<1>4. (until - t + TicksPerSecond \div 2) \div TicksPerSecond > 0
          <=> until - t + TicksPerSecond \div 2 >= TicksPerSecond
  BY <1>1, <1>2, <1>3
<1>5. QED
  BY <1>2, <1>4

\* How long a lock keeps attempts out, in ticks.
LEMMA LockLastsType ==
    /\ TicksPerSecond - TicksPerSecond \div 2 \in 1..TicksPerSecond
    /\ LockLasts \in Nat \ {0}
    /\ LockLasts = LockTTL - (TicksPerSecond - TicksPerSecond \div 2) + 1
    /\ LockLasts <= LockTTL
BY LoginAssumption DEF LockLasts

\* How often the lock can be set in a window of failures is a natural number;
\* a lock more than those that ended within the window is one of them.
LEMMA RoundsNat == LockRounds \in Nat /\ Cardinality(Attempts) \in Nat /\ GuessBound \in Nat
<1>1. Cardinality(Attempts) \in Nat
  BY FS_CardinalityType, LoginAssumption
<1>2. ASSUME NEW n \in Nat, NEW d \in Nat \ {0} PROVE n \div d \in Nat
  OBVIOUS
<1>3. LockRounds \in Nat
  BY <1>2, LockLastsType, LoginAssumption DEF LockRounds
<1>4. ASSUME NEW r \in Nat, NEW a \in Nat PROVE r * a \in Nat
  OBVIOUS
<1>5. QED
  BY <1>1, <1>3, <1>4, LoginAssumption DEF GuessBound

LEMMA OneRoundMore ==
    ASSUME NEW k \in Nat, k * LockLasts <= FailureWindow - 1
    PROVE  k + 1 \in 1..LockRounds
<1>1. ASSUME NEW d \in Nat \ {0}, NEW e \in Nat \ {0}, k * d <= e - 1
      PROVE  k + 1 <= (e + d - 1) \div d
  BY <1>1
<1>2. k + 1 <= LockRounds
  BY <1>1, LockLastsType, LoginAssumption DEF LockRounds
<1>3. QED
  BY <1>2, RoundsNat

LEMMA Multiples ==
    ASSUME NEW k \in Nat, NEW a \in Nat
    PROVE  k * a \in Nat /\ (k + 1) * a = k * a + a /\ 1 * a = a
OBVIOUS

LEMMA MultiplesGrow ==
    ASSUME NEW k \in Nat, NEW r \in Nat, NEW a \in Nat, k <= r
    PROVE  k * a <= r * a
OBVIOUS

LEMMA KeyCounts ==
    ASSUME NEW key, NEW t \in Nat, NEW span \in Nat \ {0}, NEW max \in Nat, KeyOK(key, t, span), now = t
    PROVE  /\ KeyOK(Incr(key, span, max), t, span)
           /\ KeyOK(Lapse(key), t + 1, span)
           /\ Incr(key, span, max).count = AtMost(key.count + 1, max + 1)
           /\ Incr(key, span, max).until = IF key.count = 0 THEN t + span ELSE key.until
           /\ Lapse(key) = key \/ Lapse(key) = NoKey
BY DEF KeyOK, Incr, Lapse, NoKey, AtMost

LEMMA LoginTypeStep ==
    ASSUME LoginTypeOK, [LoginNext]_loginVars
    PROVE  LoginTypeOK'
<1>1. /\ now \in Nat /\ MaxTime \in Nat /\ MaxRedisFaults \in Nat /\ LockTTL \in Nat \ {0}
      /\ RateWindow \in Nat \ {0} /\ FailureWindow \in Nat \ {0} /\ RateLimit + 1 \in Nat /\ GuessBound \in Nat
  BY LoginAssumption, RoundsNat DEF LoginTypeOK
<1>2. /\ KeyOK(Incr(window, RateWindow, RateLimit + 1), now, RateWindow)
      /\ KeyOK(Incr(failures, FailureWindow, GuessBound), now, FailureWindow)
      /\ KeyOK(Lapse(window), now + 1, RateWindow) /\ KeyOK(Lapse(failures), now + 1, FailureWindow)
  BY <1>1, KeyCounts DEF LoginTypeOK
<1>3. ASSUME NEW a \in Attempts, Admit(a)
      PROVE  /\ stage' \in [Attempts -> {"idle", "admitted", "allowed", "right", "wrong"}]
             /\ recent' \in [1..RateWindow -> Nat]
  BY <1>1, <1>3 DEF Admit, Go, LoginTypeOK
<1>4. ASSUME NEW a \in Attempts, Arrive(a) PROVE LoginTypeOK'
  BY <1>2, <1>3, <1>4 DEF Arrive, LoginTypeOK
<1>5. ASSUME NEW a \in Attempts, AssertAllowed(a) \/ Verify(a) PROVE LoginTypeOK'
  BY <1>5 DEF AssertAllowed, Verify, Go, LoginTypeOK
<1>6. ASSUME NEW a \in Attempts, RecordFailure(a) PROVE LoginTypeOK'
  <2>1. lockUntil' \in 0 .. now + LockTTL
    BY <1>1, <1>6 DEF RecordFailure, LoginTypeOK
  <2>2. QED
    BY <1>2, <1>6, <2>1 DEF RecordFailure, Go, LoginTypeOK
<1>7. ASSUME NEW a \in Attempts, ClearFailures(a) PROVE LoginTypeOK'
  <2>1. KeyOK(NoKey, now, FailureWindow) /\ 0 \in 0 .. now + LockTTL
    BY <1>1 DEF KeyOK, NoKey
  <2>2. QED
    BY <1>7, <2>1 DEF ClearFailures, Go, LoginTypeOK
<1>8. ASSUME NEW a \in Attempts, RedisFails(a) PROVE LoginTypeOK'
  <2>1. redisFaults' \in 0..MaxRedisFaults
    BY <1>1, <1>8 DEF RedisFails, LoginTypeOK
  <2>2. /\ stage' \in [Attempts -> {"idle", "admitted", "allowed", "right", "wrong"}]
        /\ recent' \in [1..RateWindow -> Nat]
    BY <1>3, <1>8 DEF RedisFails, Go, LoginTypeOK
  <2>3. QED
    BY <1>8, <2>1, <2>2 DEF RedisFails, LoginTypeOK
<1>9. CASE Tick
  <2>1. now' = now + 1 /\ now' \in 0..MaxTime /\ lockUntil \in 0 .. now' + LockTTL
    BY <1>1, <1>9 DEF Tick, LoginTypeOK
  <2>2. recent' \in [1..RateWindow -> Nat]
    BY <1>1, <1>9 DEF Tick, LoginTypeOK
  <2>3. QED
    BY <1>2, <1>9, <2>1, <2>2 DEF Tick, LoginTypeOK
<1>10. CASE UNCHANGED loginVars
  BY <1>10 DEF loginVars, LoginTypeOK
<1>11. QED
  BY <1>4, <1>5, <1>6, <1>7, <1>8, <1>9, <1>10 DEF LoginNext

\* The attempts that passed the check are no more than there are attempts; one
\* that fails leaves them.
LEMMA CheckedCounts ==
    ASSUME stage \in [Attempts -> {"idle", "admitted", "allowed", "right", "wrong"}]
    PROVE  /\ Cardinality(Checked) \in 0..Cardinality(Attempts)
           /\ \A a \in Checked : Cardinality(Checked \ {a}) = Cardinality(Checked) - 1
<1>1. IsFiniteSet(Attempts) /\ Checked \subseteq Attempts
  BY LoginAssumption DEF Checked
<1>2. IsFiniteSet(Checked) /\ Cardinality(Checked) \in Nat /\ Cardinality(Checked) <= Cardinality(Attempts)
  BY <1>1, FS_Subset, FS_CardinalityType
<1>3. \A a \in Checked : Cardinality(Checked \ {a}) = Cardinality(Checked) - 1
  BY <1>2, FS_RemoveElement
<1>4. QED
  BY <1>2, <1>3, RoundsNat

LEMMA GuessesStep ==
    ASSUME LoginInductive, [LoginNext]_loginVars
    PROVE  GuessesPerLock'
<1> DEFINE N == Cardinality(Attempts)
           start == failures.until - FailureWindow
<1>1. /\ now \in Nat /\ N \in Nat /\ LockRounds \in Nat /\ GuessBound \in Nat
      /\ MaxFailures \in Nat \ {0} /\ FailureWindow \in Nat \ {0} /\ LockTTL \in Nat \ {0}
      /\ lockUntil \in Nat /\ lockUntil <= now + LockTTL /\ failures.count \in Nat
      /\ stage \in [Attempts -> {"idle", "admitted", "allowed", "right", "wrong"}]
      /\ redisFaults \in Nat
  BY LoginAssumption, RoundsNat DEF LoginInductive, LoginTypeOK, KeyOK
<1>0. LockLasts \in Nat \ {0} /\ LockLasts <= LockTTL
  BY LockLastsType
<1>2. failures.count # 0 => failures.until \in now + 1 .. now + FailureWindow
  BY DEF LoginInductive, LoginTypeOK, KeyOK
<1>3. ASSUME redisFaults = 0, failures.count >= MaxFailures
      PROVE  \E k \in 1..LockRounds :
               /\ lockUntil >= start + LockTTL + (k - 1) * LockLasts
               /\ failures.count + (IF Locked THEN Cardinality(Checked) ELSE 0) <= MaxFailures - 1 + k * N
  BY <1>3 DEF LoginInductive, GuessesPerLock
<1> HIDE DEF N
\* What lets the rounds of a state stand for those of the next one.
<1>4. ASSUME UNCHANGED <<failures, lockUntil, redisFaults>>,
             Locked' => Locked /\ Checked' = Checked
      PROVE  GuessesPerLock'
  <2>1. SUFFICES ASSUME redisFaults = 0, failures.count >= MaxFailures
                 PROVE  GuessesPerLock'
    BY <1>4 DEF GuessesPerLock
  <2>2. PICK k \in 1..LockRounds :
               /\ lockUntil >= start + LockTTL + (k - 1) * LockLasts
               /\ failures.count + (IF Locked THEN Cardinality(Checked) ELSE 0) <= MaxFailures - 1 + k * N
    BY <1>3, <2>1
  <2>3. Cardinality(Checked) \in Nat /\ k * N \in Nat
    BY <1>1, CheckedCounts, Multiples
  <2>4. failures'.count + (IF Locked' THEN Cardinality(Checked') ELSE 0) <= MaxFailures - 1 + k * N
    BY <1>1, <1>4, <2>2, <2>3
  <2>5. lockUntil' >= failures'.until - FailureWindow + LockTTL + (k - 1) * LockLasts
    BY <1>4, <2>2
  <2>6. QED
    BY <2>4, <2>5 DEF GuessesPerLock, N
<1>5. ASSUME NEW a \in Attempts, Arrive(a) \/ Verify(a) PROVE GuessesPerLock'
  <2>1. Checked' = Checked /\ (Locked' <=> Locked)
    BY <1>1, <1>5 DEF Arrive, Admit, Verify, Go, Checked, Locked, TTL
  <2>2. QED
    BY <1>4, <1>5, <2>1 DEF Arrive, Verify
<1>6. ASSUME NEW a \in Attempts, AssertAllowed(a) PROVE GuessesPerLock'
  <2>1. Locked => Checked' = Checked
    BY <1>1, <1>6 DEF AssertAllowed, Go, Checked
  <2>2. Locked' <=> Locked
    BY <1>6 DEF AssertAllowed, Locked, TTL
  <2>3. QED
    BY <1>4, <1>6, <2>1, <2>2 DEF AssertAllowed
<1>7. ASSUME NEW a \in Attempts, RecordFailure(a) PROVE GuessesPerLock'
  <2>1. SUFFICES ASSUME redisFaults = 0, failures'.count >= MaxFailures
                 PROVE  GuessesPerLock'
    BY <1>7 DEF RecordFailure, GuessesPerLock
  <2>2. /\ lockUntil' = now + LockTTL /\ now' = now /\ stage[a] = "wrong" /\ stage' = [stage EXCEPT ![a] = "idle"]
        /\ failures' = Incr(failures, FailureWindow, GuessBound)
    BY <1>7, <2>1 DEF RecordFailure, Locks, Go
  <2>3. /\ failures'.count \in Nat /\ failures'.count <= failures.count + 1
        /\ failures'.until = IF failures.count = 0 THEN now + FailureWindow ELSE failures.until
    <3>1. KeyOK(failures, now, FailureWindow)
      BY DEF LoginInductive, LoginTypeOK
    <3>2. /\ KeyOK(failures', now, FailureWindow)
          /\ failures'.count = AtMost(failures.count + 1, GuessBound + 1)
          /\ failures'.until = IF failures.count = 0 THEN now + FailureWindow ELSE failures.until
      BY <1>1, <2>2, <3>1, KeyCounts
    <3>3. QED
      BY <1>1, <3>2 DEF AtMost, KeyOK
  <2>4. Checked' = Checked \ {a} /\ a \in Checked
    BY <1>1, <2>2 DEF Checked
  <2>5. /\ Cardinality(Checked) \in 0..N /\ Cardinality(Checked') = Cardinality(Checked) - 1
    BY <1>1, <2>4, CheckedCounts DEF N
  <2>6. SUFFICES \E k \in 1..LockRounds :
                   /\ lockUntil' >= failures'.until - FailureWindow + LockTTL + (k - 1) * LockLasts
                   /\ failures'.count + Cardinality(Checked') <= MaxFailures - 1 + k * N
    <3>1. ASSUME NEW k \in 1..LockRounds,
                 lockUntil' >= failures'.until - FailureWindow + LockTTL + (k - 1) * LockLasts,
                 failures'.count + Cardinality(Checked') <= MaxFailures - 1 + k * N
          PROVE  GuessesPerLock'
      <4>1. Locked'
        <5>1. LockTTL >= TicksPerSecond /\ TicksPerSecond \in Nat /\ now' \in Nat /\ lockUntil' \in Nat
          BY <1>1, <2>2, LoginAssumption
        <5>2. Locked' <=> lockUntil' - now' >= TicksPerSecond - TicksPerSecond \div 2
          BY <5>1, RoundedTTL DEF Locked, TTL
        <5>3. QED
          BY <1>1, <2>2, <5>1, <5>2, LockLastsType
      <4>2. QED
        BY <3>1, <4>1 DEF GuessesPerLock, N
    <3>2. QED
      BY <2>6, <3>1
  <2>7. CASE failures.count < MaxFailures
    <3>1. 0 * LockLasts <= FailureWindow - 1 /\ 0 + 1 \in 1..LockRounds
      <4>1. 0 * LockLasts = 0
        BY <1>0
      <4>2. QED
        BY <1>1, <4>1, OneRoundMore
    <3>2. failures'.until - FailureWindow <= now
      BY <1>1, <1>2, <2>3
    <3>3. (1 - 1) * LockLasts = 0 /\ 1 * N = N /\ 1 \in 1..LockRounds
      BY <1>0, <1>1, <3>1, Multiples
    <3>4. lockUntil' >= failures'.until - FailureWindow + LockTTL + (1 - 1) * LockLasts
      BY <1>1, <1>2, <2>2, <2>3, <3>2, <3>3
    <3>5. failures'.count + Cardinality(Checked') <= MaxFailures - 1 + 1 * N
      BY <1>1, <2>3, <2>5, <2>7, <3>3
    <3>6. QED
      BY <3>3, <3>4, <3>5
  <2>8. CASE failures.count >= MaxFailures
    <3>1. PICK k \in 1..LockRounds :
               /\ lockUntil >= start + LockTTL + (k - 1) * LockLasts
               /\ failures.count + (IF Locked THEN Cardinality(Checked) ELSE 0) <= MaxFailures - 1 + k * N
      BY <1>3, <2>1, <2>8
    <3>2. /\ failures'.until = failures.until /\ failures.until \in now + 1 .. now + FailureWindow
      BY <1>1, <1>2, <2>3, <2>8
    <3>3. /\ k \in Nat /\ k - 1 \in Nat /\ (k - 1) * LockLasts \in Nat
          /\ ((k + 1) - 1) * LockLasts = k * LockLasts
          /\ k * LockLasts = (k - 1) * LockLasts + LockLasts
          /\ k * N \in Nat /\ (k + 1) * N = k * N + N
      <4>1. k \in Nat /\ k - 1 \in Nat /\ (k - 1) + 1 = k /\ (k + 1) - 1 = k
        OBVIOUS
      <4>2. (k - 1) * LockLasts \in Nat /\ ((k - 1) + 1) * LockLasts = (k - 1) * LockLasts + LockLasts
        BY <1>0, <4>1, Multiples
      <4>3. k * N \in Nat /\ (k + 1) * N = k * N + N
        BY <1>1, <4>1, Multiples
      <4>4. QED
        BY <4>1, <4>2, <4>3
    <3>4. CASE Locked
      <4>1. lockUntil' >= failures'.until - FailureWindow + LockTTL + (k - 1) * LockLasts
        BY <1>1, <2>2, <3>1, <3>2, <3>3
      <4>2. failures'.count + Cardinality(Checked') <= MaxFailures - 1 + k * N
        BY <1>1, <2>3, <2>5, <3>1, <3>3, <3>4
      <4>3. QED
        BY <4>1, <4>2
    <3>5. CASE ~Locked
      <4>1. now + LockTTL >= lockUntil + LockLasts
        <5>1. ~(lockUntil - now >= TicksPerSecond - TicksPerSecond \div 2)
          BY <1>1, <3>5, RoundedTTL DEF Locked, TTL
        <5>2. QED
          BY <1>1, <5>1, LockLastsType
      <4>2. k * LockLasts <= FailureWindow - 1
        <5>1. lockUntil <= now + LockTTL - LockLasts
          BY <1>0, <1>1, <4>1
        <5>2. k * LockLasts \in Nat
          BY <1>0, <3>3
        <5>3. QED
          BY <1>0, <1>1, <3>1, <3>2, <3>3, <5>1, <5>2
      <4>3. k + 1 \in 1..LockRounds
        BY <3>3, <4>2, OneRoundMore
      <4>4. lockUntil' >= failures'.until - FailureWindow + LockTTL + ((k + 1) - 1) * LockLasts
        BY <1>0, <1>1, <2>2, <3>1, <3>2, <3>3, <4>1
      <4>5. failures'.count + Cardinality(Checked') <= MaxFailures - 1 + (k + 1) * N
        BY <1>1, <2>3, <2>5, <3>1, <3>3, <3>5
      <4>6. QED
        BY <4>3, <4>4, <4>5
    <3>6. QED
      BY <3>4, <3>5
  <2>9. QED
    BY <1>1, <2>7, <2>8
<1>8. ASSUME NEW a \in Attempts, ClearFailures(a) PROVE GuessesPerLock'
  <2>1. failures'.count = 0
    BY <1>8 DEF ClearFailures, NoKey
  <2>2. QED
    BY <1>1, <2>1 DEF GuessesPerLock
<1>9. ASSUME NEW a \in Attempts, RedisFails(a) PROVE GuessesPerLock'
  <2>1. redisFaults' # 0
    BY <1>1, <1>9 DEF RedisFails
  <2>2. QED
    BY <2>1 DEF GuessesPerLock
<1>10. CASE Tick
  <2>1. failures' = failures \/ failures'.count = 0
    BY <1>1, <1>10, KeyCounts DEF Tick, LoginInductive, LoginTypeOK, NoKey
  <2>2. (Locked' => Locked) /\ Checked' = Checked
    <3>1. now' = now + 1 /\ lockUntil' = lockUntil /\ now' \in Nat /\ lockUntil' \in Nat
      BY <1>1, <1>10 DEF Tick
    <3>2. /\ Locked' <=> lockUntil' - now' >= TicksPerSecond - TicksPerSecond \div 2
          /\ Locked <=> lockUntil - now >= TicksPerSecond - TicksPerSecond \div 2
      BY <1>1, <3>1, RoundedTTL DEF Locked, TTL
    <3>3. Locked' => Locked
      BY <1>1, <3>1, <3>2, LockLastsType
    <3>4. QED
      BY <1>10, <3>3 DEF Tick, Checked
  <2>3. CASE failures' = failures
    BY <1>4, <1>10, <2>2, <2>3 DEF Tick
  <2>4. CASE failures'.count = 0
    BY <1>1, <2>4 DEF GuessesPerLock
  <2>5. QED
    BY <2>1, <2>3, <2>4
<1>11. CASE UNCHANGED loginVars
  BY <1>4, <1>11 DEF loginVars, Locked, TTL, Checked
<1>12. QED
  BY <1>5, <1>6, <1>7, <1>8, <1>9, <1>10, <1>11 DEF LoginNext

\* The count of guesses is below the maximum, or bounded by its rounds.
LEMMA BoundFromRounds == LoginTypeOK /\ GuessesPerLock => GuessesBounded
<1> SUFFICES ASSUME LoginTypeOK, GuessesPerLock, redisFaults = 0 PROVE failures.count <= GuessBound
  BY DEF GuessesBounded
<1> DEFINE N == Cardinality(Attempts)
<1>1. /\ N \in Nat /\ LockRounds \in Nat /\ MaxFailures \in Nat \ {0} /\ failures.count \in Nat
      /\ LockRounds * N \in Nat /\ Cardinality(Checked) \in Nat
      /\ GuessBound = MaxFailures - 1 + LockRounds * N
  <2>1. /\ N \in Nat /\ LockRounds \in Nat /\ MaxFailures \in Nat \ {0}
        /\ failures.count \in Nat /\ Cardinality(Checked) \in Nat
    BY LoginAssumption, RoundsNat, CheckedCounts DEF LoginTypeOK, KeyOK
  <2>2. QED
    BY <2>1, Multiples DEF GuessBound
<1>2. CASE failures.count >= MaxFailures
  <2>1. PICK k \in 1..LockRounds :
          failures.count + (IF Locked THEN Cardinality(Checked) ELSE 0) <= MaxFailures - 1 + k * N
    BY <1>2 DEF GuessesPerLock
  <2>2. k * N \in Nat /\ k * N <= LockRounds * N
    BY <1>1, Multiples, MultiplesGrow
  <2>3. QED
    BY <1>1, <2>1, <2>2
<1>3. QED
  BY <1>1, <1>2

LEMMA AdmissionsStep ==
    ASSUME LoginInductive, [LoginNext]_loginVars
    PROVE  AdmissionsPerKey'
<1> DEFINE W == RateWindow
           age == now - (window.until - W)
<1>1. /\ now \in Nat /\ W \in Nat \ {0} /\ RateLimit \in Nat \ {0} /\ recent \in [1..W -> Nat]
      /\ KeyOK(window, now, W) /\ redisFaults \in Nat
  BY LoginAssumption DEF LoginInductive, LoginTypeOK
<1>2. window.count \in Nat /\ (window.count # 0 => window.until \in Int /\ age \in 0 .. W - 1)
  BY <1>1 DEF KeyOK
<1>3. ASSUME redisFaults = 0
      PROVE  /\ \A i, j \in 1..W : i <= j => recent[i] <= recent[j]
             /\ window.count = 0 => recent[1] = 0 /\ recent[W] <= RateLimit
             /\ window.count # 0 => /\ recent[W] <= RateLimit + AtMost(window.count, RateLimit)
                                    /\ recent[age + 1] <= AtMost(window.count, RateLimit)
  BY <1>3 DEF LoginInductive, AdmissionsPerKey
<1> HIDE DEF W, age
<1>4. ASSUME UNCHANGED <<now, window, recent, redisFaults>> PROVE AdmissionsPerKey'
  BY <1>4 DEF LoginInductive, AdmissionsPerKey
<1>5. ASSUME NEW a \in Attempts, Arrive(a) PROVE AdmissionsPerKey'
  <2>1. SUFFICES ASSUME redisFaults = 0 PROVE AdmissionsPerKey'
    BY <1>5 DEF Arrive, AdmissionsPerKey
  <2>2. /\ now' = now /\ window' = Incr(window, W, RateLimit + 1)
        /\ IF window'.count <= RateLimit THEN recent' = [i \in 1..W |-> recent[i] + 1] ELSE recent' = recent
    BY <1>5 DEF Arrive, Admit, WithinLimit, W
  <2>3. /\ window'.count = AtMost(window.count + 1, (RateLimit + 1) + 1)
        /\ window'.until = IF window.count = 0 THEN now + W ELSE window.until
    BY <2>2 DEF Incr
  \* The request is counted and admitted, or neither matters.
  <2>4. PICK e \in {0, 1} : /\ \A i \in 1..W : recent'[i] = recent[i] + e
                            /\ AtMost(window'.count, RateLimit) = AtMost(window.count, RateLimit) + e
    <3>1. CASE window'.count <= RateLimit
      <4>1. \A i \in 1..W : recent'[i] = recent[i] + 1
        BY <2>2, <3>1
      <4>2. AtMost(window'.count, RateLimit) = AtMost(window.count, RateLimit) + 1
        BY <1>1, <1>2, <2>3, <3>1 DEF AtMost
      <4>3. QED
        BY <4>1, <4>2
    <3>2. CASE ~(window'.count <= RateLimit)
      <4>1. \A i \in 1..W : recent'[i] = recent[i] + 0
        BY <1>1, <2>2, <3>2
      <4>2. AtMost(window'.count, RateLimit) = AtMost(window.count, RateLimit) + 0
        BY <1>1, <1>2, <2>3, <3>2 DEF AtMost
      <4>3. QED
        BY <4>1, <4>2
    <3>3. QED
      BY <3>1, <3>2
  <2>5. /\ window'.count # 0 /\ W \in 1..W /\ 1 \in 1..W
        /\ AtMost(window.count, RateLimit) \in Nat /\ (window.count = 0 => AtMost(window.count, RateLimit) = 0)
    BY <1>1, <1>2, <2>3 DEF AtMost
  <2>6. \A i, j \in 1..W : i <= j => recent'[i] <= recent'[j]
    BY <1>1, <1>3, <2>1, <2>4
  <2>7. recent'[W] <= RateLimit + AtMost(window'.count, RateLimit)
    BY <1>1, <1>3, <2>1, <2>4, <2>5
  <2>8. recent'[now - (window'.until - W) + 1] <= AtMost(window'.count, RateLimit)
    <3>1. CASE window.count = 0
      <4>1. now - (window'.until - W) + 1 = 1
        BY <1>1, <2>3, <3>1
      <4>2. QED
        BY <1>3, <2>1, <2>4, <2>5, <3>1, <4>1
    <3>2. CASE window.count # 0
      <4>1. now - (window'.until - W) + 1 = age + 1 /\ age + 1 \in 1..W
        BY <1>1, <1>2, <2>3, <3>2 DEF age
      <4>2. recent[age + 1] \in Nat /\ recent[age + 1] <= AtMost(window.count, RateLimit)
        BY <1>1, <1>3, <2>1, <3>2, <4>1
      <4>3. recent'[age + 1] <= AtMost(window'.count, RateLimit)
        BY <2>4, <2>5, <4>1, <4>2
      <4>4. QED
        BY <4>1, <4>3
    <3>3. QED
      BY <3>1, <3>2
  <2>9. QED
    BY <2>2, <2>5, <2>6, <2>7, <2>8 DEF AdmissionsPerKey, W
<1>6. ASSUME NEW a \in Attempts, AssertAllowed(a) \/ Verify(a) \/ RecordFailure(a) \/ ClearFailures(a)
      PROVE  AdmissionsPerKey'
  BY <1>4, <1>6 DEF AssertAllowed, Verify, RecordFailure, ClearFailures
<1>7. ASSUME NEW a \in Attempts, RedisFails(a) PROVE AdmissionsPerKey'
  <2>1. redisFaults' # 0
    BY <1>1, <1>7 DEF RedisFails
  <2>2. QED
    BY <2>1 DEF AdmissionsPerKey
<1>8. CASE Tick
  <2>1. SUFFICES ASSUME redisFaults = 0 PROVE AdmissionsPerKey'
    BY <1>8 DEF Tick, AdmissionsPerKey
  <2>2. /\ now' = now + 1 /\ recent' = [i \in 1..W |-> IF i = 1 THEN 0 ELSE recent[i - 1]]
        /\ window' = IF now + 1 >= window.until THEN NoKey ELSE window
    BY <1>8 DEF Tick, Lapse, W
  <2>3. \A i, j \in 1..W : i <= j => recent'[i] <= recent'[j]
    <3>1. ASSUME NEW i \in 1..W, NEW j \in 1..W, i <= j PROVE recent'[i] <= recent'[j]
      <4>1. CASE i = 1
        BY <1>1, <2>2, <3>1, <4>1
      <4>2. CASE i # 1
        <5>1. i - 1 \in 1..W /\ j - 1 \in 1..W /\ i - 1 <= j - 1 /\ j # 1
          BY <1>1, <3>1, <4>2
        <5>2. QED
          BY <1>3, <2>1, <2>2, <4>2, <5>1
      <4>3. QED
        BY <4>1, <4>2
    <3>2. QED
      BY <3>1
  <2>4. /\ W \in 1..W /\ 1 \in 1..W /\ recent'[1] = 0 /\ recent'[W] <= recent[W]
        /\ recent[W] \in Nat
    <3>1. W \in 1..W /\ 1 \in 1..W /\ recent'[1] = 0 /\ recent[W] \in Nat
      BY <1>1, <2>2
    <3>2. CASE W = 1
      BY <3>1, <3>2
    <3>3. CASE W # 1
      <4>1. W - 1 \in 1..W /\ W - 1 <= W
        BY <1>1, <3>3
      <4>2. QED
        BY <1>3, <2>1, <2>2, <3>1, <3>3, <4>1
    <3>4. QED
      BY <3>2, <3>3
  <2>5. CASE window.count = 0
    <3>1. window'.count = 0
      BY <2>2, <2>5 DEF NoKey
    <3>2. recent'[W] <= RateLimit
      BY <1>1, <1>3, <2>1, <2>2, <2>4, <2>5
    <3>3. QED
      BY <2>3, <2>4, <3>1, <3>2 DEF AdmissionsPerKey, W
  <2>6. CASE window.count # 0 /\ now + 1 >= window.until
    <3>1. window'.count = 0
      BY <2>2, <2>6 DEF NoKey
    <3>2. age + 1 = W
      BY <1>1, <1>2, <2>6 DEF age
    <3>3. recent[W] <= AtMost(window.count, RateLimit)
      BY <1>3, <2>1, <2>6, <3>2
    <3>4. recent'[W] <= RateLimit
      <4>1. AtMost(window.count, RateLimit) \in Nat /\ AtMost(window.count, RateLimit) <= RateLimit
        BY <1>1, <1>2 DEF AtMost
      <4>2. recent'[W] \in Nat
        BY <1>1, <2>2, <2>4
      <4>3. QED
        BY <1>1, <2>4, <3>3, <4>1, <4>2
    <3>5. QED
      BY <2>3, <2>4, <3>1, <3>4 DEF AdmissionsPerKey, W
  <2>7. CASE window.count # 0 /\ ~(now + 1 >= window.until)
    <3>1. window' = window
      BY <2>2, <2>7
    <3>2. /\ age + 1 \in 1..W /\ age + 2 \in 1..W /\ age + 2 # 1 /\ (age + 2) - 1 = age + 1
          /\ now' - (window'.until - W) + 1 = age + 2
      <4>1. age \in Nat /\ age <= W - 2
        BY <1>1, <1>2, <2>7 DEF age
      <4>2. now' - (window'.until - W) + 1 = age + 2
        BY <1>1, <1>2, <2>2, <2>7, <3>1 DEF age
      <4>3. QED
        BY <1>1, <4>1, <4>2
    <3>3. recent'[now' - (window'.until - W) + 1] <= AtMost(window'.count, RateLimit)
      BY <1>3, <2>1, <2>2, <2>7, <3>1, <3>2
    <3>4. recent'[W] <= RateLimit + AtMost(window'.count, RateLimit)
      <4>1. AtMost(window.count, RateLimit) \in Nat /\ recent'[W] \in Nat
        BY <1>1, <1>2, <2>2, <2>4 DEF AtMost
      <4>2. QED
        BY <1>1, <1>3, <2>1, <2>4, <2>7, <3>1, <4>1
    <3>5. QED
      BY <2>3, <2>7, <3>1, <3>3, <3>4 DEF AdmissionsPerKey, W
  <2>8. QED
    BY <2>5, <2>6, <2>7
<1>9. CASE UNCHANGED loginVars
  BY <1>4, <1>9 DEF loginVars
<1>10. QED
  BY <1>5, <1>6, <1>7, <1>8, <1>9 DEF LoginNext

LEMMA LoginStep == LoginInductive /\ [LoginNext]_loginVars => LoginInductive'
<1> SUFFICES ASSUME LoginInductive, [LoginNext]_loginVars PROVE LoginInductive'
  OBVIOUS
<1>1. LoginTypeOK'
  BY LoginTypeStep DEF LoginInductive
<1>2. GuessesPerLock'
  BY GuessesStep
<1>3. GuessesBounded'
  BY <1>1, <1>2, BoundFromRounds, PTL
<1>4. AdmissionsPerKey'
  BY AdmissionsStep
<1>5. QED
  BY <1>1, <1>2, <1>3, <1>4 DEF LoginInductive

LEMMA InitLogin == LoginInit => LoginInductive
<1> SUFFICES ASSUME LoginInit PROVE LoginInductive
  OBVIOUS
<1>1. LoginTypeOK
  BY LoginAssumption DEF LoginInit, LoginTypeOK, KeyOK, NoKey
<1>2. GuessesPerLock
  BY LoginAssumption DEF LoginInit, GuessesPerLock, NoKey
<1>3. AdmissionsPerKey
  BY LoginAssumption DEF LoginInit, AdmissionsPerKey, NoKey
<1>4. QED
  BY <1>1, <1>2, <1>3, BoundFromRounds DEF LoginInductive

\* While Redis answers: however the attempts overlap, a window of failures sees
\* no more guesses than those below the maximum and one of each attempt for
\* each time that the lock, which ends up to half a second before its key, can
\* be set within it.
THEOREM GuessesAreBounded == LoginSpec => []GuessesBounded
<1>1. LoginInductive => GuessesBounded
  BY DEF LoginInductive
<1>2. QED
  BY <1>1, InitLogin, LoginStep, PTL DEF LoginSpec

\* While Redis answers: no RateWindow of time admits more than twice the limit,
\* wherever it lies across the fixed windows.
THEOREM AdmissionsAreBounded == LoginSpec => []AdmissionsBounded
<1>1. LoginInductive => AdmissionsBounded
  <2> SUFFICES ASSUME LoginInductive, redisFaults = 0 PROVE recent[RateWindow] <= 2 * RateLimit
    BY DEF AdmissionsBounded
  <2>1. RateLimit \in Nat /\ window.count \in Nat /\ recent[RateWindow] \in Nat
    BY LoginAssumption DEF LoginInductive, LoginTypeOK, KeyOK
  <2>2. \/ recent[RateWindow] <= RateLimit
        \/ recent[RateWindow] <= RateLimit + AtMost(window.count, RateLimit)
    BY DEF LoginInductive, AdmissionsPerKey
  <2>3. QED
    BY <2>1, <2>2 DEF AtMost
<1>2. QED
  BY <1>1, InitLogin, LoginStep, PTL DEF LoginSpec

-----------------------------------------------------------------------------
(* The four side by side                                                    *)

\* What TLC checks as one invariant holds for every value of the constants.
THEOREM PlatformInvariant == PlatformSpec => []PlatformInductive
<1>1. PlatformInit => PlatformInductive
  BY InitLogin, InitLife, InitCatalog, InitShell DEF PlatformInit, PlatformInductive
<1>2. PlatformInductive /\ [PlatformNext]_platformVars => PlatformInductive'
  <2> SUFFICES ASSUME PlatformInductive, [PlatformNext]_platformVars PROVE PlatformInductive'
    OBVIOUS
  <2>1. /\ [LoginNext]_loginVars /\ [LifeNext]_lifeVars
        /\ [CatalogNext]_catalogVars /\ [ShellNext]_shellVars
    BY DEF PlatformNext, platformVars
  <2>2. QED
    BY <2>1, LoginStep, LifeStep, CatalogStep, ShellStep DEF PlatformInductive
<1>3. QED
  BY <1>1, <1>2, PTL DEF PlatformSpec
=============================================================================

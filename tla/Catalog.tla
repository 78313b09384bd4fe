------------------------------ MODULE Catalog -------------------------------
(***************************************************************************)
(* The list of events in the web client: a form of filters, a page label,  *)
(* and the list shown, which is the answer of the load that arrived last.  *)
(* A load asks with the page and filters of the render that started it;    *)
(* loads overlap, and are answered in any order or fail.  A booking, a     *)
(* cancellation or a new event reloads the list when it is done, with what *)
(* it captured when it was started.                                        *)
(*                                                                         *)
(* What the user asked for last, and whether that can be expected to be    *)
(* shown, are history variables.                                           *)
(***************************************************************************)
EXTENDS Integers, FiniteSets

CONSTANTS
    Filters,    \* contents of the form; All is the empty form
    All,
    PagesOf,    \* how many pages the events of each filter fill
    MaxLoads    \* bound: loads in flight

ASSUME CatalogAssumption ==
    /\ All \in Filters /\ PagesOf \in [Filters -> Nat \ {0}]
    /\ MaxLoads \in Nat

VARIABLES
    page,       \* the label
    form,       \* the filters as typed
    view,       \* the list shown
    loading,
    loads,      \* how many loads of each query are in flight
    job,        \* the booking, cancellation, creation or deletion in flight, if any
    asked,      \* history: what the user asked for last
    excuse,     \* history: since a search on a quiet page, the user acted on a busy one or a load failed
    cleared     \* history: since then, the user cleared the filters

catalogVars == <<page, form, view, loading, loads, job, asked, excuse, cleared>>

Pages == UNION {1 .. PagesOf[f] : f \in Filters}
Query == [page : Pages, filter : Filters]
Q(p, f) == [page |-> p, filter |-> f]

\* The first load has been answered.
CatalogInit ==
    /\ page = 1 /\ form = All
    /\ view = Q(1, All) /\ loading = FALSE
    /\ loads = [q \in Query |-> 0]
    /\ job = {}
    /\ asked = Q(1, All) /\ excuse = FALSE /\ cleared = FALSE

Quiet == job = {} /\ \A q \in Query : loads[q] = 0

\* A load of each of these queries starts, one for the call and one for the
\* effect of a changed label.
Start(call, effect) ==
    LET n(q) == Cardinality(call \cap {q}) + Cardinality(effect \cap {q})
    IN  /\ loads' = [q \in Query |-> loads[q] + n(q)]
        /\ {loads'[q] : q \in Query} \subseteq 0..MaxLoads
        /\ loading' = (loading \/ call \cup effect # {})

\* The effect of a changed label: its page is loaded unless the list shows it.
EffectOf(p, f) == IF p # page /\ p # view.page THEN {Q(p, f)} ELSE {}

Ask(q) == asked' = q /\ excuse' = (excuse \/ ~Quiet)

-----------------------------------------------------------------------------
Type(f) ==
    /\ f # form /\ form' = f
    /\ excuse' = (excuse \/ job # {})
    /\ UNCHANGED <<page, view, loading, loads, job, asked, cleared>>

\* Fault: the last page is counted wrong.
HasPageOffByOne(p) == p >= 1 /\ (p < page \/ p <= PagesOf[view.filter] + 1)

\* Previous and Next are disabled on the first and last page of the list shown.
HasPage(p) == p >= 1 /\ (p < page \/ p <= PagesOf[view.filter])

ChangePage(p) ==
    /\ HasPage(p)
    /\ page' = p
    /\ Start({}, EffectOf(p, form))
    /\ Ask(Q(p, form))
    /\ UNCHANGED <<form, view, job, cleared>>

\* Fault: a search loads the page of the label.
ApplyFiltersHere ==
    /\ page' = 1
    /\ Start({Q(page, form)}, EffectOf(1, form))
    /\ asked' = Q(1, form) /\ excuse' = ~Quiet /\ cleared' = FALSE
    /\ UNCHANGED <<form, view, job>>

\* Search.
ApplyFilters ==
    /\ page' = 1
    /\ Start({Q(1, form)}, EffectOf(1, form))
    /\ asked' = Q(1, form) /\ excuse' = ~Quiet /\ cleared' = FALSE
    /\ UNCHANGED <<form, view, job>>

\* Clear: the load it schedules is that of the render before, with its filters.
ClearFilters ==
    /\ form' = All /\ page' = 1
    /\ Start({Q(1, form)}, EffectOf(1, All))
    /\ Ask(Q(1, All)) /\ cleared' = TRUE
    /\ UNCHANGED <<view, job>>

\* createBooking, cancelBooking, deleteEvent, or createEvent, is sent.
StartJob(creates) ==
    /\ job = {}
    /\ job' = {[reload |-> Q(IF creates THEN 1 ELSE page, form), creates |-> creates]}
    /\ excuse' = (excuse \/ ~Quiet)
    /\ UNCHANGED <<page, form, view, loading, loads, asked, cleared>>

\* It succeeds, and the list is loaded again; a new event leads to page 1.
EndJob ==
    /\ \E j \in job :
         /\ page' = IF j.creates THEN 1 ELSE page
         /\ Start({j.reload}, EffectOf(page', form))
         /\ asked' = j.reload
    /\ job' = {}
    /\ UNCHANGED <<form, view, excuse, cleared>>

\* It fails: only a notice is shown.
FailJob ==
    /\ job # {} /\ job' = {}
    /\ UNCHANGED <<page, form, view, loading, loads, asked, excuse, cleared>>

Answer(q) ==
    /\ loads[q] > 0 /\ loads' = [loads EXCEPT ![q] = @ - 1]
    /\ view' = q
    /\ loading' = FALSE
    /\ UNCHANGED <<page, form, job, asked, excuse, cleared>>

Fail(q) ==
    /\ loads[q] > 0 /\ loads' = [loads EXCEPT ![q] = @ - 1]
    /\ excuse' = TRUE
    /\ loading' = FALSE
    /\ UNCHANGED <<page, form, view, job, asked, cleared>>

CatalogNext ==
    \/ \E f \in Filters : Type(f)
    \/ \E p \in {page - 1, page + 1} : ChangePage(p)
    \/ ApplyFilters \/ ClearFilters
    \/ \E creates \in BOOLEAN : StartJob(creates)
    \/ EndJob \/ FailJob
    \/ \E q \in Query : Answer(q) \/ Fail(q)

CatalogSpec == CatalogInit /\ [][CatalogNext]_catalogVars

-----------------------------------------------------------------------------
(* What makes it correct                                                    *)

\* Types; the label never leaves the pages there are.
CatalogTypeOK ==
    /\ page \in Pages /\ form \in Filters /\ view \in Query /\ asked \in Query
    /\ loads \in [Query -> 0..MaxLoads]
    /\ job \subseteq [reload : Query, creates : BOOLEAN] /\ \A j, k \in job : j = k
    /\ {loading, excuse, cleared} \subseteq BOOLEAN

\* A user who searches, pages, books and publishes one thing after the other
\* sees the list asked for last under its label, whatever was typed meanwhile;
\* and nothing is shown as loading for ever.
PatientUserSeesAnswer ==
    Quiet => /\ ~loading
             /\ ~excuse /\ ~cleared => view = asked /\ page = asked.page

\* "Try a broader search or clear the current filters": the same user who
\* clears the filters sees the events without them.
ClearShowsAll == Quiet /\ ~excuse /\ cleared => view = asked
\* The strengthening of PatientUserSeesAnswer: what is loaded for a patient user
\* is what was asked for last, and an operation reloads what it should.
NothingLoads == \A q \in Query : loads[q] = 0
PatientUserWaits ==
    ~excuse /\ ~cleared =>
        /\ page = asked.page
        /\ \A q \in Query : loads[q] > 0 => q = asked
        /\ NothingLoads => view = asked
        /\ \A j \in job : NothingLoads /\ j.reload = Q(IF j.creates THEN 1 ELSE page, form)

CatalogInductive == CatalogTypeOK /\ (loading => ~NothingLoads) /\ PatientUserWaits
=============================================================================

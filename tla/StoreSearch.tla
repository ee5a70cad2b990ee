----------------------------- MODULE StoreSearch -----------------------------
(***************************************************************************)
(* Filtering a collection (facets.js) and searching as one types           *)
(* (predictive-search.js over search-form.js).  Each asks the store anew   *)
(* for what the customer chose, keeps every answer, and shows answers in   *)
(* the order in which they arrive.  The two share no state.                *)
(***************************************************************************)
EXTENDS SequencesExt, FiniteSets

CONSTANTS
  FilterSets,      \* search params: choices of filters and sorting
  SearchTerms,     \* terms a customer may type, as sequences: one for all with its queryKey
  MaxFilterActs,   \* bound: what the customer does with filters
  MaxTyping        \* bound: what the customer does with the search

ASSUME SearchAssumption ==
  /\ {MaxFilterActs, MaxTyping} \subseteq Nat
  /\ \A t \in SearchTerms : Len(t) > 0

VARIABLES
  form,        \* the filters ticked on the page
  formWaits,   \* whether a change of them waits for the debounce
  grid,        \* the filters whose products the page shows
  filterCalls, \* requests for a section: [n, params]
  filterData,  \* the cache: [params, ok], ok FALSE of a page without the section
  searchParamsPrev,
  pages,       \* the browser's history, and the entry it is at
  at,
  rendersAsked,\* number of calls of renderPage
  spinning,    \* whether the page shows that it is loading
  facets,      \* whether the page still has its filters
  filterActs,  \* what the customer did so far
  blemishes    \* history, reset by every rendering: overtaken (an older answer was
               \* rendered last), failed (the last answer did not come)
facetVars == <<form, formWaits, grid, filterCalls, filterData, searchParamsPrev, pages, at,
               rendersAsked, spinning, facets, filterActs, blemishes>>

FacetInit ==
  /\ form \in FilterSets /\ grid = form /\ searchParamsPrev = form
  /\ pages = <<form>> /\ at = 1
  /\ formWaits = FALSE /\ filterCalls = {} /\ filterData = {}
  /\ rendersAsked = 0 /\ spinning = FALSE /\ facets = TRUE
  /\ filterActs = 0 /\ blemishes = {}

FilterAct == filterActs < MaxFilterActs /\ filterActs' = filterActs + 1

\* renderSection throws on a page without the section, and on any once the filters are gone.
Throws(page) == ~page.ok \/ ~facets

\* It replaces products and filters, whatever was ticked since: a waiting event is left
\* with an input that is in no form, and its submission throws.  A page without the
\* section takes the filters away, and all that was ticked in them, before it throws.
RenderSection(page, overtaken, waits, spins) ==
  \/ /\ ~Throws(page)
     /\ grid' = page.params /\ form' = page.params /\ formWaits' = FALSE
     /\ spinning' = FALSE
     /\ blemishes' = IF overtaken THEN {"overtaken"} ELSE {}
     /\ UNCHANGED facets
  \/ /\ Throws(page) /\ facets
     /\ facets' = FALSE
     /\ form' \in FilterSets /\ formWaits' \in {FALSE, waits}
     /\ spinning' = spins /\ UNCHANGED <<grid, blemishes>>
  \/ /\ ~facets
     /\ formWaits' = waits /\ spinning' = spins
     /\ UNCHANGED <<form, grid, blemishes, facets>>

\* renderPage, from the cache or with a request; the caller says what waits meanwhile.
RenderPage(params, waits) ==
  /\ searchParamsPrev' = params
  /\ rendersAsked' = rendersAsked + 1
  /\ \/ \E page \in filterData :
          /\ page.params = params
          /\ RenderSection(page, FALSE, waits, TRUE)
          /\ UNCHANGED filterCalls
     \/ /\ \A page \in filterData : page.params # params
        /\ filterCalls' = filterCalls \cup {[n |-> rendersAsked + 1, params |-> params]}
        /\ spinning' = TRUE /\ formWaits' = waits
        /\ UNCHANGED <<form, grid, facets, blemishes>>
  /\ UNCHANGED filterData

\* updateURLHash, which a rendering from the cache that throws leaves out.
PushState(params) ==
  IF \E page \in filterData : page.params = params /\ Throws(page)
  THEN UNCHANGED <<pages, at>>
  ELSE /\ pages' = Append(SubSeq(pages, 1, at), params)
       /\ at' = at + 1

\* An input event of the form, of which the debounce keeps the last; sorting remains
\* when the filters are gone.
Tick(params) ==
  /\ FilterAct
  /\ params # form /\ form' = params /\ formWaits' = TRUE
  /\ UNCHANGED <<grid, filterCalls, filterData, searchParamsPrev, pages, at, rendersAsked,
                 spinning, facets, blemishes>>

\* onSubmitHandler, 800 ms later, with the form as it is then.
SubmitFilters ==
  /\ formWaits
  /\ RenderPage(form, FALSE) /\ PushState(form)
  /\ UNCHANGED filterActs

\* onActiveFilterClick: the link of an active filter.
RemoveFilter(params) ==
  /\ FilterAct
  /\ params # grid
  /\ RenderPage(params, formWaits) /\ PushState(params)

\* Back and forward: popstate renders unless it is what was asked for last.
Travel(to) ==
  /\ FilterAct
  /\ to \in DOMAIN pages /\ to # at /\ at' = to
  /\ IF pages[to] = searchParamsPrev
     THEN UNCHANGED <<form, formWaits, grid, filterCalls, filterData, searchParamsPrev, rendersAsked,
                      spinning, facets, blemishes>>
     ELSE RenderPage(pages[to], formWaits)
  /\ UNCHANGED pages

\* An answer of the store, be it the section or an error page (ok FALSE), is kept before
\* it is rendered; of two answers for the same choice the cache gives the first.
SectionArrives(c, ok) ==
  /\ c \in filterCalls /\ filterCalls' = filterCalls \ {c}
  /\ filterData' = IF \E page \in filterData : page.params = c.params THEN filterData
                   ELSE filterData \cup {[params |-> c.params, ok |-> ok]}
  /\ RenderSection([params |-> c.params, ok |-> ok], c.n # rendersAsked, formWaits, spinning)
  /\ UNCHANGED <<searchParamsPrev, pages, at, rendersAsked, filterActs>>

\* No answer came: logged, and the spinners keep turning.
SectionFails(c) ==
  /\ c \in filterCalls /\ filterCalls' = filterCalls \ {c}
  /\ blemishes' = IF c.n = rendersAsked THEN blemishes \cup {"failed"} ELSE blemishes
  /\ UNCHANGED <<form, formWaits, grid, filterData, searchParamsPrev, pages, at, rendersAsked,
                 spinning, facets, filterActs>>

FacetNext ==
  \/ \E params \in FilterSets : Tick(params) \/ RemoveFilter(params)
  \/ \E to \in DOMAIN pages : Travel(to)
  \/ SubmitFilters
  \/ \E c \in filterCalls, ok \in BOOLEAN : SectionArrives(c, ok)
  \/ \E c \in filterCalls : SectionFails(c)
FacetSpec == FacetInit /\ [][FacetNext]_facetVars

-----------------------------------------------------------------------------
(* Searching as one types.                                                 *)

Empty == <<>>

VARIABLES
  input,         \* what is in the search field
  inputWaits,    \* whether an input event waits for the debounce
  searchTerm,
  results,       \* the term whose results are in the dropdown (Empty: none)
  hasResults,    \* its attribute results
  open,          \* whether it is open
  searches,      \* requests: [n, term]
  cachedResults, \* terms with an answer
  searchButton,  \* whether the button "search for ..." was ever rendered
  typing,        \* what the customer did so far
  asks,          \* how often typing led to a term (or to none)
  straggler,     \* history: the last answer was not the one to the last term
  stuck          \* history: the last change of the field threw before its term was noted
searchVars == <<input, inputWaits, searchTerm, results, hasResults, open, searches,
                cachedResults, searchButton, typing, asks, straggler, stuck>>

SearchInit ==
  /\ input = Empty /\ inputWaits = FALSE /\ searchTerm = Empty /\ results = Empty
  /\ hasResults = FALSE /\ open = FALSE /\ searches = {} /\ cachedResults = {}
  /\ searchButton = FALSE /\ typing = 0 /\ asks = 0 /\ straggler = FALSE /\ stuck = FALSE

Typing == typing < MaxTyping /\ typing' = typing + 1

\* The field changes; onKeyup closes the dropdown of an empty one, a cut does not.
TypeTerm(t, keyed) ==
  /\ Typing
  /\ t # input /\ input' = t /\ inputWaits' = TRUE
  /\ IF t = Empty /\ keyed
     THEN open' = FALSE /\ hasResults' = FALSE
     ELSE UNCHANGED <<open, hasResults>>
  /\ UNCHANGED <<searchTerm, results, searches, cachedResults, searchButton, asks, straggler,
                 stuck>>

ShowResults(t) ==
  results' = t /\ hasResults' = TRUE /\ open' = TRUE /\ searchButton' = TRUE

\* getSearchResults; left: what is still in the dropdown.
GetSearchResults(t, left) ==
  /\ asks' = asks + 1
  /\ IF t \in cachedResults
     THEN ShowResults(t) /\ straggler' = FALSE /\ UNCHANGED searches
     ELSE /\ searches' = searches \cup {[n |-> asks + 1, term |-> t]}
          /\ results' = left /\ UNCHANGED <<hasResults, open, searchButton, straggler>>

\* onChange: results that no longer fit are removed.  Then updateSearchForTerm throws when
\* the button's text does not have the term it had, or the term is no regular expression;
\* the text is left open, so any term may.  Without a term the dropdown closes, and
\* nothing is cancelled.
TermChanges ==
  LET left == IF searchTerm # Empty /\ IsPrefix(searchTerm, input) THEN results ELSE Empty IN
    \/ /\ searchButton /\ searchTerm # Empty
       /\ results' = left /\ stuck' = TRUE
       /\ UNCHANGED <<searchTerm, hasResults, open, searches, searchButton, asks, straggler>>
    \/ /\ searchTerm' = input /\ stuck' = FALSE
       /\ IF input = Empty
          THEN /\ open' = FALSE /\ hasResults' = FALSE /\ results' = left
               /\ asks' = asks + 1
               /\ UNCHANGED <<searches, searchButton, straggler>>
          ELSE GetSearchResults(input, left)

\* The debounced input event.
SearchChange ==
  /\ inputWaits /\ inputWaits' = FALSE
  /\ TermChanges
  /\ UNCHANGED <<input, cachedResults, typing>>

\* Mutation: the reset button does not cancel what is under way.
MutCancelled == {}

\* The reset button cancels what is under way.
Cancelled == searches

ResetSearch ==
  /\ Typing
  /\ input # Empty
  /\ input' = Empty /\ searchTerm' = Empty
  /\ open' = FALSE /\ hasResults' = FALSE
  /\ searches' = searches \ Cancelled
  /\ stuck' = FALSE
  /\ UNCHANGED <<inputWaits, results, cachedResults, searchButton, asks, straggler>>

\* onFocusOut
Blur ==
  /\ open /\ open' = FALSE
  /\ UNCHANGED <<input, inputWaits, searchTerm, results, hasResults, searches, cachedResults,
                 searchButton, typing, asks, straggler, stuck>>

\* onFocus: a term not looked at yet is a change; results, or what is left of them,
\* are opened as they are.
Focus ==
  /\ Typing
  /\ ~open /\ input # Empty
  /\ IF searchTerm # input THEN TermChanges
     ELSE /\ UNCHANGED <<searchTerm, stuck>>
          /\ IF hasResults
             THEN open' = TRUE /\ UNCHANGED <<results, hasResults, searches, searchButton, asks, straggler>>
             ELSE GetSearchResults(searchTerm, results)
  /\ UNCHANGED <<input, inputWaits, cachedResults>>

\* Whichever answer arrives is shown, also over an empty field.
ResultsArrive(s) ==
  /\ s \in searches /\ searches' = searches \ {s}
  /\ cachedResults' = cachedResults \cup {s.term}
  /\ ShowResults(s.term)
  /\ straggler' = (s.n # asks)
  /\ UNCHANGED <<input, inputWaits, searchTerm, typing, asks, stuck>>

ResultsFail(s) ==
  /\ s \in searches /\ searches' = searches \ {s}
  /\ open' = FALSE
  /\ straggler' = (straggler \/ s.n = asks)
  /\ UNCHANGED <<input, inputWaits, searchTerm, results, hasResults, cachedResults,
                 searchButton, typing, asks, stuck>>

SearchNext ==
  \/ \E t \in SearchTerms \cup {Empty}, keyed \in BOOLEAN : TypeTerm(t, keyed)
  \/ SearchChange \/ ResetSearch \/ Blur \/ Focus
  \/ \E s \in searches : ResultsArrive(s) \/ ResultsFail(s)
SearchSpec == SearchInit /\ [][SearchNext]_searchVars

-----------------------------------------------------------------------------
\* Once nothing is under way: as long as no error page took the filters away, the
\* products, the filters ticked and the address of the page are one choice and nothing
\* spins, unless an answer was overtaken or did not come; and a dropdown that is open has
\* the results of the term in the field, unless the last answer was to another term or
\* did not come, or the last change of the field threw before its term was noted.
SearchAgrees ==
  /\ filterCalls = {} /\ ~formWaits /\ facets =>
       /\ grid = pages[at] \/ blemishes # {}
       /\ (form = grid /\ ~spinning) \/ "failed" \in blemishes
  /\ searches = {} /\ ~inputWaits /\ open => results = input \/ straggler \/ stuck
=============================================================================

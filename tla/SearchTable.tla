---------------------------- MODULE SearchTable ----------------------------
(***************************************************************************)
(* A listing (DataTables with server-side processing) and its filters:     *)
(* each change of a filter draws the table, which asks the server; answers *)
(* come in any order, or not at all.  What the table shows, the arguments  *)
(* that an export uses and the cookie that the page is restored from are   *)
(* all written when an answer comes, from the filters as they are then.    *)
(***************************************************************************)
EXTENDS SearchFilters

CONSTANTS Names,      \* of the filters
          Forms,      \* what they may be in a page
          Length,     \* rows in a page of the table
          MaxDraws,   \* bounds iDraw
          MaxReloads, \* bounds the loads of the page
          Results(_)  \* how many rows the server finds for what is asked

ASSUME SearchTableAssumption ==
  /\ \A form \in Forms : DOMAIN form = Names /\ \A f \in Names : IsFilter(form[f])
  /\ None \notin Names
  /\ Length \in Nat \ {0}
  /\ MaxDraws \in Nat \ {0}
  /\ MaxReloads \in Nat

VARIABLES
  form,       \* oFilters: the filters of the page
  elements,   \* what their elements hold
  active,     \* oActiveFilters
  focus,      \* the text filter that has the focus, and its text when it got it
  start,      \* _iDisplayStart
  iDraw,
  sent,       \* the requests that the server has not answered
  processing, \* the indicator is displayed
  shown,      \* the answer that the table displays
  args,       \* current-query-args, what an export asks for
  cookie,     \* the saved state
  reloads,    \* bounds the loads of the page
  torn        \* history: the answer was asked for, or one came, while a text was typed

tableVars == <<start, iDraw, sent, processing>>
drawnVars == <<shown, args, cookie, torn>>
vars == <<form, elements, active, focus, tableVars, drawnVars, reloads>>

Nowhere == [filter |-> None, text |-> None]
NoAnswer == [echo |-> 0, query |-> None, total |-> 0]

\* The text differs from what it was when the change event was last sent.
Typing == focus.filter # None /\ elements[focus.filter] # focus.text

(***************************************************************************)
(* Parameters, and what of them restricts the rows.                        *)
(***************************************************************************)
Query(position, names, held) ==
  [start |-> position, filters |-> [f \in names |-> Val(form[f], held[f])]]

Asked(query) ==
  {<<f, Asks(form[f], query.filters[f])>> :
     f \in {n \in DOMAIN query.filters : Asks(form[n], query.filters[n]) # <<>>}}

Same(q, r) == q.start = r.start /\ Asked(q) = Asked(r)

(***************************************************************************)
(* Drawing.                                                                *)
(***************************************************************************)
\* _fnDraw and _fnAjaxUpdate, n times in a row.
Draw(n, position, names, held, typing) ==
  /\ iDraw + n <= MaxDraws
  /\ start' = position
  /\ iDraw' = iDraw + n
  /\ sent' = sent \cup {[echo |-> iDraw + i, query |-> Query(position, names, held),
                         torn |-> typing] : i \in 1..n}
  /\ processing' = TRUE

\* fnDraw: sorting and filtering go back to the first row.
Redraw(n, names, held) == Draw(n, 0, names, held, FALSE)

(***************************************************************************)
(* The filters.                                                            *)
(***************************************************************************)
Texts == {"", "a"}

\* No event is sent while a text is typed.
Type(f, text) ==
  /\ f \in active
  /\ form[f].kind = "text"
  /\ focus.filter \in {None, f}
  /\ text # elements[f][1]
  /\ focus' = IF focus.filter = f THEN focus ELSE [filter |-> f, text |-> elements[f]]
  /\ elements' = [elements EXCEPT ![f] = <<text>>]
  /\ UNCHANGED <<form, active, tableVars, drawnVars, reloads>>

\* The change event comes with the blur, if the text has changed.
Blur ==
  /\ focus.filter # None
  /\ focus' = Nowhere
  /\ IF Typing THEN Redraw(1, active, elements) ELSE UNCHANGED tableVars
  /\ UNCHANGED <<form, elements, active, drawnVars, reloads>>

\* The user checks or selects; each choice is a change event.
Choices(filter) ==
  CASE filter.kind = "text" -> {}
    [] filter.kind = "radio" -> {<<o>> : o \in {filter.options[i] : i \in 1..Len(filter.options)}}
    [] filter.kind = "checkbox" ->
         {SelectSeq(filter.options, LAMBDA o : o \in checked) :
            checked \in SUBSET {filter.options[i] : i \in 1..Len(filter.options)}}
    [] filter.kind \in {"select", "checkbox-select"} ->
         {<<>>} \cup {<<filter.options[i]>> : i \in 1..Len(filter.options)}
    [] filter.kind = "select-radio" ->
         ({""} \cup {filter.options[i] : i \in 1..Len(filter.options)}) \X {"None", "True"}

Choose(f, chosen) ==
  /\ focus = Nowhere
  /\ f \in active
  /\ chosen # elements[f]
  /\ elements' = [elements EXCEPT ![f] = chosen]
  /\ Redraw(1, active, elements')
  /\ UNCHANGED <<form, active, focus, drawnVars, reloads>>

\* addFilter: the elements of a filter when it becomes active.
Added(filter, held) ==
  IF ~HasValueSet(filter, held) /\ filter.hasDefault
  THEN Load(filter, held, filter.default) ELSE held

\* Choosing a filter sends two change events, the choice and its clearing.
AddFilter(f) ==
  /\ focus = Nowhere
  /\ f \notin active
  /\ active' = active \cup {f}
  /\ elements' = [elements EXCEPT ![f] = Added(form[f], elements[f])]
  /\ Redraw(2, active', elements')
  /\ UNCHANGED <<form, focus, drawnVars, reloads>>

\* The slip of removing the container, then sending redraw.DT from it.
CloseFilterQuietly(f) ==
  /\ focus = Nowhere
  /\ f \in active
  /\ elements' = [elements EXCEPT ![f] = Load(form[f], elements[f], form[f].unset)]
  /\ active' = active \ {f}
  /\ UNCHANGED <<form, focus, tableVars, drawnVars, reloads>>

\* unsetFilter, removeFilter and redraw.DT.
CloseFilter(f) ==
  /\ focus = Nowhere
  /\ f \in active
  /\ elements' = [elements EXCEPT ![f] = Load(form[f], elements[f], form[f].unset)]
  /\ active' = active \ {f}
  /\ Redraw(1, active', elements')
  /\ UNCHANGED <<form, focus, drawnVars, reloads>>

(***************************************************************************)
(* Pages.  They are those of the answer that the table displays, whatever  *)
(* has been asked since; arrow keys turn them while a text is typed.       *)
(***************************************************************************)
GoTo(position) ==
  /\ position # start
  /\ Draw(1, position, active, elements, Typing)
  /\ UNCHANGED <<form, elements, active, focus, drawnVars, reloads>>

NextPage == start + Length < shown.total /\ GoTo(start + Length)
PreviousPage == GoTo(IF start < Length THEN 0 ELSE start - Length)

\* A numbered link draws even where it leads to the same page.
Link(page) ==
  /\ (page - 1) * Length < shown.total
  /\ Draw(1, (page - 1) * Length, active, elements, Typing)
  /\ UNCHANGED <<form, elements, active, focus, drawnVars, reloads>>

(***************************************************************************)
(* Answers.                                                                *)
(***************************************************************************)
\* stateSaveParams: the filters as they are, not as they were asked for.
SavedState ==
  [start |-> start, filters |-> [f \in active |-> Val(form[f], elements[f])]]

\* The slip of setting the arguments of an export only once.
AnswerKeepingArgs(request) ==
  /\ request \in sent
  /\ sent' = sent \ {request}
  /\ args' = IF args = None THEN Query(start, active, elements) ELSE args
  /\ IF request.echo < iDraw
     THEN /\ torn' = (torn \/ Typing)
          /\ UNCHANGED <<processing, shown, cookie>>
     ELSE /\ torn' = (request.torn \/ Typing)
          /\ processing' = FALSE
          /\ shown' = [echo |-> request.echo, query |-> request.query,
                       total |-> Results(Asked(request.query))]
          /\ cookie' = SavedState
  /\ UNCHANGED <<form, elements, active, focus, start, iDraw, reloads>>

\* The xhr event comes first, then _fnAjaxUpdateDraw, which drops the answers to
\* former draws.
Answer(request) ==
  /\ request \in sent
  /\ sent' = sent \ {request}
  /\ args' = Query(start, active, elements)
  /\ IF request.echo < iDraw
     THEN /\ torn' = (torn \/ Typing)
          /\ UNCHANGED <<processing, shown, cookie>>
     ELSE /\ torn' = (request.torn \/ Typing)
          /\ processing' = FALSE
          /\ shown' = [echo |-> request.echo, query |-> request.query,
                       total |-> Results(Asked(request.query))]
          /\ cookie' = SavedState
  /\ UNCHANGED <<form, elements, active, focus, start, iDraw, reloads>>

\* An error is shown nowhere, and the indicator stays.
Lose(request) ==
  /\ request \in sent
  /\ sent' = sent \ {request}
  /\ UNCHANGED <<form, elements, active, focus, start, iDraw, processing, drawnVars, reloads>>

(***************************************************************************)
(* Loading the page, with the state that was saved.                        *)
(***************************************************************************)
\* stateLoaded: a filter that has been saved is loaded, and added if it has a
\* value then.
Restored(state, f) ==
  IF f \in DOMAIN state.filters
  THEN Load(form[f], Initial(form[f]), state.filters[f].vals) ELSE Initial(form[f])

\* The slip of looking for values before loading them.
RestoredNamesBefore(state) ==
  {f \in DOMAIN state.filters : HasValueSet(form[f], Initial(form[f]))}

RestoredNames(state) ==
  {f \in DOMAIN state.filters : HasValueSet(form[f], Restored(state, f))}

\* The slip of leaving the page's requests to the next one.
ReloadAnswered ==
  /\ reloads < MaxReloads
  /\ reloads' = reloads + 1
  /\ focus' = Nowhere
  /\ active' = RestoredNames(cookie)
  /\ elements' = [f \in Names |-> Restored(cookie, f)]
  /\ start' = cookie.start
  /\ iDraw' = 1
  /\ sent' = sent \cup {[echo |-> 1, query |-> Query(start', active', elements'), torn |-> FALSE]}
  /\ processing' = TRUE
  /\ shown' = NoAnswer
  /\ args' = None
  /\ torn' = FALSE
  /\ UNCHANGED <<form, cookie>>

Reload ==
  /\ reloads < MaxReloads
  /\ reloads' = reloads + 1
  /\ focus' = Nowhere
  /\ active' = RestoredNames(cookie)
  /\ elements' = [f \in Names |-> IF f \in active'
                                  THEN Added(form[f], Restored(cookie, f))
                                  ELSE Restored(cookie, f)]
  /\ start' = cookie.start
  /\ iDraw' = 1
  /\ sent' = {[echo |-> 1, query |-> Query(start', active', elements'), torn |-> FALSE]}
  /\ processing' = TRUE
  /\ shown' = NoAnswer
  /\ args' = None
  /\ torn' = FALSE
  /\ UNCHANGED <<form, cookie>>

(***************************************************************************)
(* The specification.                                                      *)
(***************************************************************************)
NoState == [start |-> 0, filters |-> <<>>]

\* The first load of the page, without a cookie.
Init ==
  /\ form \in Forms
  /\ elements = [f \in Names |-> Initial(form[f])]
  /\ active = {}
  /\ focus = Nowhere
  /\ start = 0
  /\ iDraw = 1
  /\ sent = {[echo |-> 1, query |-> Query(0, {}, elements), torn |-> FALSE]}
  /\ processing = TRUE
  /\ shown = NoAnswer
  /\ args = None
  /\ cookie = NoState
  /\ reloads = 0
  /\ torn = FALSE

EditFilter(f) ==
  \/ \E text \in Texts : Type(f, text)
  \/ \E chosen \in Choices(form[f]) : Choose(f, chosen)
  \/ AddFilter(f)
  \/ CloseFilter(f)

Next ==
  \/ \E f \in Names : EditFilter(f)
  \/ Blur
  \/ NextPage
  \/ PreviousPage
  \/ \E page \in 1..2 : Link(page)
  \/ \E request \in sent : Answer(request) \/ Lose(request)
  \/ Reload

Spec == Init /\ [][Next]_vars

(***************************************************************************)
(* Properties.                                                             *)
(***************************************************************************)

\* Types; every request that is not answered is of a draw of this page.
TypeOK ==
  /\ form \in Forms
  /\ DOMAIN elements = Names
  /\ active \subseteq Names
  /\ focus.filter \in active \cup {None}
  /\ start \in Nat
  /\ iDraw \in 1..MaxDraws
  /\ \A request \in sent : request.echo \in 1..iDraw
  /\ processing \in BOOLEAN
  /\ shown.echo \in 0..iDraw
  /\ cookie.start \in Nat
  /\ DOMAIN cookie.filters \subseteq Names
  /\ reloads \in 0..MaxReloads

\* The table has its last answer, and no text is, or was then, half typed.
Quiet == ~processing /\ ~Typing /\ ~torn

\* What the elements of a filter may hold, whatever is chosen, closed and added; and
\* that it asks for the same after it was saved and loaded by another page.
Held(filter) ==
  LET chosen == Choices(filter) \cup {Initial(filter)}
                  \cup (IF filter.kind = "text" THEN {<<text>> : text \in Texts} ELSE {})
  IN chosen \cup {Load(filter, held, filter.unset) : held \in chosen}

SurvivesReload(filter, held) ==
  LET loaded == Load(filter, Initial(filter), Val(filter, held).vals)
  IN /\ loaded \in Held(filter)
     /\ Asks(filter, Val(filter, held)) =
          IF HasValueSet(filter, loaded) THEN Asks(filter, Val(filter, loaded)) ELSE <<>>

IsReloadable(filter) ==
  \A held \in Held(filter) : /\ Load(filter, held, filter.unset) \in Held(filter)
                            /\ Added(filter, held) \in Held(filter)
                            /\ SurvivesReload(filter, held)

\* When the indicator goes, the table shows what the filters ask for: no change
\* of a filter is left without a draw (addFilter, closeFilter, change.DT) and no
\* answer to a former draw is displayed (_fnAjaxUpdateDraw), in whatever order
\* answers come, unless a text was being typed.
IndicatorIsHonest == Quiet => Same(shown.query, Query(start, active, elements))

\* An export then asks for what the table shows (dataTableSetExportArgs).
ExportIsShown == Quiet => Same(args, shown.query)

\* A page that is loaded again asks for what it showed: the filters and the page
\* of the table survive what each kind saves and loads (stateSaveParams,
\* stateLoaded), but for the radio of a select-radio.
ReloadAsksTheSame ==
  [][reloads' # reloads /\ Quiet =>
       \A request \in sent' : Same(request.query, shown.query)]_vars
=============================================================================

--------------------------- MODULE SearchTableProofs ---------------------------
(***************************************************************************)
(* When the indicator of a listing goes, the table shows what its filters  *)
(* ask for, an export asks for the same, and so does a page that is loaded *)
(* again: for any filters, any order of answers, and any numbers of draws  *)
(* and of loads of the page.                                               *)
(***************************************************************************)
EXTENDS SearchTable, TLAPS

(***************************************************************************)
(* What the page has asked for is about the filters as they were when the  *)
(* last change event was sent: the text that is being typed is not in it.  *)
(***************************************************************************)
Settled ==
  IF focus.filter = None THEN elements
  ELSE [elements EXCEPT ![focus.filter] = focus.text]

SettledQuery == Query(start, active, Settled)

ElementsOfNames == elements = [f \in Names |-> elements[f]]

\* The request of the last draw asks for what is settled.
LastAsksSettled ==
  \A request \in sent :
    request.echo = iDraw /\ ~request.torn => request.query = SettledQuery

\* So did the one whose answer is displayed, when it is not awaited.
ShownIsSettled ==
  ~processing /\ ~torn => shown.query = SettledQuery /\ args = SettledQuery

PageInv == TypeOK /\ ElementsOfNames /\ LastAsksSettled /\ ShownIsSettled

--------------------------------------------------------------------------------
\* The name of a filter that is not active, or is, is never None.
LEMMA NoneIsNoName == \A f \in Names : f # None
  BY SearchTableAssumption

\* Only the text that has the focus is not settled.
LEMMA SettledProperties ==
  ASSUME TypeOK, ElementsOfNames
  PROVE  /\ focus.filter = None => Settled = elements
         /\ ~Typing => Settled = elements
<1>1. focus.filter = None => Settled = elements
  BY DEF Settled
<1>2. ASSUME focus.filter # None, elements[focus.filter] = focus.text
      PROVE  Settled = elements
  <2>1. Settled = [elements EXCEPT ![focus.filter] = focus.text]
    BY <1>2 DEF Settled
  <2>2. QED
    BY <1>2, <2>1 DEF ElementsOfNames
<1>3. QED
  BY <1>1, <1>2 DEF Typing

(***************************************************************************)
(* A draw: its requests are the last ones, and the former are of former    *)
(* draws.  They ask for what is settled, unless a text is being typed.     *)
(***************************************************************************)
LEMMA DrawProperties ==
  ASSUME TypeOK, NEW n \in {1, 2}, NEW position \in Nat, NEW names, NEW held,
         NEW typing \in BOOLEAN, Draw(n, position, names, held, typing)
  PROVE  /\ start' = position /\ start' \in Nat /\ processing'
         /\ iDraw' \in 1 .. MaxDraws /\ iDraw' > iDraw
         /\ \A request \in sent' : request.echo \in 1 .. iDraw'
         /\ \A request \in sent' : request.echo = iDraw' =>
                /\ request.query = Query(position, names, held)
                /\ request.torn = typing
<1> DEFINE new == {[echo |-> iDraw + i, query |-> Query(position, names, held),
                    torn |-> typing] : i \in 1 .. n}
<1>1. /\ iDraw + n <= MaxDraws /\ start' = position /\ iDraw' = iDraw + n
      /\ sent' = sent \cup new /\ processing' = TRUE
  BY DEF Draw
<1>2. iDraw \in Nat /\ iDraw >= 1 /\ n \in Nat /\ n >= 1 /\ MaxDraws \in Nat
  BY SearchTableAssumption DEF TypeOK
<1>3. iDraw' \in 1 .. MaxDraws /\ iDraw' > iDraw
  BY <1>1, <1>2
<1>4. ASSUME NEW request \in new
      PROVE  /\ request.echo \in 1 .. iDraw'
             /\ request.query = Query(position, names, held)
             /\ request.torn = typing
  <2>1. PICK i \in 1 .. n : request = [echo |-> iDraw + i,
                                       query |-> Query(position, names, held),
                                       torn |-> typing]
    OBVIOUS
  <2>2. iDraw + i \in 1 .. iDraw'
    BY <1>1, <1>2
  <2>3. QED
    BY <2>1, <2>2
<1>5. ASSUME NEW request \in sent
      PROVE  request.echo \in 1 .. iDraw' /\ request.echo # iDraw'
  <2>1. request.echo \in 1 .. iDraw
    BY DEF TypeOK
  <2>2. QED
    BY <1>1, <1>2, <2>1
<1> HIDE DEF new
<1>6. QED
  BY <1>1, <1>3, <1>4, <1>5

(***************************************************************************)
(* A draw keeps the invariant, when what it asks for is settled after it   *)
(* or a text is being typed.                                               *)
(***************************************************************************)
LEMMA DrawKeeps ==
  ASSUME PageInv, NEW n \in {1, 2}, NEW position \in Nat, NEW names, NEW held,
         NEW typing \in BOOLEAN, Draw(n, position, names, held, typing),
         ~typing => Query(position, names, held) = SettledQuery',
         UNCHANGED <<form, drawnVars, reloads>>,
         DOMAIN elements' = Names, ElementsOfNames',
         active' \subseteq Names, focus'.filter \in active' \cup {None}
  PROVE  PageInv'
<1>1. TypeOK
  BY DEF PageInv
<1>2. /\ start' \in Nat /\ processing'
      /\ iDraw' \in 1 .. MaxDraws /\ iDraw' > iDraw
      /\ \A request \in sent' : request.echo \in 1 .. iDraw'
      /\ \A request \in sent' : request.echo = iDraw' =>
             /\ request.query = Query(position, names, held)
             /\ request.torn = typing
  BY <1>1, DrawProperties
<1>3. processing' \in BOOLEAN
  BY DEF Draw
<1>4. shown'.echo \in 0 .. iDraw'
  BY <1>1, <1>2 DEF TypeOK, drawnVars
<1>5. TypeOK'
  BY <1>1, <1>2, <1>3, <1>4 DEF TypeOK, drawnVars
<1>6. LastAsksSettled'
  BY <1>2 DEF LastAsksSettled
<1>7. ShownIsSettled'
  BY <1>2 DEF ShownIsSettled
<1>8. QED
  BY <1>5, <1>6, <1>7 DEF PageInv

\* At first the page asks for what its filters hold, and nothing is shown.
LEMMA InitPage == Init => PageInv
<1> SUFFICES ASSUME Init PROVE PageInv
  OBVIOUS
<1>1. elements = [f \in Names |-> Initial(form[f])]
  BY DEF Init
<1>2. ElementsOfNames /\ DOMAIN elements = Names
  BY <1>1 DEF ElementsOfNames
<1>3. focus.filter = None
  BY DEF Init, Nowhere
<1>4. Settled = elements
  BY <1>3 DEF Settled
<1>5. LastAsksSettled
  BY <1>4 DEF Init, LastAsksSettled, SettledQuery
<1>6. /\ form \in Forms /\ active = {} /\ start = 0 /\ iDraw = 1
      /\ processing /\ processing \in BOOLEAN
      /\ sent = {[echo |-> 1, query |-> Query(0, {}, elements), torn |-> FALSE]}
      /\ shown.echo = 0 /\ cookie.start = 0 /\ DOMAIN cookie.filters = {}
      /\ reloads = 0
  BY DEF Init, NoAnswer, NoState
<1>7. TypeOK
  BY <1>2, <1>3, <1>6, SearchTableAssumption DEF TypeOK
<1>8. QED
  BY <1>2, <1>5, <1>6, <1>7 DEF PageInv, ShownIsSettled

--------------------------------------------------------------------------------
(* What the user does.                                                     *)

\* A text that is being typed is not settled yet.
LEMMA TypeKeeps ==
  ASSUME PageInv, NEW f \in Names, NEW text, Type(f, text)
  PROVE  PageInv'
<1>1. /\ f \in active /\ focus.filter \in {None, f}
      /\ focus' = IF focus.filter = f THEN focus ELSE [filter |-> f, text |-> elements[f]]
      /\ elements' = [elements EXCEPT ![f] = <<text>>]
      /\ UNCHANGED <<form, active, start, iDraw, sent, processing, shown, args,
                     cookie, torn, reloads>>
  BY DEF Type, tableVars, drawnVars
<1>2. TypeOK /\ ElementsOfNames /\ LastAsksSettled /\ ShownIsSettled
  BY DEF PageInv
<1>3. focus'.filter = f /\ f # None
  BY <1>1, NoneIsNoName
<1>4. DOMAIN elements' = Names /\ ElementsOfNames'
  BY <1>1, <1>2 DEF ElementsOfNames
<1>5. Settled' = [elements' EXCEPT ![f] = focus'.text]
  BY <1>3 DEF Settled
<1>6. Settled' = Settled
  <2>1. CASE focus.filter = f
    <3>1. Settled = [elements EXCEPT ![f] = focus.text] /\ focus' = focus
      BY <1>1, <1>3, <2>1 DEF Settled
    <3>2. QED
      BY <1>1, <1>2, <1>5, <3>1 DEF ElementsOfNames
  <2>2. CASE focus.filter # f
    <3>1. Settled = elements /\ focus'.text = elements[f]
      BY <1>1, <2>2 DEF Settled
    <3>2. QED
      BY <1>1, <1>2, <1>5, <3>1 DEF ElementsOfNames
  <2>3. QED
    BY <2>1, <2>2
<1>7. SettledQuery' = SettledQuery
  BY <1>1, <1>6 DEF SettledQuery, Query
<1>8. TypeOK'
  BY <1>1, <1>2, <1>3, <1>4 DEF TypeOK
<1>9. LastAsksSettled' /\ ShownIsSettled'
  BY <1>1, <1>2, <1>7 DEF LastAsksSettled, ShownIsSettled
<1>10. QED
  BY <1>4, <1>8, <1>9 DEF PageInv

\* The blur settles the text, with a draw if it has changed.
LEMMA BlurKeeps ==
  ASSUME PageInv, Blur
  PROVE  PageInv'
<1>1. /\ focus.filter # None /\ focus' = Nowhere
      /\ IF Typing THEN Redraw(1, active, elements) ELSE UNCHANGED tableVars
      /\ UNCHANGED <<form, elements, active, drawnVars, reloads>>
  BY DEF Blur
<1>2. TypeOK /\ ElementsOfNames /\ LastAsksSettled /\ ShownIsSettled
  BY DEF PageInv
<1>3. focus'.filter = None /\ Settled' = elements
  BY <1>1 DEF Nowhere, Settled
<1>4. DOMAIN elements' = Names /\ ElementsOfNames' /\ active' \subseteq Names
  BY <1>1, <1>2 DEF ElementsOfNames, TypeOK
<1>5. CASE Typing
  <2>1. Draw(1, 0, active, elements, FALSE)
    BY <1>1, <1>5 DEF Redraw
  <2>2. start' = 0
    BY <2>1 DEF Draw
  <2>3. SettledQuery' = Query(0, active, elements)
    BY <1>1, <1>3, <2>2 DEF SettledQuery, Query
  <2>4. QED
    BY <1>1, <1>3, <1>4, <2>1, <2>3, DrawKeeps
<1>6. CASE ~Typing
  <2>1. UNCHANGED <<start, iDraw, sent, processing, shown, args, cookie, torn>>
    BY <1>1, <1>6 DEF tableVars, drawnVars
  <2>2. Settled' = Settled
    BY <1>2, <1>3, <1>6, SettledProperties
  <2>3. SettledQuery' = SettledQuery
    BY <1>1, <2>1, <2>2 DEF SettledQuery, Query
  <2>4. TypeOK'
    BY <1>1, <1>2, <1>3, <1>4, <2>1 DEF TypeOK
  <2>5. LastAsksSettled' /\ ShownIsSettled'
    BY <1>2, <2>1, <2>3 DEF LastAsksSettled, ShownIsSettled
  <2>6. QED
    BY <1>4, <2>4, <2>5 DEF PageInv
<1>7. QED
  BY <1>5, <1>6

(***************************************************************************)
(* A change of the filters that is drawn, while no text has the focus.     *)
(***************************************************************************)
LEMMA RedrawKeeps ==
  ASSUME PageInv, NEW n \in {1, 2}, NEW f \in Names, NEW value,
         focus = Nowhere, focus' = focus,
         elements' = [elements EXCEPT ![f] = value], active' \subseteq Names,
         Redraw(n, active', elements'),
         UNCHANGED <<form, drawnVars, reloads>>
  PROVE  PageInv'
<1>1. focus'.filter = None
  BY DEF Nowhere
<1>2. Settled' = elements'
  BY <1>1 DEF Settled
<1>3. Draw(n, 0, active', elements', FALSE)
  BY DEF Redraw
<1>4. start' = 0
  BY <1>3 DEF Draw
<1>5. SettledQuery' = Query(0, active', elements')
  BY <1>2, <1>4 DEF SettledQuery, Query
<1>6. DOMAIN elements' = Names /\ ElementsOfNames'
  BY DEF PageInv, ElementsOfNames
<1>7. QED
  BY <1>1, <1>3, <1>5, <1>6, DrawKeeps

\* A filter is chosen from, added, or closed.
LEMMA EditKeeps ==
  ASSUME PageInv, NEW f \in Names, EditFilter(f)
  PROVE  PageInv'
<1>1. ASSUME NEW text \in Texts, Type(f, text) PROVE PageInv'
  BY <1>1, TypeKeeps
<1>2. active \subseteq Names
  BY DEF PageInv, TypeOK
<1>3. ASSUME NEW chosen \in Choices(form[f]), Choose(f, chosen) PROVE PageInv'
  <2>1. /\ focus = Nowhere /\ focus' = focus /\ active' = active
        /\ elements' = [elements EXCEPT ![f] = chosen]
        /\ Redraw(1, active, elements')
        /\ UNCHANGED <<form, drawnVars, reloads>>
    BY <1>3 DEF Choose
  <2>2. active' \subseteq Names /\ Redraw(1, active', elements')
    BY <1>2, <2>1
  <2>3. QED
    BY <2>1, <2>2, RedrawKeeps
<1>4. CASE AddFilter(f)
  <2>1. /\ focus = Nowhere /\ focus' = focus /\ active' = active \cup {f}
        /\ elements' = [elements EXCEPT ![f] = Added(form[f], elements[f])]
        /\ Redraw(2, active', elements')
        /\ UNCHANGED <<form, drawnVars, reloads>>
    BY <1>4 DEF AddFilter
  <2>2. active' \subseteq Names
    BY <1>2, <2>1
  <2>3. QED
    BY <2>1, <2>2, RedrawKeeps
<1>5. CASE CloseFilter(f)
  <2>1. /\ focus = Nowhere /\ focus' = focus /\ active' = active \ {f}
        /\ elements' = [elements EXCEPT ![f] = Load(form[f], elements[f], form[f].unset)]
        /\ Redraw(1, active', elements')
        /\ UNCHANGED <<form, drawnVars, reloads>>
    BY <1>5 DEF CloseFilter
  <2>2. active' \subseteq Names
    BY <1>2, <2>1
  <2>3. QED
    BY <2>1, <2>2, RedrawKeeps
<1>6. QED
  BY <1>1, <1>3, <1>4, <1>5 DEF EditFilter

\* A page is turned: what is asked for is settled unless a text is being typed.
LEMMA PageKeeps ==
  ASSUME PageInv, NEW position \in Nat,
         Draw(1, position, active, elements, Typing),
         UNCHANGED <<form, elements, active, focus, drawnVars, reloads>>
  PROVE  PageInv'
<1>1. TypeOK /\ ElementsOfNames
  BY DEF PageInv
<1>2. start' = position
  BY DEF Draw
<1>3. Settled' = Settled
  BY DEF Settled
<1>4. ~Typing => Query(position, active, elements) = SettledQuery'
  BY <1>1, <1>2, <1>3, SettledProperties DEF SettledQuery, Query
<1>5. /\ DOMAIN elements' = Names /\ ElementsOfNames'
      /\ active' \subseteq Names /\ focus'.filter \in active' \cup {None}
  BY <1>1 DEF ElementsOfNames, TypeOK
<1>6. Typing \in BOOLEAN
  BY DEF Typing
<1>7. QED
  BY <1>4, <1>5, <1>6, DrawKeeps

\* The pages that can be turned to begin at a row.
LEMMA PagesKeep ==
  ASSUME PageInv, NextPage \/ PreviousPage \/ \E page \in 1 .. 2 : Link(page)
  PROVE  PageInv'
<1>1. start \in Nat /\ Length \in Nat /\ Length > 0
  BY SearchTableAssumption DEF PageInv, TypeOK
<1>2. CASE NextPage
  <2>1. start + Length \in Nat
    BY <1>1
  <2>2. QED
    BY <1>2, <2>1, PageKeeps DEF NextPage, GoTo
<1>3. CASE PreviousPage
  <2> DEFINE position == IF start < Length THEN 0 ELSE start - Length
  <2>1. position \in Nat
    BY <1>1
  <2>2. GoTo(position)
    BY <1>3 DEF PreviousPage
  <2> HIDE DEF position
  <2>3. QED
    BY <2>1, <2>2, PageKeeps DEF GoTo
<1>4. ASSUME NEW page \in 1 .. 2, Link(page) PROVE PageInv'
  <2> DEFINE position == (page - 1) * Length
  <2>1. position \in Nat
    <3>1. page = 1 \/ page = 2
      OBVIOUS
    <3>2. position = 0 \/ position = Length
      BY <1>1, <3>1
    <3>3. QED
      BY <1>1, <3>2
  <2>2. /\ Draw(1, position, active, elements, Typing)
        /\ UNCHANGED <<form, elements, active, focus, drawnVars, reloads>>
    BY <1>4 DEF Link
  <2> HIDE DEF position
  <2>3. QED
    BY <2>1, <2>2, PageKeeps
<1>5. QED
  BY <1>2, <1>3, <1>4

--------------------------------------------------------------------------------
(* What the server does, and loading the page again.                       *)

(***************************************************************************)
(* An answer to the last draw shows what is settled, unless it was asked   *)
(* for, or comes, while a text is typed; any other only sets the arguments *)
(* of the export, to what is settled.                                      *)
(***************************************************************************)
LEMMA AnswerKeeps ==
  ASSUME PageInv, NEW request \in sent, Answer(request)
  PROVE  PageInv'
<1>1. TypeOK /\ ElementsOfNames /\ LastAsksSettled /\ ShownIsSettled
  BY DEF PageInv
<1>2. /\ sent' = sent \ {request} /\ args' = Query(start, active, elements)
      /\ UNCHANGED <<form, elements, active, focus, start, iDraw, reloads>>
  BY DEF Answer
<1>3. Settled' = Settled /\ SettledQuery' = SettledQuery
  BY <1>2 DEF Settled, SettledQuery, Query
<1>4. ~Typing => args' = SettledQuery
  BY <1>1, <1>2, SettledProperties DEF SettledQuery
<1>5. LastAsksSettled'
  BY <1>1, <1>2, <1>3 DEF LastAsksSettled
<1>6. ElementsOfNames'
  BY <1>1, <1>2 DEF ElementsOfNames
<1>7. CASE request.echo < iDraw
  <2>1. torn' = (torn \/ Typing) /\ UNCHANGED <<processing, shown, cookie>>
    BY <1>7 DEF Answer
  <2>2. TypeOK'
    BY <1>1, <1>2, <2>1 DEF TypeOK
  <2>3. ShownIsSettled'
    BY <1>1, <1>3, <1>4, <2>1 DEF ShownIsSettled
  <2>4. QED
    BY <1>5, <1>6, <2>2, <2>3 DEF PageInv
<1>8. CASE ~(request.echo < iDraw)
  <2>1. /\ torn' = (request.torn \/ Typing) /\ processing' = FALSE
        /\ shown' = [echo |-> request.echo, query |-> request.query,
                     total |-> Results(Asked(request.query))]
        /\ cookie' = SavedState
    BY <1>8 DEF Answer
  <2>2. request.echo \in 1 .. iDraw /\ iDraw \in Nat
    BY <1>1, SearchTableAssumption DEF TypeOK
  <2>3. request.echo = iDraw
    BY <1>8, <2>2
  <2>4. cookie'.start = start /\ DOMAIN cookie'.filters = active
    BY <2>1 DEF SavedState
  <2>5. shown'.echo \in 0 .. iDraw /\ shown'.query = request.query
    BY <2>1, <2>2
  <2>6. TypeOK'
    BY <1>1, <1>2, <2>1, <2>4, <2>5 DEF TypeOK
  <2>7. ~torn' => ~request.torn /\ ~Typing
    BY <2>1
  <2>8. ShownIsSettled'
    BY <1>1, <1>3, <1>4, <2>3, <2>5, <2>7 DEF ShownIsSettled, LastAsksSettled
  <2>9. QED
    BY <1>5, <1>6, <2>6, <2>8 DEF PageInv
<1>9. QED
  BY <1>7, <1>8

\* An answer that is lost changes nothing that is shown.
LEMMA LoseKeeps ==
  ASSUME PageInv, NEW request \in sent, Lose(request)
  PROVE  PageInv'
<1>1. /\ sent' = sent \ {request}
      /\ UNCHANGED <<form, elements, active, focus, start, iDraw, processing,
                     shown, args, cookie, torn, reloads>>
  BY DEF Lose, drawnVars
<1>2. SettledQuery' = SettledQuery
  BY <1>1 DEF Settled, SettledQuery, Query
<1>3. QED
  BY <1>1, <1>2
  DEF PageInv, TypeOK, ElementsOfNames, LastAsksSettled, ShownIsSettled

\* A page that is loaded again asks for what it is restored to.
LEMMA ReloadKeeps ==
  ASSUME PageInv, Reload
  PROVE  PageInv'
<1>1. TypeOK
  BY DEF PageInv
<1>2. /\ reloads < MaxReloads /\ reloads' = reloads + 1
      /\ focus' = Nowhere /\ active' = RestoredNames(cookie)
      /\ elements' = [f \in Names |-> IF f \in active'
                                      THEN Added(form[f], Restored(cookie, f))
                                      ELSE Restored(cookie, f)]
      /\ start' = cookie.start /\ iDraw' = 1
      /\ sent' = {[echo |-> 1, query |-> Query(start', active', elements'), torn |-> FALSE]}
      /\ processing' = TRUE /\ shown' = NoAnswer /\ UNCHANGED <<form, cookie>>
  BY DEF Reload
<1>3. DOMAIN elements' = Names /\ ElementsOfNames'
  BY <1>2 DEF ElementsOfNames
<1>4. focus'.filter = None /\ Settled' = elements'
  BY <1>2 DEF Nowhere, Settled
<1>5. SettledQuery' = Query(start', active', elements')
  BY <1>2, <1>4 DEF SettledQuery, Query
<1>6. LastAsksSettled'
  BY <1>2, <1>5 DEF LastAsksSettled
<1>7. active' \subseteq Names
  BY <1>1, <1>2 DEF RestoredNames, TypeOK
<1>8. TypeOK'
  <2>1. reloads' \in 0 .. MaxReloads
    BY <1>1, <1>2, SearchTableAssumption DEF TypeOK
  <2>2. iDraw' \in 1 .. MaxDraws /\ shown'.echo \in 0 .. iDraw'
    BY <1>2, SearchTableAssumption DEF NoAnswer
  <2>3. \A request \in sent' : request.echo \in 1 .. iDraw'
    BY <1>2
  <2>4. processing' \in BOOLEAN
    BY <1>2
  <2>5. form' \in Forms /\ start' \in Nat /\ cookie'.start \in Nat
        /\ DOMAIN cookie'.filters \subseteq Names
    BY <1>1, <1>2 DEF TypeOK
  <2>6. QED
    BY <1>3, <1>4, <1>7, <2>1, <2>2, <2>3, <2>4, <2>5 DEF TypeOK
<1>9. QED
  BY <1>2, <1>3, <1>6, <1>8 DEF PageInv, ShownIsSettled

--------------------------------------------------------------------------------
\* Every step keeps the invariant.
LEMMA StepPage == PageInv /\ [Next]_vars => PageInv'
<1> SUFFICES ASSUME PageInv, [Next]_vars PROVE PageInv'
  OBVIOUS
<1>1. ASSUME NEW f \in Names, EditFilter(f) PROVE PageInv'
  BY <1>1, EditKeeps
<1>2. CASE Blur
  BY <1>2, BlurKeeps
<1>3. CASE NextPage \/ PreviousPage \/ \E page \in 1 .. 2 : Link(page)
  BY <1>3, PagesKeep
<1>4. ASSUME NEW request \in sent, Answer(request) \/ Lose(request) PROVE PageInv'
  BY <1>4, AnswerKeeps, LoseKeeps
<1>5. CASE Reload
  BY <1>5, ReloadKeeps
<1>6. CASE UNCHANGED vars
  <2>1. UNCHANGED <<form, elements, active, focus, start, iDraw, sent, processing,
                    shown, args, cookie, torn, reloads>>
    BY <1>6 DEF vars, tableVars, drawnVars
  <2>2. SettledQuery' = SettledQuery
    BY <2>1 DEF Settled, SettledQuery, Query
  <2>3. QED
    BY <2>1, <2>2
    DEF PageInv, TypeOK, ElementsOfNames, LastAsksSettled, ShownIsSettled
<1>7. QED
  BY <1>1, <1>2, <1>3, <1>4, <1>5, <1>6 DEF Next

\* The invariant always holds.
LEMMA Invariant == Spec => []PageInv
  BY InitPage, StepPage, PTL DEF Spec

\* Types; every request that is not answered is of a draw of this page.
THEOREM TypeCorrect == Spec => []TypeOK
<1>1. PageInv => TypeOK
  BY DEF PageInv
<1>2. QED
  BY <1>1, Invariant, PTL

(***************************************************************************)
(* When the indicator goes the table shows what the filters ask for, in    *)
(* whatever order answers come, or fail to, unless a text is being typed   *)
(* or was when the answer was asked for or came.                           *)
(***************************************************************************)
THEOREM HonestIndicator == Spec => []IndicatorIsHonest
<1>1. PageInv => IndicatorIsHonest
  <2>1. SUFFICES ASSUME PageInv, Quiet
                 PROVE  shown.query = Query(start, active, elements)
    BY DEF IndicatorIsHonest, Same
  <2>2. Settled = elements
    BY <2>1, SettledProperties DEF PageInv, Quiet
  <2>3. QED
    BY <2>1, <2>2 DEF PageInv, ShownIsSettled, Quiet, SettledQuery
<1>2. QED
  BY <1>1, Invariant, PTL

\* An export then asks for what the table shows.
THEOREM HonestExport == Spec => []ExportIsShown
<1>1. PageInv => ExportIsShown
  <2>1. SUFFICES ASSUME PageInv, Quiet PROVE args = shown.query
    BY DEF ExportIsShown, Same
  <2>2. QED
    BY <2>1 DEF PageInv, ShownIsSettled, Quiet
<1>2. QED
  BY <1>1, Invariant, PTL

--------------------------------------------------------------------------------
(***************************************************************************)
(* Loading the page again.  What a filter saves, loads and has to ask for  *)
(* is a matter of its kind (IsReloadable); that the page asks for what it  *)
(* showed is then a matter of when the state is saved: with each answer    *)
(* that is displayed, from the filters that the answer was asked for.      *)
(***************************************************************************)
PagesReload == \A page \in Forms : \A f \in Names : IsReloadable(page[f])

ElementsAreHeld == \A f \in Names : elements[f] \in Held(form[f])

StateIsOfHeld ==
  \A f \in DOMAIN cookie.filters :
    \E held \in Held(form[f]) : cookie.filters[f] = Val(form[f], held)

StateIsShown == ~processing /\ ~torn => cookie = shown.query

SavedInv == ElementsAreHeld /\ StateIsOfHeld /\ StateIsShown

LEMMA HeldProperties ==
  ASSUME PagesReload, TypeOK, NEW f \in Names, NEW held \in Held(form[f])
  PROVE  /\ Load(form[f], held, form[f].unset) \in Held(form[f])
         /\ Added(form[f], held) \in Held(form[f])
         /\ SurvivesReload(form[f], held)
<1>1. IsReloadable(form[f])
  BY DEF PagesReload, TypeOK
<1> QED
  BY <1>1 DEF IsReloadable

\* What is chosen and what is typed are held, and so is what the page begins with.
LEMMA HeldAtFirst ==
  ASSUME NEW filter
  PROVE  /\ Initial(filter) \in Held(filter)
         /\ Choices(filter) \subseteq Held(filter)
         /\ filter.kind = "text" => \A text \in Texts : <<text>> \in Held(filter)
<1> DEFINE chosen == Choices(filter) \cup {Initial(filter)}
                       \cup (IF filter.kind = "text" THEN {<<text>> : text \in Texts} ELSE {})
<1>1. chosen \subseteq Held(filter)
  BY DEF Held
<1>2. filter.kind = "text" => \A text \in Texts : <<text>> \in chosen
  OBVIOUS
<1> QED
  BY <1>1, <1>2

\* A step that changes the elements of one filter, and saves nothing.
LEMMA ElementChanges ==
  ASSUME PageInv, SavedInv, NEW f \in Names, NEW value \in Held(form[f]),
         elements' = [elements EXCEPT ![f] = value], UNCHANGED <<form, cookie>>
  PROVE  ElementsAreHeld' /\ StateIsOfHeld'
<1>1. ElementsAreHeld'
  BY DEF PageInv, ElementsOfNames, SavedInv, ElementsAreHeld
<1> QED
  BY <1>1 DEF SavedInv, StateIsOfHeld

\* Nothing is displayed until there is an answer.
LEMMA DrawAwaits ==
  ASSUME NEW n, NEW position, NEW names, NEW held, NEW typing,
         Draw(n, position, names, held, typing)
  PROVE  StateIsShown'
  BY DEF Draw, StateIsShown

LEMMA EditSaves ==
  ASSUME PagesReload, PageInv, SavedInv, NEW f \in Names, EditFilter(f)
  PROVE  SavedInv'
<1>1. TypeOK /\ elements[f] \in Held(form[f])
  BY DEF PageInv, SavedInv, ElementsAreHeld
<1>2. ASSUME NEW text \in Texts, Type(f, text) PROVE SavedInv'
  <2>1. /\ form[f].kind = "text" /\ elements' = [elements EXCEPT ![f] = <<text>>]
        /\ UNCHANGED <<form, cookie, shown, processing, torn>>
    BY <1>2 DEF Type, tableVars, drawnVars
  <2>2. <<text>> \in Held(form[f])
    BY <2>1, HeldAtFirst
  <2>3. ElementsAreHeld' /\ StateIsOfHeld'
    BY <2>1, <2>2, ElementChanges
  <2> QED
    BY <2>1, <2>3 DEF SavedInv, StateIsShown
<1>3. ASSUME NEW n, NEW value \in Held(form[f]),
             elements' = [elements EXCEPT ![f] = value], Redraw(n, active', elements'),
             UNCHANGED <<form, drawnVars>>
      PROVE  SavedInv'
  <2>1. UNCHANGED <<form, cookie>>
    BY <1>3 DEF drawnVars
  <2>2. ElementsAreHeld' /\ StateIsOfHeld'
    BY <1>3, <2>1, ElementChanges
  <2>3. StateIsShown'
    BY <1>3, DrawAwaits DEF Redraw
  <2> QED
    BY <2>2, <2>3 DEF SavedInv
<1>4. ASSUME NEW chosen \in Choices(form[f]), Choose(f, chosen) PROVE SavedInv'
  <2>1. chosen \in Held(form[f])
    BY HeldAtFirst
  <2>2. /\ elements' = [elements EXCEPT ![f] = chosen] /\ active' = active
        /\ Redraw(1, active, elements') /\ UNCHANGED <<form, drawnVars>>
    BY <1>4 DEF Choose
  <2>3. Redraw(1, active', elements')
    BY <2>2
  <2> QED
    BY <1>3, <2>1, <2>2, <2>3
<1>5. CASE AddFilter(f)
  <2>1. Added(form[f], elements[f]) \in Held(form[f])
    BY <1>1, HeldProperties
  <2> QED
    BY <1>3, <1>5, <2>1 DEF AddFilter
<1>6. CASE CloseFilter(f)
  <2>1. Load(form[f], elements[f], form[f].unset) \in Held(form[f])
    BY <1>1, HeldProperties
  <2> QED
    BY <1>3, <1>6, <2>1 DEF CloseFilter
<1> QED
  BY <1>2, <1>4, <1>5, <1>6 DEF EditFilter

\* A blur and the pages change no filter.
LEMMA TurningSaves ==
  ASSUME SavedInv, UNCHANGED <<form, elements, drawnVars>>,
         \/ \E n : \E position, names, held, typing : Draw(n, position, names, held, typing)
         \/ UNCHANGED processing
  PROVE  SavedInv'
<1>1. ElementsAreHeld' /\ StateIsOfHeld'
  BY DEF SavedInv, ElementsAreHeld, StateIsOfHeld, drawnVars
<1>2. StateIsShown'
  BY DrawAwaits DEF SavedInv, StateIsShown, drawnVars
<1> QED
  BY <1>1, <1>2 DEF SavedInv

\* What an answer saves is what it was asked for, unless a text is or was half typed.
LEMMA AnswerSaves ==
  ASSUME PageInv, SavedInv, NEW request \in sent, Answer(request)
  PROVE  SavedInv'
<1>1. UNCHANGED <<form, elements, active, focus, start, iDraw>>
  BY DEF Answer
<1>2. ElementsAreHeld'
  BY <1>1 DEF SavedInv, ElementsAreHeld
<1>3. CASE request.echo < iDraw
  <2>1. UNCHANGED <<processing, shown, cookie>> /\ (torn => torn')
    BY <1>3 DEF Answer
  <2> QED
    BY <1>1, <1>2, <2>1 DEF SavedInv, StateIsOfHeld, StateIsShown
<1>4. CASE ~(request.echo < iDraw)
  <2>1. /\ torn' = (request.torn \/ Typing) /\ cookie' = SavedState
        /\ shown' = [echo |-> request.echo, query |-> request.query,
                     total |-> Results(Asked(request.query))]
    BY <1>4 DEF Answer
  <2>2. active \subseteq Names
    BY DEF PageInv, TypeOK
  <2>3. StateIsOfHeld'
    <3>1. cookie'.filters = [f \in active |-> Val(form[f], elements[f])]
      BY <2>1 DEF SavedState
    <3> QED
      BY <1>1, <2>2, <3>1 DEF SavedInv, ElementsAreHeld, StateIsOfHeld
  <2>4. StateIsShown'
    <3> SUFFICES ASSUME ~torn' PROVE cookie' = shown'.query
      BY DEF StateIsShown
    <3>1. ~request.torn /\ ~Typing /\ shown'.query = request.query
      BY <2>1
    <3>2. request.echo = iDraw
      <4>1. request.echo \in 1..iDraw /\ iDraw \in Nat
        BY SearchTableAssumption DEF PageInv, TypeOK
      <4> QED
        BY <1>4, <4>1
    <3>3. request.query = SettledQuery
      BY <3>1, <3>2 DEF PageInv, LastAsksSettled
    <3>4. Settled = elements
      BY <3>1, SettledProperties DEF PageInv
    <3>5. SettledQuery = SavedState
      BY <3>4 DEF SettledQuery, Query, SavedState
    <3> QED
      BY <2>1, <3>1, <3>3, <3>5
  <2> QED
    BY <1>2, <2>3, <2>4 DEF SavedInv
<1> QED
  BY <1>3, <1>4

\* A filter that was saved holds what it loads, the others what they begin with.
LEMMA RestoredIsHeld ==
  ASSUME PagesReload, TypeOK, StateIsOfHeld, NEW f \in Names
  PROVE  Restored(cookie, f) \in Held(form[f])
<1>1. CASE f \in DOMAIN cookie.filters
  <2>1. PICK held \in Held(form[f]) : cookie.filters[f] = Val(form[f], held)
    BY <1>1 DEF StateIsOfHeld
  <2>2. SurvivesReload(form[f], held)
    BY HeldProperties
  <2> QED
    BY <1>1, <2>1, <2>2 DEF SurvivesReload, Restored
<1>2. CASE f \notin DOMAIN cookie.filters
  BY <1>2, HeldAtFirst DEF Restored
<1> QED
  BY <1>1, <1>2

LEMMA ReloadSaves ==
  ASSUME PagesReload, PageInv, SavedInv, Reload
  PROVE  SavedInv'
<1>1. /\ elements' = [f \in Names |-> IF f \in active'
                                      THEN Added(form[f], Restored(cookie, f))
                                      ELSE Restored(cookie, f)]
      /\ processing' /\ UNCHANGED <<form, cookie>>
  BY DEF Reload
<1>2. \A f \in Names : /\ Restored(cookie, f) \in Held(form[f])
                       /\ Added(form[f], Restored(cookie, f)) \in Held(form[f])
  BY RestoredIsHeld, HeldProperties DEF PageInv, SavedInv
<1>3. ElementsAreHeld'
  BY <1>1, <1>2 DEF ElementsAreHeld
<1>4. StateIsOfHeld'
  BY <1>1 DEF SavedInv, StateIsOfHeld
<1> QED
  BY <1>1, <1>3, <1>4 DEF SavedInv, StateIsShown

LEMMA StepSaves == PagesReload /\ PageInv /\ SavedInv /\ [Next]_vars => SavedInv'
<1> SUFFICES ASSUME PagesReload, PageInv, SavedInv, [Next]_vars PROVE SavedInv'
  OBVIOUS
<1>1. ASSUME NEW f \in Names, EditFilter(f) PROVE SavedInv'
  BY <1>1, EditSaves
<1>2. CASE Blur
  <2>1. UNCHANGED <<form, elements, drawnVars>>
    BY <1>2 DEF Blur
  <2>2. Redraw(1, active, elements) \/ UNCHANGED processing
    BY <1>2 DEF Blur, tableVars
  <2> QED
    BY <2>1, <2>2, TurningSaves DEF Redraw
<1>3. ASSUME NEW position, Draw(1, position, active, elements, Typing),
             UNCHANGED <<form, elements, active, focus, drawnVars, reloads>>
      PROVE  SavedInv'
  BY <1>3, TurningSaves
<1>4. CASE NextPage \/ PreviousPage \/ \E page \in 1..2 : Link(page)
  BY <1>3, <1>4 DEF NextPage, PreviousPage, GoTo, Link
<1>5. ASSUME NEW request \in sent, Answer(request) PROVE SavedInv'
  BY <1>5, AnswerSaves
<1>6. ASSUME NEW request \in sent, Lose(request) PROVE SavedInv'
  BY <1>6, TurningSaves DEF Lose
<1>7. CASE Reload
  BY <1>7, ReloadSaves
<1>8. CASE UNCHANGED vars
  BY <1>8, TurningSaves DEF vars, tableVars
<1> QED
  BY <1>1, <1>2, <1>4, <1>5, <1>6, <1>7, <1>8 DEF Next

LEMMA SavedAlways == PagesReload => (Spec => []SavedInv)
<1> SUFFICES ASSUME PagesReload PROVE Spec => []SavedInv
  OBVIOUS
<1>1. Init => SavedInv
  <2> SUFFICES ASSUME Init PROVE SavedInv
    OBVIOUS
  <2>1. elements = [f \in Names |-> Initial(form[f])]
    BY DEF Init
  <2>2. ElementsAreHeld
    BY <2>1, HeldAtFirst DEF ElementsAreHeld
  <2> QED
    BY <2>2 DEF Init, SavedInv, StateIsOfHeld, StateIsShown, NoState
<1>2. PageInv /\ SavedInv /\ [Next]_vars => SavedInv'
  BY StepSaves
<1> QED
  BY <1>1, <1>2, Invariant, PTL DEF Spec

\* A filter that was saved and is restored asks for what it did; one that is not
\* restored did not ask for anything.
LEMMA RestoredAsks ==
  ASSUME PagesReload, TypeOK, StateIsOfHeld, NEW f \in DOMAIN cookie.filters
  PROVE  Asks(form[f], cookie.filters[f]) =
           IF f \in RestoredNames(cookie)
           THEN Asks(form[f], Val(form[f], Added(form[f], Restored(cookie, f)))) ELSE <<>>
<1>1. PICK held \in Held(form[f]) : cookie.filters[f] = Val(form[f], held)
  BY DEF StateIsOfHeld
<1>2. SurvivesReload(form[f], held)
  BY HeldProperties DEF TypeOK
<1>3. Restored(cookie, f) = Load(form[f], Initial(form[f]), Val(form[f], held).vals)
  BY <1>1 DEF Restored
<1>4. f \in RestoredNames(cookie) <=> HasValueSet(form[f], Restored(cookie, f))
  BY DEF RestoredNames
<1>5. HasValueSet(form[f], Restored(cookie, f)) =>
        Added(form[f], Restored(cookie, f)) = Restored(cookie, f)
  BY DEF Added
<1> QED
  BY <1>1, <1>2, <1>3, <1>4, <1>5 DEF SurvivesReload

LEMMA ReloadAsks ==
  ASSUME PagesReload, PageInv, SavedInv, Reload, Quiet, NEW request \in sent'
  PROVE  Same(request.query, shown.query)
<1> DEFINE restored == [f \in RestoredNames(cookie) |->
                          Val(form[f], Added(form[f], Restored(cookie, f)))]
<1>1. TypeOK /\ StateIsOfHeld
  BY DEF PageInv, SavedInv
<1>2. shown.query = cookie
  BY DEF Quiet, SavedInv, StateIsShown
<1>3. /\ active' = RestoredNames(cookie) /\ start' = cookie.start
      /\ elements' = [f \in Names |-> IF f \in active'
                                      THEN Added(form[f], Restored(cookie, f))
                                      ELSE Restored(cookie, f)]
      /\ request.query = Query(start', active', elements')
  BY DEF Reload
<1>4. RestoredNames(cookie) \subseteq DOMAIN cookie.filters
      /\ DOMAIN cookie.filters \subseteq Names
  BY <1>1 DEF RestoredNames, TypeOK
<1>5. request.query.start = cookie.start /\ request.query.filters = restored
  BY <1>3, <1>4 DEF Query
<1>6. ASSUME NEW f \in DOMAIN cookie.filters
      PROVE  Asks(form[f], cookie.filters[f]) =
               IF f \in DOMAIN restored THEN Asks(form[f], restored[f]) ELSE <<>>
  BY <1>1, RestoredAsks
<1>7. DOMAIN restored \subseteq DOMAIN cookie.filters
  BY <1>4
<1> HIDE DEF restored
<1>8. Asked(request.query) = Asked(cookie)
  <2>1. {n \in DOMAIN restored : Asks(form[n], restored[n]) # <<>>}
          = {n \in DOMAIN cookie.filters : Asks(form[n], cookie.filters[n]) # <<>>}
    BY <1>6, <1>7
  <2> QED
    BY <1>5, <1>6, <1>7, <2>1 DEF Asked
<1> QED
  BY <1>2, <1>5, <1>8 DEF Same

\* A page that is loaded again asks for what it showed, if every filter of the page
\* asks for the same after what it holds was saved and loaded (stateSaveParams,
\* stateLoaded): whatever was chosen, typed, closed, asked and answered before, the
\* state that is saved is that of the answer that is displayed.
THEOREM ReloadsAskTheSame ==
  (\A page \in Forms : \A f \in Names : IsReloadable(page[f])) =>
    (Spec => ReloadAsksTheSame)
<1> SUFFICES ASSUME PagesReload PROVE Spec => ReloadAsksTheSame
  BY DEF PagesReload
<1>1. ASSUME PageInv, SavedInv, [Next]_vars
      PROVE  reloads' # reloads /\ Quiet =>
               \A request \in sent' : Same(request.query, shown.query)
  <2>1. reloads' # reloads => Reload
    BY <1>1 DEF Next, EditFilter, Type, Choose, AddFilter, CloseFilter, Blur, NextPage,
         PreviousPage, GoTo, Link, Answer, Lose, vars
  <2> QED
    BY <1>1, <2>1, ReloadAsks
<1> QED
  BY <1>1, Invariant, SavedAlways, PTL DEF Spec, ReloadAsksTheSame
================================================================================

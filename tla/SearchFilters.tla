--------------------------- MODULE SearchFilters ---------------------------
(***************************************************************************)
(* The filters that a user may add to a listing                            *)
(* (web/resources/js/datatables-advanced-search.js): what each kind sends   *)
(* to the server, saves, and loads again.                                  *)
(*                                                                         *)
(* The elements of a filter are a sequence of values: the text of a text   *)
(* filter, what is checked or selected in the others, what is selected and *)
(* then what is checked in a "select-radio".  A value that JavaScript has  *)
(* not in an array is marked as such.                                      *)
(***************************************************************************)
EXTENDS Naturals, Sequences

CONSTANT None \* undefined, and the null that it becomes when it is saved

Kinds == {"text", "radio", "checkbox", "select", "select-radio", "checkbox-select"}

Array(vals) == [array |-> TRUE, vals |-> vals]
Scalar(v) == [array |-> FALSE, vals |-> <<v>>]

\* A filter as the page is given it; "options" are in the order of the page,
\* "checked" is what it selects or checks at first.
IsFilter(filter) ==
  /\ filter.kind \in Kinds
  /\ filter.options \in Seq(STRING)
  /\ filter.checked \in Seq(STRING)
  /\ filter.unset \in Seq(STRING)
  /\ filter.hasDefault \in BOOLEAN

First(vals) == IF vals = <<>> THEN None ELSE vals[1]
Among(options, vals) ==
  SelectSeq(options, LAMBDA o : \E i \in 1..Len(vals) : vals[i] = o)

\* What the page checks, and nothing when it checks nothing: the first input is
\* looked for where the labels are.
Initial(filter) == IF filter.kind = "text" THEN <<"">> ELSE filter.checked

\* What val and save of each kind make of its elements.
CheckedVal(elements) == Array(elements)
RadioVal(elements) == Array(<<First(elements)>>)
SelectVal(elements) == IF elements = <<>> THEN Array(<<>>) ELSE Scalar(elements[1])
SelectRadioVal(elements) == Array(IF elements = <<"", "None">> THEN <<>> ELSE elements)

\* The checkbox is taken out of the page by its label, and stays checked.
CheckboxSelectVal(elements) == Array(IF elements = <<>> THEN <<"name">> ELSE elements)

Val(filter, elements) ==
  CASE filter.kind \in {"text", "checkbox"} -> CheckedVal(elements)
    [] filter.kind = "radio" -> RadioVal(elements)
    [] filter.kind = "select" -> SelectVal(elements)
    [] filter.kind = "select-radio" -> SelectRadioVal(elements)
    [] filter.kind = "checkbox-select" -> CheckboxSelectVal(elements)

\* load of each kind: what it makes of the elements.
RadioLoad(filter, vals) == Among(filter.options, <<First(vals)>>)
CheckboxLoad(filter, vals) == Among(filter.options, vals)
SelectRadioLoad(elements, vals) == IF vals = <<>> THEN elements ELSE <<vals[1], "None">>
CheckboxSelectLoad(filter, elements, vals) ==
  IF vals = <<>> THEN elements ELSE Among(filter.options, <<vals[1]>>)

Load(filter, elements, vals) ==
  CASE filter.kind = "text" -> <<vals[1]>>
    [] filter.kind \in {"radio", "select"} -> RadioLoad(filter, vals)
    [] filter.kind = "checkbox" -> CheckboxLoad(filter, vals)
    [] filter.kind = "select-radio" -> SelectRadioLoad(elements, vals)
    [] filter.kind = "checkbox-select" -> CheckboxSelectLoad(filter, elements, vals)

HasValueSet(filter, elements) ==
  LET val == Val(filter, elements)
  IN ~val.array \/ val.vals # filter.unset

\* What is left of a value when what restricts nothing is not counted, the unset
\* value and empty ones, nor the radio of a select-radio, which load forgets.
Asks(filter, val) ==
  LET kept == IF filter.kind = "select-radio" /\ val.vals # <<>>
              THEN <<val.vals[1]>> ELSE val.vals
  IN IF val.vals = filter.unset THEN <<>>
     ELSE SelectSeq(kept, LAMBDA v : v \notin {"", None})
=============================================================================

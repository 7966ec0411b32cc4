--------------------------- MODULE MCSearchTable ---------------------------
(***************************************************************************)
(* Pages with two filters, which have among them every kind, with and      *)
(* without a default.  Two rows are found, in two pages, or one when       *)
(* anything restricts them.                                                *)
(***************************************************************************)
EXTENDS SearchTable

Filter(kind, options, checked, unset) ==
  [kind |-> kind, options |-> options, checked |-> checked, unset |-> unset,
   hasDefault |-> FALSE, default |-> <<>>]
WithDefault(filter, vals) == [filter EXCEPT !.hasDefault = TRUE, !.default = vals]

Text == Filter("text", <<>>, <<"">>, <<"">>)
Radio == Filter("radio", <<"all", "mine">>, <<>>, <<"all">>)
Checkbox == Filter("checkbox", <<"new">>, <<>>, <<>>)
Select == Filter("select", <<"x">>, <<>>, <<>>)
SelectRadio == Filter("select-radio", <<"x">>, <<"", "None">>, <<>>)
CheckboxSelect == Filter("checkbox-select", <<"x">>, <<>>, <<>>)

Page(f, g) == [n \in {"f", "g"} |-> IF n = "f" THEN f ELSE g]

MCNames == {"f", "g"}
MCForms == {Page(Text, WithDefault(Checkbox, <<"new">>)),
            Page(Text, Select),
            Page(Radio, WithDefault(Text, <<"a">>)),
            Page(SelectRadio, CheckboxSelect)}
\* Every filter of these pages asks for the same after it was saved and loaded.
ASSUME PagesAreReloadable == \A page \in Forms : \A f \in Names : IsReloadable(page[f])

MCResults(asked) == IF asked = {} THEN 2 ELSE 1
=============================================================================

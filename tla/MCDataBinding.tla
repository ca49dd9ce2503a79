---------------------------- MODULE MCDataBinding ----------------------------
(* Instances of DataBinding for TLC. *)
EXTENDS DataBinding

TwoItems  == <<"i0", "i1">>
TwoCells  == <<"/items/0", "/items/1">>
TitleToo  == {"/title"}
ArrayToo  == {"/items"}
BothToo   == {"/items", "/title"}
NoItems   == <<>>
=============================================================================

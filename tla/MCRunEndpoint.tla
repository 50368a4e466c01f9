--------------------------- MODULE MCRunEndpoint ---------------------------
(***************************************************************************)
(* A small instance of RunEndpoint: two models whose columns differ only   *)
(* in their order, a third that wants a column nobody supplies.            *)
(***************************************************************************)
EXTENDS RunEndpoint

ModelColumns == [original |-> "abc", reordered |-> "acb", widened |-> "abcd"]
ModelNames == DOMAIN ModelColumns
SuppliedOrders == {"abc", "acb"}
=============================================================================

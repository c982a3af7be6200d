--------------------------- MODULE MCTableSystem ---------------------------
(***************************************************************************)
(* A small instance of TableSystem: two clients, and changes that meet in  *)
(* one row, whoever makes them.                                            *)
(***************************************************************************)
EXTENDS TableSystem

CONSTANTS r1, r2

TwoRows == {r1, r2}

(* Clients insert a row, select, and clear the table; ... *)
AskedChanges ==
  {[op |-> "insert", row |-> r1], [op |-> "select", selection |-> "rows"],
   [op |-> "clear"]}

(* ... the application inserts too, changes and removes the first row, and *)
(* selects nothing.                                                        *)
MadeChanges ==
  {[op |-> "insert", row |-> r1], [op |-> "update", key |-> 0, row |-> r2],
   [op |-> "remove", key |-> 0], [op |-> "select", selection |-> "empty"]}
=============================================================================

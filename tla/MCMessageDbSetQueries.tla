----------------------- MODULE MCMessageDbSetQueries -----------------------
(***************************************************************************)
(* MessageDbSetQueries with years of four days and two recent days around  *)
(* a turn of the year: one message that is sent and two that are received, *)
(* two of them exchanged with the same box, the other without an address.  *)
(***************************************************************************)
EXTENDS MessageDbSetQueries

MCMessages ==
  {[id |-> 1, type |-> "received", box |-> "a", address |-> TRUE],
   [id |-> 2, type |-> "sent", box |-> "a", address |-> TRUE],
   [id |-> 3, type |-> "received", box |-> "b", address |-> FALSE]}
MCDays == {5, 7, 8}
MCTodays == {7, 8}
MCLags == {0, 1}
MCNoDay == -1
=============================================================================

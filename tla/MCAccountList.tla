--------------------------- MODULE MCAccountList ---------------------------
(* An instance of AccountList for TLC. *)
EXTENDS AccountList

MCYears == 1 .. 2
MCSlots ==
  {Slot("a", "received", 1), Slot("a", "received", 2), Slot("a", "received", 0),
   Slot("b", "sent", 2)}

\* One message of the older year, or accounts that are still to be created.
Holding(slots, held) ==
  [s \in slots |-> IF s \notin held THEN "none"
                   ELSE IF s.type = "received" THEN "unread" ELSE "read"]
Old == {Slot("a", "received", 1)}
MCStarting ==
  {[accounts |-> <<"a", "b">>, stored |-> Holding(MCSlots, Old)],
   [accounts |-> <<>>,
    stored |-> Holding(MCSlots, Old \cup {Slot("b", "sent", 2)})]}
=============================================================================

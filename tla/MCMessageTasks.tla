--------------------------- MODULE MCMessageTasks ---------------------------
(* Instances of MessageTasks for TLC. *)
EXTENDS MessageTasks

MCItems == Tasks

\* One file per year with downloads by the lists, one file without.
Sound == {x \in [byYears : BOOLEAN, whole : BOOLEAN, poison : {None}] :
            x.byYears = x.whole}
Poisoned == [byYears : {FALSE}, whole : {FALSE}, poison : {"received"}]
=============================================================================

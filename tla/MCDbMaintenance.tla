-------------------------- MODULE MCDbMaintenance --------------------------
(* Instances of DbMaintenance with two directories, two years and a message *)
(* more than there are years.                                               *)
EXTENDS DbMaintenance, TLC

CONSTANTS home, other, y1, y2, m1, m2, m3

MCYearOf == m1 :> y1 @@ m2 :> y2 @@ m3 :> y2
MCSymmetry == Permutations({home, other})
=============================================================================

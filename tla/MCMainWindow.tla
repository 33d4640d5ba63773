---------------------------- MODULE MCMainWindow ----------------------------
(* Instances of MainWindow for TLC. *)
EXTENDS MainWindow

MCRecipients == <<{"a"}, {"b", "c"}>>
MCItems == {"list", "download", "info", "ping"} \cup Files \cup {"a", "b", "c"}
=============================================================================

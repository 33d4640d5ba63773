----------------------------- MODULE MessageDb -----------------------------
(***************************************************************************)
(* One database file of messages: the tables of db_tables.cpp and the      *)
(* functions of class MessageDb that change them.                          *)
(*                                                                         *)
(* A content gives for every table the value stored for each message, or   *)
(* NoRow.  A function of the class is the sequence of its SQL statements;  *)
(* it returns false at the first that fails and executes no later one, and *)
(* outside a transaction the earlier ones stay.  Columns no property reads *)
(* are left out, and with them the statements that only change those: the  *)
(* type of a message, its verification, its author.  Certificates are      *)
(* shared by messages and left out.                                        *)
(***************************************************************************)
EXTENDS Naturals, Sequences

CONSTANTS
  Messages,  \* identifiers of messages
  NoRow

Tables == {"messages", "supplementary", "process_state", "raw", "files",
           "hashes", "events", "delivery"}

\* MS_POSTED, MS_DELIVERED, MS_READ; then the read mark and the process state.
Statuses == {"posted", "delivered", "read"}
Values == Statuses \cup {"unseen", "seen", "unsettled", "data"}

ASSUME NoRowAssumption == NoRow \notin Values

Contents == [Tables -> [Messages -> Values \cup {NoRow}]]
Empty == [t \in Tables |-> [m \in Messages |-> NoRow]]

-----------------------------------------------------------------------------
(* Statements. *)

Statements == [verb : {"INSERT", "REPLACE", "UPDATE", "DELETE"},
               table : Tables, msg : Messages, value : Values \cup {NoRow}]

Insert(t, m, v) == [verb |-> "INSERT", table |-> t, msg |-> m, value |-> v]
Replace(t, m, v) == [verb |-> "REPLACE", table |-> t, msg |-> m, value |-> v]
Update(t, m, v) == [verb |-> "UPDATE", table |-> t, msg |-> m, value |-> v]
Delete(t, m) == [verb |-> "DELETE", table |-> t, msg |-> m, value |-> NoRow]

\* A primary key is violated.
Conflict(c, s) == s.verb = "INSERT" /\ c[s.table][s.msg] # NoRow

Effect(c, s) ==
  IF s.verb = "UPDATE" /\ c[s.table][s.msg] = NoRow THEN c
  ELSE [c EXCEPT ![s.table][s.msg] = s.value]

-----------------------------------------------------------------------------
(* The functions of the class. *)

\* Received messages start unseen, sent ones are seen.
insertMessageEnvelope(m, status, seen) ==
  <<Insert("messages", m, status),
    Insert("supplementary", m, seen),
    Replace("process_state", m, "unsettled")>>

\* MUTANT of updateMessageEnvelope: the supplementary data are written anew
\* together with the envelope.
updateMessageEnvelopeAnew(m, status) ==
  <<Update("messages", m, status), Update("supplementary", m, "unseen")>>

\* MUTANT of updateMessageEnvelope: INSERT OR REPLACE instead of UPDATE.
updateMessageEnvelopeReplace(m, status) == <<Replace("messages", m, status)>>

updateMessageEnvelope(m, status) == <<Update("messages", m, status)>>

msgsUpdateMessageState(m, status) == <<Update("messages", m, status)>>

insertOrUpdateMessageAttachment(m) == <<Replace("files", m, "data")>>

deleteMessageAttachments(m) == <<Delete("files", m)>>

insertOrUpdateMessageHash(m) == <<Replace("hashes", m, "data")>>

insertOrUpdateMessageEvent(m) == <<Replace("events", m, "data")>>

insertOrReplaceCompleteMessageRaw(m) == <<Replace("raw", m, "data")>>

insertOrReplaceDeliveryInfoRaw(m) == <<Replace("delivery", m, "data")>>

setMessageLocallyRead(m) == <<Update("supplementary", m, "seen")>>

\* MUTANT of msgsDeleteMessageData: the function stops before the envelope.
msgsDeleteMessageDataOnly(m) ==
  <<Delete("hashes", m), Delete("files", m), Delete("events", m),
    Delete("raw", m), Delete("delivery", m)>>

msgsDeleteMessageData(m) ==
  <<Delete("hashes", m), Delete("files", m), Delete("events", m),
    Delete("raw", m), Delete("delivery", m), Delete("supplementary", m),
    Delete("process_state", m), Delete("messages", m)>>

\* MS_NULL when there is no row.
getMessageStatus(c, m) == c["messages"][m]

isCompleteMessageInDb(c, m) == c["raw"][m] # NoRow

\* What the window lists: messages joined with their supplementary data.
Shown(c, m) == c["messages"][m] # NoRow /\ c["supplementary"][m] # NoRow

=============================================================================

--------------------------- MODULE DlgSendMessage ---------------------------
(***************************************************************************)
(* The dialogues that send messages.  Several may be open, none of them is *)
(* modal.  One press of the button makes a task for each recipient; a      *)
(* transaction tells whose the reports of the worker are.  How the slots   *)
(* of a dialogue nest with those of the window is in MainWindow.           *)
(***************************************************************************)
EXTENDS PoolQueue, FiniteSets

CONSTANTS
  Recipients     \* of each dialogue, in the order they are opened: data boxes

ASSUME RecipientsAssumption ==
  /\ DOMAIN Recipients \subseteq Nat \ {0}
  /\ \A n, k \in DOMAIN Recipients : n # k => Recipients[n] \cap Recipients[k] = {}
  /\ IsFiniteSet(UNION {Recipients[n] : n \in DOMAIN Recipients})

Dialogs == DOMAIN Recipients

\* A dialogue makes new transactions when all of its own are reported: its
\* recipients stand for them.
Transactions == UNION {Recipients[n] : n \in Dialogs}

Results == {"SM_SUCCESS", "SM_ISDS_ERROR", "SM_DB_INS_ERR"}

VARIABLES
  form,      \* of each dialogue: where it is, whether its user is logged in, what
             \* its table of recipients, m_transactIds and m_sentMsgResultList hold
  result,    \* the result in the report of each transaction
  sent       \* history: messages the server has from each transaction; kept until
             \* the box that tells of it is closed

formVars == <<form, result, sent>>

Form == [at : {"unopened", "enabled", "disabled", "allSent", "someNot", "closed"},
         loggedIn : BOOLEAN,
         recipients : SUBSET Transactions,
         transactIds : SUBSET Transactions,
         results : 0 .. Cardinality(Transactions),
         successes : 0 .. Cardinality(Transactions)]

FormTypeOK ==
  /\ form \in [Dialogs -> Form]
  /\ result \in [Transactions -> Results \cup {None}]
  /\ sent \in [Transactions -> Nat]

NoForm(at) == [at |-> at, loggedIn |-> FALSE, recipients |-> {}, transactIds |-> {},
               results |-> 0, successes |-> 0]

FormInit ==
  /\ form = [n \in Dialogs |-> NoForm("unopened")]
  /\ result = [t \in Transactions |-> None]
  /\ sent = [t \in Transactions |-> 0]

\* setAccountInfo(): another account has another set of recipients.
AccountSet(n, loggedIn) ==
  /\ form' = [form EXCEPT ![n].at = "enabled", ![n].loggedIn = loggedIn,
                          ![n].recipients = {}]
  /\ UNCHANGED <<result, sent>>

\* addRecipientBox() and deleteRecipientEntries()
RecipientsSet(n, recipients) ==
  /\ recipients \subseteq Recipients[n]
  /\ form' = [form EXCEPT ![n].recipients = recipients]
  /\ UNCHANGED <<result, sent>>

\* checkInputFields() of a form whose other fields are filled in.
SendEnabled(n) == form[n].at = "enabled" /\ form[n].loggedIn /\ form[n].recipients # {}

\* sendMessageISDS() up to the first task: identifiers are complete before it.
Pressed(n) ==
  /\ form' = [form EXCEPT ![n].at = "disabled",
                          ![n].transactIds = form[n].recipients,
                          ![n].results = 0, ![n].successes = 0]
  /\ UNCHANGED <<result, sent>>

\* TaskSendMessage::sendMessage(): what the server accepts may still fail to be
\* stored in the database.
Sent(t, r) ==
  /\ result' = [result EXCEPT ![t] = r]
  /\ sent' = IF r = "SM_ISDS_ERROR" THEN sent ELSE [sent EXCEPT ![t] = @ + 1]
  /\ UNCHANGED form

\* MUTANT of collected: a dialogue counts whatever is reported.
collectedAny(f, t) ==
  LET successes == f.successes + (IF result[t] = "SM_SUCCESS" THEN 1 ELSE 0)
      left == f.transactIds \ {t}
  IN  IF f.at # "disabled" THEN f
      ELSE [f EXCEPT !.transactIds = left,
                     !.results = @ + 1,
                     !.successes = successes,
                     !.at = IF left # {} THEN "disabled"
                            ELSE IF Cardinality(f.recipients) = successes THEN "allSent"
                            ELSE "someNot"]

\* collectSendMessageStatus() of a dialogue, up to the box with the results.
collected(f, t) ==
  LET successes == f.successes + (IF result[t] = "SM_SUCCESS" THEN 1 ELSE 0)
      left == f.transactIds \ {t}
  IN  IF t \notin f.transactIds THEN f
      ELSE [f EXCEPT !.transactIds = left,
                     !.results = @ + 1,
                     !.successes = successes,
                     !.at = IF left # {} THEN "disabled"
                            ELSE IF Cardinality(f.recipients) = successes THEN "allSent"
                            ELSE "someNot"]

Forgotten(ts) ==
  /\ result' = [t \in Transactions |-> IF t \in ts THEN None ELSE result[t]]
  /\ sent' = [t \in Transactions |-> IF t \in ts THEN 0 ELSE sent[t]]

\* The signal reaches every dialogue; what no dialogue waits for is nobody's.
Collect(t) ==
  /\ form' = [n \in Dialogs |-> collected(form[n], t)]
  /\ Forgotten({t} \ UNION {form[n].transactIds : n \in Dialogs})

\* The dialogues that the report completes: each shows a box.
Completed == {n \in Dialogs : form[n].at = "disabled" /\ form'[n].at \in {"allSent", "someNot"}}

\* The box is closed: accept(), close() or back to the form with all recipients.
Answered(n, at) ==
  /\ at = "closed" \/ form[n].at = "someNot"
  /\ form' = [form EXCEPT ![n] = IF at = "closed" THEN NoForm(at)
                                ELSE [@ EXCEPT !.at = at, !.results = 0, !.successes = 0]]
  /\ Forgotten(form[n].recipients)

\* The dialogue is deleted, and with it what it expects.  The user may close a
\* disabled dialogue by its frame.
Closed(n) ==
  /\ form[n].at \in {"enabled", "disabled"}
  /\ form' = [form EXCEPT ![n] = NoForm("closed")]
  /\ Forgotten({t \in form[n].recipients : t \notin form[n].transactIds})

-----------------------------------------------------------------------------
(* Properties. *)

\* What a box says of the reports is true: it tells of every recipient, of each
\* once; that all were sent is said when the server has one message for each, that
\* some were not when a report said so, and of nobody does the server have two from
\* one press of the button.
BoxTrue ==
  /\ \A t \in Transactions : sent[t] <= 1
  /\ \A n \in Dialogs :
       /\ form[n].at \in {"allSent", "someNot"} =>
            form[n].results = Cardinality(form[n].recipients)
       /\ form[n].at = "allSent" => \A r \in form[n].recipients : sent[r] = 1
       /\ form[n].at = "someNot" => \E r \in form[n].recipients : result[r] # "SM_SUCCESS"

\* gui/dlg_send_message.cpp, line 506, "Message was NOT sent to": the server has no
\* message of a recipient of whom this is said.
NotSentIsNot ==
  \A n \in Dialogs : form[n].at = "someNot" =>
    \A r \in form[n].recipients : result[r] # "SM_SUCCESS" => sent[r] = 0

=============================================================================

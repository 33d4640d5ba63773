--------------------------- MODULE IsdsLoginProofs ---------------------------
(***************************************************************************)
(* Why the log-in loops neither send a Premium SMS nobody agreed to nor    *)
(* repeat a request by themselves, whatever the server answers and however *)
(* the account is edited in between.                                       *)
(*                                                                         *)
(* The one-time code stands for two things in the code: empty, it says     *)
(* that the user agreed to the SMS; with characters, it is what is         *)
(* submitted.  The invariant ties each of them to the dialogue it came     *)
(* from.                                                                   *)
(***************************************************************************)
EXTENDS IsdsLogin, TLAPS

\* Whoever calls logIn() has the user's word, or has not sent anything yet.
CallsAreMeant ==
  at = "logIn" =>
    /\ asked
    /\ account.otp = "text" => entered
    /\ account.otp = "empty" => acked

\* An empty code is an agreement to the SMS and nothing else: it is there between
\* the dialogue and the call of logIn() that requests the SMS, so that HOTP, or
\* TOTP in another state, never submits it.
EmptyIsAgreement ==
  account.otp = "empty" =>
    /\ ~cli
    /\ at = "logIn" => account.method = "UNAME_PWD_TOTP" /\ totpState = "AWAIT_USR_ACK"

\* A dialogue is shown by the loop of the GUI, which has erased the code before.
DialoguesErased ==
  /\ at \in Dialogues => ~cli /\ account.otp = "null"
  /\ at = "NEED_TOTP_ACK" =>
       account.method = "UNAME_PWD_TOTP" /\ totpState = "AWAIT_USR_ACK"

LoginInv == TypeOK /\ CallsAreMeant /\ EmptyIsAgreement /\ DialoguesErased

-----------------------------------------------------------------------------

\* What any method of logIn() may yield: a request follows the checks of what it
\* needs, a code that can be answered from the command line comes without a
\* request, and the acknowledgement is asked for where it is awaited.
LEMMA Outcomes ==
  ASSUME TypeOK, NEW o \in logIn
  PROVE  /\ o.request \in {"none", "login", "otp", "sms"}
         /\ o.totpState \in {"START", "AWAIT_USR_ACK", "AWAIT_TOTP"}
         /\ o.request = "sms" =>
              /\ account.method = "UNAME_PWD_TOTP" /\ totpState = "AWAIT_USR_ACK"
              /\ account.otp = "empty"
         /\ o.request = "otp" =>
              /\ account.otp # "null"
              /\ ~(account.method = "UNAME_PWD_TOTP" /\ totpState = "AWAIT_USR_ACK")
         /\ o.request # "none" =>
              o.code \in {"OK", "NOT_LOGGED_IN", "PARTIAL_SUCCESS",
                          "PARTIAL_SUCCESS_AGAIN", "ISDS_ERR"}
         /\ o.code = "NEED_TOTP_ACK" =>
              account.method = "UNAME_PWD_TOTP" /\ o.totpState = "AWAIT_USR_ACK"
         /\ o.code \in {"OK", "ISDS_ERR"} \cup Dialogues
<1> DEFINE Yields(x) ==
      /\ x.request \in {"none", "login", "otp", "sms"}
      /\ x.totpState \in {"START", "AWAIT_USR_ACK", "AWAIT_TOTP"}
      /\ x.request = "sms" =>
           /\ account.method = "UNAME_PWD_TOTP" /\ totpState = "AWAIT_USR_ACK"
           /\ account.otp = "empty"
      /\ x.request = "otp" =>
           /\ account.otp # "null"
           /\ ~(account.method = "UNAME_PWD_TOTP" /\ totpState = "AWAIT_USR_ACK")
      /\ x.request # "none" =>
           x.code \in {"OK", "NOT_LOGGED_IN", "PARTIAL_SUCCESS",
                       "PARTIAL_SUCCESS_AGAIN", "ISDS_ERR"}
      /\ x.code = "NEED_TOTP_ACK" =>
           account.method = "UNAME_PWD_TOTP" /\ x.totpState = "AWAIT_USR_ACK"
      /\ x.code \in {"OK", "ISDS_ERR"} \cup Dialogues
<1> USE DEF Dialogues
<1>1. \A code \in {"OK", "NO_PWD", "NO_CRT", "NO_CRT_AGAIN", "NO_CRT_PWD",
                   "NO_CRT_PPHR", "NO_OTP", "PARTIAL_SUCCESS"} : Yields(Local(code))
  BY DEF TypeOK, Local, Outcome
<1>2. \A ans \in Answers :
        ErrorCode(ans) \in {"OK", "NOT_LOGGED_IN", "PARTIAL_SUCCESS", "ISDS_ERR"}
  BY DEF Answers, ErrorCode
<1>3. \A x \in Asking("login") : Yields(x)
  BY <1>2 DEF TypeOK, Asking, Outcome
<1>4. CASE o = Local("OK")
  BY <1>1, <1>4
<1>5. CASE account.method = "UNAME_PWD" /\ o \in userNamePwd
  BY <1>1, <1>3, <1>5 DEF userNamePwd
<1>6. ASSUME o \in WithCertificate
      PROVE  Yields(o)
  BY <1>1, <1>3, <1>6 DEF WithCertificate
<1>7. CASE account.method = "UNAME_CRT" /\ o \in certOnly
  BY <1>1, <1>6, <1>7 DEF certOnly
<1>8. CASE account.method = "UNAME_PWD_CRT" /\ o \in certUsrPwd
  BY <1>1, <1>6, <1>8 DEF certUsrPwd
<1>9. CASE account.method = "UNAME_PWD_HOTP" /\ o \in hotp
  <2>1. ASSUME account.otp # "null", o \in Asking("otp")
        PROVE  Yields(o)
    BY <1>2, <1>9, <2>1 DEF TypeOK, Asking, Outcome
  <2> QED
    BY <1>1, <1>9, <2>1 DEF hotp
<1>10. CASE account.method = "UNAME_PWD_TOTP" /\ o \in totp
  <2>1. CASE account.pwd = "empty"
    BY <1>1, <1>10, <2>1 DEF totp
  <2>2. CASE account.pwd # "empty" /\ totpState = "START"
    <3>1. o = Outcome("NEED_TOTP_ACK", "none", "AWAIT_USR_ACK")
      BY <1>10, <2>2 DEF totp
    <3> QED
      BY <1>10, <3>1 DEF Outcome
  <2>3. CASE account.pwd # "empty" /\ totpState = "AWAIT_USR_ACK"
    <3>1. CASE account.otp # "empty"
      <4>1. o = Local("NEED_TOTP_ACK")
        BY <1>10, <2>3, <3>1 DEF totp
      <4> QED
        BY <1>10, <2>3, <4>1 DEF Local, Outcome
    <3>2. CASE account.otp = "empty"
      <4>1. o \in totpRequestSMS
        BY <1>10, <2>3, <3>2 DEF totp
      <4> QED
        BY <1>2, <1>10, <2>3, <3>2, <4>1 DEF totpRequestSMS, Outcome
    <3> QED
      BY <3>1, <3>2
  <2>4. CASE account.pwd # "empty" /\ totpState = "AWAIT_TOTP"
    <3>1. CASE account.otp = "null"
      BY <1>1, <1>10, <2>4, <3>1 DEF totp
    <3>2. CASE account.otp # "null"
      <4>1. o \in totpLogIn
        BY <1>10, <2>4, <3>2 DEF totp
      <4> QED
        BY <1>2, <2>4, <3>2, <4>1 DEF totpLogIn, Outcome
    <3> QED
      BY <3>1, <3>2
  <2> QED
    BY <2>1, <2>2, <2>3, <2>4 DEF TypeOK
<1> QED
  BY <1>4, <1>5, <1>7, <1>8, <1>9, <1>10 DEF logIn, TypeOK, Accounts, Methods

-----------------------------------------------------------------------------

LEMMA InitInv == Init => LoginInv
<1> SUFFICES ASSUME Init PROVE LoginInv
  OBVIOUS
<1>1. args \in Arguments
  BY DEF Init, Arguments, NoArguments
<1>2. account \in Accounts /\ account.otp = "null"
  BY DEF Init
<1>3. TypeOK
  BY <1>1, <1>2 DEF Init, TypeOK
<1> QED
  BY <1>2, <1>3
     DEF Init, LoginInv, CallsAreMeant, EmptyIsAgreement, DialoguesErased, Dialogues

\* Changing one entry of the settings leaves the others.
LEMMA EntrySet ==
  ASSUME NEW a \in Accounts
  PROVE  /\ \A x \in {"null", "empty", "text"} :
              LET b == [a EXCEPT !.otp = x] IN
              b \in Accounts /\ b.otp = x /\ b.method = a.method
         /\ \A x \in {"null", "set"} :
              LET b == [a EXCEPT !.passphrase = x] IN
              b \in Accounts /\ b.otp = a.otp /\ b.method = a.method
         /\ \A x \in {"empty", "text"} :
              LET b == [a EXCEPT !.pwd = x] IN
              b \in Accounts /\ b.otp = a.otp /\ b.method = a.method
BY DEF Accounts

\* A turn of the GUI's loop ends with a dialogue and the code erased, or leaves.
LEMMA LogInGUIInv == LoginInv /\ LogInGUI => LoginInv'
<1> SUFFICES ASSUME LoginInv, LogInGUI PROVE LoginInv'
  OBVIOUS
<1> USE DEF LoginInv
<1>1. PICK o \in logIn : /\ Record(o)
                         /\ entered' = (entered /\ o.request # "otp")
                         /\ at' = Shown(o.code)
                         /\ account' = Erased(o.code)
  BY DEF LogInGUI
<1>2. ~cli /\ ~cli'
  BY <1>1 DEF LogInGUI, Record
<1>3. account' \in Accounts /\ account'.otp = "null" /\ account'.method = account.method
  BY <1>1 DEF Erased, TypeOK, Accounts
<1>4. at' \in Dialogues \cup {"in", "out"}
  BY <1>1 DEF Shown
<1>5. TypeOK'
  BY <1>1, <1>2, <1>3, <1>4, Outcomes DEF TypeOK, Record
<1>6. at' # "logIn"
  BY <1>4 DEF Dialogues
<1>7. at' = "NEED_TOTP_ACK" =>
        account'.method = "UNAME_PWD_TOTP" /\ totpState' = "AWAIT_USR_ACK"
  BY <1>1, <1>3, Outcomes DEF Record, Shown
<1> QED
  BY <1>2, <1>3, <1>5, <1>6, <1>7 DEF CallsAreMeant, EmptyIsAgreement, DialoguesErased

\* The command line supplies a code only after logIn() has sent nothing.
LEMMA LogInCLIInv == LoginInv /\ LogInCLI => LoginInv'
<1> SUFFICES ASSUME LoginInv, LogInCLI PROVE LoginInv'
  OBVIOUS
<1> USE DEF LoginInv
<1>1. PICK o \in logIn :
        /\ Record(o)
        /\ entered' = ((entered /\ o.request # "otp")
                         \/ (o.code = "NO_OTP" /\ Supplied(o.code) # {}))
        /\ \/ at' \in {"in", "out"} /\ account' = account
           \/ at' = "logIn" /\ account' \in Supplied(o.code)
  BY DEF LogInCLI
<1>2. cli /\ cli' /\ at = "logIn"
  BY <1>1 DEF LogInCLI, Record
<1>3. \A a \in Supplied(o.code) :
        /\ a \in Accounts
        /\ o.code \in {"NO_PWD", "NO_CRT_PWD", "NO_CRT_PPHR", "NO_OTP"}
        /\ a.otp = account.otp \/ (a.otp = "text" /\ o.code = "NO_OTP")
  <2> SUFFICES ASSUME NEW a \in Supplied(o.code)
               PROVE  /\ a \in Accounts
                      /\ o.code \in {"NO_PWD", "NO_CRT_PWD", "NO_CRT_PPHR", "NO_OTP"}
                      /\ a.otp = account.otp \/ (a.otp = "text" /\ o.code = "NO_OTP")
    OBVIOUS
  <2>1. args.pwd \in {"empty", "text"} /\ account \in Accounts
    BY DEF TypeOK, Arguments
  <2>2. \/ /\ o.code \in {"NO_PWD", "NO_CRT_PWD"}
           /\ a = account \/ a = [account EXCEPT !.pwd = args.pwd]
        \/ o.code = "NO_CRT_PPHR" /\ a = [account EXCEPT !.passphrase = "set"]
        \/ o.code = "NO_OTP" /\ a = [account EXCEPT !.otp = "text"]
    BY DEF Supplied
  <2>3. \A x \in {"empty", "text"} :
          LET b == [account EXCEPT !.pwd = x] IN b \in Accounts /\ b.otp = account.otp
    BY <2>1, EntrySet
  <2>4. /\ [account EXCEPT !.passphrase = "set"] \in Accounts
        /\ [account EXCEPT !.passphrase = "set"].otp = account.otp
        /\ [account EXCEPT !.otp = "text"] \in Accounts
        /\ [account EXCEPT !.otp = "text"].otp = "text"
    BY <2>1, EntrySet
  <2>5. CASE o.code \in {"NO_PWD", "NO_CRT_PWD"}
                /\ a \in {account, [account EXCEPT !.pwd = args.pwd]}
    BY <2>1, <2>3, <2>5
  <2>6. CASE o.code = "NO_CRT_PPHR" /\ a = [account EXCEPT !.passphrase = "set"]
    BY <2>4, <2>6
  <2>7. CASE o.code = "NO_OTP" /\ a = [account EXCEPT !.otp = "text"]
    BY <2>4, <2>7
  <2> QED
    BY <2>2, <2>5, <2>6, <2>7
<1>4. TypeOK'
  BY <1>1, <1>2, <1>3, Outcomes DEF TypeOK, Record
<1>5. CASE at' \in {"in", "out"} /\ account' = account
  BY <1>2, <1>4, <1>5
     DEF CallsAreMeant, EmptyIsAgreement, DialoguesErased, Dialogues
<1>6. CASE at' = "logIn" /\ account' \in Supplied(o.code)
  <2>1. o.request = "none"
    BY <1>3, <1>6, Outcomes
  <2>2. asked' /\ (entered => entered')
    BY <1>1, <1>2, <2>1 DEF Record, CallsAreMeant
  <2>3. account.otp # "empty"
    BY <1>2 DEF EmptyIsAgreement
  <2>4. account'.otp # "empty" /\ (account'.otp = "text" => entered')
    BY <1>1, <1>2, <1>3, <1>6, <2>2, <2>3 DEF CallsAreMeant
  <2> QED
    BY <1>4, <1>6, <2>2, <2>4
       DEF CallsAreMeant, EmptyIsAgreement, DialoguesErased, Dialogues
<1> QED
  BY <1>1, <1>5, <1>6

\* A dialogue hands back settings without a code, except where it has asked for
\* the code or for the agreement to the SMS.
LEMMA AskInv == LoginInv /\ Ask => LoginInv'
<1> SUFFICES ASSUME LoginInv, Ask PROVE LoginInv'
  OBVIOUS
<1> USE DEF LoginInv
<1>1. ASSUME NEW code \in Dialogues, NEW a \in Accounts, Accept(code, a),
             acked' \in BOOLEAN, entered' \in BOOLEAN,
             a.otp = "text" => entered',
             a.otp = "empty" =>
               /\ acked'
               /\ a.method = "UNAME_PWD_TOTP" /\ totpState = "AWAIT_USR_ACK"
      PROVE  LoginInv'
  <2>1. ~cli /\ at' = "logIn"
    BY <1>1 DEF Accept, DialoguesErased
  <2> QED
    BY <1>1, <2>1
       DEF Accept, TypeOK, CallsAreMeant, EmptyIsAgreement, DialoguesErased, Dialogues
<1>2. ASSUME NEW code \in Dialogues, NEW action, NEW a \in Edited(action),
             Accept(code, a), UNCHANGED <<acked, entered>>
      PROVE  LoginInv'
  <2>1. a \in Accounts /\ a.otp = "null"
    BY <1>2 DEF Edited, Accept, DialoguesErased
  <2> QED
    BY <1>1, <1>2, <2>1 DEF TypeOK
<1>3. account \in Accounts /\ acked \in BOOLEAN /\ entered \in BOOLEAN
  BY DEF TypeOK
<1>4. CASE AskPwd
  BY <1>2, <1>4 DEF AskPwd, Dialogues
<1>5. CASE AskCertificate
  BY <1>2, <1>5 DEF AskCertificate, Dialogues
<1>6. CASE AskPassphrase
  <2>1. "NO_CRT_PPHR" \in Dialogues
    BY DEF Dialogues
  <2>2. account.otp = "null"
    BY <1>6, <2>1 DEF AskPassphrase, Accept, DialoguesErased
  <2> QED
    BY <1>1, <1>3, <1>6, <2>1, <2>2, EntrySet DEF AskPassphrase
<1>7. CASE AskOtp
  <2>1. PICK code \in {"NO_OTP", "PARTIAL_SUCCESS", "PARTIAL_SUCCESS_AGAIN"} :
          Accept(code, [account EXCEPT !.otp = "text"])
    BY <1>7 DEF AskOtp
  <2>2. code \in Dialogues
    BY DEF Dialogues
  <2> QED
    BY <1>1, <1>3, <1>7, <2>1, <2>2, EntrySet DEF AskOtp
<1>8. CASE AskSms
  <2>1. /\ "NEED_TOTP_ACK" \in Dialogues
        /\ account.method = "UNAME_PWD_TOTP" /\ totpState = "AWAIT_USR_ACK"
    BY <1>8 DEF AskSms, Accept, DialoguesErased, Dialogues
  <2> DEFINE agreed == [account EXCEPT !.otp = "empty"]
  <2>2. agreed \in Accounts /\ agreed.otp = "empty" /\ agreed.method = account.method
    BY <1>3, EntrySet
  <2>3. Accept("NEED_TOTP_ACK", agreed) /\ acked' = TRUE /\ entered' = entered
    BY <1>8 DEF AskSms
  <2> HIDE DEF agreed
  <2> QED
    BY <1>1, <1>3, <2>1, <2>2, <2>3
<1>9. CASE AskAccount
  BY <1>2, <1>9 DEF AskAccount, Dialogues
<1> QED
  BY <1>4, <1>5, <1>6, <1>7, <1>8, <1>9 DEF Ask

LEMMA CancelInv == LoginInv /\ Cancel => LoginInv'
<1> SUFFICES ASSUME LoginInv, Cancel PROVE LoginInv'
  OBVIOUS
<1> USE DEF LoginInv
<1>1. account' \in Accounts /\ account'.otp = account.otp
  BY EntrySet DEF Cancel, TypeOK
<1> QED
  BY <1>1 DEF Cancel, TypeOK, CallsAreMeant, EmptyIsAgreement, DialoguesErased, Dialogues

LEMMA LoginKept == Spec => []LoginInv
<1>1. LoginInv /\ UNCHANGED vars => LoginInv'
  BY DEF LoginInv, TypeOK, CallsAreMeant, EmptyIsAgreement, DialoguesErased, vars
<1>2. LoginInv /\ [Next]_vars => LoginInv'
  BY <1>1, LogInGUIInv, LogInCLIInv, AskInv, CancelInv DEF Next
<1> QED
  BY <1>2, InitInv, PTL DEF Spec

-----------------------------------------------------------------------------

\* The context, the settings and the dialogues keep their types.
THEOREM TypeCorrect == Spec => []TypeOK
<1>1. LoginInv => TypeOK
  BY DEF LoginInv
<1> QED
  BY <1>1, LoginKept, PTL

\* A step that sends a request is a call of logIn() with that request.
LEMMA RequestSent ==
  ASSUME TypeOK, Next, at = "logIn"
  PROVE  \E o \in logIn : request' = o.request
<1>1. ~Ask /\ ~Cancel
  BY DEF Ask, AskPwd, AskCertificate, AskPassphrase, AskOtp, AskSms, AskAccount,
         Accept, Cancel, Dialogues
<1> QED
  BY <1>1 DEF Next, LogInGUI, LogInCLI, Record

\* No Premium SMS without the agreement (IsdsLogin::totp() takes an empty code
\* for it), through any refusals, cancelled dialogues and edited accounts.
THEOREM SmsMeant == Spec => SmsAcknowledged
<1>1. ASSUME LoginInv, [Next]_vars, LoginInv'
      PROVE  [Sends({"sms"}) => acked]_vars
  <2> SUFFICES ASSUME Next, Sends({"sms"}) PROVE acked
    BY <1>1 DEF Sends
  <2>1. TypeOK /\ at = "logIn" /\ request' = "sms"
    BY <1>1 DEF LoginInv, Sends
  <2>2. account.otp = "empty"
    BY <2>1, RequestSent, Outcomes
  <2> QED
    BY <1>1, <2>1, <2>2 DEF LoginInv, CallsAreMeant
<1> QED
  BY <1>1, LoginKept, PTL DEF Spec, SmsAcknowledged

\* No one-time code is submitted twice, and no request is repeated that nobody
\* asked for again, in the loop of the GUI and in the one of the command line.
THEOREM ResentByNobody == Spec => NothingResent
<1>1. ASSUME LoginInv, [Next]_vars, LoginInv'
      PROVE  /\ [Sends({"otp"}) => entered]_vars
             /\ [Sends({"login", "otp", "sms"}) => asked]_vars
  <2>1. ASSUME Next, Sends({"otp"}) PROVE entered
    <3>1. TypeOK /\ at = "logIn" /\ request' = "otp"
      BY <1>1, <2>1 DEF LoginInv, Sends
    <3>2. /\ account.otp # "null"
          /\ ~(account.method = "UNAME_PWD_TOTP" /\ totpState = "AWAIT_USR_ACK")
      BY <2>1, <3>1, RequestSent, Outcomes
    <3>3. account.otp = "text"
      BY <1>1, <3>1, <3>2 DEF LoginInv, EmptyIsAgreement, TypeOK, Accounts
    <3> QED
      BY <1>1, <3>1, <3>3 DEF LoginInv, CallsAreMeant
  <2>2. ASSUME Next, Sends({"login", "otp", "sms"}) PROVE asked
    BY <1>1, <2>2 DEF LoginInv, Sends, CallsAreMeant
  <2> QED
    BY <1>1, <2>1, <2>2
<1> QED
  BY <1>1, LoginKept, PTL DEF Spec, NothingResent, CodeSubmittedOnce, NoBlindRetry
=============================================================================

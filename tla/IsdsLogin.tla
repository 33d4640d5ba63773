------------------------------ MODULE IsdsLogin ------------------------------
(***************************************************************************)
(* Logging an account into the ISDS server: the login context IsdsLogin    *)
(* (src/io/isds_login.cpp) and the two loops that drive it, the one of the *)
(* GUI (MainWindow::logInGUI), which asks the user for what is missing,    *)
(* and the one of the CLI (logInCLI), which has a password and a key from  *)
(* its command line and asks nobody.                                       *)
(*                                                                         *)
(* One call of logIn() sends at most one request; what the server answers, *)
(* and whether the session is alive already, is any of what may come back. *)
(***************************************************************************)
VARIABLES
  at,          \* "logIn", the dialogue that is shown, "in" or "out"
  cli,         \* which loop drives the context
  args,        \* the password and the key of the command line
  account,     \* the settings the context refers to
  totpState,   \* m_totpState
  request,     \* the request of the last logIn(): "none" or its kind
  acked,       \* history: the user agreed to the SMS since the last logIn()
  entered,     \* history: an OTP was supplied since the last request with one
  asked,       \* history: a dialogue was answered since the last request
  turn         \* history: changes with each logIn(), so that a call that has no
               \* effect is a step all the same

vars == <<at, cli, args, account, totpState, request, acked, entered, asked,
          turn>>

Methods == {"UNAME_PWD", "UNAME_CRT", "UNAME_PWD_CRT", "UNAME_PWD_HOTP",
            "UNAME_PWD_TOTP"}

\* Strings are null, empty or have characters; a certificate file is missing,
\* or known by its suffix.  Whether a pass-phrase fits is seen when it is used.
Accounts == [method : Methods,
             pwd : {"empty", "text"},
             p12File : {"empty", "p12", "pem", "other"},
             passphrase : {"null", "set"},
             otp : {"null", "empty", "text"}]

Arguments == [pwd : {"empty", "text"}, key : {"null", "empty", "text"}]
NoArguments == [pwd |-> "empty", key |-> "null"]

Answers == {"SUCCESS", "NOT_LOGGED_IN", "PARTIAL_SUCCESS", "other"}
Dialogues == {"NO_PWD", "NO_CRT", "NO_CRT_AGAIN", "NO_CRT_PWD", "NO_CRT_PPHR",
              "NO_OTP", "NEED_TOTP_ACK", "NOT_LOGGED_IN", "PARTIAL_SUCCESS",
              "PARTIAL_SUCCESS_AGAIN"}

TypeOK ==
  /\ at \in Dialogues \cup {"logIn", "in", "out"}
  /\ cli \in BOOLEAN
  /\ args \in Arguments
  /\ account \in Accounts
  /\ totpState \in {"START", "AWAIT_USR_ACK", "AWAIT_TOTP"}
  /\ request \in {"none", "login", "otp", "sms"}
  /\ acked \in BOOLEAN /\ entered \in BOOLEAN /\ asked \in BOOLEAN
  /\ turn \in BOOLEAN

\* The settings as they are stored: no one-time code, the pass-phrase possibly
\* from an earlier log-in.
Init ==
  /\ at = "logIn"
  /\ cli \in BOOLEAN
  /\ args \in IF cli THEN Arguments ELSE {NoArguments}
  /\ account \in {a \in Accounts : a.otp = "null"}
  /\ totpState = "START"
  /\ request = "none"
  /\ acked = FALSE /\ entered = FALSE /\ asked = TRUE
  /\ turn = FALSE

-----------------------------------------------------------------------------
(* IsdsLogin::logIn().  Each method yields an error code, the request it     *)
(* sends before, if any, and the next TOTP state.                            *)

Outcome(code, req, st) == [code |-> code, request |-> req, totpState |-> st]
Local(code) == Outcome(code, "none", totpState)

\* error2ErrorCode()
ErrorCode(ans) ==
  CASE ans = "SUCCESS" -> "OK"
    [] ans = "NOT_LOGGED_IN" -> "NOT_LOGGED_IN"
    [] ans = "PARTIAL_SUCCESS" -> "PARTIAL_SUCCESS"
    [] OTHER -> "ISDS_ERR"

Asking(req) == {Outcome(ErrorCode(ans), req, totpState) : ans \in Answers}

userNamePwd ==
  IF account.pwd = "empty" THEN {Local("NO_PWD")} ELSE Asking("login")

\* convertAndCheckCert() converts a PKCS #12 file, which the pass-phrase may not
\* open; it takes a PEM file as it is and refuses any other.
WithCertificate ==
  IF account.passphrase = "null" THEN {Local("NO_CRT_PPHR")}
  ELSE (IF account.p12File # "pem" THEN {Local("NO_CRT_AGAIN")} ELSE {})
         \cup (IF account.p12File # "other" THEN Asking("login") ELSE {})

certOnly ==
  IF account.p12File = "empty" THEN {Local("NO_CRT")} ELSE WithCertificate

certUsrPwd ==
  IF account.pwd = "empty" \/ account.p12File = "empty"
  THEN {Local("NO_CRT_PWD")} ELSE WithCertificate

hotp ==
  IF account.pwd = "empty" THEN {Local("NO_PWD")}
  ELSE IF account.otp = "null" THEN {Local("NO_OTP")}
  ELSE Asking("otp")

totpRequestSMS ==
  {Outcome(ErrorCode(ans), "sms",
           IF ans = "PARTIAL_SUCCESS" THEN "AWAIT_TOTP" ELSE totpState)
     : ans \in Answers}

\* A code that is refused is asked for again.
totpLogIn ==
  {Outcome(IF ans = "NOT_LOGGED_IN" THEN "PARTIAL_SUCCESS_AGAIN" ELSE ErrorCode(ans),
           "otp", totpState) : ans \in Answers}

\* MUTANT of totp: the acknowledgement is not looked for before the SMS is requested.
totpWithoutAck ==
  IF account.pwd = "empty" THEN {Local("NO_PWD")}
  ELSE CASE totpState = "START" ->
              {Outcome("NEED_TOTP_ACK", "none", "AWAIT_USR_ACK")}
         [] totpState = "AWAIT_USR_ACK" ->
              totpRequestSMS
         [] totpState = "AWAIT_TOTP" ->
              IF account.otp = "null" THEN {Local("PARTIAL_SUCCESS")}
              ELSE totpLogIn

totp ==
  IF account.pwd = "empty" THEN {Local("NO_PWD")}
  ELSE CASE totpState = "START" ->
              {Outcome("NEED_TOTP_ACK", "none", "AWAIT_USR_ACK")}
         [] totpState = "AWAIT_USR_ACK" ->
              IF account.otp # "empty" THEN {Local("NEED_TOTP_ACK")}
              ELSE totpRequestSMS
         [] totpState = "AWAIT_TOTP" ->
              IF account.otp = "null" THEN {Local("PARTIAL_SUCCESS")}
              ELSE totpLogIn

\* A session that is alive needs no log-in.
logIn ==
  {Local("OK")} \cup
  (CASE account.method = "UNAME_PWD" -> userNamePwd
     [] account.method = "UNAME_CRT" -> certOnly
     [] account.method = "UNAME_PWD_CRT" -> certUsrPwd
     [] account.method = "UNAME_PWD_HOTP" -> hotp
     [] account.method = "UNAME_PWD_TOTP" -> totp)

\* The history of a call with outcome o.
Record(o) ==
  /\ request' = o.request
  /\ totpState' = o.totpState
  /\ acked' = FALSE
  /\ asked' = (asked /\ o.request = "none")
  /\ turn' = ~turn
  /\ UNCHANGED <<cli, args>>

-----------------------------------------------------------------------------
(* MainWindow::logInGUI() *)

\* What is shown for an error code.
Shown(code) ==
  IF code = "OK" THEN "in" ELSE IF code \in Dialogues THEN code ELSE "out"

\* MUTANT of Erased: the one-time code is kept.
ErasedNothing(code) == account

\* The one-time code is erased, the pass-phrase where the certificate is asked for.
Erased(code) ==
  [account EXCEPT
     !.otp = "null",
     !.passphrase = IF code \in {"NO_CRT", "NO_CRT_AGAIN", "NO_CRT_PWD"}
                    THEN "null" ELSE @]

\* One turn of the loop.
LogInGUI ==
  /\ at = "logIn" /\ ~cli
  /\ \E o \in logIn :
       /\ Record(o)
       /\ entered' = (entered /\ o.request # "otp")
       /\ at' = Shown(o.code)
       /\ account' = Erased(o.code)

\* What DlgCreateAccount::modify() may store: the dialogue for an action lets the
\* user change some of the entries and accepts only complete ones.  Passwords
\* are trimmed, so that one of spaces only ends up empty; a certificate is kept
\* with the methods that use one, a password with all but UNAME_CRT.
Complete(a) ==
  /\ (a.method \in {"UNAME_CRT", "UNAME_PWD_CRT"}) <=> (a.p12File # "empty")
  /\ a.method = "UNAME_CRT" => a.pwd = "empty"

Edited(action) ==
  {a \in Accounts :
     /\ Complete(a)
     /\ a.passphrase = account.passphrase /\ a.otp = account.otp
     /\ action # "EDIT" => a.method = account.method}

\* The dialogue for code is accepted with settings a.
Accept(code, a) ==
  /\ at = code
  /\ account' = a
  /\ at' = "logIn"
  /\ asked' = TRUE
  /\ UNCHANGED <<cli, args, totpState, request, turn>>

AskPwd ==
  /\ \E a \in Edited("PWD") : Accept("NO_PWD", a)
  /\ UNCHANGED <<acked, entered>>

AskCertificate ==
  /\ \E code \in {"NO_CRT", "NO_CRT_AGAIN", "NO_CRT_PWD"} :
       \E a \in Edited("CERT") : Accept(code, a)
  /\ UNCHANGED <<acked, entered>>

\* The input dialogue never leaves a null pass-phrase.
AskPassphrase ==
  /\ Accept("NO_CRT_PPHR", [account EXCEPT !.passphrase = "set"])
  /\ UNCHANGED <<acked, entered>>

AskOtp ==
  /\ \E code \in {"NO_OTP", "PARTIAL_SUCCESS", "PARTIAL_SUCCESS_AGAIN"} :
       Accept(code, [account EXCEPT !.otp = "text"])
  /\ entered' = TRUE
  /\ UNCHANGED acked

\* "Do you want to send a Premium SMS [...]?"
AskSms ==
  /\ Accept("NEED_TOTP_ACK", [account EXCEPT !.otp = "empty"])
  /\ acked' = TRUE
  /\ UNCHANGED entered

AskAccount ==
  /\ \E a \in Edited("EDIT") : Accept("NOT_LOGGED_IN", a)
  /\ UNCHANGED <<acked, entered>>

Cancel ==
  /\ at \in Dialogues
  /\ at' = "out"
  /\ account' = IF at = "NO_PWD" THEN [account EXCEPT !.pwd = "empty"] ELSE account
  /\ UNCHANGED <<cli, args, totpState, request, acked, entered, asked, turn>>

-----------------------------------------------------------------------------
(* logInCLI(): what is missing is taken from the arguments, if it is there.    *)

\* MUTANT of Supplied: the password of the command line is tried when the
\* stored one has been refused.
SuppliedAfterRefusal(code) ==
  CASE code \in {"NO_PWD", "NOT_LOGGED_IN"} /\ args.pwd # "empty" -> {[account EXCEPT !.pwd = args.pwd]}
    [] code = "NO_CRT_PWD" /\ account.p12File # "empty" /\ account.pwd # "empty" ->
         {account}
    [] code = "NO_CRT_PWD" /\ account.p12File # "empty"
         /\ account.pwd = "empty" /\ args.pwd # "empty" ->
         {[account EXCEPT !.pwd = args.pwd]}
    [] code = "NO_CRT_PPHR" /\ args.key # "null" ->
         {[account EXCEPT !.passphrase = "set"]}
    [] code = "NO_OTP" /\ args.key = "text" -> {[account EXCEPT !.otp = "text"]}
    [] OTHER -> {}

\* MUTANT of Supplied: an empty password of the command line is used.
SuppliedEmpty(code) ==
  CASE code = "NO_PWD" -> {[account EXCEPT !.pwd = args.pwd]}
    [] code = "NO_CRT_PWD" /\ account.p12File # "empty" /\ account.pwd # "empty" ->
         {account}
    [] code = "NO_CRT_PWD" /\ account.p12File # "empty"
         /\ account.pwd = "empty" /\ args.pwd # "empty" ->
         {[account EXCEPT !.pwd = args.pwd]}
    [] code = "NO_CRT_PPHR" /\ args.key # "null" ->
         {[account EXCEPT !.passphrase = "set"]}
    [] code = "NO_OTP" /\ args.key = "text" -> {[account EXCEPT !.otp = "text"]}
    [] OTHER -> {}

\* The settings completed with what the arguments have for code, if anything.
Supplied(code) ==
  CASE code = "NO_PWD" /\ args.pwd # "empty" -> {[account EXCEPT !.pwd = args.pwd]}
    [] code = "NO_CRT_PWD" /\ account.p12File # "empty" /\ account.pwd # "empty" ->
         {account}
    [] code = "NO_CRT_PWD" /\ account.p12File # "empty"
         /\ account.pwd = "empty" /\ args.pwd # "empty" ->
         {[account EXCEPT !.pwd = args.pwd]}
    [] code = "NO_CRT_PPHR" /\ args.key # "null" ->
         {[account EXCEPT !.passphrase = "set"]}
    [] code = "NO_OTP" /\ args.key = "text" -> {[account EXCEPT !.otp = "text"]}
    [] OTHER -> {}

LogInCLI ==
  /\ at = "logIn" /\ cli
  /\ \E o \in logIn :
       LET supplied == Supplied(o.code) IN
       /\ Record(o)
       /\ entered' = ((entered /\ o.request # "otp")
                        \/ (o.code = "NO_OTP" /\ supplied # {}))
       /\ \/ o.code = "OK" /\ at' = "in" /\ UNCHANGED account
          \/ o.code # "OK" /\ supplied = {} /\ at' = "out" /\ UNCHANGED account
          \/ at' = "logIn" /\ account' \in supplied

-----------------------------------------------------------------------------

Ask == AskPwd \/ AskCertificate \/ AskPassphrase \/ AskOtp \/ AskSms \/ AskAccount

Next == LogInGUI \/ Ask \/ Cancel \/ LogInCLI

Spec == Init /\ [][Next]_vars

\* The loops run; the user may leave a dialogue open for ever.
FairSpec == Spec /\ WF_vars(LogInGUI) /\ WF_vars(LogInCLI)

-----------------------------------------------------------------------------

\* The step is a call of logIn() that sends a request of one of the kinds.
Sends(kinds) == at = "logIn" /\ request' \in kinds

\* A Premium SMS is requested only when the user has agreed to it since the
\* last call of logIn(): no path through refusals, an edited account or a changed
\* method leaves an empty code behind that logIn() would take for an agreement.
SmsAcknowledged == [][Sends({"sms"}) => acked]_vars

\* A one-time code is submitted once: after any answer of the server the next
\* submission follows a newly entered code, in both loops.
CodeSubmittedOnce == [][Sends({"otp"}) => entered]_vars

\* A request the server has answered is not sent again until a dialogue has been
\* answered; in particular the command line never repeats one, so that a refused
\* password is not tried until the account is locked.
NoBlindRetry == [][Sends({"login", "otp", "sms"}) => asked]_vars

\* Nothing is sent to the server a second time without the user: no one-time code
\* after an answer to it and no request after a refusal.
NothingResent == CodeSubmittedOnce /\ NoBlindRetry

\* With a command line nobody is asked: whatever is missing, and whatever the
\* server answers, the loop ends.
CLIEnds == cli ~> at \in {"in", "out"}
=============================================================================

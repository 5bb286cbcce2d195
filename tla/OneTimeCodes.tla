----------------------------- MODULE OneTimeCodes -----------------------------
(***************************************************************************)
(* Registration, sign-in and password reset with a code sent by e-mail or  *)
(* SMS: `pending_signups`, `login_challenges`, `password_reset_challenges` *)
(* and the provider's own `resend_otp_sessions`.                           *)
(*                                                                         *)
(* Each request is a chain of awaited statements and provider calls, one   *)
(* step each: a code is sent before its row is stored, an attempt is       *)
(* counted before the provider judges the code, and what a good code earns *)
(* is done last.  Requests interleave, and any of them may stop half way.  *)
(*                                                                         *)
(* Abstractions.  A row of either table is named by the provider session   *)
(* it was stored with.  Contacts stand for a contact and a role.  Codes of *)
(* a session are numbered in the order they were sent; 0 is a wrong guess. *)
(* Time only passes deadlines and cooldowns; a provider session that has   *)
(* expired refuses, as a request that is cut off does.                     *)
(***************************************************************************)
EXTENDS Integers, FiniteSets

CONSTANTS
  Recipient, Mail, Caller,
  MaxAttempts,    \* AUTH_OTP_MAX_ATTEMPTS, and max_attempts of the provider
  MaxCodes,       \* bound: codes sent for one session
  NoRow

VARIABLES
  accounts,   \* how many accounts that are not deleted a contact has
  desk,       \* rows of the three challenge tables
  code,       \* rows of resend_otp_sessions
  call,       \* requests in progress
  granted,    \* how often a row earned an account, a session or a new password
  misses      \* wrong codes the provider ever judged in a session

codesVars == <<accounts, desk, code, call, granted, misses>>

Use == {"signup", "login", "reset"}
Code == 1..MaxCodes
Row == [use : Use, contact : Recipient, tries : 0..MaxAttempts,
        verified : BOOLEAN, consumed : BOOLEAN, lapsed : BOOLEAN, cooled : BOOLEAN]
Sent == [right : Code, wrong : 0..MaxAttempts, spent : BOOLEAN]
Resting == [at |-> "rest"]
Asking == [at : {"send"}, use : Use, contact : Recipient]
Storing == [at : {"store"}, use : Use, contact : Recipient, mail : Mail]
Judging == [at : {"judge"}, use : Use, mail : Mail, guess : 0..MaxCodes]
Working == [at : {"finish", "remail", "extend"}, use : Use, mail : Mail]
Recoding == [at : {"recode"}, use : Use, mail : Mail, new : Code]
Phase == {Resting} \cup Asking \cup Storing \cup Judging \cup Working \cup Recoding

ASSUME CodesAssumption ==
  /\ MaxAttempts \in Nat \ {0}
  /\ MaxCodes \in Nat \ {0}
  /\ NoRow \notin Row \cup Sent

CodesTypeOK ==
  /\ accounts \in [Recipient -> 0..2]
  /\ desk \in [Mail -> Row \cup {NoRow}]
  /\ code \in [Mail -> Sent \cup {NoRow}]
  /\ call \in [Caller -> Phase]
  /\ granted \in [Mail -> 0..2]
  /\ misses \in [Mail -> Nat]

CodesInit ==
  /\ accounts = [c \in Recipient |-> 0]
  /\ desk = [m \in Mail |-> NoRow]
  /\ code = [m \in Mail |-> NoRow]
  /\ call = [x \in Caller |-> Resting]
  /\ granted = [m \in Mail |-> 0]
  /\ misses = [m \in Mail |-> 0]

-----------------------------------------------------------------------------
Becomes(x, new) == call' = [call EXCEPT ![x] = new]
Ends(x) == Becomes(x, Resting)

Stored(use, c) == {m \in Mail : desk[m] # NoRow /\ desk[m].use = use /\ desk[m].contact = c}
Pending(use, c) == {m \in Stored(use, c) : ~desk[m].consumed /\ ~desk[m].verified}

NewRow(use, c) == [use |-> use, contact |-> c, tries |-> 0, verified |-> FALSE,
                   consumed |-> FALSE, lapsed |-> FALSE, cooled |-> FALSE]

Put(m, row, removed) ==
  desk' = [n \in Mail |-> IF n = m THEN row ELSE IF n \in removed THEN NoRow ELSE desk[n]]

-----------------------------------------------------------------------------
(* Asking for a code.                                                      *)

(* signup: a contact without an account and without a pending row; an      *)
(* expired pending row is deleted on the way.                              *)
AskSignup(x, c) ==
  /\ call[x] = Resting
  /\ accounts[c] = 0
  /\ \A m \in Stored("signup", c) : desk[m].lapsed
  /\ desk' = [m \in Mail |-> IF m \in Stored("signup", c) THEN NoRow ELSE desk[m]]
  /\ Becomes(x, [at |-> "send", use |-> "signup", contact |-> c])
  /\ UNCHANGED <<accounts, code, granted, misses>>

(* authenticate: an active account that signs in without a password.       *)
AskLogin(x, c) ==
  /\ call[x] = Resting
  /\ accounts[c] > 0
  /\ Becomes(x, [at |-> "send", use |-> "login", contact |-> c])
  /\ UNCHANGED <<accounts, desk, code, granted, misses>>

(* forgotPassword                                                          *)
AskReset(x, c) ==
  /\ call[x] = Resting
  /\ accounts[c] > 0
  /\ Becomes(x, [at |-> "send", use |-> "reset", contact |-> c])
  /\ UNCHANGED <<accounts, desk, code, granted, misses>>

(* sendEmailOtp: the mail goes out, then the provider stores its session.  *)
SendEmailOtp(x, m) ==
  /\ call[x].at = "send"
  /\ code[m] = NoRow
  /\ \A y \in Caller : call[y].at = "store" => call[y].mail # m
  /\ code' = [code EXCEPT ![m] = [right |-> 1, wrong |-> 0, spent |-> FALSE]]
  /\ Becomes(x, [at |-> "store", use |-> call[x].use, contact |-> call[x].contact, mail |-> m])
  /\ UNCHANGED <<accounts, desk, granted, misses>>

(* The row is stored.  A pending sign-up or sign-in of the contact is a    *)
(* conflict (expired sign-ins are deleted first), a pending reset is       *)
(* overwritten.                                                            *)
StoreSignup(x) ==
  /\ call[x].at = "store" /\ call[x].use = "signup"
  /\ LET c == call[x].contact  m == call[x].mail IN
     IF Stored("signup", c) = {} THEN Put(m, NewRow("signup", c), {}) ELSE UNCHANGED desk
  /\ Ends(x)
  /\ UNCHANGED <<accounts, code, granted, misses>>

StoreLoginUnchecked(x) ==
  /\ call[x].at = "store" /\ call[x].use = "login"
  /\ LET c == call[x].contact  m == call[x].mail IN
     Put(m, NewRow("login", c), {n \in Pending("login", c) : desk[n].lapsed})
  /\ Ends(x)
  /\ UNCHANGED <<accounts, code, granted, misses>>

StoreLogin(x) ==
  /\ call[x].at = "store" /\ call[x].use = "login"
  /\ LET c == call[x].contact  m == call[x].mail
         expired == {n \in Pending("login", c) : desk[n].lapsed} IN
     IF Pending("login", c) = expired
     THEN Put(m, NewRow("login", c), expired) ELSE UNCHANGED desk
  /\ Ends(x)
  /\ UNCHANGED <<accounts, code, granted, misses>>

StoreReset(x) ==
  /\ call[x].at = "store" /\ call[x].use = "reset"
  /\ LET c == call[x].contact IN
     Put(call[x].mail, NewRow("reset", c), {n \in Stored("reset", c) : ~desk[n].consumed})
  /\ Ends(x)
  /\ UNCHANGED <<accounts, code, granted, misses>>

-----------------------------------------------------------------------------
(* Verifying a code.                                                       *)

Usable(m, use) == /\ desk[m] # NoRow
                  /\ desk[m].use = use
                  /\ ~desk[m].consumed /\ ~desk[m].verified /\ ~desk[m].lapsed

Judge(x, m, g) == Becomes(x, [at |-> "judge", use |-> desk[m].use, mail |-> m, guess |-> g])

(* claimVerificationAttempt: the attempt is counted before it is judged.   *)
ClaimAttemptUnlimited(x, m, g, use) ==
  /\ call[x] = Resting
  /\ Usable(m, use)
  /\ Judge(x, m, g)
  /\ desk' = [desk EXCEPT ![m].tries = @ + 1]
  /\ UNCHANGED <<accounts, code, granted, misses>>

ClaimAttempt(x, m, g, use) ==
  /\ call[x] = Resting
  /\ Usable(m, use)
  /\ desk[m].tries < MaxAttempts
  /\ Judge(x, m, g)
  /\ desk' = [desk EXCEPT ![m].tries = @ + 1]
  /\ UNCHANGED <<accounts, code, granted, misses>>

GuessSignup(x, m, g) == ClaimAttempt(x, m, g, "signup")
GuessLogin(x, m, g) == ClaimAttempt(x, m, g, "login")

(* verifyOtp of a reset counts nothing itself.                             *)
GuessReset(x, m, g) ==
  /\ call[x] = Resting
  /\ Usable(m, "reset")
  /\ Judge(x, m, g)
  /\ UNCHANGED <<accounts, desk, code, granted, misses>>

(* The provider's verify: one statement with the session's row locked.     *)
JudgeableForEver(m) == ~code[m].spent

Judgeable(m) == ~code[m].spent /\ code[m].wrong < MaxAttempts

ProviderVerify(x) ==
  /\ call[x].at = "judge"
  /\ LET m == call[x].mail  right == call[x].guess = code[m].right IN
     \/ /\ Judgeable(m) /\ right
        /\ code' = [code EXCEPT ![m].spent = TRUE]
        /\ Becomes(x, [at |-> "finish", use |-> call[x].use, mail |-> m])
        /\ UNCHANGED misses
     \/ /\ Judgeable(m) /\ ~right
        /\ code' = [code EXCEPT ![m].wrong = @ + 1]
        /\ misses' = [misses EXCEPT ![m] = @ + 1]
        /\ Ends(x)
     \/ /\ ~Judgeable(m)
        /\ Ends(x)
        /\ UNCHANGED <<code, misses>>
  /\ UNCHANGED <<accounts, desk, granted>>

(* completeVerifiedSignup: with the row locked, and the unique index on    *)
(* contacts; the row goes with the transaction that creates the account.   *)
CompleteSignupUnindexed(x) ==
  /\ call[x].at = "finish" /\ call[x].use = "signup"
  /\ LET m == call[x].mail IN
     IF desk[m] # NoRow /\ ~desk[m].verified /\ ~desk[m].lapsed
     THEN /\ accounts' = [accounts EXCEPT ![desk[m].contact] = @ + 1]
          /\ desk' = [desk EXCEPT ![m] = NoRow]
          /\ granted' = [granted EXCEPT ![m] = @ + 1]
     ELSE UNCHANGED <<accounts, desk, granted>>
  /\ Ends(x)
  /\ UNCHANGED <<code, misses>>

CompleteSignup(x) ==
  /\ call[x].at = "finish" /\ call[x].use = "signup"
  /\ LET m == call[x].mail IN
     IF desk[m] # NoRow /\ ~desk[m].verified /\ ~desk[m].lapsed /\ accounts[desk[m].contact] = 0
     THEN /\ accounts' = [accounts EXCEPT ![desk[m].contact] = @ + 1]
          /\ desk' = [desk EXCEPT ![m] = NoRow]
          /\ granted' = [granted EXCEPT ![m] = @ + 1]
     ELSE UNCHANGED <<accounts, desk, granted>>
  /\ Ends(x)
  /\ UNCHANGED <<code, misses>>

(* consume: with the row locked.                                           *)
ConsumeLogin(x) ==
  /\ call[x].at = "finish" /\ call[x].use = "login"
  /\ LET m == call[x].mail IN
     IF Usable(m, "login") /\ accounts[desk[m].contact] > 0
     THEN /\ desk' = [desk EXCEPT ![m].verified = TRUE, ![m].consumed = TRUE]
          /\ granted' = [granted EXCEPT ![m] = @ + 1]
     ELSE UNCHANGED <<desk, granted>>
  /\ Ends(x)
  /\ UNCHANGED <<accounts, code, misses>>

(* markVerified: of the row with the token shown, if it still has it.      *)
MarkVerifiedOfContact(x) ==
  /\ call[x].at = "finish" /\ call[x].use = "reset"
  /\ desk' = [n \in Mail |-> IF Usable(n, "reset") THEN [desk[n] EXCEPT !.verified = TRUE]
                             ELSE desk[n]]
  /\ Ends(x)
  /\ UNCHANGED <<accounts, code, granted, misses>>

MarkVerified(x) ==
  /\ call[x].at = "finish" /\ call[x].use = "reset"
  /\ LET m == call[x].mail IN
     desk' = IF Usable(m, "reset") THEN [desk EXCEPT ![m].verified = TRUE] ELSE desk
  /\ Ends(x)
  /\ UNCHANGED <<accounts, code, granted, misses>>

(* completeReset: row and user locked; the new password, the revocation of *)
(* the user's sessions and the end of the row commit together.             *)
ResetPassword(m) ==
  /\ desk[m] # NoRow /\ desk[m].use = "reset"
  /\ desk[m].verified /\ ~desk[m].consumed /\ ~desk[m].lapsed
  /\ accounts[desk[m].contact] > 0
  /\ desk' = [desk EXCEPT ![m].consumed = TRUE]
  /\ granted' = [granted EXCEPT ![m] = @ + 1]
  /\ UNCHANGED <<accounts, code, call, misses>>

-----------------------------------------------------------------------------
(* Sending a code again, for a sign-up or a sign-in.                       *)

(* claimResend / claimOtpResend: the cooldown is claimed in one statement. *)
ClaimResend(x, m, use) ==
  /\ call[x] = Resting
  /\ Usable(m, use)
  /\ desk[m].tries < MaxAttempts
  /\ desk[m].cooled
  /\ desk' = [desk EXCEPT ![m].cooled = FALSE]
  /\ Becomes(x, [at |-> "remail", use |-> use, mail |-> m])
  /\ UNCHANGED <<accounts, code, granted, misses>>

ResendSignup(x, m) == ClaimResend(x, m, "signup")
ResendLogin(x, m) == ClaimResend(x, m, "login")

(* resendEmailOtp: the provider looks at its session, the mail with the    *)
(* new code goes out, and then the code is stored.                         *)
Remail(x) ==
  /\ call[x].at = "remail"
  /\ LET m == call[x].mail IN
     IF Judgeable(m) /\ code[m].right < MaxCodes
     THEN Becomes(x, [at |-> "recode", use |-> call[x].use, mail |-> m,
                      new |-> code[m].right + 1])
     ELSE Ends(x)
  /\ UNCHANGED <<accounts, desk, code, granted, misses>>

Recode(x) ==
  /\ call[x].at = "recode"
  /\ LET m == call[x].mail IN
     IF Judgeable(m)
     THEN /\ code' = [code EXCEPT ![m].right = call[x].new]
          /\ Becomes(x, [at |-> "extend", use |-> call[x].use, mail |-> m])
     ELSE Ends(x) /\ UNCHANGED code
  /\ UNCHANGED <<accounts, desk, granted, misses>>

(* updateProviderExpiry: the row's deadline follows the provider's.  That  *)
(* of a sign-up is moved even when it has passed.                          *)
ExtendSignup(x) ==
  /\ call[x].at = "extend" /\ call[x].use = "signup"
  /\ LET m == call[x].mail IN
     desk' = IF desk[m] # NoRow /\ ~desk[m].verified
             THEN [desk EXCEPT ![m].lapsed = FALSE] ELSE desk
  /\ Ends(x)
  /\ UNCHANGED <<accounts, code, granted, misses>>

ExtendLogin(x) ==
  /\ call[x].at = "extend" /\ call[x].use = "login"
  /\ Ends(x)
  /\ UNCHANGED <<accounts, desk, code, granted, misses>>

-----------------------------------------------------------------------------
(* Google sign-in makes an account for a contact that has none; accounts   *)
(* are deleted; requests are cut off; time passes.                         *)
GoogleResolve(c) ==
  /\ accounts[c] = 0
  /\ accounts' = [accounts EXCEPT ![c] = @ + 1]
  /\ UNCHANGED <<desk, code, call, granted, misses>>

AccountDeleted(c) ==
  /\ accounts[c] > 0
  /\ accounts' = [accounts EXCEPT ![c] = @ - 1]
  /\ UNCHANGED <<desk, code, call, granted, misses>>

CutOff(x) ==
  /\ call[x] # Resting
  /\ Ends(x)
  /\ UNCHANGED <<accounts, desk, code, granted, misses>>

RowLapses(m) ==
  /\ desk[m] # NoRow /\ ~desk[m].lapsed
  /\ desk' = [desk EXCEPT ![m].lapsed = TRUE]
  /\ UNCHANGED <<accounts, code, call, granted, misses>>

CooldownPasses(m) ==
  /\ desk[m] # NoRow /\ ~desk[m].cooled
  /\ desk[m].use # "reset"
  /\ desk' = [desk EXCEPT ![m].cooled = TRUE]
  /\ UNCHANGED <<accounts, code, call, granted, misses>>

CodesNext ==
  \/ \E x \in Caller, c \in Recipient : AskSignup(x, c) \/ AskLogin(x, c) \/ AskReset(x, c)
  \/ \E x \in Caller, m \in Mail :
       SendEmailOtp(x, m) \/ ResendSignup(x, m) \/ ResendLogin(x, m)
  \/ \E x \in Caller, m \in Mail, g \in 0..MaxCodes :
       GuessSignup(x, m, g) \/ GuessLogin(x, m, g) \/ GuessReset(x, m, g)
  \/ \E x \in Caller :
       \/ StoreSignup(x) \/ StoreLogin(x) \/ StoreReset(x)
       \/ ProviderVerify(x) \/ CompleteSignup(x) \/ ConsumeLogin(x) \/ MarkVerified(x)
       \/ Remail(x) \/ Recode(x) \/ ExtendSignup(x) \/ ExtendLogin(x)
       \/ CutOff(x)
  \/ \E m \in Mail : ResetPassword(m) \/ RowLapses(m) \/ CooldownPasses(m)
  \/ \E c \in Recipient : GoogleResolve(c) \/ AccountDeleted(c)

CodesSpec == CodesInit /\ [][CodesNext]_codesVars

-----------------------------------------------------------------------------
(* However sign-ups, codes and Google race, a contact has one account.     *)
OneAccountPerContact == \A c \in Recipient : accounts[c] <= 1

(* A row earns something at most once, and only when the code of its own   *)
(* session was spent: a code of a reset that was asked for again never     *)
(* verifies the newer reset.                                               *)
GrantsMatchCodes ==
  \A m \in Mail :
    /\ granted[m] <= 1
    /\ granted[m] = 1 => code[m].spent
    /\ desk[m] # NoRow /\ desk[m].verified => code[m].spent

(* At most one sign-up and one sign-in of a contact wait for their code,   *)
(* and at most one reset is open.                                          *)
OnePendingPerUse ==
  \A c \in Recipient :
    /\ Cardinality(Stored("signup", c)) <= 1
    /\ Cardinality(Pending("login", c)) <= 1
    /\ Cardinality({m \in Stored("reset", c) : ~desk[m].consumed}) <= 1

(* No session ever has more codes judged wrong than it allows, however     *)
(* many requests guess at the same time and codes are sent again.          *)
GuessesAreBounded == \A m \in Mail : misses[m] <= MaxAttempts

(* A contact has one account and one pending code of a use, a row earns at *)
(* most what its code was proven for, and guesses are bounded.             *)
CodesAreSound ==
  OneAccountPerContact /\ GrantsMatchCodes /\ OnePendingPerUse /\ GuessesAreBounded
=============================================================================

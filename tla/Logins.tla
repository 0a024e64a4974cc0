------------------------------- MODULE Logins -------------------------------
(* One account, its two counters of failed attempts and its second factor,  *)
(* under requests that run at the same time: logins (pkg/routes/api/v1/     *)
(* login.go), changes and resets of the password, and the setting up of     *)
(* TOTP (pkg/user).  A request is a chain of steps, each one statement of   *)
(* SQL, each a transaction of its own, or one operation on the key value    *)
(* store.                                                                    *)
(*                                                                          *)
(* Abstracted: a password is right or wrong.  A code is the number of the   *)
(* secret it was made from; a code made from another secret is a wrong one. *)
(* Of the reset tokens it only matters whether there is one.  The step that *)
(* asks whether the service has TOTP switched on is left out: it has.       *)
(*                                                                          *)
(* CreateUser, UpdateEmail, ConfirmEmail and UpdateUser name a column       *)
(* `is_active` that the table no longer has, so that none of them, nor the  *)
(* command line's `user change-status`, changes a status; accounts that     *)
(* wait for their confirmation are those the migration of 2021 left.        *)
EXTENDS Integers, Sequences, FiniteSets

CONSTANTS
    Requests,    \* slots for requests that run at the same time
    WarnAt,      \* failed attempts after which a mail warns the user: 3
    LockAt,      \* failed passcodes after which the account is locked: 10
    MaxPwFails,  \* bound on the counter of failed passwords
    MaxTOTPFails,\* bound on the counter of failed passcodes
    MaxSecrets   \* bound on the secrets ever enrolled

ASSUME LimitsAssumption ==
    /\ WarnAt \in Nat /\ 0 < WarnAt /\ WarnAt < LockAt
    /\ LockAt \in Nat
    /\ MaxPwFails \in Nat /\ MaxTOTPFails \in Nat
    /\ MaxSecrets \in Nat

VARIABLES
    status,      \* the column `status` of the account
    totp,        \* the rows of table totp, by id: a secret and whether it is enabled
    nextSecret,  \* the next row's id, which names its secret too
    pwFails,     \* failed passwords in the key value store, 0 without a key
    totpFails,   \* failed passcodes, likewise
    resetToken,  \* whether the table has a token to reset the password
    req,         \* what each request does next, and what it remembers
    proven,      \* history: secrets a code of which EnableTOTP has seen
    excused,     \* history: reset, or failed to be locked, since the limit
    disturbed    \* history: failed passwords were counted side by side, or
                 \*   a warning could not be sent, since the counter's start

loginVars == <<status, totp, nextSecret, pwFails, totpFails, resetToken, req,
          proven, excused, disturbed>>

Statuses == {"Active", "EmailConfirmationRequired", "Disabled"}

NoCode == 0
Codes == 0..MaxSecrets

Steps == {"idle",
          "countPassword", "readPassword", "forgetWarned",
          "askTOTP", "checkTOTP", "countTOTP", "readTOTP", "sendToken", "disable",
          "forgetTOTP", "forgetPassword",
          "readRow", "writeRow", "reset",
          "insertSecret", "enableSecret", "deleteSecrets"}

(* A request: its next step, the code or the secret it carries, and the     *)
(* status in the row it has read.                                           *)
Request == [pc : Steps, code : Codes, seen : Statuses]

Idle == [pc |-> "idle", code |-> NoCode, seen |-> "Active"]
At(a, pc) == req[a].pc = pc
Go(a, pc) == req' = [req EXCEPT ![a].pc = pc]
End(a) == req' = [req EXCEPT ![a] = Idle]
Start(a, pc) == At(a, "idle") /\ Go(a, pc)

(* The row that a query for the user's TOTP finds: the first.               *)
Enrolled == totp # <<>>
Enabled == Enrolled /\ totp[1].enabled

account == <<status, totp, nextSecret, resetToken, proven>>
counters == <<pwFails, totpFails, disturbed, excused>>

LoginsInit ==
    /\ status \in Statuses
    /\ totp = <<>>
    /\ nextSecret = 1
    /\ pwFails = 0 /\ totpFails = 0
    /\ resetToken = FALSE
    /\ req = [a \in Requests |-> Idle]
    /\ proven = {}
    /\ excused = FALSE /\ disturbed = FALSE

-----------------------------------------------------------------------------
(* Addresses that are not confirmed will do: not what the code does.        *)
AlwaysConfirmed == TRUE

(* CheckUserCredentials, in a login, a change of the password or of the     *)
(* address, and the basic authentication of CalDAV.                         *)
Confirmed == status # "EmailConfirmationRequired"

WrongPassword(a) ==
    /\ Confirmed
    /\ Start(a, "countPassword")
    /\ UNCHANGED <<account, counters>>

(* handleFailedPassword.  The value is read after it was increased, and     *)
(* only a reader of exactly WarnAt warns and starts the counter anew.       *)
Counting == {"readPassword", "forgetWarned"}

CountPassword(a) ==
    /\ At(a, "countPassword")
    /\ pwFails < MaxPwFails
    /\ pwFails' = pwFails + 1
    /\ disturbed' = (disturbed \/ \E b \in Requests : req[b].pc \in Counting)
    /\ Go(a, "readPassword")
    /\ UNCHANGED <<account, totpFails, excused>>

(* The counter is not started anew after the mail: not what the code does.  *)
ReadPasswordOnly(a) ==
    /\ At(a, "readPassword")
    /\ End(a)
    /\ UNCHANGED <<account, counters>>

(* Without the key, deleted meanwhile, the type assertion panics.           *)
ReadPassword(a) ==
    /\ At(a, "readPassword")
    /\ \/ pwFails = WarnAt /\ Go(a, "forgetWarned") /\ UNCHANGED disturbed
       \/ pwFails = WarnAt /\ End(a) /\ disturbed' = TRUE   \* Notify fails
       \/ pwFails # WarnAt /\ End(a) /\ UNCHANGED disturbed
    /\ UNCHANGED <<account, pwFails, totpFails, excused>>

ForgetWarned(a) ==
    /\ At(a, "forgetWarned")
    /\ pwFails' = 0
    /\ disturbed' = FALSE
    /\ End(a)
    /\ UNCHANGED <<account, totpFails, excused>>

-----------------------------------------------------------------------------
(* Login with the right password: a disabled account is refused.            *)
Login(a, code) ==
    /\ At(a, "idle")
    /\ status = "Active"
    /\ req' = [req EXCEPT ![a] = [pc |-> "askTOTP", code |-> code, seen |-> status]]
    /\ UNCHANGED <<account, counters>>

AskTOTP(a) ==
    /\ At(a, "askTOTP")
    /\ \/ ~Enabled /\ Go(a, "forgetTOTP")
       \/ Enabled /\ req[a].code = NoCode /\ End(a)
       \/ Enabled /\ req[a].code # NoCode /\ Go(a, "checkTOTP")
    /\ UNCHANGED <<account, counters>>

(* ValidateTOTPPasscode reads the row again: none, and the login ends.      *)
CheckTOTP(a) ==
    /\ At(a, "checkTOTP")
    /\ \/ ~Enrolled /\ End(a)
       \/ Enrolled /\ totp[1].secret = req[a].code /\ Go(a, "forgetTOTP")
       \/ Enrolled /\ totp[1].secret # req[a].code /\ Go(a, "countTOTP")
    /\ UNCHANGED <<account, counters>>

(* HandleFailedTOTPAuth *)
CountTOTP(a) ==
    /\ At(a, "countTOTP")
    /\ totpFails < MaxTOTPFails
    /\ totpFails' = totpFails + 1
    /\ excused' = (excused /\ totpFails' < LockAt)
    /\ Go(a, "readTOTP")
    /\ UNCHANGED <<account, pwFails, disturbed>>

(* Only the attempt that reaches the limit locks: not what the code does.   *)
ReadTOTPOnce(a) ==
    /\ At(a, "readTOTP")
    /\ IF totpFails # LockAt THEN End(a) ELSE Go(a, "sendToken")
    /\ UNCHANGED <<account, counters>>

(* Attempts wait for each other's counting: not what the code does.         *)
ReadTOTPInTurn(a) ==
    /\ At(a, "readTOTP")
    /\ \A b \in Requests \ {a} : ~At(b, "readTOTP")
    /\ IF totpFails < LockAt THEN End(a) ELSE Go(a, "sendToken")
    /\ UNCHANGED <<account, counters>>

ReadTOTP(a) ==
    /\ At(a, "readTOTP")
    /\ IF totpFails < LockAt THEN End(a) ELSE Go(a, "sendToken")
    /\ UNCHANGED <<account, counters>>

(* RequestUserPasswordResetToken and the mail that says so; an error in     *)
(* either leaves the account as it is.                                      *)
SendToken(a) ==
    /\ At(a, "sendToken")
    /\ \/ /\ resetToken' = TRUE
          /\ Go(a, "disable")
          /\ UNCHANGED excused
       \/ /\ resetToken' \in {resetToken, TRUE}
          /\ End(a)
          /\ excused' = TRUE
    /\ UNCHANGED <<status, totp, nextSecret, proven, pwFails, totpFails, disturbed>>

Disable(a) ==
    /\ At(a, "disable")
    /\ \/ status' = "Disabled" /\ UNCHANGED excused
       \/ excused' = TRUE /\ UNCHANGED status   \* SetStatus fails
    /\ End(a)
    /\ UNCHANGED <<totp, nextSecret, resetToken, proven, pwFails, totpFails, disturbed>>

(* The end of a login: both counters go, and a session token is made.       *)
ForgetTOTP(a) ==
    /\ At(a, "forgetTOTP")
    /\ totpFails' = 0
    /\ Go(a, "forgetPassword")
    /\ UNCHANGED <<account, pwFails, disturbed, excused>>

ForgetPassword(a) ==
    /\ At(a, "forgetPassword")
    /\ pwFails' = 0
    /\ disturbed' = FALSE
    /\ End(a)
    /\ UNCHANGED <<account, totpFails, excused>>

-----------------------------------------------------------------------------
(* UserChangePassword with the right old password.  UpdateUserPassword      *)
(* reads the row and writes back every column that is not zero: the status, *)
(* too, unless it was "Active", which is zero.                              *)
ChangePassword(a) ==
    /\ Confirmed
    /\ Start(a, "readRow")
    /\ UNCHANGED <<account, counters>>

ReadRow(a) ==
    /\ At(a, "readRow")
    /\ req' = [req EXCEPT ![a] = [pc |-> "writeRow", code |-> NoCode, seen |-> status]]
    /\ UNCHANGED <<account, counters>>

WriteRow(a) ==
    /\ At(a, "writeRow")
    /\ status' = IF req[a].seen = "Active" THEN status ELSE req[a].seen
    /\ End(a)
    /\ UNCHANGED <<totp, nextSecret, resetToken, proven, counters>>

(* A reset of the password, with a token that stays.                        *)
RequestToken ==
    /\ resetToken' = TRUE
    /\ UNCHANGED <<status, totp, nextSecret, req, proven, counters>>

FindToken(a) ==
    /\ resetToken
    /\ Start(a, "reset")
    /\ UNCHANGED <<account, counters>>

ResetPassword(a) ==
    /\ At(a, "reset")
    /\ status' = "Active"
    /\ excused' = TRUE
    /\ End(a)
    /\ UNCHANGED <<totp, nextSecret, resetToken, proven, pwFails, totpFails, disturbed>>

(* The job that cleans the tokens up deletes those of the last day: it      *)
(* leaves none, or those that are older.                                    *)
CleanUpTokens ==
    /\ resetToken' = FALSE
    /\ UNCHANGED <<status, totp, nextSecret, req, proven, counters>>

-----------------------------------------------------------------------------
(* EnrollTOTP looks for a row and then inserts one: two requests at the     *)
(* same time insert two.                                                    *)
EnrollTOTP(a) ==
    /\ ~Enrolled
    /\ Start(a, "insertSecret")
    /\ UNCHANGED <<account, counters>>

InsertSecret(a) ==
    /\ At(a, "insertSecret")
    /\ nextSecret <= MaxSecrets
    /\ totp' = Append(totp, [secret |-> nextSecret, enabled |-> FALSE])
    /\ nextSecret' = nextSecret + 1
    /\ End(a)
    /\ UNCHANGED <<status, resetToken, proven, counters>>

(* EnableTOTP: a code of the first row's secret, which enables that row.    *)
EnableTOTP(a, code) ==
    /\ At(a, "idle")
    /\ Enrolled
    /\ totp[1].secret = code
    /\ proven' = proven \union {code}
    /\ req' = [req EXCEPT ![a] = [pc |-> "enableSecret", code |-> code, seen |-> "Active"]]
    /\ UNCHANGED <<status, totp, nextSecret, resetToken, counters>>

(* The update names the user instead of the row: not what the code does.    *)
EnableSecretOfUser(a) ==
    /\ At(a, "enableSecret")
    /\ totp' = [i \in DOMAIN totp |-> [totp[i] EXCEPT !.enabled = TRUE]]
    /\ End(a)
    /\ UNCHANGED <<status, nextSecret, resetToken, proven, counters>>

EnableSecret(a) ==
    /\ At(a, "enableSecret")
    /\ totp' = [i \in DOMAIN totp |->
                   [totp[i] EXCEPT !.enabled = @ \/ totp[i].secret = req[a].code]]
    /\ End(a)
    /\ UNCHANGED <<status, nextSecret, resetToken, proven, counters>>

(* UserTOTPDisable: the password is checked, and not counted.               *)
DisableTOTP(a) ==
    /\ Start(a, "deleteSecrets")
    /\ UNCHANGED <<account, counters>>

DeleteSecrets(a) ==
    /\ At(a, "deleteSecrets")
    /\ totp' = <<>>
    /\ End(a)
    /\ UNCHANGED <<status, nextSecret, resetToken, proven, counters>>

(* The key value store is the process's memory, which is the default.       *)
Restart ==
    /\ req' = [a \in Requests |-> Idle]
    /\ pwFails' = 0 /\ totpFails' = 0
    /\ disturbed' = FALSE
    /\ UNCHANGED <<account, excused>>

-----------------------------------------------------------------------------
(* What a client starts, and what a request that runs does next.            *)
Begin(a) ==
    \/ WrongPassword(a) \/ ChangePassword(a) \/ FindToken(a)
    \/ EnrollTOTP(a) \/ DisableTOTP(a)
    \/ \E code \in Codes : Login(a, code) \/ EnableTOTP(a, code)

Continue(a) ==
    \/ CountPassword(a) \/ ReadPassword(a) \/ ForgetWarned(a)
    \/ AskTOTP(a) \/ CheckTOTP(a)
    \/ CountTOTP(a) \/ ReadTOTP(a) \/ SendToken(a) \/ Disable(a)
    \/ ForgetTOTP(a) \/ ForgetPassword(a)
    \/ ReadRow(a) \/ WriteRow(a) \/ ResetPassword(a)
    \/ InsertSecret(a) \/ EnableSecret(a) \/ DeleteSecrets(a)

LoginsNext ==
    \/ \E a \in Requests : Begin(a) \/ Continue(a)
    \/ RequestToken \/ CleanUpTokens \/ Restart

LoginsSpec == LoginsInit /\ [][LoginsNext]_loginVars

(* A request that runs goes on: each has a goroutine of its own.            *)
LoginsFairSpec == LoginsSpec /\ \A a \in Requests : WF_loginVars(Continue(a))

-----------------------------------------------------------------------------
(* Every variable has its type; the ids of the rows of totp were given out. *)
LoginsTypeOK ==
    /\ status \in Statuses
    /\ totp \in Seq([secret : 1..MaxSecrets, enabled : BOOLEAN])
    /\ nextSecret \in 1..(MaxSecrets + 1)
    /\ pwFails \in 0..MaxPwFails /\ totpFails \in 0..MaxTOTPFails
    /\ resetToken \in BOOLEAN
    /\ req \in [Requests -> Request]
    /\ proven \subseteq 1..MaxSecrets
    /\ excused \in BOOLEAN /\ disturbed \in BOOLEAN

(* Once LockAt wrong passcodes are counted the account is locked, or a      *)
(* request is about to lock it, whatever ran beside it; unless since then   *)
(* the password was reset or the request that had to lock it failed         *)
(* (HandleFailedTOTPAuth).                                                  *)
LockedAtLimit ==
    totpFails >= LockAt =>
        \/ status = "Disabled"
        \/ excused
        \/ \E a \in Requests : req[a].pc \in {"readTOTP", "sendToken", "disable"}

(* The counter of failed passwords is below the limit of the warning while  *)
(* nobody handles a failure, so that the next failures do warn; unless two  *)
(* were counted side by side or a warning failed, after which it may have   *)
(* passed the limit for good (handleFailedPassword).                        *)
WarnedInTime ==
    ~disturbed /\ (\A a \in Requests : req[a].pc \notin Counting) => pwFails < WarnAt

(* A second factor is only asked for when a code of that very secret was    *)
(* shown, although secrets are disabled and enrolled anew between the check *)
(* of the code and the update (EnableTOTP).                                 *)
EnabledAsProven ==
    \A i \in DOMAIN totp : totp[i].enabled => totp[i].secret \in proven

(* No step makes an account wait for the confirmation of its address again, *)
(* though a change of the password writes back a status it read before      *)
(* (UpdateUserPassword).                                                    *)
StaysConfirmed ==
    [][status' = "EmailConfirmationRequired" => status = status']_loginVars

(* Every request that has LockAt wrong passcodes before it comes to lock    *)
(* the account: when the limit is passed, it is disabled in the end, or the *)
(* counter is started anew, or what excuses it has happened.                *)
LockedInTheEnd ==
    totpFails >= LockAt ~> (status = "Disabled" \/ excused \/ totpFails < LockAt)

=============================================================================

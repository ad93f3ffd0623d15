------------------------------ MODULE Sessions ------------------------------
(***************************************************************************)
(* The sessions of one account: auth.service.js, auth.controller.js and    *)
(* the credential fields and methods of user.model.js.  No handler touches *)
(* two accounts.                                                           *)
(*                                                                         *)
(* A browser holds a refresh token in a cookie; the account holds the hash *)
(* of the last one issued.  As in Tickets, a handler is a sequence of      *)
(* steps between awaits, its checks are made on a copy of the account, and *)
(* its save sends the fields that differ from the copy.                    *)
(*                                                                         *)
(* Left out: access tokens, which are not stored and outlive a logout by   *)
(* at most their 15 minutes; the expiry of refresh tokens after 7 days;    *)
(* lastLogin and the profile fields.                                       *)
(***************************************************************************)
EXTENDS Integers

CONSTANTS
    Passwords,        \* what a user may type or choose
    FirstPassword,    \* the password the account was created with
    RefreshTokens,    \* bound: the refresh tokens there are to draw
    ResetTokens,      \* bound: the password reset tokens there are to draw
    NoToken,          \* null in a token field
    Requests,         \* slots for the requests in flight at one time
    MaxAttempts,      \* MAX_ATTEMPTS
    LockDuration,     \* LOCK_DURATION, in ticks
    ResetDuration,    \* the hour a reset token lasts, in ticks
    MaxTime           \* bound: the last instant the clock shows

Never == 0
Times == Nat

\* The values of the account's fields.  A password stands for its bcrypt
\* hash and a token for its SHA-256.
FieldType ==
    [password            |-> Passwords,
     isActive            |-> BOOLEAN,
     refreshTokenHash    |-> RefreshTokens \cup {NoToken},
     failedLoginAttempts |-> Nat,
     lockUntil           |-> Times,
     passwordResetToken  |-> ResetTokens \cup {NoToken},
     passwordResetExpiry |-> Times]

Fields == DOMAIN FieldType

ASSUME TokensAssumption ==
    /\ NoToken \notin RefreshTokens \cup ResetTokens
    /\ RefreshTokens \cap ResetTokens = {}
ASSUME PasswordsAssumption == FirstPassword \in Passwords
ASSUME LimitsAssumption ==
    {MaxAttempts, LockDuration, ResetDuration, MaxTime} \subseteq Nat \ {0}

VARIABLES
    account,    \* the stored document
    req,        \* what each request in flight is doing
    drawn,      \* the tokens drawn so far, of both kinds
    cookies,    \* the refresh tokens browsers were sent
    mail,       \* the reset tokens the user was sent
    now,        \* the clock
    root,       \* history: the token of the login each refresh token descends from
    retired,    \* history: tokens that were stored and no longer are
    ended,      \* history: sessions, by root, that were ended or replaced
    misses      \* history: failed logins since the last success or reset, capped

vars == <<account, req, drawn, cookies, mail, now, root, retired, ended, misses>>
history == <<root, retired, ended, misses>>

-----------------------------------------------------------------------------
(* Documents.                                                              *)

Assign(a, set) == [f \in Fields |-> IF f \in DOMAIN set THEN set[f] ELSE a[f]]

\* The fields of "set" that differ from the copy.
Modified(copy, set) == [f \in {g \in DOMAIN set : set[g] # copy[g]} |-> set[f]]

\* What login loads and goes on with.
Copy(a) ==
    [password |-> a.password, failedLoginAttempts |-> a.failedLoginAttempts,
     lockUntil |-> a.lockUntil]

IsLocked(a) == a.lockUntil > now

\* Mutant: the lock is set and never read.
MayLogInWhenActive(a) == a.isActive

\* The checks of login ahead of the password.
MayLogIn(a) == a.isActive /\ ~IsLocked(a)

\* Mutant: one attempt too many.
IncFailedLoginsPast(a) ==
    LET n == a.failedLoginAttempts + 1
    IN  IF n > MaxAttempts THEN [failedLoginAttempts |-> n, lockUntil |-> now + LockDuration]
                           ELSE [failedLoginAttempts |-> n]

IncFailedLogins(a) ==
    LET n == a.failedLoginAttempts + 1
    IN  IF n >= MaxAttempts THEN [failedLoginAttempts |-> n, lockUntil |-> now + LockDuration]
                            ELSE [failedLoginAttempts |-> n]

\* Mutant: both fields are sent, changed or not.
ResetFailedLoginsBlindly(a) == [failedLoginAttempts |-> 0, lockUntil |-> Never]

ResetFailedLogins(a) == Modified(a, [failedLoginAttempts |-> 0, lockUntil |-> Never])

PasswordChangeAlone(p) == [password |-> p]    \* mutant

PasswordChange(p) == [password |-> p, refreshTokenHash |-> NoToken]

PasswordResetKeepsToken(p) ==                 \* mutant
    [password |-> p, refreshTokenHash |-> NoToken,
     failedLoginAttempts |-> 0, lockUntil |-> Never]

\* resetPassword loads none of these fields, so all of them are sent.
PasswordReset(p) ==
    [password |-> p, refreshTokenHash |-> NoToken,
     failedLoginAttempts |-> 0, lockUntil |-> Never,
     passwordResetToken |-> NoToken, passwordResetExpiry |-> Never]

ResetRequest(t) ==
    [passwordResetToken |-> t, passwordResetExpiry |-> now + ResetDuration]

ResetUndone == [passwordResetToken |-> NoToken, passwordResetExpiry |-> Never]

\* What _tokenPair stores; NoToken ends the session.
Session(t) == [refreshTokenHash |-> t]

\* Mutant: tokens signed in the same second are equal.
TokensWithoutJti == RefreshTokens

\* generateRefreshToken: the jti makes every token a new one.
NewRefreshTokens == RefreshTokens \ drawn

NewResetTokens == ResetTokens \ drawn

IsCurrent(t) == account.refreshTokenHash = t

Holds(a, resetToken) ==
    a.passwordResetToken = resetToken /\ a.passwordResetExpiry > now

-----------------------------------------------------------------------------
(* Requests in flight.  "phase" names the await a request is suspended at: *)
(* a handler's first query has the handler's name.                         *)

Idle == [phase |-> "idle"]

\* Suspended in a save by handler "by", or in the update of _tokenPair.
Saving(by, set) == [phase |-> "save", by |-> by, set |-> set]
SavingLogin(password, copy, set) ==
    [phase |-> "save", by |-> "login", set |-> set, password |-> password, copy |-> copy]
SavingReset(token, set) ==
    [phase |-> "save", by |-> "reset", set |-> set, token |-> token]
Storing(by, password, parent, token) ==
    [phase |-> "store", by |-> by, password |-> password, parent |-> parent,
     token |-> token]
NoPassword == "none"

Become(r, q) == req' = [req EXCEPT ![r] = q]

\* The database applies {$set: set}; what that does to sessions is noted.
Write(set, roots) ==
    LET old == account.refreshTokenHash
        new == Assign(account, set).refreshTokenHash
        session(t) == IF t = NoToken THEN NoToken ELSE roots[t]
    IN  /\ account' = Assign(account, set)
        /\ retired' = retired \cup ({old} \ {new, NoToken})
        /\ ended' = ended \cup ({session(old)} \ {session(new), NoToken})

\* _tokenPair up to its await.  Mutant: the response does not wait for it.
IssueUnstored(r, by, password, parent) ==
    \E t \in NewRefreshTokens :
        /\ Become(r, Storing(by, password, parent, t))
        /\ drawn' = drawn \cup {t}
        /\ cookies' = cookies \cup {t}

Issue(r, by, password, parent) ==
    \E t \in NewRefreshTokens :
        /\ Become(r, Storing(by, password, parent, t))
        /\ drawn' = drawn \cup {t}
        /\ UNCHANGED cookies

-----------------------------------------------------------------------------
(* The routes.  logout and changePassword ask for an access token, which   *)
(* browsers are sent with each cookie.                                     *)

Authenticated == cookies # {} /\ account.isActive

Arrive(r) ==
    /\ req[r] = Idle
    /\ \/ \E p \in Passwords : Become(r, [phase |-> "login", password |-> p])
       \/ \E t \in cookies : Become(r, [phase |-> "refresh", token |-> t])
       \/ Authenticated /\ Become(r, [phase |-> "logout"])
       \/ /\ Authenticated
          /\ \E p, new \in Passwords :
                Become(r, [phase |-> "change", password |-> p, new |-> new])
       \/ Become(r, [phase |-> "forgot"])
       \/ \E t \in mail, new \in Passwords :
              Become(r, [phase |-> "reset", token |-> t, new |-> new])
    /\ UNCHANGED <<account, drawn, cookies, mail, now, history>>

-----------------------------------------------------------------------------
(* The handlers, one action per stretch between two awaits.                *)

Login(r) ==
    LET q == req[r] IN
    /\ q.phase = "login"
    /\ IF MayLogIn(account)
       THEN Become(r, [phase |-> "compare", password |-> q.password, copy |-> Copy(account)])
       ELSE Become(r, Idle)
    /\ UNCHANGED <<account, drawn, cookies, mail, now, history>>

\* bcrypt has compared the password with the copy's.
LoginCompared(r) ==
    LET q == req[r] IN
    /\ q.phase = "compare"
    /\ IF q.password = q.copy.password
       THEN Become(r, SavingLogin(q.password, q.copy, ResetFailedLogins(q.copy)))
       ELSE Become(r, Saving("miss", IncFailedLogins(q.copy)))
    /\ UNCHANGED <<account, drawn, cookies, mail, now, history>>

\* resetFailedLogins (and updateLastLogin) are saved; _tokenPair begins.
LoginSaved(r) ==
    LET q == req[r] IN
    /\ q.phase = "save" /\ q.by = "login"
    /\ Write(q.set, root)
    /\ Issue(r, "login", q.password, NoToken)
    /\ misses' = 0
    /\ UNCHANGED <<mail, now, root>>

RefreshTokensOf(r) ==
    LET q == req[r] IN
    /\ q.phase = "refresh"
    /\ IF account.isActive /\ IsCurrent(q.token)
       THEN Issue(r, "refresh", NoPassword, q.token)
       ELSE /\ IF account.isActive /\ account.refreshTokenHash # NoToken
               THEN Become(r, Saving("reuse", Session(NoToken)))
               ELSE Become(r, Idle)
            /\ UNCHANGED <<drawn, cookies>>
    /\ UNCHANGED <<account, mail, now, history>>

\* The pair is stored, and the response sets the cookie - if it arrives.
TokenPairStored(r) ==
    LET q == req[r]
        first == IF q.parent = NoToken THEN q.token ELSE root[q.parent]
    IN
    /\ q.phase = "store"
    /\ root' = [root EXCEPT ![q.token] = first]
    /\ Write(Session(q.token), root')
    /\ cookies' \in {cookies, cookies \cup {q.token}}
    /\ Become(r, Idle)
    /\ UNCHANGED <<drawn, mail, now, misses>>

Logout(r) ==
    /\ req[r].phase = "logout"
    /\ Become(r, Saving("logout", Session(NoToken)))
    /\ UNCHANGED <<account, drawn, cookies, mail, now, history>>

ChangePassword(r) ==
    LET q == req[r] IN
    /\ q.phase = "change"
    /\ IF q.password = account.password
       THEN Become(r, Saving("change", PasswordChange(q.new)))
       ELSE Become(r, Idle)
    /\ UNCHANGED <<account, drawn, cookies, mail, now, history>>

ForgotPassword(r) ==
    /\ req[r].phase = "forgot"
    /\ \E t \in NewResetTokens :
          /\ Become(r, Saving("forgot", ResetRequest(t)))
          /\ drawn' = drawn \cup {t}
    /\ UNCHANGED <<account, cookies, mail, now, history>>

ForgotPasswordSaved(r) ==
    LET q == req[r] IN
    /\ q.phase = "save" /\ q.by = "forgot"
    /\ Write(q.set, root)
    /\ Become(r, [phase |-> "mail", token |-> q.set.passwordResetToken])
    /\ UNCHANGED <<drawn, cookies, mail, now, root, misses>>

\* The e-mail is sent, or it fails and the token is taken back.
ForgotPasswordMailed(r) ==
    LET q == req[r] IN
    /\ q.phase = "mail"
    /\ \/ Become(r, Idle) /\ mail' = mail \cup {q.token}
       \/ Become(r, Saving("unsent", ResetUndone)) /\ UNCHANGED mail
    /\ UNCHANGED <<account, drawn, cookies, now, history>>

ResetPassword(r) ==
    LET q == req[r] IN
    /\ q.phase = "reset"
    /\ IF Holds(account, q.token)
       THEN Become(r, SavingReset(q.token, PasswordReset(q.new)))
       ELSE Become(r, Idle)
    /\ UNCHANGED <<account, drawn, cookies, mail, now, history>>

\* The saves after which a handler only answers.
Saved(r) ==
    LET q == req[r] IN
    /\ q.phase = "save" /\ q.by \in {"miss", "reuse", "logout", "change", "unsent", "reset"}
    /\ Write(q.set, root)
    /\ Become(r, Idle)
    /\ misses' = IF q.by = "reset" THEN 0
                 ELSE IF q.by = "miss" /\ misses < MaxAttempts THEN misses + 1
                 ELSE misses
    /\ UNCHANGED <<drawn, cookies, mail, now, root>>

\* A database call is refused, or the process stops.
RequestFails(r) ==
    /\ req[r] # Idle
    /\ Become(r, Idle)
    /\ UNCHANGED <<account, drawn, cookies, mail, now, history>>

-----------------------------------------------------------------------------
(* The surroundings: user management, and the clock.                       *)

SetActive ==
    /\ \E active \in BOOLEAN : account' = Assign(account, [isActive |-> active])
    /\ UNCHANGED <<req, drawn, cookies, mail, now, history>>

Tick ==
    /\ now < MaxTime
    /\ now' = now + 1
    /\ UNCHANGED <<account, req, drawn, cookies, mail, history>>

-----------------------------------------------------------------------------

\* register, once it has created the account, ends as a login does.
Registering(t) == Storing("login", FirstPassword, NoToken, t)

\* The account was created by an administrator, or registers.
Init ==
    /\ account = [password |-> FirstPassword, isActive |-> TRUE,
                  refreshTokenHash |-> NoToken, failedLoginAttempts |-> 0,
                  lockUntil |-> Never, passwordResetToken |-> NoToken,
                  passwordResetExpiry |-> Never]
    /\ \/ req = [r \in Requests |-> Idle] /\ drawn = {}
       \/ \E r \in Requests, t \in RefreshTokens :
             /\ req = [s \in Requests |-> IF s = r THEN Registering(t) ELSE Idle]
             /\ drawn = {t}
    /\ cookies = {} /\ mail = {}
    /\ now = 1
    /\ root = [t \in RefreshTokens |-> NoToken]
    /\ retired = {} /\ ended = {} /\ misses = 0

Handle(r) ==
    \/ Login(r) \/ LoginCompared(r) \/ LoginSaved(r)
    \/ RefreshTokensOf(r) \/ TokenPairStored(r)
    \/ Logout(r) \/ ChangePassword(r)
    \/ ForgotPassword(r) \/ ForgotPasswordSaved(r) \/ ForgotPasswordMailed(r)
    \/ ResetPassword(r) \/ Saved(r)

Next ==
    \/ \E r \in Requests : Arrive(r) \/ Handle(r) \/ RequestFails(r)
    \/ SetActive
    \/ Tick

Spec == Init /\ [][Next]_vars

=============================================================================

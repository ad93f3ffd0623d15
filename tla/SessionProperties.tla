------------------------- MODULE SessionProperties -------------------------
(***************************************************************************)
(* What the sessions of an account promise.  The first part holds however  *)
(* the requests interleave; the second part until two of them overlap in   *)
(* one of the ways that can make the later save wrong.                     *)
(***************************************************************************)
EXTENDS Sessions

-----------------------------------------------------------------------------
(* Types.                                                                  *)

IsPatch(p) == DOMAIN p \subseteq Fields /\ \A f \in DOMAIN p : p[f] \in FieldType[f]

Copies == [password : Passwords, failedLoginAttempts : Nat, lockUntil : Times]

IsWaiting(q) ==
    \/ q \in [phase : {"login"}, password : Passwords]
    \/ q \in [phase : {"refresh"}, token : RefreshTokens]
    \/ q \in [phase : {"logout", "forgot"}]
    \/ q \in [phase : {"change"}, password : Passwords, new : Passwords]
    \/ q \in [phase : {"reset"}, token : ResetTokens, new : Passwords]

IsComparing(q) == q \in [phase : {"compare"}, password : Passwords, copy : Copies]

IsSaving(q) ==
    /\ q.phase = "save" /\ IsPatch(q.set)
    /\ \/ /\ q.by \in {"miss", "reuse", "logout", "change", "forgot", "unsent"}
          /\ q = Saving(q.by, q.set)
          /\ q.by = "forgot" => q.set.passwordResetToken \in ResetTokens
       \/ /\ q.by = "login" /\ q = SavingLogin(q.password, q.copy, q.set)
          /\ q.password \in Passwords /\ q.copy \in Copies
       \/ q.by = "reset" /\ q = SavingReset(q.token, q.set) /\ q.token \in ResetTokens

IsStoring(q) ==
    \/ q \in [phase : {"store"}, by : {"login"}, password : Passwords,
             parent : {NoToken}, token : RefreshTokens]
    \/ q \in [phase : {"store"}, by : {"refresh"}, password : {NoPassword},
             parent : RefreshTokens, token : RefreshTokens]

IsMailing(q) == q \in [phase : {"mail"}, token : ResetTokens]

IsRequest(q) ==
    q = Idle \/ IsWaiting(q) \/ IsComparing(q) \/ IsSaving(q) \/ IsStoring(q) \/ IsMailing(q)

\* Type invariant: the account keeps the schema's types, and every request in
\* flight carries what its next step needs.
TypeOK ==
    /\ IsPatch(account) /\ DOMAIN account = Fields
    /\ DOMAIN req = Requests /\ \A r \in Requests : IsRequest(req[r])
    /\ drawn \subseteq RefreshTokens \cup ResetTokens
    /\ cookies \subseteq RefreshTokens
    /\ mail \subseteq ResetTokens
    /\ now \in Nat \ {0}
    /\ root \in [RefreshTokens -> RefreshTokens \cup {NoToken}]
    /\ retired \subseteq RefreshTokens /\ ended \subseteq RefreshTokens
    /\ misses \in 0..MaxAttempts

-----------------------------------------------------------------------------
(* Whatever the interleaving.                                              *)

\* user.model.js: "Any reuse of a superseded token is rejected": a token that
\* was replaced or revoked is never the current one again, whatever refreshes,
\* logins and logouts cross.
SupersededTokensStayDead == account.refreshTokenHash \notin retired

\* "Token reuse detected": a cookie that is not the current token has been
\* one.  No browser is suspected for a token that was never stored.
MismatchMeansReuse == cookies \subseteq retired \cup {account.refreshTokenHash}

\* What a suspended handler is about to write keeps that so: a pair to be stored
\* holds a token nobody has seen and no other handler holds, every other save
\* leaves the hash alone or clears it, and only a login that saw a lock, or a
\* reset, clears one.
Pending(r, t) == req[r].phase = "store" /\ req[r].token = t

Unseen(t) ==
    /\ t \in drawn
    /\ t \notin retired \cup {account.refreshTokenHash}

MayClearLock(q) ==
    \/ q.by = "reset"
    \/ q.by = "login" /\ q.copy.lockUntil # Never

SavesFairly(q) ==
    q.phase = "save" =>
        /\ "refreshTokenHash" \in DOMAIN q.set => q.set.refreshTokenHash = NoToken
        /\ "lockUntil" \in DOMAIN q.set /\ q.set.lockUntil = Never => MayClearLock(q)

InFlightIsFresh ==
    /\ retired \cup {account.refreshTokenHash} \subseteq drawn \cup {NoToken}
    /\ \A r \in Requests : \A t \in RefreshTokens :
          Pending(r, t) => Unseen(t) /\ \A s \in Requests \ {r} : ~Pending(s, t)
    /\ \A r \in Requests : SavesFairly(req[r])

\* A lock in force is cleared by a password reset, or by a login that had
\* loaded a lock already over; a login that loaded the account before there was
\* one resets the counters it saw and leaves the lock alone.
LocksAreKept ==
    [][account.lockUntil > now /\ account'.lockUntil = Never =>
          \E r \in Requests :
              req[r].phase = "save" /\ req'[r] # req[r] /\ MayClearLock(req[r])]_vars

-----------------------------------------------------------------------------
(* Up to an overlap.  A handler loads, awaits and saves without asking     *)
(* whether what it goes by still holds: these are the pairs of requests    *)
(* that may then make each other wrong.                                    *)

SavesBy(q, handlers) == q.phase = "save" /\ q.by \in handlers

\* A login has loaded the account and not yet saved its counters.
IsCounting(q) == q.phase = "compare" \/ SavesBy(q, {"login", "miss"})

LoginsAlone ==
    \A a, b \in Requests : IsCounting(req[a]) /\ IsCounting(req[b]) => a = b

\* A login has loaded the account and not yet stored its tokens.
IsLoggingIn(q) ==
    q.phase = "compare" \/ SavesBy(q, {"login"}) \/ (q.phase = "store" /\ q.by = "login")

PasswordsRest ==
    \A a, b \in Requests :
        ~(IsLoggingIn(req[a]) /\ SavesBy(req[b], {"change", "reset"}))

\* A reset has found its token in force and not yet saved the password.
ResetsAlone ==
    \A a, b \in Requests :
        SavesBy(req[a], {"reset"}) /\ SavesBy(req[b], {"reset", "forgot", "unsent"}) => a = b

\* A reset link is being made, stored, sent or taken back.
IsSending(q) == q.phase = "mail" \/ SavesBy(q, {"forgot", "unsent"})

LinksAlone ==
    \A a, b \in Requests : IsSending(req[a]) /\ IsSending(req[b]) => a = b

\* A refresh has found its token current and not yet stored the next one.
IsRefreshing(q) == q.phase = "store" /\ q.by = "refresh"

SetsHash(q) ==
    q.phase = "store" \/ SavesBy(q, {"reuse", "logout", "change", "reset"})

RefreshesAlone ==
    \A a, b \in Requests : IsRefreshing(req[a]) /\ SetsHash(req[b]) => a = b

Apart == LoginsAlone /\ PasswordsRest /\ ResetsAlone /\ LinksAlone /\ RefreshesAlone

\* Whether there has been an overlap.
VARIABLE crossed

WatchedInit == Init /\ crossed = ~Apart

WatchedNext == Next /\ crossed' = (crossed \/ ~Apart')

WatchedSpec == WatchedInit /\ [][WatchedNext]_<<vars, crossed>>

\* As many failures as that since the last success or reset, and a lock has
\* been set.
FailuresLocked == misses >= MaxAttempts => account.lockUntil # Never

\* "Account lockout after 5 failed login attempts", unless requests that
\* crossed made failures count as one.
LocksAfterFailures == ~crossed => FailuresLocked

\* The request whose pair is stored by this step.
Stores(r) == req[r].phase = "store" /\ account'.refreshTokenHash = req[r].token

\* The request whose login is accepted by this step, its counters reset.
Accepts(r) ==
    req[r].phase = "save" /\ req[r].by = "login" /\ req'[r].phase = "store"

LoginStep ==
    \A r \in Requests :
        /\ Accepts(r) => account.lockUntil <= now
        /\ Stores(r) /\ req[r].by = "login" => req[r].password = account.password

\* A login is accepted only while the account is not locked, and its pair is
\* stored only while the password it gave is the account's, whatever other
\* requests were served since it loaded the account, unless two crossed.
LoginsAreCurrent == [][~crossed => LoginStep]_vars

ResetStep ==
    \A r \in Requests :
        /\ req[r].phase = "save" /\ req[r].by = "reset"
        /\ req'[r] # req[r] /\ account' # account
        => /\ account.passwordResetToken = req[r].token
           /\ account'.passwordResetToken # req[r].token

\* A reset token changes the account once: it is the one in force when it does,
\* and no longer after, unless requests crossed.
ResetTokensWorkOnce == [][~crossed => ResetStep]_vars

LinkStep ==
    account.passwordResetToken \in mail
        /\ account'.passwordResetToken # account.passwordResetToken
        => \E r \in Requests :
              /\ req'[r] # req[r] /\ req[r].phase = "save"
              /\ \/ req[r].by = "reset" /\ req[r].token = account.passwordResetToken
                 \/ req[r].by = "forgot"

\* A reset link that was sent is replaced or taken back only by the reset it
\* is used for or by a newer request for a link, which overwrites it; a failed
\* e-mail takes its own link back, and no login, logout or change of the
\* password touches one.  Requests for links that cross can do worse.
SentResetTokensStand == [][LinkStep]_vars

Live == IF account.refreshTokenHash = NoToken THEN NoToken
                                              ELSE root[account.refreshTokenHash]

Owner == INSTANCE SessionLifecycle
    WITH Sessions <- RefreshTokens, NoSession <- NoToken, live <- Live,
         password <- account.password

OwnerBar == <<Live, ended, account.password>>

\* Logging in, refreshing, logging out and changing the password are the
\* transitions their owner expects, and a refresh is none, until requests cross.
ImplementsSessions ==
    Owner!Init /\ [][~crossed => Owner!Next]_OwnerBar

\* auth.service.js: once the hash is null, "all sessions have been invalidated
\* (logout / password change / token-theft response)": a session that was ended
\* or replaced is not the current one again.
EndedSessionsStayEnded == Live \notin ended

=============================================================================

--------------------------- MODULE SessionsProofs ---------------------------
(***************************************************************************)
(* Proofs about the sessions of an account, for any number of requests in  *)
(* flight, tokens, passwords and login attempts.                           *)
(***************************************************************************)
EXTENDS SessionProperties, TLAPS

-----------------------------------------------------------------------------
(* Documents.                                                              *)

IsAccount(a) == IsPatch(a) /\ DOMAIN a = Fields

\* The fields of an account and their types.
LEMMA FieldTypes ==
    /\ Fields = {"password", "isActive", "refreshTokenHash", "failedLoginAttempts",
                 "lockUntil", "passwordResetToken", "passwordResetExpiry"}
    /\ FieldType.password = Passwords
    /\ FieldType.isActive = BOOLEAN
    /\ FieldType.refreshTokenHash = RefreshTokens \cup {NoToken}
    /\ FieldType.failedLoginAttempts = Nat
    /\ FieldType.lockUntil = Nat
    /\ FieldType.passwordResetToken = ResetTokens \cup {NoToken}
    /\ FieldType.passwordResetExpiry = Nat
  BY DEF Fields, FieldType, Times

\* An account has these fields, and each has its type.
LEMMA AccountFields ==
    ASSUME NEW a, IsAccount(a)
    PROVE  /\ a.password \in Passwords
           /\ a.isActive \in BOOLEAN
           /\ a.refreshTokenHash \in RefreshTokens \cup {NoToken}
           /\ a.failedLoginAttempts \in Nat
           /\ a.lockUntil \in Nat
           /\ a.passwordResetToken \in ResetTokens \cup {NoToken}
           /\ a.passwordResetExpiry \in Nat
<1>1. \A f \in Fields : a[f] \in FieldType[f]
  BY DEF IsAccount, IsPatch
<1> QED
  BY <1>1, FieldTypes

\* Assigning a patch to an account gives an account.
LEMMA AssignType ==
    ASSUME NEW a, IsAccount(a), NEW p, IsPatch(p)
    PROVE  IsAccount(Assign(a, p))
  BY DEF IsAccount, IsPatch, Assign

\* What save() sends of a patch is a patch.
LEMMA ModifiedType ==
    ASSUME NEW copy, NEW p, IsPatch(p)
    PROVE  IsPatch(Modified(copy, p))
  BY DEF IsPatch, Modified

\* What a login goes on with.
LEMMA CopyType ==
    ASSUME NEW a, IsAccount(a)
    PROVE  Copy(a) \in Copies
  BY AccountFields DEF Copy, Copies, Times

\* The patches of the handlers are patches.
LEMMA PatchTypes ==
    /\ \A t \in RefreshTokens \cup {NoToken} : IsPatch(Session(t))
    /\ \A p \in Passwords : IsPatch(PasswordChange(p)) /\ IsPatch(PasswordReset(p))
    /\ now \in Nat => \A t \in ResetTokens : IsPatch(ResetRequest(t))
    /\ IsPatch(ResetUndone)
<1>1. ASSUME NEW t \in RefreshTokens \cup {NoToken}
      PROVE  IsPatch(Session(t))
  BY FieldTypes DEF IsPatch, Session
<1>2. ASSUME NEW p \in Passwords
      PROVE  IsPatch(PasswordChange(p))
  BY FieldTypes DEF IsPatch, PasswordChange
<1>3. ASSUME NEW p \in Passwords
      PROVE  IsPatch(PasswordReset(p))
  BY FieldTypes DEF IsPatch, PasswordReset, Never
<1>4. ASSUME now \in Nat, NEW t \in ResetTokens
      PROVE  IsPatch(ResetRequest(t))
  <2>1. now + ResetDuration \in Nat
    BY <1>4, LimitsAssumption
  <2> QED
    BY <2>1, FieldTypes DEF IsPatch, ResetRequest
<1>5. IsPatch(ResetUndone)
  BY FieldTypes DEF IsPatch, ResetUndone, Never
<1> QED
  BY <1>1, <1>2, <1>3, <1>4, <1>5

\* So are those of a login, from the copy it was loaded with.
LEMMA LoginPatchTypes ==
    ASSUME NEW copy \in Copies, now \in Nat
    PROVE  IsPatch(IncFailedLogins(copy)) /\ IsPatch(ResetFailedLogins(copy))
<1> DEFINE n == copy.failedLoginAttempts + 1
           locked == [failedLoginAttempts |-> n, lockUntil |-> now + LockDuration]
           counted == [failedLoginAttempts |-> n]
           reset == [failedLoginAttempts |-> 0, lockUntil |-> Never]
<1>1. n \in Nat /\ now + LockDuration \in Nat
  BY LimitsAssumption DEF Copies
<1>2. IsPatch(locked)
  <2> HIDE DEF n
  <2> QED
    BY <1>1, FieldTypes DEF IsPatch
<1>3. IsPatch(counted)
  <2> HIDE DEF n
  <2> QED
    BY <1>1, FieldTypes DEF IsPatch
<1>4. IncFailedLogins(copy) \in {locked, counted}
  BY DEF IncFailedLogins
<1>5. IsPatch(reset)
  BY FieldTypes DEF IsPatch, Never
<1>6. ResetFailedLogins(copy) = Modified(copy, reset)
  BY DEF ResetFailedLogins
<1>7. IsPatch(ResetFailedLogins(copy))
  <2> HIDE DEF reset
  <2> QED
    BY <1>5, <1>6, ModifiedType
<1> QED
  <2> HIDE DEF locked, counted
  <2> QED
    BY <1>2, <1>3, <1>4, <1>7

-----------------------------------------------------------------------------
(* Type correctness.                                                       *)

\* The phase of a request tells its shape.
LEMMA RequestShape ==
    ASSUME NEW q, IsRequest(q)
    PROVE  /\ q.phase = "login" => q.password \in Passwords
           /\ q.phase = "compare" => q.password \in Passwords /\ q.copy \in Copies
           /\ q.phase = "refresh" => q.token \in RefreshTokens
           /\ q.phase = "change" => q.password \in Passwords /\ q.new \in Passwords
           /\ q.phase = "reset" => q.token \in ResetTokens /\ q.new \in Passwords
           /\ q.phase = "mail" => q.token \in ResetTokens
           /\ q.phase = "store" => IsStoring(q)
           /\ q.phase = "save" => IsSaving(q)
  BY DEF IsRequest, IsWaiting, IsComparing, IsSaving, IsStoring, IsMailing, Idle

\* What a pair to be stored is made of.
LEMMA StoringShape ==
    ASSUME NEW q, IsStoring(q)
    PROVE  q.token \in RefreshTokens /\ q.parent \in RefreshTokens \cup {NoToken}
  BY DEF IsStoring

\* A save to come is well formed.
LEMMA SavingType ==
    ASSUME NEW set, IsPatch(set)
    PROVE  /\ \A by \in {"miss", "reuse", "logout", "change", "unsent"} :
                 IsRequest(Saving(by, set))
           /\ \A p \in Passwords, copy \in Copies : IsRequest(SavingLogin(p, copy, set))
           /\ \A t \in ResetTokens : IsRequest(SavingReset(t, set))
<1>1. ASSUME NEW by \in {"miss", "reuse", "logout", "change", "unsent"}
      PROVE  IsRequest(Saving(by, set))
  BY <1>1 DEF IsRequest, IsSaving, Saving
<1>2. ASSUME NEW p \in Passwords, NEW copy \in Copies
      PROVE  IsRequest(SavingLogin(p, copy, set))
  BY <1>2 DEF IsRequest, IsSaving, SavingLogin
<1>3. ASSUME NEW t \in ResetTokens
      PROVE  IsRequest(SavingReset(t, set))
  BY <1>3 DEF IsRequest, IsSaving, SavingReset
<1> QED
  BY <1>1, <1>2, <1>3

\* A pair to be stored is well formed.
LEMMA StoringType ==
    ASSUME NEW t \in RefreshTokens
    PROVE  /\ \A p \in Passwords : IsRequest(Storing("login", p, NoToken, t))
           /\ \A parent \in RefreshTokens :
                 IsRequest(Storing("refresh", NoPassword, parent, t))
  BY DEF IsRequest, IsStoring, Storing

\* A step that moves one request on and leaves the rest well typed.
LEMMA TypeStep ==
    ASSUME TypeOK, NEW r \in Requests, NEW q, Become(r, q), IsRequest(q),
           IsAccount(account)', (drawn \subseteq RefreshTokens \cup ResetTokens)',
           (cookies \subseteq RefreshTokens)', (mail \subseteq ResetTokens)', UNCHANGED now,
           (root \in [RefreshTokens -> RefreshTokens \cup {NoToken}])',
           (retired \subseteq RefreshTokens)', (ended \subseteq RefreshTokens)',
           (misses \in 0..MaxAttempts)'
    PROVE  TypeOK'
<1>1. \A x \in Requests : IsRequest(req'[x])
  BY DEF TypeOK, Become
<1>2. DOMAIN req' = Requests
  BY DEF TypeOK, Become
<1>3. \A x \in Requests : IsRequest(req[x])'
  BY <1>1
<1> QED
  BY <1>2, <1>3 DEF TypeOK, IsAccount

\* The case in which a handler writes nothing.
LEMMA TypeQuietStep ==
    ASSUME TypeOK, NEW r \in Requests, NEW q, Become(r, q), IsRequest(q),
           UNCHANGED <<account, now, history>>,
           (drawn \subseteq RefreshTokens \cup ResetTokens)',
           (cookies \subseteq RefreshTokens)', (mail \subseteq ResetTokens)'
    PROVE  TypeOK'
  BY TypeStep DEF TypeOK, IsAccount, history

\* A write leaves an account, and notes sessions and tokens.
LEMMA WriteType ==
    ASSUME TypeOK, NEW set, IsPatch(set),
           NEW roots \in [RefreshTokens -> RefreshTokens \cup {NoToken}], Write(set, roots)
    PROVE  /\ IsAccount(account)'
           /\ (retired \subseteq RefreshTokens)'
           /\ (ended \subseteq RefreshTokens)'
<1> DEFINE old == account.refreshTokenHash
           new == Assign(account, set).refreshTokenHash
           session(t) == IF t = NoToken THEN NoToken ELSE roots[t]
<1>1. IsAccount(account) /\ IsAccount(Assign(account, set))
  BY AssignType DEF TypeOK, IsAccount
<1>2. old \in RefreshTokens \cup {NoToken} /\ new \in RefreshTokens \cup {NoToken}
  BY <1>1, AccountFields
<1>3. session(old) \in RefreshTokens \cup {NoToken}
  BY <1>2
<1>4. /\ account' = Assign(account, set)
      /\ retired' = retired \cup ({old} \ {new, NoToken})
      /\ ended' = ended \cup ({session(old)} \ {session(new), NoToken})
  BY DEF Write
<1>5. IsAccount(account)'
  BY <1>1, <1>4 DEF IsAccount
<1> QED
  BY <1>2, <1>3, <1>4, <1>5 DEF TypeOK

\* _tokenPair up to its await is well typed.
LEMMA IssueType ==
    ASSUME TypeOK, NEW r \in Requests, NEW by, NEW password, NEW parent,
           Issue(r, by, password, parent),
           \A t \in RefreshTokens : IsRequest(Storing(by, password, parent, t))
    PROVE  /\ (drawn \subseteq RefreshTokens \cup ResetTokens)'
           /\ (cookies \subseteq RefreshTokens)'
           /\ \E q : Become(r, q) /\ IsRequest(q)
  BY DEF Issue, NewRefreshTokens, TypeOK

\* The initial states are well typed.
LEMMA InitType == Init => TypeOK
<1> SUFFICES ASSUME Init
             PROVE  TypeOK
  OBVIOUS
<1>1. IsAccount(account)
  <2> DEFINE a == [password |-> FirstPassword, isActive |-> TRUE,
                   refreshTokenHash |-> NoToken, failedLoginAttempts |-> 0,
                   lockUntil |-> Never, passwordResetToken |-> NoToken,
                   passwordResetExpiry |-> Never]
  <2>1. DOMAIN a = Fields
    BY FieldTypes
  <2>2. /\ a.password \in Passwords /\ a.isActive \in BOOLEAN
        /\ a.refreshTokenHash \in RefreshTokens \cup {NoToken}
        /\ a.failedLoginAttempts \in Nat /\ a.lockUntil \in Nat
        /\ a.passwordResetToken \in ResetTokens \cup {NoToken}
        /\ a.passwordResetExpiry \in Nat
    BY PasswordsAssumption DEF Never
  <2>3. account = a
    BY DEF Init
  <2> HIDE DEF a
  <2> QED
    BY <2>1, <2>2, <2>3, FieldTypes DEF IsAccount, IsPatch
<1>2. DOMAIN req = Requests /\ \A r \in Requests : IsRequest(req[r])
  BY StoringType, PasswordsAssumption DEF Init, Registering, IsRequest
<1>3. drawn \subseteq RefreshTokens \cup ResetTokens
  BY DEF Init
<1> QED
  BY <1>1, <1>2, <1>3, LimitsAssumption DEF Init, TypeOK, IsAccount

\* So is what a handler, the users' administration or the clock does next.
LEMMA NextType == TypeOK /\ [Next]_vars => TypeOK'
<1> SUFFICES ASSUME TypeOK, [Next]_vars
             PROVE  TypeOK'
  OBVIOUS
<1> USE DEF history
<1>a. IsAccount(account) /\ now \in Nat /\ IsRequest(Idle)
  BY DEF TypeOK, IsAccount, IsRequest
<1>1. ASSUME NEW r \in Requests, Arrive(r)
      PROVE  TypeOK'
  <2>1. CASE \E p \in Passwords : Become(r, [phase |-> "login", password |-> p])
    <3>1. \A p \in Passwords : IsRequest([phase |-> "login", password |-> p])
      BY DEF IsRequest, IsWaiting
    <3> QED
      BY <1>1, <2>1, <3>1, TypeQuietStep DEF Arrive, TypeOK
  <2>2. CASE \E t \in cookies : Become(r, [phase |-> "refresh", token |-> t])
    <3>1. \A t \in cookies : IsRequest([phase |-> "refresh", token |-> t])
      BY DEF IsRequest, IsWaiting, TypeOK
    <3> QED
      BY <1>1, <2>2, <3>1, TypeQuietStep DEF Arrive, TypeOK
  <2>3. CASE Become(r, [phase |-> "logout"]) \/ Become(r, [phase |-> "forgot"])
    <3>1. IsRequest([phase |-> "logout"]) /\ IsRequest([phase |-> "forgot"])
      BY DEF IsRequest, IsWaiting
    <3> QED
      BY <1>1, <2>3, <3>1, TypeQuietStep DEF Arrive, TypeOK
  <2>4. CASE \E p, new \in Passwords :
                Become(r, [phase |-> "change", password |-> p, new |-> new])
    <3>1. \A p, new \in Passwords : IsRequest([phase |-> "change", password |-> p, new |-> new])
      BY DEF IsRequest, IsWaiting
    <3> QED
      BY <1>1, <2>4, <3>1, TypeQuietStep DEF Arrive, TypeOK
  <2>5. CASE \E t \in mail, new \in Passwords :
                Become(r, [phase |-> "reset", token |-> t, new |-> new])
    <3>1. \A t \in mail, new \in Passwords : IsRequest([phase |-> "reset", token |-> t, new |-> new])
      BY DEF IsRequest, IsWaiting, TypeOK
    <3> QED
      BY <1>1, <2>5, <3>1, TypeQuietStep DEF Arrive, TypeOK
  <2> QED
    BY <1>1, <2>1, <2>2, <2>3, <2>4, <2>5 DEF Arrive
<1>2. ASSUME NEW r \in Requests, Login(r)
      PROVE  TypeOK'
  <2> DEFINE q    == req[r]
             next == [phase |-> "compare", password |-> q.password, copy |-> Copy(account)]
  <2>1. q.password \in Passwords
    BY <1>2, RequestShape DEF Login, TypeOK
  <2>2. IsRequest(next)
    BY <1>a, <2>1, CopyType DEF IsRequest, IsComparing
  <2> QED
    BY <1>2, <1>a, <2>2, TypeQuietStep DEF Login, TypeOK
<1>3. ASSUME NEW r \in Requests, LoginCompared(r)
      PROVE  TypeOK'
  <2> DEFINE q == req[r]
  <2>1. q.password \in Passwords /\ q.copy \in Copies
    BY <1>3, RequestShape DEF LoginCompared, TypeOK
  <2>2. /\ IsRequest(SavingLogin(q.password, q.copy, ResetFailedLogins(q.copy)))
        /\ IsRequest(Saving("miss", IncFailedLogins(q.copy)))
    BY <1>a, <2>1, LoginPatchTypes, SavingType
  <2> QED
    BY <1>3, <2>2, TypeQuietStep DEF LoginCompared, TypeOK
<1>4. ASSUME NEW r \in Requests, LoginSaved(r)
      PROVE  TypeOK'
  <2> DEFINE q == req[r]
  <2>1. IsPatch(q.set) /\ q.password \in Passwords
    BY <1>4, RequestShape DEF LoginSaved, TypeOK, IsSaving
  <2>2. Write(q.set, root) /\ Issue(r, "login", q.password, NoToken)
    BY <1>4 DEF LoginSaved
  <2>3. IsAccount(account)' /\ (retired \subseteq RefreshTokens)' /\ (ended \subseteq RefreshTokens)'
    BY <2>1, <2>2, WriteType DEF TypeOK
  <2>4. /\ (drawn \subseteq RefreshTokens \cup ResetTokens)'
        /\ (cookies \subseteq RefreshTokens)'
        /\ \E p : Become(r, p) /\ IsRequest(p)
    BY <2>1, <2>2, StoringType, IssueType
  <2>5. (misses \in 0..MaxAttempts)'
    BY <1>4, LimitsAssumption DEF LoginSaved
  <2> QED
    BY <1>4, <2>3, <2>4, <2>5, TypeStep DEF LoginSaved, TypeOK
<1>5. ASSUME NEW r \in Requests, RefreshTokensOf(r)
      PROVE  TypeOK'
  <2> DEFINE q == req[r]
  <2>1. q.token \in RefreshTokens
    BY <1>5, RequestShape DEF RefreshTokensOf, TypeOK
  <2>2. UNCHANGED <<account, mail, now, history>>
    BY <1>5 DEF RefreshTokensOf
  <2>3. CASE Issue(r, "refresh", NoPassword, q.token)
    <3>1. /\ (drawn \subseteq RefreshTokens \cup ResetTokens)'
          /\ (cookies \subseteq RefreshTokens)'
          /\ \E p : Become(r, p) /\ IsRequest(p)
      BY <2>1, <2>3, StoringType, IssueType
    <3> QED
      BY <2>2, <3>1, TypeQuietStep DEF TypeOK
  <2>4. CASE /\ Become(r, Saving("reuse", Session(NoToken))) \/ Become(r, Idle)
             /\ UNCHANGED <<drawn, cookies>>
    <3>1. IsRequest(Saving("reuse", Session(NoToken)))
      BY PatchTypes, SavingType
    <3> QED
      BY <1>a, <2>2, <2>4, <3>1, TypeQuietStep DEF TypeOK
  <2> QED
    BY <1>5, <2>3, <2>4 DEF RefreshTokensOf
<1>6. ASSUME NEW r \in Requests, TokenPairStored(r)
      PROVE  TypeOK'
  <2> DEFINE q     == req[r]
             first == IF q.parent = NoToken THEN q.token ELSE root[q.parent]
  <2>1. q.token \in RefreshTokens /\ q.parent \in RefreshTokens \cup {NoToken}
    BY <1>6, RequestShape, StoringShape DEF TokenPairStored, TypeOK
  <2>2. root' \in [RefreshTokens -> RefreshTokens \cup {NoToken}]
    <3>1. first \in RefreshTokens \cup {NoToken}
      BY <2>1 DEF TypeOK
    <3>2. root' = [root EXCEPT ![q.token] = first]
      BY <1>6 DEF TokenPairStored
    <3> QED
      BY <3>1, <3>2 DEF TypeOK
  <2>3. IsPatch(Session(q.token))
    BY <2>1, PatchTypes
  <2>4. IsAccount(account)' /\ (retired \subseteq RefreshTokens)' /\ (ended \subseteq RefreshTokens)'
    BY <1>6, <2>2, <2>3, WriteType DEF TokenPairStored
  <2>5. (cookies \subseteq RefreshTokens)'
    BY <1>6, <2>1 DEF TokenPairStored, TypeOK
  <2> QED
    BY <1>6, <1>a, <2>2, <2>4, <2>5, TypeStep DEF TokenPairStored, TypeOK
<1>7. ASSUME NEW r \in Requests, Logout(r)
      PROVE  TypeOK'
  BY <1>7, PatchTypes, SavingType, TypeQuietStep DEF Logout, TypeOK
<1>8. ASSUME NEW r \in Requests, ChangePassword(r)
      PROVE  TypeOK'
  <2>1. req[r].new \in Passwords
    BY <1>8, RequestShape DEF ChangePassword, TypeOK
  <2>2. IsRequest(Saving("change", PasswordChange(req[r].new)))
    BY <2>1, PatchTypes, SavingType
  <2> QED
    BY <1>8, <1>a, <2>2, TypeQuietStep DEF ChangePassword, TypeOK
<1>9. ASSUME NEW r \in Requests, ForgotPassword(r)
      PROVE  TypeOK'
  <2>1. PICK t \in NewResetTokens :
           Become(r, Saving("forgot", ResetRequest(t))) /\ drawn' = drawn \cup {t}
    BY <1>9 DEF ForgotPassword
  <2>2. t \in ResetTokens /\ IsPatch(ResetRequest(t))
    BY <1>a, PatchTypes DEF NewResetTokens
  <2>3. ResetRequest(t).passwordResetToken \in ResetTokens
    BY <2>2 DEF ResetRequest
  <2>4. IsRequest(Saving("forgot", ResetRequest(t)))
    BY <2>2, <2>3 DEF IsRequest, IsSaving, Saving
  <2> QED
    BY <1>9, <2>1, <2>2, <2>4, TypeQuietStep DEF ForgotPassword, TypeOK
<1>10. ASSUME NEW r \in Requests, ForgotPasswordSaved(r)
       PROVE  TypeOK'
  <2> DEFINE q    == req[r]
             next == [phase |-> "mail", token |-> q.set.passwordResetToken]
  <2>1. IsPatch(q.set) /\ q.set.passwordResetToken \in ResetTokens
    BY <1>10, RequestShape DEF ForgotPasswordSaved, TypeOK, IsSaving
  <2>2. IsRequest(next)
    BY <2>1 DEF IsRequest, IsMailing
  <2>3. IsAccount(account)' /\ (retired \subseteq RefreshTokens)' /\ (ended \subseteq RefreshTokens)'
    BY <1>10, <2>1, WriteType DEF ForgotPasswordSaved, TypeOK
  <2> QED
    BY <1>10, <2>2, <2>3, TypeStep DEF ForgotPasswordSaved, TypeOK
<1>11. ASSUME NEW r \in Requests, ForgotPasswordMailed(r)
       PROVE  TypeOK'
  <2>1. req[r].token \in ResetTokens
    BY <1>11, RequestShape DEF ForgotPasswordMailed, TypeOK
  <2>2. IsRequest(Saving("unsent", ResetUndone))
    BY PatchTypes, SavingType
  <2> QED
    BY <1>11, <1>a, <2>1, <2>2, TypeQuietStep DEF ForgotPasswordMailed, TypeOK
<1>12. ASSUME NEW r \in Requests, ResetPassword(r)
       PROVE  TypeOK'
  <2> DEFINE q == req[r]
  <2>1. q.token \in ResetTokens /\ q.new \in Passwords
    BY <1>12, RequestShape DEF ResetPassword, TypeOK
  <2>2. IsRequest(SavingReset(q.token, PasswordReset(q.new)))
    BY <2>1, PatchTypes, SavingType
  <2> QED
    BY <1>12, <1>a, <2>2, TypeQuietStep DEF ResetPassword, TypeOK
<1>13. ASSUME NEW r \in Requests, Saved(r)
       PROVE  TypeOK'
  <2>1. IsPatch(req[r].set)
    BY <1>13, RequestShape DEF Saved, TypeOK, IsSaving
  <2>2. IsAccount(account)' /\ (retired \subseteq RefreshTokens)' /\ (ended \subseteq RefreshTokens)'
    BY <1>13, <2>1, WriteType DEF Saved, TypeOK
  <2>3. (misses \in 0..MaxAttempts)'
    BY <1>13, LimitsAssumption DEF Saved, TypeOK
  <2> QED
    BY <1>13, <1>a, <2>2, <2>3, TypeStep DEF Saved, TypeOK
<1>14. ASSUME NEW r \in Requests, RequestFails(r)
       PROVE  TypeOK'
  BY <1>14, <1>a, TypeQuietStep DEF RequestFails, TypeOK
<1>15. CASE SetActive
  <2>1. PICK active \in BOOLEAN : account' = Assign(account, [isActive |-> active])
    BY <1>15 DEF SetActive
  <2>2. IsPatch([isActive |-> active])
    BY FieldTypes DEF IsPatch
  <2>3. IsAccount(account)'
    BY <1>a, <2>1, <2>2, AssignType DEF IsAccount
  <2> QED
    BY <1>15, <2>3 DEF SetActive, TypeOK, IsAccount
<1>16. CASE Tick
  BY <1>16 DEF Tick, TypeOK
<1>17. CASE UNCHANGED vars
  BY <1>17 DEF vars, TypeOK
<1> QED
  BY <1>1, <1>2, <1>3, <1>4, <1>5, <1>6, <1>7, <1>8, <1>9, <1>10, <1>11, <1>12,
     <1>13, <1>14, <1>15, <1>16, <1>17 DEF Next, Handle

\* Type correctness: however requests interleave, the account keeps to the schema
\* and every suspended handler has what its next step reads.
THEOREM SessionsTypeCorrect == Spec => []TypeOK
  BY InitType, NextType, PTL DEF Spec

-----------------------------------------------------------------------------
(* Tokens and locks.                                                       *)

\* The inductive invariant.
IInv == TypeOK /\ InFlightIsFresh /\ SupersededTokensStayDead /\ MismatchMeansReuse

Hash == account.refreshTokenHash

\* The stored hash is a token of the right kind, or none.
LEMMA HashType ==
    ASSUME TypeOK
    PROVE  Hash \in RefreshTokens \cup {NoToken}
  BY AccountFields DEF TypeOK, IsAccount, Hash

\* The initial states.
LEMMA InitIInv == Init => IInv
<1> SUFFICES ASSUME Init
             PROVE  IInv
  OBVIOUS
<1>1. TypeOK
  BY InitType
<1>2. Hash = NoToken /\ retired = {} /\ cookies = {}
  BY DEF Init, Hash
<1>3. \A r \in Requests : SavesFairly(req[r])
  BY DEF Init, Idle, Registering, Storing, SavesFairly
<1>4. \A r \in Requests : \A t \in RefreshTokens :
         Pending(r, t) => t \in drawn /\ \A s \in Requests \ {r} : ~Pending(s, t)
  BY DEF Init, Idle, Registering, Storing, Pending
<1> QED
  BY <1>1, <1>2, <1>3, <1>4, TokensAssumption
     DEF IInv, InFlightIsFresh, Unseen, SupersededTokensStayDead, MismatchMeansReuse, Hash

\* A write that leaves the hash alone or clears it retires the token there was.
LEMMA ClearingWrite ==
    ASSUME TypeOK, NEW set, IsPatch(set), NEW roots, Write(set, roots),
           "refreshTokenHash" \in DOMAIN set => set.refreshTokenHash = NoToken
    PROVE  /\ Hash' \in {Hash, NoToken}
           /\ retired' = retired \cup ({Hash} \ {Hash', NoToken})
<1>1. account' = Assign(account, set)
  BY DEF Write
<1>2. Hash' = Assign(account, set).refreshTokenHash
  BY <1>1 DEF Hash
<1>3. Hash' = IF "refreshTokenHash" \in DOMAIN set THEN set.refreshTokenHash
                                                   ELSE Hash
  BY <1>2, FieldTypes DEF Assign, Hash
<1> QED
  BY <1>2, <1>3 DEF Write, Hash

\* A step that moves one request on, draws new tokens only for it, and leaves
\* the hash alone or clears it.
LEMMA FreshStep ==
    ASSUME IInv, TypeOK', NEW r \in Requests, NEW q, Become(r, q), SavesFairly(q),
           Hash' \in {Hash, NoToken},
           retired' = retired \cup ({Hash} \ {Hash', NoToken}),
           drawn \subseteq drawn', UNCHANGED cookies,
           q.phase = "store" => q.token \in drawn' \ drawn
    PROVE  IInv'
<1>1. \A x \in Requests : req'[x] = IF x = r THEN q ELSE req[x]
  BY DEF IInv, TypeOK, Become
<1>2. \A x \in Requests : SavesFairly(req'[x])
  BY <1>1 DEF IInv, InFlightIsFresh
<1>3. retired \cup {Hash} \subseteq drawn \cup {NoToken}
  BY DEF IInv, InFlightIsFresh, Hash
<1>4. (retired \cup {Hash} \subseteq drawn \cup {NoToken})'
  BY <1>3
<1>5. ASSUME NEW x \in Requests, NEW t \in RefreshTokens, Pending(x, t)'
      PROVE  Unseen(t)' /\ \A s \in Requests \ {x} : ~Pending(s, t)'
  <2>1. t # NoToken
    BY TokensAssumption
  <2>2. CASE x = r
    <3>1. t \in drawn' \ drawn
      BY <1>1, <1>5, <2>2 DEF Pending
    <3>2. \A s \in Requests \ {r} : ~Pending(s, t)
      BY <3>1 DEF IInv, InFlightIsFresh, Unseen
    <3>3. \A s \in Requests \ {r} : ~Pending(s, t)'
      BY <1>1, <3>2 DEF Pending
    <3> QED
      BY <1>3, <2>1, <2>2, <3>1, <3>3 DEF Unseen, Hash
  <2>3. CASE x # r
    <3>1. Pending(x, t)
      BY <1>1, <1>5, <2>3 DEF Pending
    <3>2. Unseen(t) /\ \A s \in Requests \ {x} : ~Pending(s, t)
      BY <3>1 DEF IInv, InFlightIsFresh
    <3>3. Unseen(t)'
      BY <2>1, <3>2 DEF Unseen, Hash
    <3>4. ~Pending(r, t)'
      BY <1>1, <3>2 DEF Pending, Unseen
    <3>5. \A s \in Requests \ {x, r} : ~Pending(s, t)'
      BY <1>1, <3>2 DEF Pending
    <3> QED
      BY <3>3, <3>4, <3>5
  <2> QED
    BY <2>2, <2>3
<1>6. InFlightIsFresh'
  BY <1>2, <1>4, <1>5 DEF InFlightIsFresh, Hash
<1>7. SupersededTokensStayDead'
  <2>1. Hash \notin retired
    BY DEF IInv, SupersededTokensStayDead, Hash
  <2>2. NoToken \notin retired
    BY TokensAssumption DEF IInv, TypeOK
  <2>3. Hash' \notin retired'
    BY <2>1, <2>2
  <2> QED
    BY <2>3 DEF SupersededTokensStayDead, Hash
<1>8. MismatchMeansReuse'
  <2>1. cookies \subseteq retired \cup {Hash} /\ NoToken \notin cookies
    BY TokensAssumption DEF IInv, MismatchMeansReuse, Hash, TypeOK
  <2>2. cookies' \subseteq retired' \cup {Hash'}
    BY <2>1
  <2> QED
    BY <2>2 DEF MismatchMeansReuse, Hash
<1> QED
  BY <1>6, <1>7, <1>8 DEF IInv

\* The case in which a handler neither writes nor draws a refresh token.
LEMMA FreshQuietStep ==
    ASSUME IInv, TypeOK', NEW r \in Requests, NEW q, Become(r, q), SavesFairly(q),
           q.phase # "store", UNCHANGED <<account, retired, cookies>>, drawn \subseteq drawn'
    PROVE  IInv'
<1>1. Hash' = Hash
  BY DEF Hash
<1>2. retired' = retired \cup ({Hash} \ {Hash', NoToken})
  BY <1>1
<1> QED
  BY <1>1, <1>2, FreshStep

\* The store of a pair.
LEMMA FreshPairStored ==
    ASSUME IInv, TypeOK', NEW r \in Requests, TokenPairStored(r)
    PROVE  IInv'
<1> DEFINE q == req[r]
           n == q.token
<1>1. n \in RefreshTokens /\ n # NoToken /\ Pending(r, n)
  BY RequestShape, StoringShape, TokensAssumption DEF TokenPairStored, IInv, TypeOK, Pending
<1>2. Unseen(n) /\ \A s \in Requests \ {r} : ~Pending(s, n)
  BY <1>1 DEF IInv, InFlightIsFresh
<1>3. Hash' = n /\ retired' = retired \cup ({Hash} \ {n, NoToken})
  <2>1. Assign(account, Session(n)).refreshTokenHash = n
    BY FieldTypes DEF Assign, Session
  <2> QED
    BY <2>1 DEF TokenPairStored, Write, Hash
<1>4. \A x \in Requests : req'[x] = IF x = r THEN Idle ELSE req[x]
  BY DEF TokenPairStored, IInv, TypeOK, Become
<1>5. \A x \in Requests : SavesFairly(req'[x])
  BY <1>4 DEF IInv, InFlightIsFresh, SavesFairly, Idle
<1>6. UNCHANGED drawn /\ cookies' \subseteq cookies \cup {n}
  BY DEF TokenPairStored
<1>7. (retired \cup {Hash} \subseteq drawn \cup {NoToken})'
  BY <1>2, <1>3, <1>6 DEF IInv, InFlightIsFresh, Unseen, Hash
<1>8. ASSUME NEW x \in Requests, NEW t \in RefreshTokens, Pending(x, t)'
      PROVE  Unseen(t)' /\ \A s \in Requests \ {x} : ~Pending(s, t)'
  <2>1. x # r /\ Pending(x, t)
    BY <1>4, <1>8 DEF Pending, Idle
  <2>2. Unseen(t) /\ \A s \in Requests \ {x} : ~Pending(s, t)
    BY <2>1 DEF IInv, InFlightIsFresh
  <2>3. t # n
    BY <1>2, <2>1
  <2>4. Unseen(t)'
    BY <1>3, <1>6, <2>2, <2>3 DEF Unseen, Hash
  <2>5. \A s \in Requests \ {x} : ~Pending(s, t)'
    BY <1>4, <2>2 DEF Pending, Idle
  <2> QED
    BY <2>4, <2>5
<1>9. InFlightIsFresh'
  BY <1>5, <1>7, <1>8 DEF InFlightIsFresh, Hash
<1>10. Hash' \notin retired'
  BY <1>2, <1>3 DEF Unseen, Hash
<1>11. cookies' \subseteq retired' \cup {Hash'}
  <2>1. cookies \subseteq retired \cup {Hash} /\ NoToken \notin cookies
    BY TokensAssumption DEF IInv, MismatchMeansReuse, Hash, TypeOK
  <2> QED
    BY <1>3, <1>6, <2>1
<1> QED
  BY <1>9, <1>10, <1>11 DEF IInv, SupersededTokensStayDead, MismatchMeansReuse, Hash

\* What a login is about to save: it never sets the hash, and clears the lock
\* only where its copy had one.
LEMMA LoginSavesFairly ==
    ASSUME NEW copy \in Copies, NEW p, now \in Nat
    PROVE  /\ SavesFairly(SavingLogin(p, copy, ResetFailedLogins(copy)))
           /\ SavesFairly(Saving("miss", IncFailedLogins(copy)))
<1> DEFINE reset == ResetFailedLogins(copy)
           miss  == IncFailedLogins(copy)
<1>1. /\ DOMAIN reset \subseteq {"failedLoginAttempts", "lockUntil"}
      /\ "lockUntil" \in DOMAIN reset => copy.lockUntil # Never
  BY DEF ResetFailedLogins, Modified
<1>2. SavesFairly(SavingLogin(p, copy, reset))
  <2> HIDE DEF reset
  <2> QED
    BY <1>1 DEF SavesFairly, SavingLogin, MayClearLock
<1>3. /\ DOMAIN miss \subseteq {"failedLoginAttempts", "lockUntil"}
      /\ "lockUntil" \in DOMAIN miss => miss.lockUntil = now + LockDuration
  BY DEF IncFailedLogins
<1>4. now + LockDuration # Never
  BY LimitsAssumption DEF Never
<1>5. SavesFairly(Saving("miss", miss))
  <2> HIDE DEF miss
  <2> QED
    BY <1>3, <1>4 DEF SavesFairly, Saving
<1> QED
  BY <1>2, <1>5

\* What the other handlers are about to save.
LEMMA OthersSaveFairly ==
    /\ \A by : SavesFairly(Saving(by, Session(NoToken)))
    /\ \A p : SavesFairly(Saving("change", PasswordChange(p)))
    /\ \A t : SavesFairly(Saving("forgot", ResetRequest(t)))
    /\ SavesFairly(Saving("unsent", ResetUndone))
    /\ \A t, p : SavesFairly(SavingReset(t, PasswordReset(p)))
  BY DEF SavesFairly, Saving, SavingReset, Session, PasswordChange, PasswordReset,
         ResetRequest, ResetUndone, MayClearLock

\* The write of a suspended save leaves the hash alone or clears it.
LEMMA SaveClears ==
    ASSUME IInv, NEW r \in Requests, req[r].phase = "save", Write(req[r].set, root)
    PROVE  /\ Hash' \in {Hash, NoToken}
           /\ retired' = retired \cup ({Hash} \ {Hash', NoToken})
<1>1. TypeOK /\ IsPatch(req[r].set)
  BY RequestShape DEF IInv, TypeOK, IsSaving
<1>2. "refreshTokenHash" \in DOMAIN req[r].set => req[r].set.refreshTokenHash = NoToken
  BY DEF IInv, InFlightIsFresh, SavesFairly
<1> QED
  BY <1>1, <1>2, ClearingWrite

\* The handlers keep the invariant, and so does everything around them.
LEMMA NextIInv == IInv /\ [Next]_vars => IInv'
<1> SUFFICES ASSUME IInv, [Next]_vars
             PROVE  IInv'
  OBVIOUS
<1> USE DEF history
<1>t. TypeOK' /\ TypeOK /\ now \in Nat
  BY NextType DEF IInv, TypeOK
<1>i. SavesFairly(Idle) /\ Idle.phase # "store"
  BY DEF SavesFairly, Idle
<1>1. ASSUME NEW r \in Requests, Arrive(r)
      PROVE  IInv'
  <2>1. ASSUME NEW q, Become(r, q), q.phase \notin {"save", "store"}
        PROVE  IInv'
    <3>1. SavesFairly(q)
      BY <2>1 DEF SavesFairly
    <3> QED
      BY <1>1, <1>t, <2>1, <3>1, FreshQuietStep DEF Arrive
  <2>2. CASE \E p \in Passwords : Become(r, [phase |-> "login", password |-> p])
    BY <2>1, <2>2
  <2>3. CASE \E t \in cookies : Become(r, [phase |-> "refresh", token |-> t])
    BY <2>1, <2>3
  <2>4. CASE Become(r, [phase |-> "logout"]) \/ Become(r, [phase |-> "forgot"])
    BY <2>1, <2>4
  <2>5. CASE \E p, new \in Passwords :
                Become(r, [phase |-> "change", password |-> p, new |-> new])
    BY <2>1, <2>5
  <2>6. CASE \E t \in mail, new \in Passwords :
                Become(r, [phase |-> "reset", token |-> t, new |-> new])
    BY <2>1, <2>6
  <2> QED
    BY <1>1, <2>2, <2>3, <2>4, <2>5, <2>6 DEF Arrive
<1>2. ASSUME NEW r \in Requests, Login(r)
      PROVE  IInv'
  <2> DEFINE next == [phase |-> "compare", password |-> req[r].password, copy |-> Copy(account)]
  <2>1. SavesFairly(next) /\ next.phase # "store"
    BY DEF SavesFairly
  <2> QED
    BY <1>2, <1>t, <1>i, <2>1, FreshQuietStep DEF Login
<1>3. ASSUME NEW r \in Requests, LoginCompared(r)
      PROVE  IInv'
  <2> DEFINE q    == req[r]
             good == SavingLogin(q.password, q.copy, ResetFailedLogins(q.copy))
             bad  == Saving("miss", IncFailedLogins(q.copy))
  <2>1. q.copy \in Copies
    BY <1>3, <1>t, RequestShape DEF LoginCompared, TypeOK
  <2>2. SavesFairly(good) /\ SavesFairly(bad)
    BY <1>t, <2>1, LoginSavesFairly
  <2>3. good.phase # "store" /\ bad.phase # "store"
    BY DEF SavingLogin, Saving
  <2> QED
    BY <1>3, <1>t, <2>2, <2>3, FreshQuietStep DEF LoginCompared
<1>4. ASSUME NEW r \in Requests, LoginSaved(r)
      PROVE  IInv'
  <2>1. /\ Hash' \in {Hash, NoToken}
        /\ retired' = retired \cup ({Hash} \ {Hash', NoToken})
    BY <1>4, SaveClears DEF LoginSaved
  <2>2. PICK t \in NewRefreshTokens :
           /\ Become(r, Storing("login", req[r].password, NoToken, t))
           /\ drawn' = drawn \cup {t} /\ UNCHANGED cookies
    BY <1>4 DEF LoginSaved, Issue
  <2> DEFINE q == Storing("login", req[r].password, NoToken, t)
  <2>3. SavesFairly(q) /\ q.token \in drawn' \ drawn
    BY <2>2 DEF SavesFairly, Storing, NewRefreshTokens
  <2> QED
    BY <1>t, <2>1, <2>2, <2>3, FreshStep
<1>5. ASSUME NEW r \in Requests, RefreshTokensOf(r)
      PROVE  IInv'
  <2>1. UNCHANGED <<account, retired>>
    BY <1>5 DEF RefreshTokensOf
  <2>2. CASE Issue(r, "refresh", NoPassword, req[r].token)
    <3>1. PICK t \in NewRefreshTokens :
             /\ Become(r, Storing("refresh", NoPassword, req[r].token, t))
             /\ drawn' = drawn \cup {t} /\ UNCHANGED cookies
      BY <2>2 DEF Issue
    <3> DEFINE q == Storing("refresh", NoPassword, req[r].token, t)
    <3>2. SavesFairly(q) /\ q.token \in drawn' \ drawn
      BY <3>1 DEF SavesFairly, Storing, NewRefreshTokens
    <3>3. Hash' = Hash /\ retired' = retired \cup ({Hash} \ {Hash', NoToken})
      BY <2>1 DEF Hash
    <3> QED
      BY <1>t, <3>1, <3>2, <3>3, FreshStep
  <2>3. CASE /\ Become(r, Saving("reuse", Session(NoToken))) \/ Become(r, Idle)
             /\ UNCHANGED <<drawn, cookies>>
    <3>1. Saving("reuse", Session(NoToken)).phase # "store"
      BY DEF Saving
    <3> QED
      BY <1>t, <1>i, <2>1, <2>3, <3>1, OthersSaveFairly, FreshQuietStep
  <2> QED
    BY <1>5, <2>2, <2>3 DEF RefreshTokensOf
<1>6. ASSUME NEW r \in Requests, TokenPairStored(r)
      PROVE  IInv'
  BY <1>6, <1>t, FreshPairStored
<1>7. ASSUME NEW r \in Requests, NEW q, q.phase = "save", SavesFairly(q),
             \/ Logout(r) /\ q = Saving("logout", Session(NoToken))
             \/ ChangePassword(r) /\ q = Saving("change", PasswordChange(req[r].new))
             \/ ForgotPasswordMailed(r) /\ q = Saving("unsent", ResetUndone)
             \/ ResetPassword(r) /\ q = SavingReset(req[r].token, PasswordReset(req[r].new))
      PROVE  IInv'
  <2>1. Become(r, q) \/ Become(r, Idle)
    BY <1>7 DEF Logout, ChangePassword, ForgotPasswordMailed, ResetPassword
  <2>2. UNCHANGED <<account, retired, cookies, drawn>>
    BY <1>7 DEF Logout, ChangePassword, ForgotPasswordMailed, ResetPassword
  <2> QED
    BY <1>7, <1>t, <1>i, <2>1, <2>2, FreshQuietStep
<1>8. ASSUME NEW r \in Requests, Logout(r) \/ ChangePassword(r) \/ ForgotPasswordMailed(r) \/ ResetPassword(r)
      PROVE  IInv'
  <2>1. /\ \A by, set : Saving(by, set).phase = "save"
        /\ \A t, set : SavingReset(t, set).phase = "save"
    BY DEF Saving, SavingReset
  <2> QED
    BY <1>7, <1>8, <2>1, OthersSaveFairly
<1>9. ASSUME NEW r \in Requests, ForgotPassword(r)
      PROVE  IInv'
  <2>1. PICK t : Become(r, Saving("forgot", ResetRequest(t))) /\ drawn' = drawn \cup {t}
    BY <1>9 DEF ForgotPassword
  <2>2. Saving("forgot", ResetRequest(t)).phase # "store"
    BY DEF Saving
  <2> QED
    BY <1>9, <1>t, <2>1, <2>2, OthersSaveFairly, FreshQuietStep DEF ForgotPassword
<1>10. ASSUME NEW r \in Requests, ForgotPasswordSaved(r)
       PROVE  IInv'
  <2> DEFINE next == [phase |-> "mail", token |-> req[r].set.passwordResetToken]
  <2>1. /\ Hash' \in {Hash, NoToken}
        /\ retired' = retired \cup ({Hash} \ {Hash', NoToken})
    BY <1>10, SaveClears DEF ForgotPasswordSaved
  <2>2. SavesFairly(next) /\ next.phase # "store"
    BY DEF SavesFairly
  <2> QED
    BY <1>10, <1>t, <2>1, <2>2, FreshStep DEF ForgotPasswordSaved
<1>11. ASSUME NEW r \in Requests, Saved(r)
       PROVE  IInv'
  <2>1. /\ Hash' \in {Hash, NoToken}
        /\ retired' = retired \cup ({Hash} \ {Hash', NoToken})
    BY <1>11, SaveClears DEF Saved
  <2> QED
    BY <1>11, <1>t, <1>i, <2>1, FreshStep DEF Saved
<1>12. ASSUME NEW r \in Requests, RequestFails(r)
       PROVE  IInv'
  BY <1>12, <1>t, <1>i, FreshQuietStep DEF RequestFails
<1>13. CASE SetActive
  <2>1. PICK active \in BOOLEAN : account' = Assign(account, [isActive |-> active])
    BY <1>13 DEF SetActive
  <2>2. Hash' = Hash
    BY <2>1, FieldTypes DEF Assign, Hash
  <2> QED
    BY <1>13, <1>t, <2>2 DEF SetActive, IInv, InFlightIsFresh, Unseen, Pending,
       SupersededTokensStayDead, MismatchMeansReuse, Hash
<1>14. CASE Tick \/ UNCHANGED vars
  BY <1>14, <1>t DEF Tick, vars, IInv, InFlightIsFresh, Unseen, Pending,
     SupersededTokensStayDead, MismatchMeansReuse
<1> QED
  BY <1>1, <1>2, <1>3, <1>4, <1>5, <1>6, <1>8, <1>9, <1>10, <1>11, <1>12, <1>13, <1>14
     DEF Next, Handle

\* A handler about to store a pair has a token that nobody else has or had, and the
\* other saves in flight make no token current.
THEOREM InFlightFresh == Spec => []InFlightIsFresh
<1>1. IInv => InFlightIsFresh
  BY DEF IInv
<1>2. IInv /\ [Next]_vars => IInv'
  BY NextIInv
<1> QED
  BY InitIInv, <1>1, <1>2, PTL DEF Spec

\* However refreshes, logins and logouts cross, a refresh token that was replaced
\* or revoked is never the current one again.
THEOREM SupersededStayDead == Spec => []SupersededTokensStayDead
<1>1. IInv => SupersededTokensStayDead
  BY DEF IInv
<1>2. IInv /\ [Next]_vars => IInv'
  BY NextIInv
<1> QED
  BY InitIInv, <1>1, <1>2, PTL DEF Spec

\* A cookie that is not the current token has been one, so that a mismatch is
\* the reuse refreshTokens takes it for.
THEOREM MismatchIsReuse == Spec => []MismatchMeansReuse
<1>1. IInv => MismatchMeansReuse
  BY DEF IInv
<1>2. IInv /\ [Next]_vars => IInv'
  BY NextIInv
<1> QED
  BY InitIInv, <1>1, <1>2, PTL DEF Spec

-----------------------------------------------------------------------------
(* Locks.                                                                  *)

\* A write either leaves the lock alone or sets what it sends.
LEMMA LockWritten ==
    ASSUME NEW set, NEW roots, Write(set, roots)
    PROVE  account'.lockUntil = IF "lockUntil" \in DOMAIN set THEN set.lockUntil
                                                             ELSE account.lockUntil
<1>1. account' = Assign(account, set)
  BY DEF Write
<1> QED
  BY <1>1, FieldTypes DEF Assign

\* A lock in force is cleared by a save that may clear it.
LEMMA LockStep ==
    ASSUME IInv, [Next]_vars, account.lockUntil > now, account'.lockUntil = Never
    PROVE  \E r \in Requests :
              req[r].phase = "save" /\ req'[r] # req[r] /\ MayClearLock(req[r])
<1>1. account'.lockUntil # account.lockUntil
  BY DEF IInv, TypeOK, Never
<1>2. ASSUME NEW r \in Requests, req[r].phase = "save", Write(req[r].set, root),
             NEW q, Become(r, q), q.phase # "save"
      PROVE  req[r].phase = "save" /\ req'[r] # req[r] /\ MayClearLock(req[r])
  <2>1. "lockUntil" \in DOMAIN req[r].set /\ req[r].set.lockUntil = Never
    BY <1>1, <1>2, LockWritten
  <2>2. MayClearLock(req[r])
    BY <1>2, <2>1 DEF IInv, InFlightIsFresh, SavesFairly
  <2>3. req'[r] # req[r]
    BY <1>2 DEF IInv, TypeOK, Become
  <2> QED
    BY <1>2, <2>2, <2>3
<1>3. ASSUME NEW r \in Requests, LoginSaved(r)
      PROVE  req[r].phase = "save" /\ req'[r] # req[r] /\ MayClearLock(req[r])
  <2>1. PICK t : Become(r, Storing("login", req[r].password, NoToken, t))
    BY <1>3 DEF LoginSaved, Issue
  <2>2. Storing("login", req[r].password, NoToken, t).phase # "save"
    BY DEF Storing
  <2> QED
    BY <1>2, <1>3, <2>1, <2>2 DEF LoginSaved
<1>4. ASSUME NEW r \in Requests, ForgotPasswordSaved(r)
      PROVE  req[r].phase = "save" /\ req'[r] # req[r] /\ MayClearLock(req[r])
  <2> DEFINE next == [phase |-> "mail", token |-> req[r].set.passwordResetToken]
  <2>1. next.phase # "save" /\ Become(r, next)
    BY <1>4 DEF ForgotPasswordSaved
  <2> QED
    BY <1>2, <1>4, <2>1 DEF ForgotPasswordSaved
<1>5. ASSUME NEW r \in Requests, Saved(r)
      PROVE  req[r].phase = "save" /\ req'[r] # req[r] /\ MayClearLock(req[r])
  <2>1. Idle.phase # "save" /\ Become(r, Idle)
    BY <1>5 DEF Saved, Idle
  <2> QED
    BY <1>2, <1>5, <2>1 DEF Saved
<1>6. ASSUME NEW r \in Requests, TokenPairStored(r)
      PROVE  FALSE
  <2>1. "lockUntil" \notin DOMAIN Session(req[r].token)
    BY DEF Session
  <2> QED
    BY <1>1, <1>6, <2>1, LockWritten DEF TokenPairStored
<1>7. ~SetActive
  <2>1. ASSUME NEW active, account' = Assign(account, [isActive |-> active])
        PROVE  account'.lockUntil = account.lockUntil
    BY <2>1, FieldTypes DEF Assign
  <2> QED
    BY <1>1, <2>1 DEF SetActive
<1>8. ASSUME NEW r \in Requests,
             \/ Arrive(r) \/ Login(r) \/ LoginCompared(r) \/ RefreshTokensOf(r)
             \/ Logout(r) \/ ChangePassword(r) \/ ForgotPassword(r)
             \/ ForgotPasswordMailed(r) \/ ResetPassword(r) \/ RequestFails(r)
      PROVE  FALSE
  BY <1>1, <1>8 DEF Arrive, Login, LoginCompared, RefreshTokensOf, Logout,
     ChangePassword, ForgotPassword, ForgotPasswordMailed, ResetPassword, RequestFails
<1>9. ~Tick /\ ~UNCHANGED vars
  BY <1>1 DEF Tick, vars
<1> QED
  BY <1>3, <1>4, <1>5, <1>6, <1>7, <1>8, <1>9 DEF Next, Handle

\* A lock in force is cleared only by a password reset or by a login whose copy
\* of the account already showed a lock, an expired one.
THEOREM LocksKept == Spec => LocksAreKept
<1>1. IInv /\ [Next]_vars => IInv'
  BY NextIInv
<1>2. IInv /\ [Next]_vars =>
         [account.lockUntil > now /\ account'.lockUntil = Never =>
            \E r \in Requests :
               req[r].phase = "save" /\ req'[r] # req[r] /\ MayClearLock(req[r])]_vars
  BY LockStep
<1> QED
  BY InitIInv, <1>1, <1>2, PTL DEF Spec, LocksAreKept

-----------------------------------------------------------------------------
(***************************************************************************)
(* The properties of sessions that requests crossing each other can break. *)
(* Each theorem names the one overlap that its property does not survive,  *)
(* and holds however requests interleave otherwise.                        *)
(***************************************************************************)

-----------------------------------------------------------------------------
\* Where requests are served one at a time, none of these can happen: the
\* theorems below hold without a condition.
LEMMA OneSlot ==
    ASSUME \A a, b \in Requests : a = b
    PROVE  LoginsAlone /\ PasswordsRest /\ ResetsAlone /\ LinksAlone /\ RefreshesAlone
<1>1. PasswordsRest
  BY DEF PasswordsRest, IsLoggingIn, SavesBy
<1> QED
  BY <1>1 DEF LoginsAlone, ResetsAlone, LinksAlone, RefreshesAlone

-----------------------------------------------------------------------------
(* The invariants.                                                         *)

\* What a suspended save sends is what its handler meant.
IsMeant(q) ==
    \/ q.by = "login" /\ q.set = ResetFailedLogins(q.copy)
    \/ /\ q.by = "miss" /\ q.set.failedLoginAttempts # 0
       /\ IF q.set.failedLoginAttempts >= MaxAttempts
          THEN /\ DOMAIN q.set = {"failedLoginAttempts", "lockUntil"}
               /\ q.set.lockUntil # Never
          ELSE DOMAIN q.set = {"failedLoginAttempts"}
    \/ q.by \in {"reuse", "logout"} /\ q.set = Session(NoToken)
    \/ q.by = "change" /\ q.set = PasswordChange(q.set.password)
    \/ q.by = "reset" /\ q.set = PasswordReset(q.set.password)
    \/ /\ q.by = "forgot"
       /\ DOMAIN q.set = {"passwordResetToken", "passwordResetExpiry"}
    \/ q.by = "unsent" /\ q.set = ResetUndone

SavesAreMeant == \A r \in Requests : req[r].phase = "save" => IsMeant(req[r])

\* The counters of a login's copy are the account's, or were reset since.
CountersStand(copy) ==
    \/ /\ account.failedLoginAttempts = copy.failedLoginAttempts
       /\ account.lockUntil = copy.lockUntil
    \/ account.failedLoginAttempts = 0 /\ account.lockUntil = Never

CountIsCurrent(q) ==
    /\ q.phase = "compare" \/ SavesBy(q, {"login"}) =>
          /\ account.lockUntil <= now
          /\ q.copy.lockUntil # Never <=> q.copy.failedLoginAttempts >= MaxAttempts
          /\ CountersStand(q.copy)
    /\ SavesBy(q, {"miss"}) =>
          /\ misses < q.set.failedLoginAttempts
          /\ "lockUntil" \notin DOMAIN q.set => account.lockUntil = Never

\* Failures are counted, the lock is set exactly when there are too many, and
\* every login in flight goes by the count there is.
CountsAreCurrent ==
    /\ misses <= account.failedLoginAttempts
    /\ account.lockUntil # Never <=> account.failedLoginAttempts >= MaxAttempts
    /\ \A r \in Requests : CountIsCurrent(req[r])

\* Every login in flight goes by the password there is.
PasswordsAreCurrent ==
    \A r \in Requests :
        /\ req[r].phase = "compare" => req[r].copy.password = account.password
        /\ SavesBy(req[r], {"login"}) \/ (req[r].phase = "store" /\ req[r].by = "login")
               => req[r].password = account.password

\* Every reset about to be saved holds the token in force.
ResetsAreCurrent ==
    \A r \in Requests :
        SavesBy(req[r], {"reset"}) => req[r].token = account.passwordResetToken

LinkIsCurrent(q) ==
    /\ SavesBy(q, {"forgot"}) => q.set.passwordResetToken \in drawn \ mail
    /\ q.phase = "mail" =>
          /\ q.token \in drawn \ mail
          /\ account.passwordResetToken \in {q.token, NoToken}
    /\ SavesBy(q, {"unsent"}) => account.passwordResetToken \notin mail

\* A link that is taken back was not sent.
LinksAreCurrent == mail \subseteq drawn /\ \A r \in Requests : LinkIsCurrent(req[r])

\* The tokens that are or have been the current one.
Known == (retired \cup {account.refreshTokenHash}) \ {NoToken}

\* Every token stored so far descends from a login whose token was stored.
RootsAreKnown ==
    /\ \A t \in Known : root[t] \in Known
    /\ ended \subseteq Known
    /\ \A r \in Requests : IsRefreshing(req[r]) => req[r].parent \in Known

\* Every refresh about to be stored replaces the token it came with, and the
\* session there is has not ended.
RefreshesAreCurrent ==
    /\ \A r \in Requests : IsRefreshing(req[r]) => req[r].parent = account.refreshTokenHash
    /\ EndedSessionsStayEnded

-----------------------------------------------------------------------------
(* The kinds of steps.                                                     *)

Others(r) == \A s \in Requests \ {r} : req'[s] = req[s]

\* No handler goes on, or one ends without a write.
Settles ==
    /\ \A r \in Requests :
          req'[r] = req[r] \/ req'[r].phase \notin {"compare", "save", "store", "mail"}
    /\ UNCHANGED req \/ UNCHANGED account
    /\ \A f \in Fields \ {"isActive"} : account'[f] = account[f]
    /\ UNCHANGED <<drawn, mail, history>>
    /\ now' \in {now, now + 1}

\* A handler goes on to its next await.
Turns(q, next) ==
    \/ /\ MayLogIn(account)
       /\ next = [phase |-> "compare", password |-> q.password, copy |-> Copy(account)]
    \/ /\ q.phase = "compare" /\ q.password = q.copy.password
       /\ next = SavingLogin(q.password, q.copy, ResetFailedLogins(q.copy))
    \/ q.phase = "compare" /\ next = Saving("miss", IncFailedLogins(q.copy))
    \/ /\ IsCurrent(q.token) /\ q.token \in RefreshTokens
       /\ \E t \in RefreshTokens : next = Storing("refresh", NoPassword, q.token, t)
    \/ \E by \in {"reuse", "logout"} : next = Saving(by, Session(NoToken))
    \/ \E p \in Passwords : next = Saving("change", PasswordChange(p))
    \/ /\ Holds(account, q.token)
       /\ \E p \in Passwords : next = SavingReset(q.token, PasswordReset(p))
    \/ \E t \in drawn' \ drawn : next = Saving("forgot", ResetRequest(t))
    \/ q.phase = "mail" /\ next = Saving("unsent", ResetUndone)

Prepares(r) ==
    /\ Turns(req[r], req'[r]) /\ Others(r)
    /\ UNCHANGED <<account, mail, now, history>> /\ drawn \subseteq drawn'

\* A link is sent.
Sends(r) ==
    /\ req[r].phase = "mail" /\ req'[r] = Idle /\ Others(r)
    /\ mail' = mail \cup {req[r].token}
    /\ UNCHANGED <<account, drawn, now, history>>

\* A save is applied.
Saves(r) ==
    LET q == req[r] IN
    /\ q.phase = "save" /\ Write(q.set, root) /\ Others(r)
    /\ \/ /\ q.by = "login" /\ misses' = 0
          /\ \E t \in RefreshTokens : req'[r] = Storing("login", q.password, NoToken, t)
       \/ /\ q.by = "forgot" /\ misses' = misses
          /\ req'[r] = [phase |-> "mail", token |-> q.set.passwordResetToken]
       \/ /\ q.by \in {"miss", "reuse", "logout", "change", "unsent", "reset"}
          /\ misses' = IF q.by = "reset" THEN 0
                       ELSE IF q.by = "miss" /\ misses < MaxAttempts THEN misses + 1
                       ELSE misses
          /\ req'[r] = Idle
    /\ UNCHANGED <<mail, now, root>> /\ drawn \subseteq drawn'

LEMMA BecomeOthers ==
    ASSUME TypeOK, NEW r \in Requests, NEW q, Become(r, q)
    PROVE  req'[r] = q /\ Others(r)
  BY DEF TypeOK, Become, Others

\* Every step is of one of these kinds, or stores a pair.
LEMMA StepKinds ==
    ASSUME TypeOK, [Next]_vars
    PROVE  \/ Settles
           \/ \E r \in Requests : Prepares(r) \/ Sends(r) \/ Saves(r) \/ TokenPairStored(r)
<1> USE DEF history
<1>1. ASSUME NEW r \in Requests, NEW q, Become(r, q),
             q.phase \notin {"compare", "save", "store", "mail"},
             UNCHANGED <<account, drawn, mail, now, history>>
      PROVE  Settles
  BY <1>1, BecomeOthers DEF Settles, Others
<1>2. ASSUME NEW r \in Requests, Become(r, Idle), UNCHANGED <<account, drawn, mail, now, history>>
      PROVE  Settles
  <2>1. Idle.phase \notin {"compare", "save", "store", "mail"}
    BY DEF Idle
  <2> QED
    BY <1>1, <1>2, <2>1
<1>3. ASSUME NEW r \in Requests, Arrive(r)
      PROVE  Settles
  <2>1. ASSUME NEW q, Become(r, q), q.phase \notin {"compare", "save", "store", "mail"}
        PROVE  Settles
    BY <1>1, <1>3, <2>1 DEF Arrive
  <2>2. CASE \E p \in Passwords : Become(r, [phase |-> "login", password |-> p])
    BY <2>1, <2>2
  <2>3. CASE \E t \in cookies : Become(r, [phase |-> "refresh", token |-> t])
    BY <2>1, <2>3
  <2>4. CASE Become(r, [phase |-> "logout"]) \/ Become(r, [phase |-> "forgot"])
    BY <2>1, <2>4
  <2>5. CASE \E p, new \in Passwords :
                Become(r, [phase |-> "change", password |-> p, new |-> new])
    BY <2>1, <2>5
  <2>6. CASE \E t \in mail, new \in Passwords :
                Become(r, [phase |-> "reset", token |-> t, new |-> new])
    BY <2>1, <2>6
  <2> QED
    BY <1>3, <2>2, <2>3, <2>4, <2>5, <2>6 DEF Arrive
<1>4. ASSUME NEW r \in Requests, NEW q, Become(r, q), Turns(req[r], q),
             UNCHANGED <<account, mail, now, history>>, drawn \subseteq drawn'
      PROVE  Prepares(r)
  BY <1>4, BecomeOthers DEF Prepares
<1>5. ASSUME NEW r \in Requests, Login(r)
      PROVE  Settles \/ Prepares(r)
  BY <1>2, <1>4, <1>5 DEF Login, Turns
<1>6. ASSUME NEW r \in Requests, LoginCompared(r)
      PROVE  Prepares(r)
  BY <1>4, <1>6 DEF LoginCompared, Turns
<1>7. ASSUME NEW r \in Requests, LoginSaved(r)
      PROVE  Saves(r)
  <2>1. PICK t \in NewRefreshTokens :
           /\ Become(r, Storing("login", req[r].password, NoToken, t))
           /\ drawn' = drawn \cup {t}
    BY <1>7 DEF LoginSaved, Issue
  <2>2. t \in RefreshTokens /\ drawn \subseteq drawn'
    BY <2>1 DEF NewRefreshTokens
  <2> QED
    BY <1>7, <2>1, <2>2, BecomeOthers DEF LoginSaved, Saves
<1>8. ASSUME NEW r \in Requests, RefreshTokensOf(r)
      PROVE  Settles \/ Prepares(r)
  <2>1. req[r].token \in RefreshTokens
    BY <1>8, RequestShape DEF RefreshTokensOf, TypeOK
  <2>2. CASE IsCurrent(req[r].token) /\ Issue(r, "refresh", NoPassword, req[r].token)
    <3>1. PICK t \in NewRefreshTokens :
             /\ Become(r, Storing("refresh", NoPassword, req[r].token, t))
             /\ drawn' = drawn \cup {t}
      BY <2>2 DEF Issue
    <3>2. t \in RefreshTokens
      BY <3>1 DEF NewRefreshTokens
    <3> QED
      BY <1>4, <1>8, <2>1, <2>2, <3>1, <3>2 DEF RefreshTokensOf, Turns
  <2>3. CASE UNCHANGED drawn /\ (\/ Become(r, Saving("reuse", Session(NoToken)))
                                 \/ Become(r, Idle))
    BY <1>2, <1>4, <1>8, <2>3 DEF RefreshTokensOf, Turns
  <2> QED
    BY <1>8, <2>2, <2>3 DEF RefreshTokensOf
<1>9. ASSUME NEW r \in Requests, Logout(r) \/ ChangePassword(r) \/ ResetPassword(r)
      PROVE  Settles \/ Prepares(r)
  <2>1. CASE Logout(r)
    BY <1>4, <2>1 DEF Logout, Turns
  <2>2. CASE ChangePassword(r)
    <3>1. req[r].new \in Passwords
      BY <2>2, RequestShape DEF ChangePassword, TypeOK
    <3> QED
      BY <1>2, <1>4, <2>2, <3>1 DEF ChangePassword, Turns
  <2>3. CASE ResetPassword(r)
    <3>1. req[r].new \in Passwords
      BY <2>3, RequestShape DEF ResetPassword, TypeOK
    <3> QED
      BY <1>2, <1>4, <2>3, <3>1 DEF ResetPassword, Turns
  <2> QED
    BY <1>9, <2>1, <2>2, <2>3
<1>10. ASSUME NEW r \in Requests, ForgotPassword(r)
       PROVE  Prepares(r)
  <2>1. PICK t \in NewResetTokens :
           Become(r, Saving("forgot", ResetRequest(t))) /\ drawn' = drawn \cup {t}
    BY <1>10 DEF ForgotPassword
  <2>2. t \in drawn' \ drawn
    BY <2>1 DEF NewResetTokens
  <2> QED
    BY <1>4, <1>10, <2>1, <2>2 DEF ForgotPassword, Turns
<1>11. ASSUME NEW r \in Requests, ForgotPasswordSaved(r)
       PROVE  Saves(r)
  BY <1>11, BecomeOthers DEF ForgotPasswordSaved, Saves
<1>12. ASSUME NEW r \in Requests, ForgotPasswordMailed(r)
       PROVE  Prepares(r) \/ Sends(r)
  <2>1. CASE Become(r, Idle) /\ mail' = mail \cup {req[r].token}
    BY <1>12, <2>1, BecomeOthers DEF ForgotPasswordMailed, Sends
  <2>2. CASE Become(r, Saving("unsent", ResetUndone)) /\ UNCHANGED mail
    BY <1>4, <1>12, <2>2 DEF ForgotPasswordMailed, Turns
  <2> QED
    BY <1>12, <2>1, <2>2 DEF ForgotPasswordMailed
<1>13. ASSUME NEW r \in Requests, Saved(r)
       PROVE  Saves(r)
  BY <1>13, BecomeOthers DEF Saved, Saves
<1>14. ASSUME NEW r \in Requests, RequestFails(r)
       PROVE  Settles
  BY <1>2, <1>14 DEF RequestFails
<1>15. CASE SetActive
  <2>1. PICK active : account' = Assign(account, [isActive |-> active])
    BY <1>15 DEF SetActive
  <2>2. \A f \in Fields \ {"isActive"} : account'[f] = account[f]
    BY <2>1 DEF Assign
  <2> QED
    BY <1>15, <2>2 DEF SetActive, Settles
<1>16. CASE Tick \/ UNCHANGED vars
  BY <1>16 DEF Tick, vars, Settles
<1> QED
  BY <1>3, <1>5, <1>6, <1>7, <1>8, <1>9, <1>10, <1>11, <1>12, <1>13, <1>14, <1>15, <1>16
     DEF Next, Handle

-----------------------------------------------------------------------------
(* What saves mean, whatever the interleaving.                             *)

\* A handler about to save means what it sends.
LEMMA TurnsMeant ==
    ASSUME TypeOK, NEW r \in Requests, Turns(req[r], req'[r]), req'[r].phase = "save"
    PROVE  IsMeant(req'[r])
<1> DEFINE q == req[r]
<1>1. CASE q.phase = "compare" /\ req'[r] = SavingLogin(q.password, q.copy, ResetFailedLogins(q.copy))
  BY <1>1 DEF SavingLogin, IsMeant
<1>2. CASE q.phase = "compare" /\ req'[r] = Saving("miss", IncFailedLogins(q.copy))
  <2> DEFINE n   == q.copy.failedLoginAttempts + 1
             set == IncFailedLogins(q.copy)
  <2>1. n \in Nat \ {0} /\ now + LockDuration \in Nat \ {0}
    BY <1>2, RequestShape, LimitsAssumption DEF TypeOK, Copies
  <2>2. set = IF n >= MaxAttempts THEN [failedLoginAttempts |-> n, lockUntil |-> now + LockDuration]
                                  ELSE [failedLoginAttempts |-> n]
    BY DEF IncFailedLogins
  <2>3. /\ set.failedLoginAttempts = n
        /\ IF n >= MaxAttempts
           THEN /\ DOMAIN set = {"failedLoginAttempts", "lockUntil"}
                /\ set.lockUntil = now + LockDuration
           ELSE DOMAIN set = {"failedLoginAttempts"}
    <3> HIDE DEF n, set
    <3> QED
      BY <2>2
  <2>4. req'[r].by = "miss" /\ req'[r].set = set
    BY <1>2 DEF Saving
  <2> HIDE DEF set
  <2> QED
    BY <2>1, <2>3, <2>4 DEF IsMeant, Never
<1>3. CASE \E by \in {"reuse", "logout"} : req'[r] = Saving(by, Session(NoToken))
  BY <1>3 DEF Saving, IsMeant
<1>4. CASE \E p \in Passwords : req'[r] = Saving("change", PasswordChange(p))
  <2>1. \A p : PasswordChange(p) = PasswordChange(PasswordChange(p).password)
    BY DEF PasswordChange
  <2> QED
    BY <1>4, <2>1 DEF Saving, IsMeant
<1>5. CASE \E p \in Passwords : req'[r] = SavingReset(q.token, PasswordReset(p))
  <2>1. \A p : PasswordReset(p) = PasswordReset(PasswordReset(p).password)
    BY DEF PasswordReset
  <2> QED
    BY <1>5, <2>1 DEF SavingReset, IsMeant
<1>6. CASE \E t \in drawn' \ drawn : req'[r] = Saving("forgot", ResetRequest(t))
  <2>1. \A t : DOMAIN ResetRequest(t) = {"passwordResetToken", "passwordResetExpiry"}
    BY DEF ResetRequest
  <2> QED
    BY <1>6, <2>1 DEF Saving, IsMeant
<1>7. CASE req'[r] = Saving("unsent", ResetUndone)
  BY <1>7 DEF Saving, IsMeant
<1>8. /\ \A copy : [phase |-> "compare", password |-> q.password, copy |-> copy].phase # "save"
      /\ \A t : Storing("refresh", NoPassword, q.token, t).phase # "save"
  BY DEF Storing
<1> QED
  BY <1>1, <1>2, <1>3, <1>4, <1>5, <1>6, <1>7, <1>8 DEF Turns

LEMMA InitMeant == Init => SavesAreMeant
  BY DEF Init, SavesAreMeant, Registering, Storing, Idle

LEMMA NextMeant == TypeOK /\ SavesAreMeant /\ [Next]_vars => SavesAreMeant'
<1> SUFFICES ASSUME TypeOK, SavesAreMeant, [Next]_vars
             PROVE  SavesAreMeant'
  OBVIOUS
<1>1. CASE Settles
  BY <1>1 DEF Settles, SavesAreMeant
<1>2. ASSUME NEW r \in Requests, Others(r), req'[r].phase = "save" => IsMeant(req'[r])
      PROVE  SavesAreMeant'
  BY <1>2 DEF Others, SavesAreMeant
<1>3. ASSUME NEW r \in Requests, Prepares(r)
      PROVE  SavesAreMeant'
  BY <1>2, <1>3, TurnsMeant DEF Prepares
<1>4. ASSUME NEW r \in Requests, Sends(r) \/ Saves(r) \/ TokenPairStored(r)
      PROVE  Others(r) /\ req'[r].phase # "save"
  <2>1. Idle.phase # "save" /\ \A p, t : Storing("login", p, NoToken, t).phase # "save"
    BY DEF Idle, Storing
  <2>2. \A t : [phase |-> "mail", token |-> t].phase # "save"
    OBVIOUS
  <2>3. CASE Sends(r) \/ Saves(r)
    BY <2>1, <2>2, <2>3 DEF Sends, Saves
  <2>4. CASE TokenPairStored(r)
    BY <2>1, <2>4, BecomeOthers DEF TokenPairStored
  <2> QED
    BY <1>4, <2>3, <2>4
<1> QED
  BY <1>1, <1>2, <1>3, <1>4, StepKinds

\* What a save makes of the account.
LEMMA SavedFields ==
    ASSUME TypeOK, NEW r \in Requests, SavesAreMeant, Saves(r)
    PROVE  LET q == req[r] IN
           /\ account'.password = IF q.by \in {"change", "reset"} THEN q.set.password
                                                                  ELSE account.password
           /\ Hash' = IF q.by \in {"reuse", "logout", "change", "reset"} THEN NoToken ELSE Hash
           /\ q.by = "login" =>
                 /\ account'.failedLoginAttempts \in {0, account.failedLoginAttempts}
                 /\ account'.lockUntil \in {Never, account.lockUntil}
                 /\ q.copy.failedLoginAttempts # 0 => account'.failedLoginAttempts = 0
                 /\ q.copy.lockUntil # Never => account'.lockUntil = Never
           /\ q.by = "miss" =>
                 /\ account'.failedLoginAttempts = q.set.failedLoginAttempts
                 /\ IF q.set.failedLoginAttempts >= MaxAttempts
                    THEN account'.lockUntil # Never
                    ELSE account'.lockUntil = account.lockUntil
           /\ q.by = "reset" => account'.failedLoginAttempts = 0 /\ account'.lockUntil = Never
           /\ q.by \notin {"login", "miss", "reset"} =>
                 /\ account'.failedLoginAttempts = account.failedLoginAttempts
                 /\ account'.lockUntil = account.lockUntil
           /\ account'.passwordResetToken =
                 IF q.by = "forgot" THEN q.set.passwordResetToken
                 ELSE IF q.by \in {"unsent", "reset"} THEN NoToken
                 ELSE account.passwordResetToken
<1> DEFINE q == req[r]
<1>1. \A f \in Fields : account'[f] = IF f \in DOMAIN q.set THEN q.set[f] ELSE account[f]
  BY DEF Saves, Write, Assign
<1>2. IsMeant(q)
  BY DEF Saves, SavesAreMeant
<1>3. CASE q.by = "login"
  <2>1. q.set = Modified(q.copy, [failedLoginAttempts |-> 0, lockUntil |-> Never])
    BY <1>2, <1>3 DEF IsMeant, ResetFailedLogins
  <2>2. /\ DOMAIN q.set \subseteq {"failedLoginAttempts", "lockUntil"}
        /\ "failedLoginAttempts" \in DOMAIN q.set <=> q.copy.failedLoginAttempts # 0
        /\ "lockUntil" \in DOMAIN q.set <=> q.copy.lockUntil # Never
        /\ "failedLoginAttempts" \in DOMAIN q.set => q.set.failedLoginAttempts = 0
        /\ "lockUntil" \in DOMAIN q.set => q.set.lockUntil = Never
    BY <2>1 DEF Modified
  <2> QED
    BY <1>1, <1>3, <2>2, FieldTypes DEF Hash
<1>4. CASE q.by = "miss"
  BY <1>1, <1>2, <1>4, FieldTypes DEF IsMeant, Hash
<1>5. CASE q.by \in {"reuse", "logout"}
  <2>1. DOMAIN q.set = {"refreshTokenHash"} /\ q.set.refreshTokenHash = NoToken
    BY <1>2, <1>5 DEF IsMeant, Session
  <2> QED
    BY <1>1, <1>5, <2>1, FieldTypes DEF Hash
<1>6. CASE q.by = "change"
  <2>1. DOMAIN q.set = {"password", "refreshTokenHash"} /\ q.set.refreshTokenHash = NoToken
    BY <1>2, <1>6 DEF IsMeant, PasswordChange
  <2> QED
    BY <1>1, <1>6, <2>1, FieldTypes DEF Hash
<1>7. CASE q.by = "reset"
  <2>1. /\ DOMAIN q.set = {"password", "refreshTokenHash", "failedLoginAttempts", "lockUntil",
                           "passwordResetToken", "passwordResetExpiry"}
        /\ q.set.refreshTokenHash = NoToken /\ q.set.passwordResetToken = NoToken
        /\ q.set.failedLoginAttempts = 0 /\ q.set.lockUntil = Never
    BY <1>2, <1>7 DEF IsMeant, PasswordReset
  <2> QED
    BY <1>1, <1>7, <2>1, FieldTypes DEF Hash
<1>8. CASE q.by \in {"forgot", "unsent"}
  <2>1. DOMAIN q.set = {"passwordResetToken", "passwordResetExpiry"}
    BY <1>2, <1>8 DEF IsMeant, ResetUndone
  <2>2. q.by = "unsent" => q.set.passwordResetToken = NoToken
    BY <1>2 DEF IsMeant, ResetUndone
  <2> QED
    BY <1>1, <1>8, <2>1, <2>2, FieldTypes DEF Hash
<1> QED
  BY <1>2, <1>3, <1>4, <1>5, <1>6, <1>7, <1>8 DEF IsMeant

\* Storing a pair changes the hash alone.
LEMMA StoredFields ==
    ASSUME TypeOK, NEW r \in Requests, TokenPairStored(r)
    PROVE  /\ \A f \in Fields \ {"refreshTokenHash"} : account'[f] = account[f]
           /\ Hash' = req[r].token
           /\ req'[r] = Idle /\ Others(r)
<1>1. account' = Assign(account, Session(req[r].token))
  BY DEF TokenPairStored, Write
<1>2. /\ \A f \in Fields \ {"refreshTokenHash"} : account'[f] = account[f]
      /\ Hash' = req[r].token
  BY <1>1, FieldTypes DEF Assign, Session, Hash
<1> QED
  BY <1>2, BecomeOthers DEF TokenPairStored

-----------------------------------------------------------------------------
(* Counters and locks.                                                     *)

CInv == TypeOK /\ SavesAreMeant /\ CountsAreCurrent

LEMMA InitCInv == Init => CInv
<1> SUFFICES ASSUME Init
             PROVE  CInv
  OBVIOUS
<1>1. \A r \in Requests : CountIsCurrent(req[r])
  BY DEF Init, Registering, Storing, Idle, CountIsCurrent, SavesBy
<1>2. account.failedLoginAttempts = 0 /\ account.lockUntil = Never /\ misses = 0
  BY DEF Init
<1> QED
  BY <1>1, <1>2, InitType, InitMeant, LimitsAssumption DEF CInv, CountsAreCurrent

\* A step that leaves the counters alone, and after which only logins already
\* in flight go by them.
LEMMA CountsSettle ==
    ASSUME CInv, now' \in {now, now + 1}, UNCHANGED misses,
           account'.failedLoginAttempts = account.failedLoginAttempts,
           account'.lockUntil = account.lockUntil,
           \A s \in Requests : req'[s] = req[s] \/ CountIsCurrent(req[s])'
    PROVE  CountsAreCurrent'
<1>1. now \in Nat /\ account.lockUntil \in Nat
  BY AccountFields DEF CInv, TypeOK, IsAccount
<1>2. ASSUME NEW s \in Requests, req'[s] = req[s]
      PROVE  CountIsCurrent(req[s])'
  <2>1. CountIsCurrent(req[s])
    BY DEF CInv, CountsAreCurrent
  <2>2. account.lockUntil <= now => account.lockUntil <= now'
    BY <1>1
  <2> QED
    BY <1>2, <2>1, <2>2 DEF CountIsCurrent, SavesBy, CountersStand
<1> QED
  BY <1>2 DEF CInv, CountsAreCurrent

\* A login goes by the counters it loads, and so does what it is to save.
LEMMA CountsPrepared ==
    ASSUME CInv, NEW r \in Requests, Prepares(r)
    PROVE  CountIsCurrent(req[r])'
<1> DEFINE q == req[r]
<1>a. /\ account.lockUntil \in Nat /\ account.failedLoginAttempts \in Nat /\ now \in Nat
      /\ misses \in Nat /\ MaxAttempts \in Nat \ {0}
  BY AccountFields, LimitsAssumption DEF CInv, TypeOK, IsAccount
<1>b. UNCHANGED <<account, now, misses>>
  BY DEF Prepares, history
<1>1. CASE /\ MayLogIn(account)
           /\ req'[r] = [phase |-> "compare", password |-> q.password, copy |-> Copy(account)]
  <2>1. /\ req'[r].phase = "compare" /\ req'[r].copy = Copy(account)
        /\ Copy(account).lockUntil = account.lockUntil
        /\ Copy(account).failedLoginAttempts = account.failedLoginAttempts
    BY <1>1 DEF Copy
  <2>2. account.lockUntil <= now
    BY <1>1, <1>a DEF MayLogIn, IsLocked
  <2> QED
    BY <1>b, <2>1, <2>2 DEF CountIsCurrent, SavesBy, CountersStand, CInv, CountsAreCurrent
<1>2. CASE /\ q.phase = "compare"
           /\ req'[r] = SavingLogin(q.password, q.copy, ResetFailedLogins(q.copy))
  <2>1. CountIsCurrent(q)
    BY DEF CInv, CountsAreCurrent
  <2>2. req'[r].phase = "save" /\ req'[r].by = "login" /\ req'[r].copy = q.copy
    BY <1>2 DEF SavingLogin
  <2> QED
    BY <1>2, <1>b, <2>1, <2>2 DEF CountIsCurrent, SavesBy, CountersStand
<1>3. CASE q.phase = "compare" /\ req'[r] = Saving("miss", IncFailedLogins(q.copy))
  <2> DEFINE n   == q.copy.failedLoginAttempts + 1
             set == IncFailedLogins(q.copy)
  <2>1. CountIsCurrent(q) /\ misses <= account.failedLoginAttempts
    BY DEF CInv, CountsAreCurrent
  <2>2. q.copy.failedLoginAttempts \in Nat
    BY <1>3, RequestShape DEF CInv, TypeOK, Copies
  <2>3. misses < n
    BY <1>3, <1>a, <2>1, <2>2 DEF CountIsCurrent, CountersStand
  <2>4. n < MaxAttempts => account.lockUntil = Never
    BY <1>3, <1>a, <2>1, <2>2 DEF CountIsCurrent, CountersStand
  <2>5. set.failedLoginAttempts = n /\ ("lockUntil" \notin DOMAIN set => n < MaxAttempts)
    <3>1. set = IF n >= MaxAttempts THEN [failedLoginAttempts |-> n, lockUntil |-> now + LockDuration]
                                    ELSE [failedLoginAttempts |-> n]
      BY DEF IncFailedLogins
    <3>2. n \in Nat
      BY <2>2
    <3> HIDE DEF n, set
    <3> QED
      BY <1>a, <3>1, <3>2
  <2>6. req'[r].phase = "save" /\ req'[r].by = "miss" /\ req'[r].set = set
    BY <1>3 DEF Saving
  <2> HIDE DEF n, set
  <2> QED
    BY <1>b, <2>3, <2>4, <2>5, <2>6 DEF CountIsCurrent, SavesBy
<1>4. ASSUME req'[r].phase # "compare", ~SavesBy(req'[r], {"login", "miss"})
      PROVE  CountIsCurrent(req[r])'
  BY <1>4 DEF CountIsCurrent, SavesBy
<1>5. CASE \/ \E by \in {"reuse", "logout"} : req'[r] = Saving(by, Session(NoToken))
           \/ \E p \in Passwords : req'[r] = Saving("change", PasswordChange(p))
           \/ \E p \in Passwords : req'[r] = SavingReset(q.token, PasswordReset(p))
           \/ \E t \in drawn' \ drawn : req'[r] = Saving("forgot", ResetRequest(t))
           \/ req'[r] = Saving("unsent", ResetUndone)
           \/ \E t \in RefreshTokens : req'[r] = Storing("refresh", NoPassword, q.token, t)
  <2>1. /\ \A by, set : Saving(by, set).phase = "save" /\ Saving(by, set).by = by
        /\ \A t, set : SavingReset(t, set).phase = "save" /\ SavingReset(t, set).by = "reset"
        /\ \A t : Storing("refresh", NoPassword, q.token, t).phase = "store"
    BY DEF Saving, SavingReset, Storing
  <2>2. req'[r].phase # "compare" /\ (req'[r].phase = "save" => req'[r].by \notin {"login", "miss"})
    BY <1>5, <2>1
  <2> QED
    BY <1>4, <2>2 DEF SavesBy
<1> QED
  BY <1>1, <1>2, <1>3, <1>5 DEF Prepares, Turns

\* As long as no two logins are between load and save, a save leaves the counters
\* as its handler meant, and no other login goes by them.
LEMMA CountsSaved ==
    ASSUME CInv, LoginsAlone, NEW r \in Requests, Saves(r)
    PROVE  CountsAreCurrent'
<1> DEFINE q == req[r]
<1>a. /\ account.lockUntil \in Nat /\ account.failedLoginAttempts \in Nat /\ now \in Nat
      /\ misses \in 0..MaxAttempts /\ MaxAttempts \in Nat \ {0}
      /\ q.phase = "save" /\ IsSaving(q) /\ IsMeant(q)
  BY AccountFields, RequestShape, LimitsAssumption
     DEF CInv, TypeOK, IsAccount, Saves, SavesAreMeant
<1>b. UNCHANGED now /\ Others(r) /\ req'[r].phase \notin {"compare", "save"}
  <2>1. /\ Idle.phase = "idle"
        /\ \A p, t : Storing("login", p, NoToken, t).phase = "store"
        /\ \A t : [phase |-> "mail", token |-> t].phase = "mail"
    BY DEF Idle, Storing
  <2> QED
    BY <2>1 DEF Saves
<1>c. CountIsCurrent(req[r])'
  BY <1>b DEF CountIsCurrent, SavesBy
<1>d. CountIsCurrent(q) /\ misses <= account.failedLoginAttempts
      /\ (account.lockUntil # Never <=> account.failedLoginAttempts >= MaxAttempts)
  BY DEF CInv, CountsAreCurrent
<1>1. ASSUME IsCounting(q), NEW s \in Requests \ {r}
      PROVE  CountIsCurrent(req[s])'
  <2>1. ~IsCounting(req[s])
    BY <1>1 DEF LoginsAlone
  <2> QED
    BY <1>b, <1>1, <2>1 DEF Others, IsCounting, CountIsCurrent, SavesBy
<1>2. CASE q.by = "login"
  <2>1. account'.failedLoginAttempts = 0 /\ account'.lockUntil = Never /\ misses' = 0
    <3>1. misses' = 0
      BY <1>2 DEF Saves
    <3>2. CountersStand(q.copy)
      BY <1>2, <1>a, <1>d DEF CountIsCurrent, SavesBy
    <3>3. account'.failedLoginAttempts = 0 /\ account'.lockUntil = Never
      BY <1>2, <3>2, SavedFields DEF CInv, CountersStand
    <3> QED
      BY <3>1, <3>3
  <2> QED
    BY <1>1, <1>2, <1>a, <1>c, <2>1 DEF CountsAreCurrent, IsCounting, SavesBy
<1>3. CASE q.by = "miss"
  <2> DEFINE n == q.set.failedLoginAttempts
  <2>1. n \in Nat
    BY <1>a, <1>3, FieldTypes DEF IsSaving, IsPatch, IsMeant
  <2>2. misses < n /\ (n < MaxAttempts => account.lockUntil = Never)
    BY <1>3, <1>a, <1>d, <2>1 DEF CountIsCurrent, SavesBy, IsMeant
  <2>3. /\ account'.failedLoginAttempts = n
        /\ IF n >= MaxAttempts THEN account'.lockUntil # Never
                               ELSE account'.lockUntil = account.lockUntil
    BY <1>3, SavedFields DEF CInv
  <2>4. misses' <= misses + 1
    BY <1>3, <1>a DEF Saves
  <2>5. misses' \in Nat
    BY <1>3, <1>a DEF Saves
  <2> HIDE DEF n
  <2>6. misses' <= n
    BY <1>a, <2>1, <2>2, <2>4, <2>5
  <2>7. account'.lockUntil # Never <=> n >= MaxAttempts
    BY <1>a, <2>1, <2>2, <2>3
  <2> QED
    BY <1>1, <1>3, <1>a, <1>c, <2>3, <2>6, <2>7 DEF CountsAreCurrent, IsCounting, SavesBy
<1>4. CASE q.by = "reset"
  <2>1. account'.failedLoginAttempts = 0 /\ account'.lockUntil = Never /\ misses' = 0
    BY <1>4, SavedFields DEF CInv, Saves
  <2>2. ASSUME NEW s \in Requests \ {r}
        PROVE  CountIsCurrent(req[s])'
    <3>1. req'[s] = req[s] /\ CountIsCurrent(req[s])
      BY <1>b DEF Others, CInv, CountsAreCurrent
    <3>2. Never <= now
      BY <1>a DEF Never
    <3>3. ASSUME SavesBy(req[s], {"miss"})
          PROVE  0 < req[s].set.failedLoginAttempts
      <4>1. IsSaving(req[s]) /\ IsMeant(req[s])
        BY <3>3, RequestShape DEF SavesBy, CInv, TypeOK, SavesAreMeant
      <4>2. req[s].set.failedLoginAttempts \in Nat \ {0}
        BY <3>3, <4>1, FieldTypes DEF SavesBy, IsMeant, IsSaving, IsPatch
      <4> QED
        BY <4>2
    <3> QED
      BY <1>b, <2>1, <3>1, <3>2, <3>3 DEF CountIsCurrent, SavesBy, CountersStand
  <2> QED
    BY <1>a, <1>c, <2>1, <2>2 DEF CountsAreCurrent
<1>5. CASE q.by \notin {"login", "miss", "reset"}
  <2>1. /\ account'.failedLoginAttempts = account.failedLoginAttempts
        /\ account'.lockUntil = account.lockUntil
    BY <1>5, SavedFields DEF CInv
  <2>2. misses' = misses
    BY <1>5 DEF Saves
  <2> QED
    BY <1>b, <1>c, <2>1, <2>2, CountsSettle DEF Others
<1> QED
  BY <1>2, <1>3, <1>4, <1>5

LEMMA NextCInv == CInv /\ LoginsAlone /\ [Next]_vars => CInv'
<1> SUFFICES ASSUME CInv, LoginsAlone, [Next]_vars
             PROVE  CInv'
  OBVIOUS
<1>t. TypeOK /\ TypeOK' /\ SavesAreMeant'
  BY NextType, NextMeant DEF CInv
<1>1. CASE Settles
  <2>1. \A s \in Requests : req'[s] = req[s] \/ CountIsCurrent(req[s])'
    BY <1>1 DEF Settles, CountIsCurrent, SavesBy
  <2>2. /\ account'.failedLoginAttempts = account.failedLoginAttempts
        /\ account'.lockUntil = account.lockUntil
    BY <1>1, FieldTypes DEF Settles
  <2> QED
    BY <1>1, <1>t, <2>1, <2>2, CountsSettle DEF Settles, CInv, history
<1>2. ASSUME NEW r \in Requests, Prepares(r)
      PROVE  CInv'
  BY <1>2, <1>t, CountsPrepared, CountsSettle DEF Prepares, Others, CInv, history
<1>3. ASSUME NEW r \in Requests, Sends(r)
      PROVE  CInv'
  <2>1. CountIsCurrent(req[r])'
    BY <1>3 DEF Sends, CountIsCurrent, SavesBy, Idle
  <2> QED
    BY <1>3, <1>t, <2>1, CountsSettle DEF Sends, Others, CInv, history
<1>4. ASSUME NEW r \in Requests, Saves(r)
      PROVE  CInv'
  BY <1>4, <1>t, CountsSaved DEF CInv
<1>5. ASSUME NEW r \in Requests, TokenPairStored(r)
      PROVE  CInv'
  <2>1. /\ account'.failedLoginAttempts = account.failedLoginAttempts
        /\ account'.lockUntil = account.lockUntil
        /\ req'[r] = Idle /\ Others(r)
    BY <1>5, <1>t, StoredFields, FieldTypes
  <2>2. CountIsCurrent(req[r])'
    BY <2>1 DEF CountIsCurrent, SavesBy, Idle
  <2> QED
    BY <1>5, <1>t, <2>1, <2>2, CountsSettle DEF TokenPairStored, Others, CInv
<1> QED
  BY <1>1, <1>2, <1>3, <1>4, <1>5, <1>t, StepKinds

\* However the other requests interleave, as long as no two logins are between
\* load and save, every failure counts and the fifth sets the lock.
THEOREM FailuresLock == Spec /\ []LoginsAlone => []FailuresLocked
<1>1. CInv => FailuresLocked
  BY AccountFields, LimitsAssumption
     DEF CInv, TypeOK, IsAccount, CountsAreCurrent, FailuresLocked
<1>2. CInv /\ LoginsAlone /\ [Next]_vars => CInv'
  BY NextCInv
<1> QED
  BY InitCInv, <1>1, <1>2, PTL DEF Spec

-----------------------------------------------------------------------------
(* Passwords.                                                              *)

PInv == TypeOK /\ SavesAreMeant /\ PasswordsAreCurrent

PasswordIsCurrent(q) ==
    /\ q.phase = "compare" => q.copy.password = account.password
    /\ SavesBy(q, {"login"}) \/ (q.phase = "store" /\ q.by = "login")
           => q.password = account.password

LEMMA InitPInv == Init => PInv
<1> SUFFICES ASSUME Init
             PROVE  PInv
  OBVIOUS
<1>1. PasswordsAreCurrent
  BY DEF Init, Registering, Storing, Idle, PasswordsAreCurrent, SavesBy
<1> QED
  BY <1>1, InitType, InitMeant DEF PInv

\* A login goes by the password it loads, until its tokens are stored.
LEMMA PasswordsPrepared ==
    ASSUME PInv, NEW r \in Requests, Prepares(r)
    PROVE  PasswordIsCurrent(req[r])'
<1> DEFINE q == req[r]
<1>a. UNCHANGED account
  BY DEF Prepares
<1>1. CASE req'[r] = [phase |-> "compare", password |-> q.password, copy |-> Copy(account)]
  BY <1>1, <1>a DEF Copy, PasswordIsCurrent, SavesBy
<1>2. CASE /\ q.phase = "compare" /\ q.password = q.copy.password
           /\ req'[r] = SavingLogin(q.password, q.copy, ResetFailedLogins(q.copy))
  <2>1. q.password = account.password
    BY <1>2 DEF PInv, PasswordsAreCurrent
  <2> QED
    BY <1>2, <1>a, <2>1 DEF SavingLogin, PasswordIsCurrent, SavesBy
<1>3. ASSUME req'[r].phase # "compare", req'[r].by # "login"
      PROVE  PasswordIsCurrent(req[r])'
  BY <1>3 DEF PasswordIsCurrent, SavesBy
<1>4. /\ \A by, set : Saving(by, set).phase = "save" /\ Saving(by, set).by = by
      /\ \A t, set : SavingReset(t, set).phase = "save" /\ SavingReset(t, set).by = "reset"
      /\ \A t : /\ Storing("refresh", NoPassword, q.token, t).phase = "store"
                /\ Storing("refresh", NoPassword, q.token, t).by = "refresh"
  BY DEF Saving, SavingReset, Storing
<1> QED
  BY <1>1, <1>2, <1>3, <1>4 DEF Prepares, Turns

LEMMA NextPInv == PInv /\ PasswordsRest /\ [Next]_vars => PInv'
<1> SUFFICES ASSUME PInv, PasswordsRest, [Next]_vars
             PROVE  PInv'
  OBVIOUS
<1>t. TypeOK /\ TypeOK' /\ SavesAreMeant'
  BY NextType, NextMeant DEF PInv
<1>a. ASSUME NEW s \in Requests, req'[s] = req[s], account'.password = account.password
      PROVE  PasswordIsCurrent(req[s])'
  BY <1>a DEF PInv, PasswordsAreCurrent, PasswordIsCurrent, SavesBy
<1>b. ASSUME \A s \in Requests : PasswordIsCurrent(req[s])'
      PROVE  PInv'
  BY <1>b, <1>t DEF PInv, PasswordsAreCurrent, PasswordIsCurrent
<1>1. CASE Settles
  <2>1. account'.password = account.password
    BY <1>1, FieldTypes DEF Settles
  <2>2. ASSUME NEW s \in Requests, req'[s].phase \notin {"compare", "save", "store", "mail"}
        PROVE  PasswordIsCurrent(req[s])'
    BY <2>2 DEF PasswordIsCurrent, SavesBy
  <2> QED
    BY <1>1, <1>a, <1>b, <2>1, <2>2 DEF Settles
<1>2. ASSUME NEW r \in Requests, Prepares(r)
      PROVE  PInv'
  BY <1>2, <1>a, <1>b, PasswordsPrepared DEF Prepares, Others
<1>3. ASSUME NEW r \in Requests, Sends(r)
      PROVE  PInv'
  <2>1. PasswordIsCurrent(req[r])'
    BY <1>3 DEF Sends, PasswordIsCurrent, SavesBy, Idle
  <2> QED
    BY <1>3, <1>a, <1>b, <2>1 DEF Sends, Others
<1>4. ASSUME NEW r \in Requests, Saves(r), req[r].by \notin {"change", "reset"}
      PROVE  PInv'
  <2>1. account'.password = account.password
    BY <1>4, SavedFields DEF PInv
  <2>2. PasswordIsCurrent(req[r])'
    <3>1. CASE req[r].by = "login"
      <4>1. req[r].password = account.password
        BY <1>4, <3>1 DEF PInv, PasswordsAreCurrent, SavesBy, Saves
      <4>2. PICK t \in RefreshTokens : req'[r] = Storing("login", req[r].password, NoToken, t)
        BY <1>4, <3>1 DEF Saves
      <4>3. req'[r].phase = "store" /\ req'[r].password = req[r].password
        BY <4>2 DEF Storing
      <4> QED
        BY <2>1, <4>1, <4>3 DEF PasswordIsCurrent, SavesBy
    <3>2. CASE req[r].by # "login"
      BY <1>4, <3>2 DEF Saves, Idle, PasswordIsCurrent, SavesBy
    <3> QED
      BY <3>1, <3>2
  <2> QED
    BY <1>4, <1>a, <1>b, <2>1, <2>2 DEF Saves, Others
<1>5. ASSUME NEW r \in Requests, Saves(r), req[r].by \in {"change", "reset"}
      PROVE  PInv'
  <2>1. PasswordIsCurrent(req[r])'
    BY <1>5 DEF Saves, Idle, PasswordIsCurrent, SavesBy
  <2>2. ASSUME NEW s \in Requests \ {r}
        PROVE  PasswordIsCurrent(req[s])'
    <3>1. ~IsLoggingIn(req[s])
      BY <1>5 DEF PasswordsRest, SavesBy, Saves
    <3>2. req'[s] = req[s]
      BY <1>5 DEF Saves, Others
    <3> QED
      BY <3>1, <3>2 DEF IsLoggingIn, PasswordIsCurrent, SavesBy
  <2> QED
    BY <1>b, <2>1, <2>2
<1>6. ASSUME NEW r \in Requests, TokenPairStored(r)
      PROVE  PInv'
  <2>1. account'.password = account.password /\ req'[r] = Idle /\ Others(r)
    BY <1>6, <1>t, StoredFields, FieldTypes
  <2>2. PasswordIsCurrent(req[r])'
    BY <2>1 DEF PasswordIsCurrent, SavesBy, Idle
  <2> QED
    BY <1>a, <1>b, <2>1, <2>2 DEF Others
<1> QED
  BY <1>1, <1>2, <1>3, <1>4, <1>5, <1>6, <1>t, StepKinds

LEMMA LoginsSafe ==
    ASSUME CInv, PInv
    PROVE  LoginStep
<1> SUFFICES ASSUME NEW r \in Requests
             PROVE  /\ Accepts(r) => account.lockUntil <= now
                    /\ Stores(r) /\ req[r].by = "login" => req[r].password = account.password
  BY DEF LoginStep
<1>1. Accepts(r) => account.lockUntil <= now
  BY DEF Accepts, CInv, CountsAreCurrent, CountIsCurrent, SavesBy
<1>2. Stores(r) /\ req[r].by = "login" => req[r].password = account.password
  BY DEF Stores, PInv, PasswordsAreCurrent
<1> QED
  BY <1>1, <1>2

\* As long as no login crosses another, or the change of its password, it is
\* accepted only while the account is not locked, and its tokens are stored only
\* while the password it gave is the account's.
THEOREM LoginsGoByTheAccount ==
    Spec /\ []LoginsAlone /\ []PasswordsRest => [][LoginStep]_vars
<1>1. CInv /\ LoginsAlone /\ [Next]_vars => CInv'
  BY NextCInv
<1>2. PInv /\ PasswordsRest /\ [Next]_vars => PInv'
  BY NextPInv
<1>3. CInv /\ PInv => [LoginStep]_vars
  BY LoginsSafe
<1> QED
  BY InitCInv, InitPInv, <1>1, <1>2, <1>3, PTL DEF Spec

-----------------------------------------------------------------------------
(* Reset tokens.                                                           *)

RInv == TypeOK /\ SavesAreMeant /\ ResetsAreCurrent

LEMMA InitRInv == Init => RInv
<1> SUFFICES ASSUME Init
             PROVE  RInv
  OBVIOUS
<1>1. ResetsAreCurrent
  BY DEF Init, Registering, Storing, Idle, ResetsAreCurrent, SavesBy
<1> QED
  BY <1>1, InitType, InitMeant DEF RInv

\* A reset goes on with the token in force only.
LEMMA ResetsPrepared ==
    ASSUME NEW r \in Requests, Prepares(r), SavesBy(req'[r], {"reset"})
    PROVE  req'[r].token = account'.passwordResetToken
<1> DEFINE q == req[r]
<1>1. CASE /\ Holds(account, q.token)
           /\ \E p \in Passwords : req'[r] = SavingReset(q.token, PasswordReset(p))
  BY <1>1 DEF Prepares, Holds, SavingReset
<1>2. /\ \A by, set : Saving(by, set).by = by
      /\ \A copy, p, set : SavingLogin(p, copy, set).by = "login"
      /\ \A t : Storing("refresh", NoPassword, q.token, t).phase = "store"
  BY DEF Saving, SavingLogin, Storing
<1>3. req'[r].phase = "save" /\ req'[r].by = "reset"
  BY DEF SavesBy
<1> QED
  BY <1>1, <1>2, <1>3 DEF Prepares, Turns

LEMMA NextRInv == RInv /\ ResetsAlone /\ [Next]_vars => RInv'
<1> SUFFICES ASSUME RInv, ResetsAlone, [Next]_vars
             PROVE  RInv'
  OBVIOUS
<1>t. TypeOK /\ TypeOK' /\ SavesAreMeant /\ SavesAreMeant'
  BY NextType, NextMeant DEF RInv
<1>a. ASSUME account'.passwordResetToken = account.passwordResetToken,
             \A s \in Requests : req'[s] = req[s] \/ ~SavesBy(req'[s], {"reset"})
      PROVE  RInv'
  BY <1>a, <1>t DEF RInv, ResetsAreCurrent
<1>1. CASE Settles
  <2>1. account'.passwordResetToken = account.passwordResetToken
    BY <1>1, FieldTypes DEF Settles
  <2> QED
    BY <1>1, <1>a, <2>1 DEF Settles, SavesBy
<1>2. ASSUME NEW r \in Requests, Prepares(r)
      PROVE  RInv'
  <2>1. UNCHANGED account /\ Others(r)
    BY <1>2 DEF Prepares
  <2> QED
    BY <1>2, <1>t, <2>1, ResetsPrepared DEF RInv, ResetsAreCurrent, Others
<1>3. ASSUME NEW r \in Requests, Sends(r)
      PROVE  RInv'
  BY <1>3, <1>a DEF Sends, Others, Idle, SavesBy
<1>4. ASSUME NEW r \in Requests, Saves(r)
      PROVE  RInv'
  <2>1. Others(r) /\ ~SavesBy(req'[r], {"reset"})
    <3>1. /\ Idle.phase = "idle"
          /\ \A p, t : Storing("login", p, NoToken, t).phase = "store"
          /\ \A t : [phase |-> "mail", token |-> t].phase = "mail"
      BY DEF Idle, Storing
    <3> QED
      BY <1>4, <3>1 DEF Saves, SavesBy
  <2>2. CASE req[r].by \notin {"forgot", "unsent", "reset"}
    <3>1. account'.passwordResetToken = account.passwordResetToken
      BY <1>4, <1>t, <2>2, SavedFields
    <3> QED
      BY <1>a, <2>1, <3>1 DEF Others
  <2>3. CASE req[r].by \in {"forgot", "unsent", "reset"}
    <3>1. \A s \in Requests \ {r} : ~SavesBy(req[s], {"reset"})
      BY <1>4, <2>3 DEF ResetsAlone, Saves, SavesBy
    <3>2. \A s \in Requests : ~SavesBy(req'[s], {"reset"})
      BY <2>1, <3>1 DEF Others
    <3> QED
      BY <1>t, <3>2 DEF RInv, ResetsAreCurrent
  <2> QED
    BY <2>2, <2>3
<1>5. ASSUME NEW r \in Requests, TokenPairStored(r)
      PROVE  RInv'
  <2>1. /\ account'.passwordResetToken = account.passwordResetToken
        /\ req'[r] = Idle /\ Others(r)
    BY <1>5, <1>t, StoredFields, FieldTypes
  <2> QED
    BY <1>a, <2>1 DEF Others, Idle, SavesBy
<1> QED
  BY <1>1, <1>2, <1>3, <1>4, <1>5, <1>t, StepKinds

\* A step in which a request suspended in a save goes on and the account changes
\* applies that save.
LEMMA WhoSaves ==
    ASSUME TypeOK, [Next]_vars, NEW r \in Requests, req[r].phase = "save",
           req'[r] # req[r], account' # account
    PROVE  Saves(r)
<1>1. ASSUME NEW s \in Requests, Others(s)
      PROVE  s = r
  BY <1>1 DEF Others
<1>2. ASSUME NEW s \in Requests, Saves(s)
      PROVE  Saves(r)
  BY <1>1, <1>2 DEF Saves
<1>3. ASSUME NEW s \in Requests, TokenPairStored(s)
      PROVE  FALSE
  <2>1. s = r
    BY <1>1, <1>3, StoredFields
  <2> QED
    BY <1>3, <2>1 DEF TokenPairStored
<1> QED
  BY <1>2, <1>3, StepKinds DEF Settles, Prepares, Sends

LEMMA ResetsSafe ==
    ASSUME RInv, [Next]_vars
    PROVE  ResetStep
<1> SUFFICES ASSUME NEW r \in Requests, req[r].phase = "save", req[r].by = "reset",
                    req'[r] # req[r], account' # account
             PROVE  /\ account.passwordResetToken = req[r].token
                    /\ account'.passwordResetToken # req[r].token
  BY DEF ResetStep
<1>1. Saves(r)
  BY WhoSaves DEF RInv
<1>2. account'.passwordResetToken = NoToken
  BY <1>1, SavedFields DEF RInv
<1>3. req[r].token \in ResetTokens
  BY RequestShape DEF RInv, TypeOK, IsSaving
<1> QED
  BY <1>2, <1>3, TokensAssumption DEF RInv, ResetsAreCurrent, SavesBy

\* As long as no reset crosses another, or a link being made or taken back, each
\* changes the account with the token in force, which then no longer is.
THEOREM ResetsWorkOnce == Spec /\ []ResetsAlone => [][ResetStep]_vars
<1>1. RInv /\ ResetsAlone /\ [Next]_vars => RInv'
  BY NextRInv
<1>2. RInv /\ [Next]_vars => [ResetStep]_vars
  BY ResetsSafe
<1> QED
  BY InitRInv, <1>1, <1>2, PTL DEF Spec

-----------------------------------------------------------------------------
(* Reset links.                                                            *)

TInv == TypeOK /\ SavesAreMeant /\ LinksAreCurrent

LEMMA InitTInv == Init => TInv
<1> SUFFICES ASSUME Init
             PROVE  TInv
  OBVIOUS
<1>1. LinksAreCurrent
  BY DEF Init, Registering, Storing, Idle, LinksAreCurrent, LinkIsCurrent, SavesBy
<1> QED
  BY <1>1, InitType, InitMeant DEF TInv

\* A step that sends no link, and puts none in force.
LEMMA LinksSettle ==
    ASSUME TInv, UNCHANGED mail, drawn \subseteq drawn',
           account'.passwordResetToken \in {account.passwordResetToken, NoToken},
           \A s \in Requests : req'[s] = req[s] \/ LinkIsCurrent(req[s])'
    PROVE  LinksAreCurrent'
<1>1. NoToken \notin mail
  BY TokensAssumption DEF TInv, TypeOK
<1>2. ASSUME NEW s \in Requests, req'[s] = req[s]
      PROVE  LinkIsCurrent(req[s])'
  <2>1. LinkIsCurrent(req[s])
    BY DEF TInv, LinksAreCurrent
  <2> QED
    BY <1>1, <1>2, <2>1 DEF LinkIsCurrent, SavesBy
<1> QED
  BY <1>2 DEF TInv, LinksAreCurrent

\* A new link has not been sent, nor has one whose e-mail failed.
LEMMA LinksPrepared ==
    ASSUME TInv, NEW r \in Requests, Prepares(r)
    PROVE  LinkIsCurrent(req[r])'
<1> DEFINE q == req[r]
<1>a. UNCHANGED <<account, mail>> /\ mail \subseteq drawn /\ NoToken \notin mail
  BY TokensAssumption DEF Prepares, TInv, TypeOK, LinksAreCurrent
<1>1. CASE \E t \in drawn' \ drawn : req'[r] = Saving("forgot", ResetRequest(t))
  <2>1. PICK t \in drawn' \ drawn : req'[r] = Saving("forgot", ResetRequest(t))
    BY <1>1
  <2>2. /\ req'[r].phase = "save" /\ req'[r].by = "forgot"
        /\ req'[r].set.passwordResetToken = t
    BY <2>1 DEF Saving, ResetRequest
  <2> QED
    BY <1>a, <2>2 DEF LinkIsCurrent, SavesBy
<1>2. CASE q.phase = "mail" /\ req'[r] = Saving("unsent", ResetUndone)
  <2>1. LinkIsCurrent(q)
    BY DEF TInv, LinksAreCurrent
  <2>2. req'[r].phase = "save" /\ req'[r].by = "unsent"
    BY <1>2 DEF Saving
  <2> QED
    BY <1>2, <1>a, <2>1, <2>2 DEF LinkIsCurrent, SavesBy
<1>3. ASSUME req'[r].phase # "mail", ~SavesBy(req'[r], {"forgot", "unsent"})
      PROVE  LinkIsCurrent(req[r])'
  BY <1>3 DEF LinkIsCurrent, SavesBy
<1>4. /\ \A by, set : Saving(by, set).phase = "save" /\ Saving(by, set).by = by
      /\ \A p, copy, set : /\ SavingLogin(p, copy, set).phase = "save"
                           /\ SavingLogin(p, copy, set).by = "login"
      /\ \A t, set : SavingReset(t, set).phase = "save" /\ SavingReset(t, set).by = "reset"
      /\ \A t : Storing("refresh", NoPassword, q.token, t).phase = "store"
      /\ \A copy : [phase |-> "compare", password |-> q.password, copy |-> copy].phase = "compare"
  BY DEF Saving, SavingLogin, SavingReset, Storing
<1>5. \/ \E t \in drawn' \ drawn : req'[r] = Saving("forgot", ResetRequest(t))
      \/ q.phase = "mail" /\ req'[r] = Saving("unsent", ResetUndone)
      \/ req'[r].phase # "mail" /\ ~SavesBy(req'[r], {"forgot", "unsent"})
  BY <1>4 DEF Prepares, Turns, SavesBy
<1> QED
  BY <1>1, <1>2, <1>3, <1>5

LEMMA NextTInv == TInv /\ LinksAlone /\ [Next]_vars => TInv'
<1> SUFFICES ASSUME TInv, LinksAlone, [Next]_vars
             PROVE  TInv'
  OBVIOUS
<1>t. TypeOK /\ TypeOK' /\ SavesAreMeant /\ SavesAreMeant'
  BY NextType, NextMeant DEF TInv
<1>a. ASSUME NEW s \in Requests, req'[s].phase \notin {"mail", "save"}
      PROVE  LinkIsCurrent(req[s])'
  BY <1>a DEF LinkIsCurrent, SavesBy
<1>b. ASSUME NEW r \in Requests, IsSending(req[r]), Others(r), NEW s \in Requests \ {r}
      PROVE  LinkIsCurrent(req[s])'
  <2>1. ~IsSending(req[s]) /\ req'[s] = req[s]
    BY <1>b DEF LinksAlone, Others
  <2> QED
    BY <2>1 DEF IsSending, LinkIsCurrent, SavesBy
<1>1. CASE Settles
  <2>1. account'.passwordResetToken = account.passwordResetToken
    BY <1>1, FieldTypes DEF Settles
  <2>2. \A s \in Requests : req'[s] = req[s] \/ LinkIsCurrent(req[s])'
    BY <1>1, <1>a DEF Settles
  <2> QED
    BY <1>1, <1>t, <2>1, <2>2, LinksSettle DEF Settles, TInv
<1>2. ASSUME NEW r \in Requests, Prepares(r)
      PROVE  TInv'
  BY <1>2, <1>t, LinksPrepared, LinksSettle DEF Prepares, Others, TInv
<1>3. ASSUME NEW r \in Requests, Sends(r)
      PROVE  TInv'
  <2>1. IsSending(req[r]) /\ Others(r) /\ req'[r] = Idle
    BY <1>3 DEF Sends, IsSending
  <2>2. req[r].token \in drawn
    BY <1>3 DEF Sends, TInv, LinksAreCurrent, LinkIsCurrent
  <2>3. \A s \in Requests : LinkIsCurrent(req[s])'
    BY <1>a, <1>b, <2>1 DEF Idle
  <2>4. (mail \subseteq drawn)'
    BY <1>3, <2>2 DEF Sends, TInv, LinksAreCurrent
  <2> QED
    BY <1>t, <2>3, <2>4 DEF TInv, LinksAreCurrent
<1>4. ASSUME NEW r \in Requests, Saves(r), req[r].by # "forgot"
      PROVE  TInv'
  <2>1. account'.passwordResetToken \in {account.passwordResetToken, NoToken}
    BY <1>4, <1>t, SavedFields
  <2>2. req'[r].phase \notin {"mail", "save"}
    <3>1. /\ Idle.phase = "idle"
          /\ \A p, t : Storing("login", p, NoToken, t).phase = "store"
      BY DEF Idle, Storing
    <3> QED
      BY <1>4, <3>1 DEF Saves
  <2> QED
    BY <1>4, <1>a, <1>t, <2>1, <2>2, LinksSettle DEF Saves, Others, TInv
<1>5. ASSUME NEW r \in Requests, Saves(r), req[r].by = "forgot"
      PROVE  TInv'
  <2> DEFINE t == req[r].set.passwordResetToken
  <2>1. account'.passwordResetToken = t
    BY <1>5, <1>t, SavedFields
  <2>2. t \in drawn \ mail
    BY <1>5 DEF Saves, TInv, LinksAreCurrent, LinkIsCurrent, SavesBy
  <2>3. req'[r].phase = "mail" /\ req'[r].token = t
    BY <1>5 DEF Saves
  <2>4. IsSending(req[r]) /\ Others(r) /\ UNCHANGED mail /\ drawn \subseteq drawn'
    BY <1>5 DEF Saves, IsSending, SavesBy
  <2> HIDE DEF t
  <2>5. LinkIsCurrent(req[r])'
    BY <2>1, <2>2, <2>3, <2>4 DEF LinkIsCurrent, SavesBy
  <2> QED
    BY <1>b, <1>t, <2>4, <2>5 DEF TInv, LinksAreCurrent
<1>6. ASSUME NEW r \in Requests, TokenPairStored(r)
      PROVE  TInv'
  <2>1. /\ account'.passwordResetToken = account.passwordResetToken
        /\ req'[r] = Idle /\ Others(r) /\ UNCHANGED <<mail, drawn>>
    BY <1>6, <1>t, StoredFields, FieldTypes DEF TokenPairStored
  <2>2. LinkIsCurrent(req[r])'
    BY <1>a, <2>1 DEF Idle
  <2> QED
    BY <1>t, <2>1, <2>2, LinksSettle DEF Others, TInv
<1> QED
  BY <1>1, <1>2, <1>3, <1>4, <1>5, <1>6, <1>t, StepKinds

\* As long as no two requests for a link cross, and no reset crosses one, a link
\* that was sent is replaced or taken back only by the reset it is used for or
\* by a newer request.
THEOREM LinksStand == Spec /\ []LinksAlone /\ []ResetsAlone => SentResetTokensStand
<1>1. TInv /\ RInv /\ [Next]_vars => LinkStep
  <2> SUFFICES ASSUME TInv, RInv, [Next]_vars, account.passwordResetToken \in mail,
                      account'.passwordResetToken # account.passwordResetToken
               PROVE  \E r \in Requests :
                         /\ req'[r] # req[r] /\ req[r].phase = "save"
                         /\ \/ req[r].by = "reset" /\ req[r].token = account.passwordResetToken
                            \/ req[r].by = "forgot"
    BY DEF LinkStep
  <2>1. TypeOK /\ SavesAreMeant
    BY DEF TInv
  <2>2. ~Settles
    BY FieldTypes DEF Settles
  <2>3. ASSUME NEW r \in Requests, TokenPairStored(r)
        PROVE  FALSE
    BY <2>1, <2>3, StoredFields, FieldTypes
  <2>4. PICK r \in Requests : Saves(r)
    BY <2>1, <2>2, <2>3, StepKinds DEF Prepares, Sends
  <2>5. req[r].by # "unsent"
    BY <2>4 DEF TInv, LinksAreCurrent, LinkIsCurrent, SavesBy, Saves
  <2>6. req[r].by \in {"reset", "forgot"}
    BY <2>1, <2>4, <2>5, SavedFields
  <2>7. req[r].phase = "save" /\ req'[r].phase # "save"
    BY <2>4, <2>6 DEF Saves, Idle
  <2>8. req[r].by = "reset" => req[r].token = account.passwordResetToken
    BY <2>7 DEF RInv, ResetsAreCurrent, SavesBy
  <2> QED
    BY <2>6, <2>7, <2>8
<1>2. TInv /\ RInv /\ [Next]_vars => [LinkStep]_vars
  BY <1>1
<1>3. TInv /\ LinksAlone /\ [Next]_vars => TInv'
  BY NextTInv
<1>4. RInv /\ ResetsAlone /\ [Next]_vars => RInv'
  BY NextRInv
<1> QED
  BY InitTInv, InitRInv, <1>2, <1>3, <1>4, PTL DEF Spec, SentResetTokensStand

-----------------------------------------------------------------------------
(* What sessions descend from.                                             *)

GInv == IInv /\ SavesAreMeant /\ RootsAreKnown

LEMMA InitGInv == Init => GInv
<1> SUFFICES ASSUME Init
             PROVE  GInv
  OBVIOUS
<1>1. RootsAreKnown
  BY DEF Init, Registering, Storing, Idle, RootsAreKnown, Known, IsRefreshing
<1> QED
  BY <1>1, InitIInv, InitMeant DEF GInv

\* A save ends the session there is, or leaves it alone.
LEMMA SaveEnds ==
    ASSUME GInv, NEW r \in Requests, Saves(r)
    PROVE  /\ Known' = Known
           /\ Live' = IF Hash' = Hash THEN Live ELSE NoToken
           /\ ended' = ended \cup ({Live} \ {Live', NoToken})
<1>1. /\ Hash' \in {Hash, NoToken}
      /\ retired' = retired \cup ({Hash} \ {Hash', NoToken})
  BY SaveClears DEF GInv, Saves
<1>2. Known' = Known
  BY <1>1 DEF Known, Hash
<1>3. UNCHANGED root
  BY DEF Saves
<1>4. Live' = IF Hash' = Hash THEN Live ELSE NoToken
  BY <1>1, <1>3 DEF Live, Hash
<1>5. ended' = ended \cup ({Live} \ {Live', NoToken})
  <2>1. account' = Assign(account, req[r].set)
    BY DEF Saves, Write
  <2>2. Write(req[r].set, root)
    BY DEF Saves
  <2> QED
    BY <1>3, <2>1, <2>2 DEF Write, Live
<1> QED
  BY <1>2, <1>4, <1>5

\* Storing a pair opens a session, or carries on the one its parent belongs to.
LEMMA StoreOpens ==
    ASSUME GInv, NEW r \in Requests, TokenPairStored(r)
    PROVE  LET n == req[r].token
               p == req[r].parent IN
           /\ n \in RefreshTokens /\ n \notin Known /\ Known' = Known \cup {n}
           /\ \A t \in Known : root'[t] = root[t]
           /\ root'[n] = IF req[r].by = "refresh" THEN root[p] ELSE n
           /\ req[r].by \in {"login", "refresh"}
           /\ Hash' = n /\ Live' = root'[n]
           /\ ended' = ended \cup ({Live} \ {Live', NoToken})
<1> DEFINE n == req[r].token
           p == req[r].parent
           first == IF p = NoToken THEN n ELSE root[p]
<1>1. IsStoring(req[r]) /\ req[r].phase = "store"
  BY RequestShape DEF TokenPairStored, GInv, IInv, TypeOK
<1>2. /\ n \in RefreshTokens /\ p \in RefreshTokens \cup {NoToken}
      /\ req[r].by \in {"login", "refresh"} /\ (req[r].by = "refresh" <=> p # NoToken)
  BY <1>1, TokensAssumption DEF IsStoring
<1>3. n \notin retired \cup {Hash} /\ n # NoToken
  BY <1>1, <1>2, TokensAssumption DEF GInv, IInv, InFlightIsFresh, Pending, Unseen, Hash
<1>4. root \in [RefreshTokens -> RefreshTokens \cup {NoToken}] /\ retired \subseteq RefreshTokens
      /\ Hash \in RefreshTokens \cup {NoToken}
  BY HashType DEF GInv, IInv, TypeOK
<1>5. root' = [root EXCEPT ![n] = first] /\ Write(Session(n), root')
  BY DEF TokenPairStored
<1>6. account' = Assign(account, Session(n)) /\ Hash' = n
  BY <1>5, StoredFields DEF Write, GInv, IInv
<1>7. retired' = retired \cup ({Hash} \ {n, NoToken})
  BY <1>5, <1>6 DEF Write, Hash
<1> HIDE DEF n, p, first
<1>8. Known' = Known \cup {n} /\ n \notin Known
  BY <1>3, <1>6, <1>7 DEF Known, Hash
<1>9. root'[n] = first /\ \A t \in RefreshTokens : t # n => root'[t] = root[t]
  BY <1>2, <1>4, <1>5
<1>10. \A t \in Known : root'[t] = root[t]
  BY <1>4, <1>8, <1>9 DEF Known, Hash
<1>11. Live' = root'[n]
  BY <1>3, <1>6 DEF Live, Hash
<1>12. ended' = ended \cup ({Live} \ {Live', NoToken})
  <2>1. Hash # NoToken => root'[Hash] = root[Hash]
    BY <1>3, <1>4, <1>9
  <2>2. Live = IF Hash = NoToken THEN NoToken ELSE root'[Hash]
    BY <2>1 DEF Live, Hash
  <2>3. Live' = IF Hash' = NoToken THEN NoToken ELSE root'[Hash']
    BY DEF Live, Hash
  <2>4. Assign(account, Session(n)).refreshTokenHash = Hash'
    BY <1>6 DEF Hash
  <2> QED
    BY <1>5, <2>2, <2>3, <2>4 DEF Write, Hash
<1> QED
  BY <1>2, <1>6, <1>8, <1>9, <1>10, <1>11, <1>12 DEF n, p, first

\* Every token stored descends from a login whose token was stored, and only
\* sessions that were opened are ended.
LEMMA NextGInv == GInv /\ [Next]_vars => GInv'
<1> SUFFICES ASSUME GInv, [Next]_vars
             PROVE  GInv'
  OBVIOUS
<1>t. TypeOK /\ SavesAreMeant /\ IInv' /\ SavesAreMeant'
  BY NextIInv, NextMeant DEF GInv, IInv
<1>a. /\ \A t \in Known : root[t] \in Known
      /\ ended \subseteq Known
      /\ \A s \in Requests : IsRefreshing(req[s]) => req[s].parent \in Known
  BY DEF GInv, RootsAreKnown
<1>b. Hash \in RefreshTokens \cup {NoToken} /\ (Hash # NoToken => Hash \in Known)
  BY <1>t, HashType DEF Known, Hash
<1>c. Live \in Known \cup {NoToken}
  BY <1>a, <1>b DEF Live, Hash
<1>1. ASSUME Known' = Known, UNCHANGED root, ended' \subseteq ended \cup ({Live} \ {NoToken}),
             \A s \in Requests :
                req'[s] = req[s] \/ (IsRefreshing(req'[s]) => req'[s].parent \in Known)
      PROVE  GInv'
  BY <1>1, <1>a, <1>c, <1>t DEF GInv, RootsAreKnown
<1>2. CASE Settles
  <2>1. Hash' = Hash
    BY <1>2, FieldTypes DEF Settles, Hash
  <2>2. Known' = Known /\ UNCHANGED <<root, ended>>
    BY <1>2, <2>1 DEF Settles, history, Known, Hash
  <2>3. \A s \in Requests : req'[s] = req[s] \/ ~IsRefreshing(req'[s])
    BY <1>2 DEF Settles, IsRefreshing
  <2> QED
    BY <1>1, <2>2, <2>3
<1>3. ASSUME NEW r \in Requests, Prepares(r)
      PROVE  GInv'
  <2>1. Known' = Known /\ UNCHANGED <<root, ended>> /\ Others(r)
    BY <1>3 DEF Prepares, history, Known
  <2>2. IsRefreshing(req'[r]) => req'[r].parent \in Known
    <3>1. CASE /\ IsCurrent(req[r].token) /\ req[r].token \in RefreshTokens
               /\ \E t \in RefreshTokens : req'[r] = Storing("refresh", NoPassword, req[r].token, t)
      <4>1. req'[r].parent = req[r].token
        BY <3>1 DEF Storing
      <4>2. req[r].token \in Known
        BY <3>1, TokensAssumption DEF IsCurrent, Known
      <4> QED
        BY <4>1, <4>2
    <3>2. /\ \A by, set : Saving(by, set).phase = "save"
          /\ \A q, copy, set : SavingLogin(q, copy, set).phase = "save"
          /\ \A t, set : SavingReset(t, set).phase = "save"
      BY DEF Saving, SavingLogin, SavingReset
    <3> QED
      BY <1>3, <3>1, <3>2 DEF Prepares, Turns, IsRefreshing
  <2> QED
    BY <1>1, <2>1, <2>2 DEF Others
<1>4. ASSUME NEW r \in Requests, Sends(r)
      PROVE  GInv'
  <2>1. Known' = Known /\ UNCHANGED <<root, ended>> /\ Others(r) /\ req'[r] = Idle
    BY <1>4 DEF Sends, history, Known
  <2> QED
    BY <1>1, <2>1 DEF Others, IsRefreshing, Idle
<1>5. ASSUME NEW r \in Requests, Saves(r)
      PROVE  GInv'
  <2>1. Known' = Known /\ ended' = ended \cup ({Live} \ {Live', NoToken})
    BY <1>5, SaveEnds
  <2>2. UNCHANGED root /\ Others(r) /\ ~IsRefreshing(req'[r])
    <3>1. /\ Idle.phase = "idle"
          /\ \A p, t : Storing("login", p, NoToken, t).by = "login"
          /\ \A t : [phase |-> "mail", token |-> t].phase = "mail"
      BY DEF Idle, Storing
    <3> QED
      BY <1>5, <3>1 DEF Saves, IsRefreshing
  <2> QED
    BY <1>1, <2>1, <2>2 DEF Others
<1>6. ASSUME NEW r \in Requests, TokenPairStored(r)
      PROVE  GInv'
  <2> DEFINE n == req[r].token
  <2>1. /\ Known' = Known \cup {n} /\ n \notin Known
        /\ \A t \in Known : root'[t] = root[t]
        /\ root'[n] = IF req[r].by = "refresh" THEN root[req[r].parent] ELSE n
        /\ ended' = ended \cup ({Live} \ {Live', NoToken})
    BY <1>6, StoreOpens
  <2>2. req[r].by = "refresh" => req[r].parent \in Known
    BY <1>6, <1>a DEF TokenPairStored, IsRefreshing
  <2>3. \A t \in Known' : root'[t] \in Known'
    BY <1>a, <2>1, <2>2
  <2>4. ended' \subseteq Known'
    BY <1>a, <1>c, <2>1
  <2>5. Others(r) /\ req'[r] = Idle
    BY <1>6, <1>t, StoredFields
  <2>6. \A s \in Requests : IsRefreshing(req'[s]) => req'[s].parent \in Known'
    BY <1>a, <2>1, <2>5 DEF Others, IsRefreshing, Idle
  <2> QED
    BY <1>t, <2>3, <2>4, <2>6 DEF GInv, RootsAreKnown
<1> QED
  BY <1>2, <1>3, <1>4, <1>5, <1>6, <1>t, StepKinds

-----------------------------------------------------------------------------
(* Refreshes, and the session their owner sees.                            *)

FInv == GInv /\ RefreshesAreCurrent

LEMMA InitFInv == Init => FInv
<1> SUFFICES ASSUME Init
             PROVE  FInv
  OBVIOUS
<1>1. RefreshesAreCurrent
  BY DEF Init, Registering, Storing, Idle, RefreshesAreCurrent, IsRefreshing,
         EndedSessionsStayEnded
<1> QED
  BY <1>1, InitGInv DEF FInv

\* The session there is was opened; those that ended are others.
LEMMA LiveIsKnown ==
    ASSUME FInv
    PROVE  /\ Live \in Known \cup {NoToken} /\ Live \notin ended
           /\ NoToken \notin Known /\ NoToken \notin ended
           /\ Hash # NoToken => Live \in Known
<1>1. Hash \in RefreshTokens \cup {NoToken} /\ ended \subseteq RefreshTokens
  BY HashType DEF FInv, GInv, IInv, TypeOK
<1>2. Hash # NoToken => Hash \in Known
  BY DEF Known, Hash
<1>3. Hash # NoToken => Live \in Known
  BY <1>2 DEF FInv, GInv, RootsAreKnown, Live, Hash
<1>4. Hash = NoToken => Live = NoToken
  BY DEF Live, Hash
<1> QED
  BY <1>1, <1>3, <1>4, TokensAssumption DEF Known, FInv, RefreshesAreCurrent, EndedSessionsStayEnded

\* Storing a pair opens a session that never was, after a login, and changes none,
\* after a refresh whose token is the current one still.
LEMMA StoreImplements ==
    ASSUME FInv, NEW r \in Requests, TokenPairStored(r)
    PROVE  /\ account'.password = account.password
           /\ \/ /\ Live' \in RefreshTokens /\ Live' \notin ended /\ Live' # Live
                 /\ ended' = ended \cup ({Live} \ {NoToken})
              \/ Live' = Live /\ ended' = ended
<1> DEFINE n == req[r].token
<1>1. account'.password = account.password
  BY StoredFields, FieldTypes DEF FInv, GInv, IInv
<1>2. /\ n \in RefreshTokens /\ n \notin Known
      /\ root'[n] = IF req[r].by = "refresh" THEN root[req[r].parent] ELSE n
      /\ req[r].by \in {"login", "refresh"}
      /\ Live' = root'[n]
      /\ ended' = ended \cup ({Live} \ {Live', NoToken})
  BY StoreOpens DEF FInv
<1>3. CASE req[r].by = "refresh"
  <2>1. req[r].parent = Hash /\ Hash # NoToken
    <3>1. req[r].phase = "store" /\ IsStoring(req[r])
      BY RequestShape DEF TokenPairStored, FInv, GInv, IInv, TypeOK
    <3>2. req[r].parent \in RefreshTokens
      BY <1>3, <3>1 DEF IsStoring
    <3> QED
      BY <1>3, <3>1, <3>2, TokensAssumption DEF FInv, RefreshesAreCurrent, IsRefreshing, Hash
  <2>2. Live' = Live
    BY <1>2, <1>3, <2>1 DEF Live, Hash
  <2> QED
    BY <1>1, <1>2, <2>2
<1>4. CASE req[r].by # "refresh"
  <2>1. Live' = n /\ n # Live
    BY <1>2, <1>4, LiveIsKnown, TokensAssumption
  <2>2. n \notin ended
    BY <1>2 DEF FInv, GInv, RootsAreKnown
  <2> QED
    BY <1>1, <1>2, <2>1, <2>2
<1> QED
  BY <1>3, <1>4

LEMMA NextFInv == FInv /\ RefreshesAlone /\ [Next]_vars => FInv'
<1> SUFFICES ASSUME FInv, RefreshesAlone, [Next]_vars
             PROVE  FInv'
  OBVIOUS
<1>t. TypeOK /\ SavesAreMeant /\ GInv /\ GInv'
  BY NextGInv DEF FInv, GInv, IInv
<1>a. /\ \A s \in Requests : IsRefreshing(req[s]) => req[s].parent = Hash
      /\ Live \notin ended
  BY DEF FInv, RefreshesAreCurrent, EndedSessionsStayEnded, Hash
<1>b. ASSUME Hash' = Hash, UNCHANGED <<root, ended>>,
             \A s \in Requests : 
                req'[s] = req[s] \/ (IsRefreshing(req'[s]) => req'[s].parent = Hash)
      PROVE  FInv'
  <2>1. Live' = Live
    BY <1>b DEF Live, Hash
  <2> QED
    BY <1>a, <1>b, <1>t, <2>1 DEF FInv, RefreshesAreCurrent, EndedSessionsStayEnded, Hash
<1>c. ASSUME NEW r \in Requests, SetsHash(req[r]), Others(r), ~IsRefreshing(req'[r]),
             Live' \notin ended'
      PROVE  FInv'
  <2>1. \A s \in Requests \ {r} : ~IsRefreshing(req[s])
    BY <1>c DEF RefreshesAlone
  <2>2. \A s \in Requests : ~IsRefreshing(req'[s])
    BY <1>c, <2>1 DEF Others
  <2> QED
    BY <1>c, <1>t, <2>2 DEF FInv, RefreshesAreCurrent, EndedSessionsStayEnded
<1>1. CASE Settles
  <2>1. Hash' = Hash
    BY <1>1, FieldTypes DEF Settles, Hash
  <2>2. \A s \in Requests : req'[s] = req[s] \/ ~IsRefreshing(req'[s])
    BY <1>1 DEF Settles, IsRefreshing
  <2> QED
    BY <1>1, <1>b, <2>1, <2>2 DEF Settles, history
<1>2. ASSUME NEW r \in Requests, Prepares(r)
      PROVE  FInv'
  <2>1. Hash' = Hash /\ UNCHANGED <<root, ended>> /\ Others(r)
    BY <1>2 DEF Prepares, history, Hash
  <2>2. IsRefreshing(req'[r]) => req'[r].parent = Hash
    <3>1. /\ \A by, set : Saving(by, set).phase = "save"
          /\ \A q, copy, set : SavingLogin(q, copy, set).phase = "save"
          /\ \A t, set : SavingReset(t, set).phase = "save"
          /\ \A q, t : Storing("refresh", NoPassword, q, t).parent = q
      BY DEF Saving, SavingLogin, SavingReset, Storing
    <3> QED
      BY <1>2, <3>1 DEF Prepares, Turns, IsRefreshing, IsCurrent, Hash
  <2> QED
    BY <1>b, <2>1, <2>2 DEF Others
<1>3. ASSUME NEW r \in Requests, Sends(r)
      PROVE  FInv'
  <2>1. Hash' = Hash /\ UNCHANGED <<root, ended>> /\ Others(r) /\ req'[r] = Idle
    BY <1>3 DEF Sends, history, Hash
  <2> QED
    BY <1>b, <2>1 DEF Others, IsRefreshing, Idle
<1>4. ASSUME NEW r \in Requests, Saves(r)
      PROVE  FInv'
  <2>1. /\ Live' = IF Hash' = Hash THEN Live ELSE NoToken
        /\ ended' = ended \cup ({Live} \ {Live', NoToken})
    BY <1>4, <1>t, SaveEnds
  <2>2. UNCHANGED root /\ Others(r) /\ ~IsRefreshing(req'[r])
    <3>1. /\ Idle.phase = "idle"
          /\ \A p, t : Storing("login", p, NoToken, t).by = "login"
          /\ \A t : [phase |-> "mail", token |-> t].phase = "mail"
      BY DEF Idle, Storing
    <3> QED
      BY <1>4, <3>1 DEF Saves, IsRefreshing
  <2>3. CASE req[r].by \notin {"reuse", "logout", "change", "reset"}
    <3>1. Hash' = Hash
      BY <1>4, <1>t, <2>3, SavedFields
    <3>2. ended' = ended
      BY <2>1, <3>1
    <3> QED
      BY <1>b, <2>2, <3>1, <3>2 DEF Others
  <2>4. CASE req[r].by \in {"reuse", "logout", "change", "reset"}
    <3>1. SetsHash(req[r])
      BY <1>4, <2>4 DEF SetsHash, SavesBy, Saves
    <3>2. Live' \notin ended'
      BY <1>a, <2>1, LiveIsKnown
    <3> QED
      BY <1>c, <2>2, <3>1, <3>2
  <2> QED
    BY <2>3, <2>4
<1>5. ASSUME NEW r \in Requests, TokenPairStored(r)
      PROVE  FInv'
  <2>1. Others(r) /\ req'[r] = Idle /\ req[r].phase = "store"
    BY <1>5, <1>t, StoredFields DEF TokenPairStored
  <2>2. Live' \notin ended'
    BY <1>5, <1>a, StoreImplements
  <2> QED
    BY <1>c, <2>1, <2>2 DEF SetsHash, IsRefreshing, Idle
<1> QED
  BY <1>1, <1>2, <1>3, <1>4, <1>5, <1>t, StepKinds

\* The state of SessionLifecycle.

LEMMA OwnerStep ==
    ASSUME FInv, [Next]_vars
    PROVE  Owner!Next \/ UNCHANGED OwnerBar
<1>t. TypeOK /\ SavesAreMeant /\ GInv
  BY DEF FInv, GInv, IInv
<1>1. CASE Settles
  <2>1. account'.password = account.password /\ Hash' = Hash
    BY <1>1, FieldTypes DEF Settles, Hash
  <2> QED
    BY <1>1, <2>1 DEF Settles, OwnerBar, Live, Hash, history
<1>2. ASSUME NEW r \in Requests, Prepares(r) \/ Sends(r)
      PROVE  UNCHANGED OwnerBar
  BY <1>2 DEF Prepares, Sends, history, OwnerBar, Live
<1>3. ASSUME NEW r \in Requests, Saves(r)
      PROVE  Owner!Next \/ UNCHANGED OwnerBar
  <2> DEFINE by == req[r].by
  <2>1. /\ Live' = IF Hash' = Hash THEN Live ELSE NoToken
        /\ ended' = ended \cup ({Live} \ {Live', NoToken})
    BY <1>3, <1>t, SaveEnds
  <2>2. /\ account'.password = IF by \in {"change", "reset"} THEN req[r].set.password
                                                             ELSE account.password
        /\ Hash' = IF by \in {"reuse", "logout", "change", "reset"} THEN NoToken ELSE Hash
    BY <1>3, <1>t, SavedFields
  <2>3. CASE by \notin {"reuse", "logout", "change", "reset"}
    BY <2>1, <2>2, <2>3 DEF OwnerBar
  <2>4. CASE by \in {"reuse", "logout"}
    <3>1. account'.password = account.password /\ Live' = NoToken
      BY <2>1, <2>2, <2>4 DEF Live, Hash
    <3>2. Live # NoToken => Owner!End
      BY <2>1, <3>1 DEF Owner!End
    <3>3. Live = NoToken => UNCHANGED OwnerBar
      BY <2>1, <3>1 DEF OwnerBar
    <3> QED
      BY <3>2, <3>3 DEF Owner!Next
  <2>5. CASE by \in {"change", "reset"}
    <3>1. Live' = NoToken /\ ended' = ended \cup ({Live} \ {NoToken})
      BY <2>1, <2>2, <2>5 DEF Live, Hash
    <3>2. account'.password \in Passwords
      <4>1. TypeOK'
        BY <1>t, NextType
      <4> QED
        BY <4>1, AccountFields DEF TypeOK, IsAccount
    <3> PICK p \in Passwords : account'.password = p
      BY <3>2
    <3>3. Owner!ChangePassword(p)
      BY <3>1 DEF Owner!ChangePassword
    <3> QED
      BY <3>3 DEF Owner!Next
  <2> QED
    BY <2>3, <2>4, <2>5
<1>4. ASSUME NEW r \in Requests, TokenPairStored(r)
      PROVE  Owner!Next \/ UNCHANGED OwnerBar
  <2>1. account'.password = account.password
    BY <1>4, StoreImplements
  <2>2. CASE /\ Live' \in RefreshTokens /\ Live' \notin ended /\ Live' # Live
             /\ ended' = ended \cup ({Live} \ {NoToken})
    <3> PICK s \in RefreshTokens : Live' = s
      BY <2>2
    <3>1. Owner!Open(s)
      BY <2>1, <2>2 DEF Owner!Open
    <3> QED
      BY <3>1 DEF Owner!Next
  <2>3. CASE Live' = Live /\ ended' = ended
    BY <2>1, <2>3 DEF OwnerBar
  <2> QED
    BY <1>4, <2>2, <2>3, StoreImplements
<1> QED
  BY <1>1, <1>2, <1>3, <1>4, <1>t, StepKinds

LEMMA OwnerInit == Init => Owner!Init
  BY DEF Init, Owner!Init, Live

\* As long as no refresh crosses another save of the hash, a session that was
\* ended or replaced is not the current one again ...
THEOREM EndedStayEnded == Spec /\ []RefreshesAlone => []EndedSessionsStayEnded
<1>1. FInv => EndedSessionsStayEnded
  BY DEF FInv, RefreshesAreCurrent
<1> QED
  BY <1>1, InitFInv, NextFInv, PTL DEF Spec

\* ... and logins, refreshes, logouts and changes of the password are the steps
\* of SessionLifecycle.
THEOREM SessionsImplemented == Spec /\ []RefreshesAlone => Owner!Spec
<1>1. FInv /\ [Next]_vars => [Owner!Next]_OwnerBar
  BY OwnerStep
<1> QED
  BY <1>1, InitFInv, NextFInv, OwnerInit, PTL
     DEF Spec, Owner!Spec, OwnerBar

-----------------------------------------------------------------------------
(* Until the first overlap, whichever it is.                               *)

Together == CInv /\ PInv /\ RInv /\ FInv /\ Apart

LEMMA InitTogether == WatchedInit => (~crossed => Together)
  BY InitCInv, InitPInv, InitRInv, InitFInv DEF Together, WatchedInit

\* An overlap that there was stays noted, and one that begins is.
LEMMA NextTogether ==
    ASSUME ~crossed => Together,
           [WatchedNext]_<<vars, crossed>>
    PROVE  (~crossed => Together)' /\ [Next]_vars
<1>1. CASE UNCHANGED <<vars, crossed>>
  <2>1. UNCHANGED vars /\ crossed' = crossed
    BY <1>1 DEF vars, history
  <2>2. [Next]_vars
    BY <2>1
  <2>3. Apart => Apart'
    BY <2>1 DEF vars, history, Apart, LoginsAlone, PasswordsRest, ResetsAlone, LinksAlone,
       RefreshesAlone, IsCounting, IsLoggingIn, IsSending, IsRefreshing, SetsHash, SavesBy
  <2> QED
    BY <2>1, <2>2, <2>3, NextCInv, NextPInv, NextRInv, NextFInv DEF Together, Apart
<1>2. CASE WatchedNext
  BY <1>2, NextCInv, NextPInv, NextRInv, NextFInv DEF WatchedNext, Together, Apart
<1> QED
  BY <1>1, <1>2

LEMMA UntilCrossed ==
    WatchedSpec => [](~crossed => Together) /\ [][Next]_vars
<1>1. (~crossed => Together) /\ [WatchedNext]_<<vars, crossed>>
         => (~crossed => Together)' /\ [Next]_vars
  BY NextTogether
<1> QED
  BY <1>1, InitTogether, PTL DEF WatchedSpec

\* Until requests cross, as many failures as the limit lock the account ...
THEOREM UncrossedFailuresLock == WatchedSpec => []LocksAfterFailures
<1>1. (~crossed => Together) => LocksAfterFailures
  BY AccountFields, LimitsAssumption
     DEF Together, CInv, TypeOK, IsAccount, CountsAreCurrent, LocksAfterFailures, FailuresLocked
<1> QED
  BY <1>1, UntilCrossed, PTL

\* ... a login is accepted and stored for the account as it is then ...
THEOREM UncrossedLoginsAreCurrent == WatchedSpec => LoginsAreCurrent
<1>1. (~crossed => Together) => [~crossed => LoginStep]_vars
  BY LoginsSafe DEF Together
<1> QED
  BY <1>1, UntilCrossed, PTL DEF LoginsAreCurrent

\* ... a reset token changes the account once ...
THEOREM UncrossedResetsWorkOnce == WatchedSpec => ResetTokensWorkOnce
<1>1. (~crossed => Together) /\ [Next]_vars => [~crossed => ResetStep]_vars
  BY ResetsSafe DEF Together
<1> QED
  BY <1>1, UntilCrossed, PTL DEF ResetTokensWorkOnce

\* ... and the sessions of the account are those of SessionLifecycle.
THEOREM UncrossedSessions == WatchedSpec => ImplementsSessions
<1>1. (~crossed => Together) /\ [Next]_vars => [~crossed => Owner!Next]_OwnerBar
  BY OwnerStep DEF Together
<1>2. WatchedSpec => Owner!Init
  BY OwnerInit DEF WatchedSpec, WatchedInit
<1> QED
  BY <1>1, <1>2, UntilCrossed, PTL DEF ImplementsSessions

\* Where requests are served one at a time, all of this holds without a condition.
COROLLARY SessionsOneAtATime ==
    ASSUME \A a, b \in Requests : a = b
    PROVE  Spec => /\ []FailuresLocked /\ [][LoginStep]_vars /\ [][ResetStep]_vars
                   /\ SentResetTokensStand /\ []EndedSessionsStayEnded /\ Owner!Spec
<1>1. LoginsAlone /\ PasswordsRest /\ ResetsAlone /\ LinksAlone /\ RefreshesAlone
  BY OneSlot
<1> QED
  BY <1>1, FailuresLock, LoginsGoByTheAccount, ResetsWorkOnce, LinksStand, EndedStayEnded,
     SessionsImplemented, PTL

=============================================================================

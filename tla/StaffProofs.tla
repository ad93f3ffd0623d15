----------------------------- MODULE StaffProofs -----------------------------
(***************************************************************************)
(* Proofs about user management, for any number of addresses and requests  *)
(* in flight.                                                              *)
(***************************************************************************)
EXTENDS StaffProperties, TLAPS

-----------------------------------------------------------------------------
(* The inductive invariant.                                                *)

\* What a request in flight carries is what was asked for: a save sends fields
\* of the body, as the body has them, and one of a manager's promotes nobody.
CarriesItsBody(q) ==
    /\ q.op = "delete" => q.body = [isActive |-> FALSE]
    /\ q.phase = "save" =>
          /\ DOMAIN q.set \subseteq DOMAIN q.body
          /\ \A f \in DOMAIN q.set : q.set[f] = q.body[f]
          /\ q.op = "create" => q.set = q.body
          /\ q.role # "admin" /\ "role" \in DOMAIN q.set => q.set.role \in Below

InFlightAsAsked == \A r \in Requests : req[r] # Idle => CarriesItsBody(req[r])

\* What request q found when it was let in and when it was checked still holds.
StillHolds(q) ==
    /\ q.actor \in Registered
    /\ accounts[q.actor].isActive /\ accounts[q.actor].role = q.role
    /\ q.phase = "save" /\ q.op = "update" => MayUpdate(q.role, accounts[q.target], q.body)
    /\ q.phase = "save" /\ q.op = "delete" =>
           MayDelete(q.role, q.actor, q.target, accounts[q.target])

\* So it does for a request that was alone all the time.
AloneIsUndisturbed ==
    \A r \in Requests \ overlapped :
        req[r] # Idle => /\ Busy = {r}
                         /\ StillHolds(req[r])

IInv == TypeOK /\ InFlightAsAsked /\ AloneIsUndisturbed

-----------------------------------------------------------------------------
(* Small facts.                                                            *)

\* A request that was received, checked or is about to be saved is not idle.
LEMMA PhaseIsBusy == \A q : q.phase \in {"received", "save"} => q # Idle
  BY DEF Idle

\* The paths save() sends are a part of the body.
LEMMA ModifiedIsAsked ==
    ASSUME NEW copy, NEW body, IsUpdateBody(body)
    PROVE  /\ IsUpdateBody(Modified(copy, body))
           /\ DOMAIN Modified(copy, body) \subseteq DOMAIN body
           /\ \A f \in DOMAIN Modified(copy, body) : Modified(copy, body)[f] = body[f]
  BY DEF IsUpdateBody, Modified

\* Applied to an account, they make an account.
LEMMA WrittenType ==
    ASSUME NEW stored \in Accounts, NEW set, IsUpdateBody(set)
    PROVE  Written(stored, set) \in Accounts
  BY DEF Written, Accounts, IsUpdateBody

-----------------------------------------------------------------------------
(* The steps.                                                              *)

\* A request that comes in.
LEMMA ArrivesIInv ==
    ASSUME IInv, NEW r \in Requests, NEW q, Arrives(r, q),
           IsRequest(q), q.phase = "received", q # Idle, q.op = "delete" => q.body = [isActive |-> FALSE],
           q.actor \in Registered, accounts[q.actor].isActive, accounts[q.actor].role = q.role
    PROVE  IInv'
<1>1. /\ req[r] = Idle /\ req' = [req EXCEPT ![r] = q] /\ accounts' = accounts
      /\ overlapped' = IF Busy = {} THEN overlapped ELSE overlapped \cup Busy \cup {r}
  BY DEF Arrives
<1>2. /\ DOMAIN req = Requests /\ DOMAIN req' = Requests
      /\ req'[r] = q /\ \A x \in Requests \ {r} : req'[x] = req[x]
  BY <1>1 DEF IInv, TypeOK
<1>3. Busy \subseteq Requests
  BY DEF Busy
<1>4. TypeOK'
  <2>1. \A x \in Requests : IsRequest(req[x])'
    BY <1>1, <1>2 DEF IInv, TypeOK, IsRequest, Registered
  <2> QED
    BY <1>1, <1>2, <1>3, <2>1 DEF IInv, TypeOK, Registered
<1>5. InFlightAsAsked'
  BY <1>2 DEF IInv, InFlightAsAsked, CarriesItsBody
<1>6. AloneIsUndisturbed'
  <2> SUFFICES ASSUME NEW x \in Requests, x \notin overlapped', req'[x] # Idle
               PROVE  Busy' = {x} /\ StillHolds(req[x])'
    BY DEF AloneIsUndisturbed
  <2>1. Busy = {}
    <3>1. x \in Busy \/ x = r
      BY <1>2 DEF Busy
    <3> QED
      BY <3>1, <1>1
  <2>2. x = r
    BY <2>1, <1>2 DEF Busy
  <2>3. Busy' = {r}
    BY <2>1, <1>2 DEF Busy
  <2>4. StillHolds(q)'
    BY <1>1 DEF StillHolds, Registered
  <2> QED
    BY <2>2, <2>3, <2>4, <1>2 DEF StillHolds
<1> QED
  BY <1>4, <1>5, <1>6 DEF IInv

\* A request that ends, or goes on to its save, and writes nothing.
LEMMA BecomeIInv ==
    ASSUME IInv, NEW r \in Requests, NEW q, req[r] # Idle,
           Become(r, q), UNCHANGED accounts,
           IsRequest(q), q # Idle => CarriesItsBody(q),
           q # Idle /\ r \notin overlapped => StillHolds(q)
    PROVE  IInv'
<1>1. /\ req' = [req EXCEPT ![r] = q] /\ accounts' = accounts
      /\ overlapped' = IF q = Idle THEN overlapped \ {r} ELSE overlapped
  BY DEF Become
<1>2. /\ DOMAIN req = Requests /\ DOMAIN req' = Requests
      /\ req'[r] = q /\ \A x \in Requests \ {r} : req'[x] = req[x]
  BY <1>1 DEF IInv, TypeOK
<1>3. TypeOK'
  <2>1. \A x \in Requests : IsRequest(req[x])'
    BY <1>1, <1>2 DEF IInv, TypeOK, IsRequest, Registered
  <2> QED
    BY <1>1, <1>2, <2>1 DEF IInv, TypeOK, Registered
<1>4. InFlightAsAsked'
  BY <1>2 DEF IInv, InFlightAsAsked, CarriesItsBody
<1>5. AloneIsUndisturbed'
  <2> SUFFICES ASSUME NEW x \in Requests, x \notin overlapped', req'[x] # Idle
               PROVE  Busy' = {x} /\ StillHolds(req[x])'
    BY DEF AloneIsUndisturbed
  <2>1. x \notin overlapped /\ req[x] # Idle
    BY <1>1, <1>2
  <2>2. Busy = {x}
    BY <2>1 DEF IInv, AloneIsUndisturbed
  <2>3. x = r
    BY <2>2 DEF Busy
  <2>4. Busy' = {x}
    BY <2>2, <2>3, <1>2 DEF Busy
  <2>5. StillHolds(q)'
    BY <2>1, <2>3, <1>1, <1>2 DEF StillHolds, Registered
  <2> QED
    BY <2>3, <2>4, <2>5, <1>2 DEF StillHolds
<1> QED
  BY <1>3, <1>4, <1>5 DEF IInv

\* A save or an insertion: the request ends, and its account changes.
LEMMA WriteIInv ==
    ASSUME IInv, NEW r \in Requests, req[r] # Idle, Become(r, Idle),
           DOMAIN accounts \subseteq DOMAIN accounts', DOMAIN accounts' \subseteq People,
           \A p \in DOMAIN accounts' : accounts'[p] \in Accounts
    PROVE  IInv'
<1>1. req' = [req EXCEPT ![r] = Idle] /\ overlapped' = overlapped \ {r}
  BY DEF Become
<1>2. /\ DOMAIN req = Requests /\ DOMAIN req' = Requests
      /\ req'[r] = Idle /\ \A x \in Requests \ {r} : req'[x] = req[x]
  BY <1>1 DEF IInv, TypeOK
<1>3. TypeOK'
  <2>1. \A x \in Requests : IsRequest(req[x])'
    BY <1>2 DEF IInv, TypeOK, IsRequest, Registered
  <2> QED
    BY <1>1, <1>2, <2>1 DEF IInv, TypeOK, Registered
<1>4. InFlightAsAsked'
  BY <1>2 DEF IInv, InFlightAsAsked, CarriesItsBody
<1>5. AloneIsUndisturbed'
  <2> SUFFICES ASSUME NEW x \in Requests, x \notin overlapped', req'[x] # Idle
               PROVE  FALSE
    BY DEF AloneIsUndisturbed
  <2>1. x # r /\ x \notin overlapped /\ req[x] # Idle
    BY <1>1, <1>2
  <2>2. Busy = {x}
    BY <2>1 DEF IInv, AloneIsUndisturbed
  <2> QED
    BY <2>1, <2>2 DEF Busy
<1> QED
  BY <1>3, <1>4, <1>5 DEF IInv

\* A request that is let in.
LEMMA ReceivedIInv ==
    ASSUME IInv, NEW r \in Requests, ReceiveUpdate(r) \/ ReceiveDelete(r) \/ ReceiveCreate(r)
    PROVE  IInv'
<1>1. ASSUME NEW op \in {"update", "delete", "create"}, NEW actor \in Registered, NEW p \in People,
             NEW body, op # "create" => p \in Registered, IsUpdateBody(body),
             op = "create" => body \in Accounts, op = "delete" => body = [isActive |-> FALSE],
             Admitted(actor), Arrives(r, Received(op, actor, p, body))
      PROVE  IInv'
  <2> DEFINE q == Received(op, actor, p, body)
  <2>1. /\ q.phase = "received" /\ q.op = op /\ q.actor = actor /\ q.target = p
        /\ q.role = accounts[actor].role /\ q.body = body
    BY DEF Received
  <2>2. accounts[actor].role \in {"admin", "manager"} /\ accounts[actor].isActive
    BY <1>1 DEF Admitted, MayManage
  <2>3. actor \in People
    BY <1>1 DEF IInv, TypeOK
  <2>4. q # Idle
    BY <2>1, PhaseIsBusy
  <2>5. IsRequest(q)
    BY <1>1, <2>1, <2>2, <2>3 DEF IsRequest
  <2>6. Arrives(r, q)
    BY <1>1
  <2> HIDE DEF q
  <2> QED
    BY <1>1, <2>1, <2>2, <2>4, <2>5, <2>6, ArrivesIInv
<1>2. CASE ReceiveUpdate(r)
  BY <1>1, <1>2, BodiesAssumption DEF ReceiveUpdate, IInv, TypeOK
<1>3. CASE ReceiveDelete(r)
  <2>1. IsUpdateBody([isActive |-> FALSE])
    BY DEF IsUpdateBody
  <2> QED
    BY <1>1, <1>3, <2>1 DEF ReceiveDelete, IInv, TypeOK
<1>4. CASE ReceiveCreate(r)
  <2>1. PICK actor \in Registered, p \in People, role \in NewRoles, isActive \in BOOLEAN :
            /\ Admitted(actor)
            /\ Arrives(r, Received("create", actor, p, [role |-> role, isActive |-> isActive]))
    BY <1>4 DEF ReceiveCreate
  <2>2. [role |-> role, isActive |-> isActive] \in Accounts
    BY NewRolesAssumption DEF Accounts
  <2>3. IsUpdateBody([role |-> role, isActive |-> isActive])
    BY NewRolesAssumption DEF IsUpdateBody
  <2> QED
    BY <1>1, <2>1, <2>2, <2>3
<1> QED
  BY <1>2, <1>3, <1>4

\* Saving carries the request on.
LEMMA SavingFields ==
    \A q, set : LET s == Saving(q, set) IN
        /\ s.phase = "save" /\ s.op = q.op /\ s.actor = q.actor /\ s.role = q.role
        /\ s.target = q.target /\ s.body = q.body /\ s.set = set /\ s # Idle
  BY DEF Saving, Idle

\* Idle is a request, and there is nothing to say of it.
LEMMA IdleIsRequest == IsRequest(Idle)
  BY DEF IsRequest

\* updateUser, deleteUser and createUser up to their write.
LEMMA CheckedIInv ==
    ASSUME IInv, NEW r \in Requests, UpdateUser(r) \/ DeleteUser(r) \/ CreateUser(r)
    PROVE  IInv'
<1> DEFINE q == req[r]
           copy == accounts[q.target]
<1>1. q.phase = "received" /\ q # Idle /\ UNCHANGED accounts
  BY PhaseIsBusy DEF UpdateUser, DeleteUser, CreateUser
<1>2. /\ IsRequest(q) /\ CarriesItsBody(q)
      /\ r \notin overlapped => StillHolds(q)
  BY <1>1 DEF IInv, TypeOK, InFlightAsAsked, AloneIsUndisturbed
<1>3. CASE Refuse(r)
  BY <1>1, <1>3, IdleIsRequest, BecomeIInv DEF Refuse
<1>4. CASE /\ UpdateUser(r) /\ MayUpdate(q.role, copy, q.body)
           /\ Become(r, Saving(q, Modified(copy, q.body)))
  <2> DEFINE set == Modified(copy, q.body)
             s == Saving(q, set)
  <2>1. q.op = "update" /\ IsUpdateBody(q.body)
    BY <1>1, <1>2, <1>4 DEF UpdateUser, IsRequest
  <2>2. /\ IsUpdateBody(set) /\ DOMAIN set \subseteq DOMAIN q.body
        /\ \A f \in DOMAIN set : set[f] = q.body[f]
    BY <2>1, ModifiedIsAsked
  <2> HIDE DEF set
  <2>3. /\ s.phase = "save" /\ s.op = q.op /\ s.actor = q.actor /\ s.role = q.role
        /\ s.target = q.target /\ s.body = q.body /\ s.set = set /\ s # Idle
    BY SavingFields
  <2> HIDE DEF s
  <2>4. IsRequest(s)
    BY <1>1, <1>2, <2>1, <2>2, <2>3 DEF IsRequest
  <2>5. q.role \in {"admin", "manager"}
    BY <1>1, <1>2 DEF IsRequest
  <2>6. CarriesItsBody(s)
    BY <1>4, <2>1, <2>2, <2>3, <2>5 DEF CarriesItsBody, MayUpdate
  <2>7. r \notin overlapped => StillHolds(s)
    BY <1>2, <1>4, <2>1, <2>3 DEF StillHolds
  <2>8. Become(r, s)
    BY <1>4 DEF s, set
  <2> QED
    BY <1>1, <2>3, <2>4, <2>6, <2>7, <2>8, BecomeIInv
<1>5. CASE /\ DeleteUser(r) /\ MayDelete(q.role, q.actor, q.target, copy)
           /\ Become(r, Saving(q, Modified(copy, q.body)))
  <2> DEFINE set == Modified(copy, q.body)
             s == Saving(q, set)
  <2>1. q.op = "delete" /\ IsUpdateBody(q.body) /\ q.body = [isActive |-> FALSE]
    BY <1>1, <1>2, <1>5 DEF DeleteUser, IsRequest, CarriesItsBody
  <2>2. /\ IsUpdateBody(set) /\ DOMAIN set \subseteq DOMAIN q.body
        /\ \A f \in DOMAIN set : set[f] = q.body[f]
    BY <2>1, ModifiedIsAsked
  <2> HIDE DEF set
  <2>3. /\ s.phase = "save" /\ s.op = q.op /\ s.actor = q.actor /\ s.role = q.role
        /\ s.target = q.target /\ s.body = q.body /\ s.set = set /\ s # Idle
    BY SavingFields
  <2> HIDE DEF s
  <2>4. IsRequest(s)
    BY <1>1, <1>2, <2>1, <2>2, <2>3 DEF IsRequest
  <2>5. "role" \notin DOMAIN set
    BY <2>1, <2>2
  <2>6. CarriesItsBody(s)
    BY <2>1, <2>2, <2>3, <2>5 DEF CarriesItsBody
  <2>7. r \notin overlapped => StillHolds(s)
    BY <1>2, <1>5, <2>1, <2>3 DEF StillHolds
  <2>8. Become(r, s)
    BY <1>5 DEF s, set
  <2> QED
    BY <1>1, <2>3, <2>4, <2>6, <2>7, <2>8, BecomeIInv
<1>6. CASE CreateUser(r) /\ MayCreate(q.role, q.body.role) /\ Become(r, Saving(q, q.body))
  <2> DEFINE s == Saving(q, q.body)
  <2>1. q.op = "create" /\ IsUpdateBody(q.body) /\ q.body \in Accounts
    BY <1>1, <1>2, <1>6 DEF CreateUser, IsRequest
  <2>2. /\ s.phase = "save" /\ s.op = q.op /\ s.actor = q.actor /\ s.role = q.role
        /\ s.target = q.target /\ s.body = q.body /\ s.set = q.body /\ s # Idle
    BY SavingFields
  <2> HIDE DEF s
  <2>3. IsRequest(s)
    BY <1>1, <1>2, <2>1, <2>2 DEF IsRequest
  <2>4. q.role \in {"admin", "manager"}
    BY <1>1, <1>2 DEF IsRequest
  <2>5. CarriesItsBody(s)
    BY <1>6, <2>1, <2>2, <2>4 DEF CarriesItsBody, MayCreate
  <2>6. r \notin overlapped => StillHolds(s)
    BY <1>2, <2>1, <2>2 DEF StillHolds
  <2>7. Become(r, s)
    BY <1>6 DEF s
  <2> QED
    BY <1>1, <2>2, <2>3, <2>5, <2>6, <2>7, BecomeIInv
<1> QED
  BY <1>3, <1>4, <1>5, <1>6 DEF UpdateUser, DeleteUser, CreateUser

\* save() and create() are applied.
LEMMA WrittenIInv ==
    ASSUME IInv, NEW r \in Requests, SaveUser(r) \/ InsertUser(r)
    PROVE  IInv'
<1> DEFINE q == req[r]
<1>1. q.phase = "save" /\ q # Idle /\ Become(r, Idle)
  BY PhaseIsBusy DEF SaveUser, InsertUser
<1>2. IsRequest(q) /\ CarriesItsBody(q)
  BY <1>1 DEF IInv, TypeOK, InFlightAsAsked
<1>3. Registered \subseteq People /\ \A p \in Registered : accounts[p] \in Accounts
  BY DEF IInv, TypeOK
<1>4. CASE SaveUser(r)
  <2>1. q.target \in Registered /\ IsUpdateBody(q.set)
    BY <1>1, <1>2, <1>4 DEF SaveUser, IsRequest
  <2>2. accounts' = [accounts EXCEPT ![q.target] = Written(accounts[q.target], q.set)]
    BY <1>4 DEF SaveUser
  <2>3. Written(accounts[q.target], q.set) \in Accounts
    BY <1>3, <2>1, WrittenType
  <2> QED
    BY <1>1, <1>3, <2>1, <2>2, <2>3, WriteIInv DEF Registered
<1>5. CASE InsertUser(r)
  <2>1. q.target \in People /\ q.set \in Accounts
    BY <1>1, <1>2, <1>5 DEF InsertUser, IsRequest, CarriesItsBody
  <2>2. accounts' = accounts \/ accounts' = Inserted(q.target, q.set)
    BY <1>5 DEF InsertUser
  <2> QED
    BY <1>1, <1>3, <2>1, <2>2, WriteIInv DEF Inserted, Registered
<1> QED
  BY <1>4, <1>5

\* The invariant is inductive.
LEMMA NextIInv ==
    ASSUME IInv, [Next]_vars
    PROVE  IInv'
<1>1. CASE UNCHANGED vars
  BY <1>1 DEF vars, IInv, TypeOK, InFlightAsAsked, AloneIsUndisturbed, StillHolds, Busy, Registered, IsRequest
<1>2. ASSUME NEW r \in Requests, RequestFails(r)
      PROVE  IInv'
  BY <1>2, IdleIsRequest, BecomeIInv DEF RequestFails
<1> QED
  BY <1>1, <1>2, ReceivedIInv, CheckedIInv, WrittenIInv DEF Next

LEMMA InitIInv == Init => IInv
<1> SUFFICES ASSUME Init PROVE IInv
  OBVIOUS
<1>1. TypeOK
  BY AccountsAssumption, IdleIsRequest DEF Init, TypeOK, Registered
<1> QED
  BY <1>1 DEF Init, IInv, InFlightAsAsked, AloneIsUndisturbed

THEOREM SpecIInv == Spec => []IInv
  BY InitIInv, NextIInv, PTL DEF Spec

-----------------------------------------------------------------------------
(* What a step changes.                                                    *)

\* Request r's save or insertion makes the new account p.
Makes(r, p) ==
    /\ req[r].phase = "save" /\ req[r].target = p
    /\ req[r] # Idle /\ req'[r] = Idle
    /\ \A x \in Requests : req[x] # Idle /\ req'[x] = Idle => x = r
    /\ Registered \subseteq DOMAIN accounts'
    /\ \A x \in Registered \ {p} : accounts'[x] = accounts[x]
    /\ \/ /\ p \in Registered /\ req[r].op \in {"update", "delete"}
          /\ accounts'[p] = Written(accounts[p], req[r].set)
       \/ /\ p \notin Registered /\ req[r].op = "create"
          /\ accounts'[p] = req[r].set

\* Only saves and insertions change accounts, and one at a time.
LEMMA WhoChanges ==
    ASSUME IInv, Next, NEW p \in Changed
    PROVE  \E r \in Requests : Makes(r, p)
<1>1. PICK r \in Requests : SaveUser(r) \/ InsertUser(r) \/ UNCHANGED accounts
  BY DEF Next, ReceiveUpdate, ReceiveDelete, ReceiveCreate, Arrives, UpdateUser, DeleteUser, CreateUser,
         RequestFails
<1>2. SaveUser(r) \/ InsertUser(r)
  BY <1>1 DEF Changed, Registered
<1>3. req[r].phase = "save" /\ req[r] # Idle /\ Become(r, Idle)
  BY <1>2, PhaseIsBusy DEF SaveUser, InsertUser
<1>4. req'[r] = Idle /\ \A x \in Requests : req[x] # Idle /\ req'[x] = Idle => x = r
  BY <1>3 DEF Become, IInv, TypeOK
<1>5. CASE SaveUser(r)
  <2>1. /\ req[r].op \in {"update", "delete"}
        /\ accounts' = [accounts EXCEPT ![req[r].target] = Written(accounts[req[r].target], req[r].set)]
    BY <1>5 DEF SaveUser
  <2>2. req[r].target \in Registered
    BY <1>3, <2>1 DEF IInv, TypeOK, IsRequest
  <2>3. p = req[r].target
    BY <2>1, <2>2 DEF Changed, Registered
  <2> QED
    BY <1>3, <1>4, <2>1, <2>2, <2>3 DEF Makes, Registered
<1>6. CASE InsertUser(r)
  <2>1. req[r].op = "create" /\ accounts' # accounts
    BY <1>6 DEF InsertUser, Changed, Registered
  <2>2. req[r].target \notin Registered /\ accounts' = Inserted(req[r].target, req[r].set)
    BY <1>6, <2>1 DEF InsertUser, Inserts
  <2>3. p = req[r].target
    BY <2>2 DEF Changed, Inserted, Registered
  <2> QED
    BY <1>3, <1>4, <2>1, <2>2, <2>3 DEF Makes, Inserted, Registered
<1> QED
  BY <1>2, <1>5, <1>6

\* What such a request carries.
LEMMA MakesCarries ==
    ASSUME IInv, NEW r \in Requests, NEW p, Makes(r, p)
    PROVE  /\ IsRequest(req[r]) /\ CarriesItsBody(req[r])
           /\ IsUpdateBody(req[r].set) /\ req[r].role \in {"admin", "manager"}
           /\ r \notin overlapped => StillHolds(req[r])
<1>1. /\ IsRequest(req[r]) /\ CarriesItsBody(req[r])
      /\ r \notin overlapped => StillHolds(req[r])
  BY DEF Makes, IInv, TypeOK, InFlightAsAsked, AloneIsUndisturbed
<1> QED
  BY <1>1 DEF Makes, IsRequest

\* A change of an account is its request's.
LEMMA MakesIsChanges ==
    ASSUME NEW r \in Requests, NEW p \in Changed, Makes(r, p)
    PROVE  Changes(r, p)
  BY DEF Makes, Changes, Changed

-----------------------------------------------------------------------------
(* The theorems.                                                           *)

\* Type invariant: accounts keep the schema's types, and a request in flight
\* was let in for someone who could manage users.
THEOREM StaffTypeCorrect == Spec => []TypeOK
<1>1. IInv => TypeOK
  BY DEF IInv
<1> QED
  BY <1>1, SpecIInv, PTL

\* However requests interleave, only one who was an administrator when the
\* request came in makes an administrator or a manager.
THEOREM AdministratorsAppoint == Spec => AdminsAppoint
<1> DEFINE Appointed ==
        \A p \in Changed :
          accounts'[p].role \notin Below =>
              \/ p \in Registered /\ accounts[p].role = accounts'[p].role
              \/ \E r \in Requests : Changes(r, p) /\ req[r].role = "admin"
<1>1. ASSUME IInv, Next PROVE Appointed
  <2> SUFFICES ASSUME NEW p \in Changed, accounts'[p].role \notin Below,
                      ~(p \in Registered /\ accounts[p].role = accounts'[p].role)
               PROVE  \E r \in Requests : Changes(r, p) /\ req[r].role = "admin"
    OBVIOUS
  <2>1. PICK r \in Requests : Makes(r, p)
    BY <1>1, WhoChanges
  <2>2. CarriesItsBody(req[r]) /\ req[r].role \in {"admin", "manager"}
    BY <1>1, <2>1, MakesCarries
  <2>3. "role" \in DOMAIN req[r].set /\ req[r].set.role = accounts'[p].role
    <3>1. CASE p \in Registered
      BY <3>1, <2>1 DEF Makes, Written
    <3>2. CASE p \notin Registered
      <4>1. req[r].op = "create" /\ req[r].set = accounts'[p] /\ req[r].phase = "save"
        BY <3>2, <2>1 DEF Makes
      <4>2. IsRequest(req[r])
        BY <1>1, <2>1, MakesCarries
      <4>3. req[r].body \in Accounts
        BY <4>1, <4>2, <2>1 DEF IsRequest, Makes
      <4>4. req[r].set \in Accounts
        BY <4>1, <4>3, <2>2 DEF CarriesItsBody
      <4> QED
        BY <4>1, <4>4 DEF Accounts
    <3> QED
      BY <3>1, <3>2
  <2>4. req[r].role = "admin"
    BY <2>1, <2>2, <2>3 DEF CarriesItsBody, Makes
  <2> QED
    BY <2>1, <2>4, MakesIsChanges
<1>2. ASSUME IInv, [Next]_vars PROVE [Appointed]_vars
  BY <1>1, <1>2
<1>3. QED
  BY <1>2, SpecIInv, PTL DEF Spec, AdminsAppoint

\* An account changes in the fields one request asked for, and an account once
\* created is not created again.
THEOREM ChangesAreAskedFor == Spec => ChangesWereAskedFor
<1> DEFINE Asked ==
        \A p \in Changed : \E r \in Requests :
          /\ Changes(r, p)
          /\ p \notin Registered <=> req[r].op = "create"
          /\ \A f \in {"role", "isActive"} :
                p \in Registered /\ accounts[p][f] # accounts'[p][f] =>
                    f \in DOMAIN req[r].body /\ req[r].body[f] = accounts'[p][f]
<1>1. ASSUME IInv, Next PROVE Asked
  <2> SUFFICES ASSUME NEW p \in Changed
               PROVE  \E r \in Requests :
          /\ Changes(r, p)
          /\ p \notin Registered <=> req[r].op = "create"
          /\ \A f \in {"role", "isActive"} :
                p \in Registered /\ accounts[p][f] # accounts'[p][f] =>
                    f \in DOMAIN req[r].body /\ req[r].body[f] = accounts'[p][f]
    OBVIOUS
  <2>1. PICK r \in Requests : Makes(r, p)
    BY <1>1, WhoChanges
  <2>2. CarriesItsBody(req[r])
    BY <1>1, <2>1, MakesCarries
  <2>3. p \notin Registered <=> req[r].op = "create"
    BY <2>1 DEF Makes
  <2>4. ASSUME NEW f \in {"role", "isActive"}, p \in Registered, accounts[p][f] # accounts'[p][f]
        PROVE  f \in DOMAIN req[r].body /\ req[r].body[f] = accounts'[p][f]
    <3>1. accounts'[p] = Written(accounts[p], req[r].set) /\ req[r].phase = "save"
      BY <2>1, <2>4 DEF Makes
    <3>2. f \in DOMAIN req[r].set /\ req[r].set[f] = accounts'[p][f]
      BY <2>4, <3>1 DEF Written
    <3> QED
      BY <2>2, <3>1, <3>2 DEF CarriesItsBody
  <2> QED
    BY <2>1, <2>3, <2>4, MakesIsChanges
<1>2. ASSUME IInv, [Next]_vars PROVE [Asked]_vars
  BY <1>1, <1>2
<1>3. QED
  BY <1>2, SpecIInv, PTL DEF Spec, ChangesWereAskedFor

\* A manager whose request was alone changes agents and customers only.
THEOREM ManagersChangeOnlyBelow == Spec => ManagersStayBelow
<1> DEFINE Stays ==
        \A p \in Changed \cap Registered, r \in Requests \ overlapped :
          Changes(r, p) /\ req[r].role = "manager" => accounts[p].role \in Below
<1>1. ASSUME IInv, Next PROVE Stays
  <2> SUFFICES ASSUME NEW p \in Changed \cap Registered, NEW r \in Requests \ overlapped,
                      Changes(r, p), req[r].role = "manager"
               PROVE  accounts[p].role \in Below
    OBVIOUS
  <2>1. PICK x \in Requests : Makes(x, p)
    BY <1>1, WhoChanges
  <2>2. x = r
    BY <2>1 DEF Makes, Changes
  <2>3. StillHolds(req[r])
    BY <1>1, <2>1, <2>2, MakesCarries
  <2> QED
    BY <2>1, <2>2, <2>3 DEF Makes, StillHolds, MayUpdate, MayDelete
<1>2. ASSUME IInv, [Next]_vars PROVE [Stays]_vars
  BY <1>1, <1>2
<1>3. QED
  BY <1>2, SpecIInv, PTL DEF Spec, ManagersStayBelow

\* The last active administrator is lost by a request of their own to update
\* themselves, or by a request that was not alone.
THEOREM AdministratorsRemain == Spec => AdminsRemain
<1> DEFINE Remain ==
        ActiveAdmins(accounts) # {} /\ ActiveAdmins(accounts)' = {} =>
          \E r \in Requests :
              /\ req[r] # Idle /\ req'[r] = Idle
              /\ \/ r \in overlapped
                 \/ req[r].op = "update" /\ ActiveAdmins(accounts) = {req[r].actor}
<1>1. ASSUME IInv, Next PROVE Remain
  <2> SUFFICES ASSUME NEW a \in ActiveAdmins(accounts), ActiveAdmins(accounts') = {}
               PROVE  \E r \in Requests :
              /\ req[r] # Idle /\ req'[r] = Idle
              /\ \/ r \in overlapped
                 \/ req[r].op = "update" /\ ActiveAdmins(accounts) = {req[r].actor}
    OBVIOUS
  <2>1. a \in Registered /\ accounts[a] = [role |-> "admin", isActive |-> TRUE]
    BY DEF ActiveAdmins, Registered
  <2>2. ~(a \in DOMAIN accounts' /\ accounts'[a] = accounts[a])
    BY <2>1 DEF ActiveAdmins
  <2>3. DOMAIN accounts \subseteq DOMAIN accounts'
    <3>1. CASE \E r \in Requests : SaveUser(r)
      BY <3>1 DEF SaveUser
    <3>2. CASE \E r \in Requests : InsertUser(r)
      BY <3>2 DEF InsertUser, Inserted, Registered
    <3>3. CASE UNCHANGED accounts
      BY <3>3
    <3> QED
      BY <1>1, <3>1, <3>2, <3>3 DEF Next, ReceiveUpdate, ReceiveDelete, ReceiveCreate, Arrives, UpdateUser,
         DeleteUser, CreateUser, RequestFails
  <2>4. a \in Changed
    BY <2>1, <2>2, <2>3 DEF Changed, Registered
  <2>5. PICK r \in Requests : Makes(r, a)
    BY <1>1, <2>4, WhoChanges
  <2>6. \A x \in ActiveAdmins(accounts) : x = a
    BY <2>5 DEF Makes, ActiveAdmins, Registered
  <2>7. ASSUME r \notin overlapped
        PROVE  req[r].op = "update" /\ req[r].actor = a
    <3>1. StillHolds(req[r]) /\ req[r].role \in {"admin", "manager"}
      BY <1>1, <2>5, <2>7, MakesCarries
    <3>2. req[r].phase = "save" /\ req[r].target = a /\ req[r].op \in {"update", "delete"}
      BY <2>1, <2>5 DEF Makes
    <3>3. req[r].role = "admin"
      BY <2>1, <3>1, <3>2 DEF StillHolds, MayUpdate, MayDelete, Below
    <3>4. accounts[req[r].actor] \in Accounts
      BY <1>1, <3>1 DEF IInv, TypeOK, StillHolds
    <3>5. accounts[req[r].actor] = [role |-> "admin", isActive |-> TRUE]
      BY <3>1, <3>3, <3>4 DEF StillHolds, Accounts
    <3>6. req[r].actor = a
      BY <2>6, <3>1, <3>5 DEF ActiveAdmins, StillHolds, Registered
    <3> QED
      BY <3>1, <3>2, <3>6 DEF StillHolds, MayDelete
  <2>8. ActiveAdmins(accounts) = {a}
    BY <2>6
  <2> QED
    BY <2>5, <2>7, <2>8 DEF Makes
<1>2. ASSUME IInv, [Next]_vars PROVE [Remain]_vars
  BY <1>1, <1>2
<1>3. QED
  BY <1>2, SpecIInv, PTL DEF Spec, AdminsRemain

=============================================================================

---------------------------- MODULE TicketsProofs ----------------------------
(***************************************************************************)
(* Proofs about the ticket component, for any number of tickets, users,    *)
(* requests in flight and update bodies.                                   *)
(***************************************************************************)
EXTENDS TicketProperties, SequenceTheorems, TLAPS

-----------------------------------------------------------------------------
(* Documents.                                                              *)

\* Assigning a patch to a document gives a document.
LEMMA AssignType ==
    ASSUME NEW d, IsTicket(d), NEW p, IsPatch(p)
    PROVE  IsTicket(Assign(d, p))
  BY DEF IsTicket, IsPatch, Assign

\* What save() sends is a patch.
LEMMA ModifiedType ==
    ASSUME NEW old, NEW new, IsTicket(new)
    PROVE  IsPatch(Modified(old, new))
  BY DEF IsTicket, IsPatch, Modified

\* The fields of a ticket, and the types the proofs use.
LEMMA FieldTypes ==
    /\ Fields = {"createdBy", "status", "priority", "category", "assignedTo",
                 "assignedAt", "acceptanceStatus", "acceptedAt", "resolvedAt",
                 "closedAt", "isDeleted", "rejectionHistory"}
    /\ FieldType.createdBy = Users
    /\ FieldType.status = Statuses
    /\ FieldType.priority = Priorities
    /\ FieldType.category = Categories
    /\ FieldType.assignedTo = Users \cup {NoUser}
    /\ FieldType.assignedAt = Nat
    /\ FieldType.acceptanceStatus = Acceptances
    /\ FieldType.acceptedAt = Nat
    /\ FieldType.resolvedAt = Nat
    /\ FieldType.closedAt = Nat
    /\ FieldType.isDeleted = BOOLEAN
    /\ FieldType.rejectionHistory = Seq(Users)
  BY DEF Fields, FieldType, Times

\* The save() hook gives a document, and sets nothing but three dates.
LEMMA PreSaveType ==
    ASSUME NEW old, NEW new, IsTicket(new), now \in Nat \ {0}
    PROVE  /\ IsTicket(PreSave(old, new))
           /\ \A f \in Fields \ {"resolvedAt", "closedAt", "assignedAt"} :
                 PreSave(old, new)[f] = new[f]
<1> DEFINE stamp(set, at) == IF set /\ at = Never THEN now ELSE at
           statusModified == new.status # old.status
           dates == [resolvedAt |-> stamp(statusModified /\ new.status \in {"resolved", "closed"}, new.resolvedAt),
                     closedAt   |-> stamp(statusModified /\ new.status = "closed", new.closedAt),
                     assignedAt |-> stamp(new.assignedTo \notin {old.assignedTo, NoUser}, new.assignedAt)]
<1>1. PreSave(old, new) = Assign(new, dates)
  BY DEF PreSave
<1>2. \A at \in Nat : \A b \in BOOLEAN : stamp(b, at) \in Nat
  OBVIOUS
<1>3. IsPatch(dates)
  BY FieldTypes, <1>2 DEF IsPatch, IsTicket
<1>4. IsTicket(Assign(new, dates))
  BY <1>3, AssignType
<1>5. \A f \in Fields \ {"resolvedAt", "closedAt", "assignedAt"} : Assign(new, dates)[f] = new[f]
  BY DEF Assign
<1> QED
  BY <1>1, <1>4, <1>5

\* The update save() sends turns a stored document into a document.
LEMMA WrittenType ==
    ASSUME NEW d, IsTicket(d), NEW set, IsPatch(set), NEW push, push \in Seq(Users)
    PROVE  IsTicket(Written(d, set, push))
<1> DEFINE e == Assign(d, set)
<1>1. IsTicket(e)
  BY AssignType
<1>2. e.rejectionHistory \o push \in Seq(Users)
  BY <1>1, FieldTypes DEF IsTicket, IsPatch
<1>3. Written(d, set, push) = [f \in Fields |-> IF f = "rejectionHistory" THEN e.rejectionHistory \o push ELSE e[f]]
  BY <1>1, FieldTypes DEF Written, Assign
<1>4. DOMAIN Written(d, set, push) = Fields
  BY <1>3
<1>5. ASSUME NEW f \in Fields
      PROVE  Written(d, set, push)[f] \in FieldType[f]
  <2>1. CASE f = "rejectionHistory"
    BY <1>2, <1>3, <2>1, FieldTypes
  <2>2. CASE f # "rejectionHistory"
    <3>1. e[f] \in FieldType[f]
      BY <1>1 DEF IsTicket, IsPatch
    <3> QED
      BY <1>3, <2>2, <3>1
  <2> QED
    BY <2>1, <2>2
<1> QED
  BY <1>4, <1>5 DEF IsTicket, IsPatch

\* A new ticket is a document.
LEMMA NewTicketType ==
    ASSUME NEW u \in Users, NEW p \in Priorities, NEW c \in Categories
    PROVE  IsTicket(NewTicket(u, p, c))
<1> DEFINE d == NewTicket(u, p, c)
<1>1. DOMAIN d = Fields
  BY FieldTypes DEF NewTicket
<1>2. ASSUME NEW f \in Fields
      PROVE  d[f] \in FieldType[f]
  <2>1. /\ d.createdBy \in Users /\ d.status \in Statuses /\ d.priority \in Priorities
        /\ d.category \in Categories /\ d.assignedTo \in Users \cup {NoUser}
        /\ d.assignedAt \in Nat /\ d.acceptanceStatus \in Acceptances
        /\ d.acceptedAt \in Nat /\ d.resolvedAt \in Nat /\ d.closedAt \in Nat
        /\ d.isDeleted \in BOOLEAN
    BY DEF NewTicket, Statuses, Acceptances, Never
  <2>2. d.rejectionHistory \in Seq(Users)
    BY DEF NewTicket
  <2> HIDE DEF d
  <2> QED
    BY <2>1, <2>2, FieldTypes
<1> QED
  BY <1>1, <1>2 DEF IsTicket, IsPatch

-----------------------------------------------------------------------------
(* Type correctness.                                                       *)

\* A request stays well formed when more tickets are created.
LEMMA RequestGrows ==
    ASSUME NEW q, NEW ids, NEW more, ids \subseteq more, IsRequest(q, ids)
    PROVE  IsRequest(q, more)
  BY DEF IsRequest, IsWaiting, IsSaving, IsAuditing

\* The phase of a request tells its shape.
LEMMA RequestShape ==
    ASSUME NEW q, NEW ids, IsRequest(q, ids)
    PROVE  /\ q.phase \in {"insert", "view", "agent", "find"} => IsWaiting(q, ids)
           /\ q.phase = "save" => IsSaving(q, ids)
           /\ q.phase = "audit" => IsAuditing(q, ids)
  BY DEF IsRequest, IsWaiting, IsSaving, IsAuditing, Idle

\* A step that moves one request on and leaves the collections well typed.
LEMMA TypeStep ==
    ASSUME TypeOK, NEW r \in Requests, NEW q,
           req' = [req EXCEPT ![r] = q], IsRequest(q, Stored'),
           Stored \subseteq Stored', Stored' \subseteq TicketIds,
           \A t \in Stored' : IsTicket(tickets'[t]),
           audit' \in [TicketIds -> SUBSET Actions], auditLost' \subseteq TicketIds,
           Elsewhere
    PROVE  TypeOK'
<1>1. \A x \in Requests : IsRequest(req'[x], Stored')
  <2> TAKE x \in Requests
  <2>1. CASE x = r
    BY <2>1 DEF TypeOK
  <2>2. CASE x # r
    BY <2>2, RequestGrows DEF TypeOK
  <2> QED
    BY <2>1, <2>2
<1>2. DOMAIN req' = Requests
  BY DEF TypeOK
<1> QED
  BY <1>1, <1>2 DEF TypeOK, Elsewhere

\* The case in which no ticket changes and nothing is logged.
LEMMA TypeQuietStep ==
    ASSUME TypeOK, NEW r \in Requests, NEW q, Become(r, q), IsRequest(q, Stored),
           UNCHANGED tickets, Unaudited, Elsewhere
    PROVE  TypeOK'
  BY TypeStep DEF TypeOK, Become, Stored, Unaudited

\* A handler that has found its ticket and calls save() is well formed.
LEMMA SaveType ==
    ASSUME TypeOK, NEW r \in Requests, req[r].phase = "find",
           NEW patch, IsPatch(patch), "rejectionHistory" \notin DOMAIN patch,
           NEW push \in Seq(Users), NEW action \in Actions,
           Save(r, tickets[req[r].ticket], patch, push, action),
           Unaudited, Elsewhere
    PROVE  TypeOK'
<1> DEFINE q   == req[r]
           old == tickets[q.ticket]
           mid == Assign(old, patch)
           new == PreSave(old, mid)
           set == Modified(old, new)
           s   == Saving(q, set, push, action)
<1>1. IsWaiting(q, Stored) /\ q.ticket \in Stored
  BY RequestShape DEF TypeOK, IsWaiting
<1>2. IsTicket(old) /\ now \in Nat \ {0}
  BY <1>1 DEF TypeOK
<1>3. IsTicket(mid)
  BY <1>2, AssignType
<1>4. IsTicket(new) /\ new["rejectionHistory"] = mid["rejectionHistory"]
  BY <1>2, <1>3, PreSaveType, FieldTypes
<1>5. mid["rejectionHistory"] = old["rejectionHistory"]
  BY FieldTypes DEF Assign
<1>6. IsPatch(set) /\ "rejectionHistory" \notin DOMAIN set
  BY <1>4, <1>5, ModifiedType DEF Modified
<1>7. IsSaving(s, Stored)
  BY <1>1, <1>6 DEF IsSaving, IsWaiting, Saving
<1>8. Become(r, s) /\ UNCHANGED tickets
  BY DEF Save
<1> QED
  BY <1>7, <1>8, TypeQuietStep DEF IsRequest

\* Refusing a request is well typed.
LEMMA RefuseType ==
    ASSUME TypeOK, NEW r \in Requests, Refuse(r), Unaudited, Elsewhere
    PROVE  TypeOK'
  BY TypeQuietStep DEF Refuse, IsRequest

\* The middleware hands over a well-formed request.
LEMMA ReceiveType ==
    ASSUME TypeOK, NEW r \in Requests, NEW phase, NEW op, NEW t,
           Receive(r, phase, op, t),
           \/ phase = "insert" /\ op = "create" /\ t \in TicketIds
           \/ /\ <<phase, op>> \in {<<"view", "update">>, <<"agent", "assign">>}
                    \cup {"find"} \X {"accept", "reject", "delete"}
              /\ t \in Stored
    PROVE  TypeOK'
<1>1. PICK u \in Users : Become(r, Waiting(phase, op, u, accounts[u].role, t, NoBody))
  BY DEF Receive
<1> DEFINE q == Waiting(phase, op, u, accounts[u].role, t, NoBody)
<1>2. accounts[u].role \in Roles
  BY DEF TypeOK, Accounts
<1>3. IsPatch(NoBody) /\ DOMAIN NoBody = {}
  BY DEF IsPatch, NoBody
<1>4. t \in TicketIds
  BY DEF TypeOK
<1>5. IsWaiting(q, Stored)
  BY <1>2, <1>3, <1>4 DEF IsWaiting, Waiting
<1> QED
  BY <1>1, <1>5, TypeQuietStep DEF Receive, IsRequest

\* The initial states are well typed.
LEMMA InitType == Init => TypeOK
  BY BoundsAssumption, AccountsAssumption
     DEF Init, TypeOK, Stored, IsRequest

\* So is what a handler, the users' administration or the clock does next.
LEMMA NextType == TypeOK /\ [Next]_vars => TypeOK'
<1> SUFFICES ASSUME TypeOK, [Next]_vars
             PROVE  TypeOK'
  OBVIOUS
<1>1. ASSUME NEW r \in Requests, Arrive(r)
      PROVE  TypeOK'
  <2>1. CASE ReceiveCreate(r)
    BY <2>1, ReceiveType DEF ReceiveCreate
  <2>2. CASE ReceiveUpdate(r)
    BY <2>2, ReceiveType DEF ReceiveUpdate
  <2>3. CASE ReceiveAssign(r)
    BY <2>3, ReceiveType DEF ReceiveAssign
  <2>4. CASE ReceiveAccept(r)
    BY <2>4, ReceiveType DEF ReceiveAccept
  <2>5. CASE ReceiveReject(r)
    BY <2>5, ReceiveType DEF ReceiveReject
  <2>6. CASE ReceiveDelete(r)
    BY <2>6, ReceiveType DEF ReceiveDelete
  <2> QED
    BY <1>1, <2>1, <2>2, <2>3, <2>4, <2>5, <2>6 DEF Arrive
<1>2. ASSUME NEW r \in Requests, CreateTicket(r)
      PROVE  TypeOK'
  <2> DEFINE q == req[r]
  <2>1. q.phase = "insert" /\ IsWaiting(q, Stored)
    BY <1>2, RequestShape DEF CreateTicket, TypeOK
  <2>2. PICK p \in Priorities, c \in Categories :
           tickets' = [t \in Stored \cup {q.ticket} |->
                         IF t = q.ticket THEN NewTicket(q.user, p, c) ELSE tickets[t]]
    BY <1>2 DEF CreateTicket
  <2>3. IsTicket(NewTicket(q.user, p, c))
    BY <2>1, NewTicketType DEF IsWaiting
  <2>4. Stored' = Stored \cup {q.ticket}
    BY <2>2 DEF Stored
  <2>5. \A t \in Stored' : IsTicket(tickets'[t])
    BY <2>2, <2>3, <2>4 DEF TypeOK
  <2>6. IsRequest(Auditing(q.ticket, "created"), Stored')
    BY <2>4 DEF IsRequest, IsAuditing, Auditing, Actions
  <2>7. Stored' \subseteq TicketIds
    BY <2>1, <2>4 DEF TypeOK, IsWaiting
  <2> QED
    BY <1>2, <2>4, <2>5, <2>6, <2>7, TypeStep
       DEF CreateTicket, Become, Unaudited, TypeOK
<1>3. ASSUME NEW r \in Requests, GetTicketById(r)
      PROVE  TypeOK'
  <2> DEFINE q == req[r]
             next == Waiting("find", "update", q.user, q.role, q.ticket, NoBody)
  <2>1. CASE Refuse(r)
    BY <1>3, <2>1, RefuseType DEF GetTicketById
  <2>2. CASE Become(r, next) /\ UNCHANGED tickets
    <3>1. q.phase = "view" /\ IsWaiting(q, Stored)
      BY <1>3, RequestShape DEF GetTicketById, TypeOK
    <3>2. IsPatch(NoBody) /\ DOMAIN NoBody = {}
      BY DEF IsPatch, NoBody
    <3>3. IsWaiting(next, Stored)
      BY <3>1, <3>2 DEF IsWaiting, Waiting
    <3> QED
      BY <1>3, <2>2, <3>3, TypeQuietStep DEF GetTicketById, IsRequest
  <2> QED
    BY <1>3, <2>1, <2>2 DEF GetTicketById
<1>4. ASSUME NEW r \in Requests, AssignTicket(r)
      PROVE  TypeOK'
  <2> DEFINE q == req[r]
             body(a) == [assignedTo |-> a, acceptanceStatus |-> "pending", assignedAt |-> now]
             next(a) == Waiting("find", "assign", q.user, q.role, q.ticket, body(a))
  <2>1. CASE Refuse(r)
    BY <1>4, <2>1, RefuseType DEF AssignTicket, Assignment
  <2>2. CASE \E a \in Users : Become(r, next(a)) /\ UNCHANGED tickets
    <3>1. PICK a \in Users : Become(r, next(a)) /\ UNCHANGED tickets
      BY <2>2
    <3>2. q.phase = "agent" /\ IsWaiting(q, Stored)
      BY <1>4, RequestShape DEF AssignTicket, Assignment, TypeOK
    <3>3. IsPatch(body(a)) /\ "rejectionHistory" \notin DOMAIN body(a)
      BY FieldTypes DEF IsPatch, Acceptances, TypeOK
    <3>4. IsWaiting(next(a), Stored)
      <4> HIDE DEF body
      <4> QED
        BY <3>2, <3>3 DEF IsWaiting, Waiting
    <3> QED
      BY <1>4, <3>1, <3>4, TypeQuietStep DEF AssignTicket, Assignment, IsRequest
  <2> QED
    BY <1>4, <2>1, <2>2 DEF AssignTicket, Assignment
<1>5. ASSUME NEW r \in Requests, UpdateTicket(r)
      PROVE  TypeOK'
  <2> DEFINE q   == req[r]
             old == tickets[q.ticket]
  <2>1. q.phase = "find" /\ IsWaiting(q, Stored)
    BY <1>5, RequestShape DEF UpdateTicket, TypeOK
  <2>2. PICK body \in IF q.op = "assign" THEN {q.body} ELSE UpdateBodies :
           Refuse(r) \/ Save(r, old, body, <<>>, UpdateAction(old, body))
    BY <1>5 DEF UpdateTicket
  <2>3. IsPatch(body) /\ "rejectionHistory" \notin DOMAIN body
    BY <2>1, <2>2, BodiesAssumption DEF IsWaiting, IsUpdateBody, UpdateKeys
  <2>4. UpdateAction(old, body) \in Actions
    BY DEF UpdateAction, Actions
  <2>5. <<>> \in Seq(Users)
    OBVIOUS
  <2>6. Unaudited /\ Elsewhere
    BY <1>5 DEF UpdateTicket
  <2>7. CASE Refuse(r)
    BY <2>6, <2>7, RefuseType
  <2>8. CASE Save(r, old, body, <<>>, UpdateAction(old, body))
    BY <2>1, <2>3, <2>4, <2>5, <2>6, <2>8, SaveType
  <2> QED
    BY <2>2, <2>7, <2>8
<1>6. ASSUME NEW r \in Requests, AcceptTicket(r)
      PROVE  TypeOK'
  <2>1. IsPatch(Acceptance) /\ "rejectionHistory" \notin DOMAIN Acceptance
    BY FieldTypes DEF IsPatch, Acceptance, Acceptances, Statuses, TypeOK
  <2>2. <<>> \in Seq(Users) /\ "accepted" \in Actions
    BY DEF Actions
  <2> QED
    BY <1>6, <2>1, <2>2, SaveType, RefuseType DEF AcceptTicket
<1>7. ASSUME NEW r \in Requests, RejectTicket(r)
      PROVE  TypeOK'
  <2>1. IsPatch(Rejection) /\ "rejectionHistory" \notin DOMAIN Rejection
    BY FieldTypes DEF IsPatch, Rejection, Acceptances, Statuses
  <2>2. req[r].phase = "find" => req[r].user \in Users
    BY RequestShape DEF TypeOK, IsWaiting
  <2>3. req[r].phase = "find" => <<req[r].user>> \in Seq(Users)
    BY <2>2
  <2>4. "rejected" \in Actions
    BY DEF Actions
  <2> QED
    BY <1>7, <2>1, <2>3, <2>4, SaveType, RefuseType DEF RejectTicket
<1>8. ASSUME NEW r \in Requests, DeleteTicket(r)
      PROVE  TypeOK'
  <2>1. IsPatch(Deletion) /\ "rejectionHistory" \notin DOMAIN Deletion
    <3>1. DOMAIN Deletion = {"isDeleted"} /\ Deletion.isDeleted = TRUE
      BY DEF Deletion
    <3>2. Deletion.isDeleted \in FieldType.isDeleted
      BY <3>1, FieldTypes
    <3> QED
      BY <3>1, <3>2, FieldTypes DEF IsPatch
  <2>2. <<>> \in Seq(Users) /\ "deleted" \in Actions
    BY DEF Actions
  <2> QED
    BY <1>8, <2>1, <2>2, SaveType, RefuseType DEF DeleteTicket
<1>9. ASSUME NEW r \in Requests, SaveTicket(r)
      PROVE  TypeOK'
  <2> DEFINE q == req[r]
             d == Written(tickets[q.ticket], q.set, q.push)
  <2>1. IsSaving(q, Stored)
    BY <1>9, RequestShape DEF SaveTicket, TypeOK
  <2>2. IsTicket(d)
    BY <2>1, WrittenType DEF TypeOK, IsSaving
  <2>3. tickets' = [tickets EXCEPT ![q.ticket] = d]
    BY <1>9 DEF SaveTicket
  <2>4. Stored' = Stored
    BY <2>3 DEF Stored
  <2>5. \A t \in Stored' : IsTicket(tickets'[t])
    BY <2>2, <2>3, <2>4 DEF TypeOK, Stored
  <2>6. IsRequest(Auditing(q.ticket, q.action), Stored')
    BY <2>1, <2>4 DEF IsSaving, IsRequest, IsAuditing, Auditing
  <2> QED
    BY <1>9, <2>4, <2>5, <2>6, TypeStep DEF SaveTicket, Become, Unaudited, TypeOK
<1>10. ASSUME NEW r \in Requests, Audit(r) \/ AuditFails(r)
       PROVE  TypeOK'
  <2>1. IsAuditing(req[r], Stored)
    BY <1>10, RequestShape DEF Audit, AuditFails, TypeOK
  <2>2. req[r].ticket \in TicketIds /\ req[r].action \in Actions
    BY <2>1 DEF IsAuditing, TypeOK
  <2>3. audit' \in [TicketIds -> SUBSET Actions] /\ auditLost' \subseteq TicketIds
    BY <1>10, <2>2 DEF Audit, AuditFails, TypeOK
  <2>4. req' = [req EXCEPT ![r] = Idle] /\ UNCHANGED tickets /\ Elsewhere
    BY <1>10 DEF Audit, AuditFails, Become
  <2> QED
    BY <2>3, <2>4, TypeStep DEF IsRequest, TypeOK, Stored
<1>11. ASSUME NEW r \in Requests, RequestFails(r)
       PROVE  TypeOK'
  BY <1>11, TypeQuietStep DEF RequestFails, IsRequest
<1>12. CASE ChangeAccount
  <2>1. accounts' \in [Users -> Accounts]
    BY <1>12, AccountsAssumption DEF ChangeAccount, TypeOK
  <2> QED
    BY <1>12, <2>1 DEF ChangeAccount, TypeOK, Stored, Unaudited
<1>13. CASE Tick
  BY <1>13 DEF Tick, TypeOK, Stored, Unaudited
<1>14. CASE UNCHANGED vars
  BY <1>14 DEF vars, TypeOK, Stored
<1> QED
  BY <1>1, <1>2, <1>3, <1>4, <1>5, <1>6, <1>7, <1>8, <1>9, <1>10, <1>11, <1>12,
     <1>13, <1>14 DEF Next, Handle

\* Type correctness: whatever the requests, every stored ticket keeps to the
\* schema and every suspended handler has what its next step reads.
THEOREM TypeCorrect == Spec => []TypeOK
  BY InitType, NextType, PTL DEF Spec

-----------------------------------------------------------------------------
(* Milestones.                                                             *)

\* A patch a handler assigns: what it sets comes with its record.
IsHandlerPatch(p, push) ==
    /\ IsPatch(p)
    /\ "rejectionHistory" \notin DOMAIN p
    /\ TakesNothingBack(p)
    /\ "acceptanceStatus" \in DOMAIN p =>
          /\ p.acceptanceStatus = "accepted" => "acceptedAt" \in DOMAIN p
          /\ p.acceptanceStatus = "rejected" => push # <<>>

\* The fields of a document, one by one.
LEMMA TicketFields ==
    ASSUME NEW d, IsTicket(d)
    PROVE  /\ d.createdBy \in Users /\ d.status \in Statuses
           /\ d.assignedTo \in Users \cup {NoUser} /\ d.acceptanceStatus \in Acceptances
           /\ d.assignedAt \in Nat /\ d.acceptedAt \in Nat
           /\ d.resolvedAt \in Nat /\ d.closedAt \in Nat
           /\ d.rejectionHistory \in Seq(Users) /\ d.isDeleted \in BOOLEAN
  BY FieldTypes DEF IsTicket, IsPatch

\* The document a handler saves has its milestones recorded, and no date of
\* the document it loaded is unset.
LEMMA PreparedDocument ==
    ASSUME NEW old, IsTicket(old), MilestonesOf(old), now \in Nat \ {0},
           NEW push, NEW p, IsHandlerPatch(p, push)
    PROVE  LET new == PreSave(old, Assign(old, p)) IN
           /\ \A at \in DateFields : old[at] # Never => new[at] # Never
           /\ new.status \in {"resolved", "closed"} => new.resolvedAt # Never
           /\ new.status = "closed" => new.closedAt # Never
           /\ new.acceptanceStatus = "accepted" => new.acceptedAt # Never
           /\ new.assignedTo # NoUser => new.assignedAt # Never
           /\ new.acceptanceStatus = "rejected" =>
                 push # <<>> \/ new.acceptanceStatus = old.acceptanceStatus
           /\ new.createdBy = old.createdBy
           /\ old.isDeleted => new.isDeleted
           /\ new.isDeleted # old.isDeleted => new.isDeleted
<1> DEFINE mid == Assign(old, p)
           new == PreSave(old, mid)
<1>1. IsTicket(mid) /\ IsTicket(new)
  BY AssignType, PreSaveType DEF IsHandlerPatch
<1>2. \A f \in Fields : mid[f] = IF f \in DOMAIN p THEN p[f] ELSE old[f]
  BY DEF Assign
<1>3. \A f \in Fields \ {"resolvedAt", "closedAt", "assignedAt"} : new[f] = mid[f]
  BY <1>1, PreSaveType
<1>4. /\ new.resolvedAt = IF mid.status # old.status /\ mid.status \in {"resolved", "closed"}
                             /\ mid.resolvedAt = Never
                          THEN now ELSE mid.resolvedAt
      /\ new.closedAt = IF mid.status # old.status /\ mid.status = "closed"
                           /\ mid.closedAt = Never
                        THEN now ELSE mid.closedAt
      /\ new.assignedAt = IF mid.assignedTo \notin {old.assignedTo, NoUser}
                             /\ mid.assignedAt = Never
                          THEN now ELSE mid.assignedAt
  BY FieldTypes DEF PreSave, Assign
<1>5. \A at \in DateFields : old[at] # Never => mid[at] # Never
  BY <1>2, FieldTypes DEF DateFields, IsHandlerPatch, TakesNothingBack
<1>6. now # Never
  BY DEF Never
<1>7. new.status = mid.status /\ new.acceptanceStatus = mid.acceptanceStatus
      /\ new.assignedTo = mid.assignedTo /\ new.acceptedAt = mid.acceptedAt
      /\ new.createdBy = mid.createdBy /\ new.isDeleted = mid.isDeleted
  BY <1>3, FieldTypes
<1>8. \A at \in DateFields : old[at] # Never => new[at] # Never
  BY <1>4, <1>5, <1>6, <1>7 DEF DateFields
<1>9. /\ new.status \in {"resolved", "closed"} => new.resolvedAt # Never
      /\ new.status = "closed" => new.closedAt # Never
      /\ new.assignedTo # NoUser => new.assignedAt # Never
  BY <1>4, <1>5, <1>6, <1>7 DEF MilestonesOf, DateFields
<1>10. /\ mid.acceptanceStatus = "accepted" => mid.acceptedAt # Never
       /\ mid.acceptanceStatus = "rejected" =>
             push # <<>> \/ mid.acceptanceStatus = old.acceptanceStatus
  BY <1>2, FieldTypes DEF IsHandlerPatch, TakesNothingBack, MilestonesOf, DateFields
<1>11. mid.createdBy = old.createdBy
  BY <1>2, FieldTypes DEF IsHandlerPatch, TakesNothingBack
<1>12. (old.isDeleted => mid.isDeleted) /\ (mid.isDeleted # old.isDeleted => mid.isDeleted)
  BY <1>2, FieldTypes DEF IsHandlerPatch, TakesNothingBack
<1> QED
  BY <1>7, <1>8, <1>9, <1>10, <1>11, <1>12

\* So what save() sends takes nothing back and backs its milestones.
LEMMA PreparedSave ==
    ASSUME NEW old, IsTicket(old), MilestonesOf(old), now \in Nat \ {0},
           NEW q, IsHandlerPatch(q.patch, q.push),
           q.set = Modified(old, PreSave(old, Assign(old, q.patch)))
    PROVE  TakesNothingBack(q.set) /\ MilestonesBacked(q, old)
<1> DEFINE new == PreSave(old, Assign(old, q.patch))
<1>1. /\ DOMAIN q.set = {f \in Fields : new[f] # old[f]}
      /\ \A f \in DOMAIN q.set : q.set[f] = new[f]
  BY DEF Modified
<1>2. /\ \A at \in DateFields : old[at] # Never => new[at] # Never
      /\ new.status \in {"resolved", "closed"} => new.resolvedAt # Never
      /\ new.status = "closed" => new.closedAt # Never
      /\ new.acceptanceStatus = "accepted" => new.acceptedAt # Never
      /\ new.assignedTo # NoUser => new.assignedAt # Never
      /\ new.acceptanceStatus = "rejected" =>
            q.push # <<>> \/ new.acceptanceStatus = old.acceptanceStatus
      /\ new.createdBy = old.createdBy
      /\ new.isDeleted # old.isDeleted => new.isDeleted
  BY PreparedDocument
<1> HIDE DEF new
<1>3. \A at \in DateFields : new[at] # Never => at \in DOMAIN q.set \/ old[at] # Never
  BY <1>1, FieldTypes DEF DateFields
<1>4. TakesNothingBack(q.set)
  BY <1>1, <1>2 DEF TakesNothingBack
<1>5. MilestonesBacked(q, old)
  BY <1>1, <1>2, <1>3, NoUserAssumption DEF MilestonesBacked, DateFields
<1> QED
  BY <1>4, <1>5

\* A save applied to whatever document it meets leaves its history in place
\* and its milestones recorded.
LEMMA WrittenDocument ==
    ASSUME NEW d, IsTicket(d), MilestonesOf(d),
           NEW q, IsPatch(q.set), "rejectionHistory" \notin DOMAIN q.set,
           q.push \in Seq(Users), TakesNothingBack(q.set), MilestonesBacked(q, d)
    PROVE  MilestonesOf(Written(d, q.set, q.push)) /\ Keeps(Written(d, q.set, q.push), d)
<1> DEFINE e == Written(d, q.set, q.push)
<1>1. /\ \A f \in Fields \ {"rejectionHistory"} :
            e[f] = IF f \in DOMAIN q.set THEN q.set[f] ELSE d[f]
      /\ e.rejectionHistory = d.rejectionHistory \o q.push
  BY FieldTypes DEF Written, Assign
<1>2. IsTicket(e)
  BY WrittenType
<1>3. d.rejectionHistory \in Seq(Users)
  BY TicketFields
<1> HIDE DEF e
<1>4. IsPrefixOf(d.rejectionHistory, e.rejectionHistory)
  <2> DEFINE h == d.rejectionHistory
             s == h \o q.push
  <2>1. h \in Seq(Users) /\ e.rejectionHistory = s
    BY <1>1, <1>3
  <2> HIDE DEF h
  <2>2. Len(h) \in Nat /\ Len(q.push) \in Nat /\ Len(s) = Len(h) + Len(q.push)
    BY <2>1, ConcatProperties, LenProperties
  <2>3. \A i \in 1..Len(h) : s[i] = h[i]
    <3> TAKE i \in 1..Len(h)
    <3>1. i \in 1..(Len(h) + Len(q.push)) /\ i <= Len(h)
      BY <2>2
    <3> QED
      BY <2>1, <3>1, ConcatProperties
  <2> HIDE DEF s
  <2>4. IsPrefixOf(h, s)
    BY <2>2, <2>3 DEF IsPrefixOf
  <2> QED
    BY <2>1, <2>4 DEF h
<1>5. \A at \in DateFields : /\ d[at] # Never => e[at] # Never
                             /\ at \in DOMAIN q.set => e[at] # Never
  BY <1>1, FieldTypes DEF DateFields, TakesNothingBack
<1>6. e.createdBy = d.createdBy /\ (d.isDeleted => e.isDeleted)
  BY <1>1, FieldTypes DEF TakesNothingBack
<1>7. d.rejectionHistory # <<>> \/ q.push # <<>> => e.rejectionHistory # <<>>
  BY <1>1, <1>3
<1>8. /\ e.status \in {"resolved", "closed"} => e.resolvedAt # Never
      /\ e.status = "closed" => e.closedAt # Never
      /\ e.acceptanceStatus = "accepted" => e.acceptedAt # Never
  BY <1>1, <1>5, FieldTypes DEF MilestonesOf, MilestonesBacked, DateFields
<1>9. e.assignedTo # NoUser => e.assignedAt # Never
  <2>1. e.assignedTo \in Users \cup {NoUser}
    BY <1>2, TicketFields
  <2> QED
    BY <2>1, <1>1, <1>5, FieldTypes DEF MilestonesOf, MilestonesBacked, DateFields
<1>10. e.acceptanceStatus = "rejected" => e.rejectionHistory # <<>>
  BY <1>1, <1>7, FieldTypes DEF MilestonesOf, MilestonesBacked
<1> QED
  BY <1>4, <1>5, <1>6, <1>8, <1>9, <1>10 DEF MilestonesOf, Keeps, e

\* Every document keeps its own history.
LEMMA KeepsItself ==
    ASSUME NEW d, IsTicket(d)
    PROVE  Keeps(d, d)
  BY TicketFields DEF Keeps, IsPrefixOf

\* A save that was backed by a document is backed by one that keeps its history.
LEMMA BackedGrows ==
    ASSUME NEW d, NEW e, IsTicket(d), IsTicket(e), Keeps(e, d),
           NEW q, MilestonesBacked(q, d)
    PROVE  MilestonesBacked(q, e)
<1>1. d.rejectionHistory \in Seq(Users) /\ e.rejectionHistory \in Seq(Users)
  BY TicketFields
<1>2. d.rejectionHistory # <<>> => e.rejectionHistory # <<>>
  <2>1. Len(d.rejectionHistory) <= Len(e.rejectionHistory)
    BY DEF Keeps, IsPrefixOf
  <2>2. d.rejectionHistory # <<>> => Len(d.rejectionHistory) > 0
    BY <1>1
  <2> QED
    BY <1>1, <2>1, <2>2
<1> QED
  BY <1>2 DEF MilestonesBacked, Keeps, DateFields

-----------------------------------------------------------------------------
(* The inductive invariant: the milestones, and what makes the requests in *)
(* flight harmless to them.                                                *)

IInv == TypeOK /\ MilestonesAreRecorded /\ InFlightIsSound

\* What InFlightIsSound asks of a request in a phase other than "insert".
IsSound(q) ==
    /\ q.phase = "find" => /\ TakesNothingBack(q.body)
                           /\ "acceptanceStatus" \in DOMAIN q.body
                                  => q.body.acceptanceStatus = "pending"
    /\ q.phase = "save" => /\ TakesNothingBack(q.set)
                           /\ MilestonesBacked(q, tickets[q.ticket])

\* A step that moves one request on to a sound phase and changes no ticket.
LEMMA SoundQuietStep ==
    ASSUME IInv, NEW r \in Requests, NEW q, Become(r, q), IsSound(q),
           q.phase # "insert", UNCHANGED tickets
    PROVE  MilestonesAreRecorded' /\ InFlightIsSound'
<1>1. MilestonesAreRecorded'
  BY DEF IInv, MilestonesAreRecorded, Stored
<1>2. req'[r] = q /\ \A x \in Requests \ {r} : req'[x] = req[x]
  BY DEF IInv, TypeOK, Become
<1>3. InFlightIsSound'
  BY <1>2 DEF IInv, InFlightIsSound, IsSound, Stored
<1> QED
  BY <1>1, <1>3

\* A handler that calls save() with what it assigned.
LEMMA SoundSave ==
    ASSUME IInv, NEW r \in Requests, req[r].phase = "find",
           NEW patch, NEW push, NEW action, IsHandlerPatch(patch, push),
           Save(r, tickets[req[r].ticket], patch, push, action)
    PROVE  MilestonesAreRecorded' /\ InFlightIsSound'
<1> DEFINE q   == req[r]
           old == tickets[q.ticket]
           set == Modified(old, PreSave(old, Assign(old, patch)))
           s   == Saving(q, set, push, action)
           v   == [patch |-> patch, set |-> set, push |-> push]
<1>1. q.ticket \in Stored
  BY RequestShape DEF IInv, TypeOK, IsWaiting
<1>2. IsTicket(old) /\ MilestonesOf(old) /\ now \in Nat \ {0}
  BY <1>1 DEF IInv, TypeOK, MilestonesAreRecorded
<1>3. TakesNothingBack(v.set) /\ MilestonesBacked(v, old)
  BY <1>2, PreparedSave
<1>4. TakesNothingBack(s.set) /\ MilestonesBacked(s, old)
  BY <1>3 DEF Saving, MilestonesBacked
<1>5. IsSound(s) /\ s.phase = "save"
  BY <1>4 DEF IsSound, Saving
<1>6. Become(r, s) /\ UNCHANGED tickets
  BY DEF Save
<1> QED
  BY <1>5, <1>6, SoundQuietStep

\* A request refused, failed, answered or just received is sound.
LEMMA SoundIdle ==
    ASSUME IInv, NEW r \in Requests, Become(r, Idle), UNCHANGED tickets
    PROVE  MilestonesAreRecorded' /\ InFlightIsSound'
  BY SoundQuietStep DEF Idle, IsSound

LEMMA SoundReceive ==
    ASSUME IInv, NEW r \in Requests, NEW phase, NEW op, NEW t, phase # "insert",
           phase # "save", Receive(r, phase, op, t)
    PROVE  MilestonesAreRecorded' /\ InFlightIsSound'
<1>1. PICK u \in Users : Become(r, Waiting(phase, op, u, accounts[u].role, t, NoBody))
  BY DEF Receive
<1>2. IsSound(Waiting(phase, op, u, accounts[u].role, t, NoBody))
  BY DEF IsSound, Waiting, NoBody, TakesNothingBack
<1> QED
  BY <1>1, <1>2, SoundQuietStep DEF Receive, Waiting

\* A save applied by the database keeps every history and leaves the saves of
\* the other requests sound.
LEMMA SoundWrite ==
    ASSUME IInv, NEW r \in Requests, SaveTicket(r)
    PROVE  /\ MilestonesAreRecorded' /\ InFlightIsSound'
           /\ \A t \in Stored : t \in Stored' /\ Keeps(tickets'[t], tickets[t])
<1> DEFINE q == req[r]
           d == tickets[q.ticket]
           e == Written(d, q.set, q.push)
<1>1. q.phase = "save" /\ IsSaving(q, Stored)
  BY RequestShape DEF SaveTicket, IInv, TypeOK
<1>2. IsTicket(d) /\ MilestonesOf(d)
  BY <1>1 DEF IInv, TypeOK, MilestonesAreRecorded, IsSaving
<1>3. TakesNothingBack(q.set) /\ MilestonesBacked(q, d)
  BY <1>1 DEF IInv, InFlightIsSound
<1>4. MilestonesOf(e) /\ Keeps(e, d)
  BY <1>1, <1>2, <1>3, WrittenDocument DEF IsSaving
<1>5. IsTicket(e)
  BY <1>1, <1>2, WrittenType DEF IsSaving
<1>6. /\ Stored' = Stored
      /\ tickets'[q.ticket] = e
      /\ \A t \in Stored : t # q.ticket => tickets'[t] = tickets[t]
  BY <1>1 DEF SaveTicket, Stored, IsSaving
<1> HIDE DEF e
<1>7. \A t \in Stored : IsTicket(tickets'[t]) /\ Keeps(tickets'[t], tickets[t])
  BY <1>4, <1>5, <1>6, KeepsItself DEF IInv, TypeOK
<1>8. MilestonesAreRecorded'
  BY <1>4, <1>6 DEF IInv, MilestonesAreRecorded
<1>9. /\ req'[r].phase = "audit"
      /\ \A x \in Requests \ {r} : req'[x] = req[x]
  BY DEF SaveTicket, Become, Auditing, IInv, TypeOK
<1>10. ASSUME NEW x \in Requests, req'[x].phase = "save"
       PROVE  TakesNothingBack(req'[x].set) /\ MilestonesBacked(req'[x], tickets'[req'[x].ticket])
  <2>1. x # r /\ req'[x] = req[x] /\ req[x].phase = "save"
    BY <1>9, <1>10
  <2>2. req[x].ticket \in Stored
    BY <2>1, RequestShape DEF IInv, TypeOK, IsSaving
  <2>3. TakesNothingBack(req[x].set) /\ MilestonesBacked(req[x], tickets[req[x].ticket])
    BY <2>1 DEF IInv, InFlightIsSound
  <2> QED
    BY <1>7, <2>1, <2>2, <2>3, BackedGrows DEF IInv, TypeOK
<1>11. ASSUME NEW x \in Requests, req'[x].phase \in {"find", "insert"}
       PROVE  req'[x] = req[x]
  BY <1>9, <1>11
<1>12. InFlightIsSound'
  BY <1>6, <1>9, <1>10, <1>11 DEF IInv, InFlightIsSound
<1> QED
  BY <1>6, <1>7, <1>8, <1>12

\* A ticket is created beside the others, under an _id no save refers to.
LEMMA SoundCreate ==
    ASSUME IInv, NEW r \in Requests, CreateTicket(r)
    PROVE  /\ MilestonesAreRecorded' /\ InFlightIsSound'
           /\ \A t \in Stored : t \in Stored' /\ Keeps(tickets'[t], tickets[t])
<1> DEFINE q == req[r]
<1>1. q.phase = "insert" /\ q.ticket \notin Stored
  BY DEF CreateTicket, IInv, InFlightIsSound
<1>2. PICK p \in Priorities, c \in Categories :
         tickets' = [t \in Stored \cup {q.ticket} |->
                       IF t = q.ticket THEN NewTicket(q.user, p, c) ELSE tickets[t]]
  BY DEF CreateTicket
<1>3. /\ Stored' = Stored \cup {q.ticket}
      /\ tickets'[q.ticket] = NewTicket(q.user, p, c)
      /\ \A t \in Stored : tickets'[t] = tickets[t]
  BY <1>1, <1>2 DEF Stored
<1>4. MilestonesOf(NewTicket(q.user, p, c))
  BY DEF MilestonesOf, NewTicket
<1>5. MilestonesAreRecorded'
  BY <1>3, <1>4 DEF IInv, MilestonesAreRecorded
<1>6. \A t \in Stored : t \in Stored' /\ Keeps(tickets'[t], tickets[t])
  BY <1>3, KeepsItself DEF IInv, TypeOK
<1>7. /\ req'[r].phase = "audit"
      /\ \A x \in Requests \ {r} : req'[x] = req[x]
  BY DEF CreateTicket, Become, Auditing, IInv, TypeOK
<1>8. ASSUME NEW x \in Requests, x # r, req[x].phase = "save"
      PROVE  tickets'[req[x].ticket] = tickets[req[x].ticket]
  BY <1>3, <1>8, RequestShape DEF IInv, TypeOK, IsSaving
<1>9. ASSUME NEW x \in Requests, x # r, req[x].phase = "insert"
      PROVE  req[x].ticket \notin Stored'
  BY <1>1, <1>3, <1>9 DEF IInv, InFlightIsSound
<1>10. InFlightIsSound'
  <2> SUFFICES ASSUME NEW x \in Requests, x # r, req'[x] = req[x]
               PROVE  /\ req'[x].phase = "find" =>
                            /\ TakesNothingBack(req'[x].body)
                            /\ "acceptanceStatus" \in DOMAIN req'[x].body
                                  => req'[x].body.acceptanceStatus = "pending"
                      /\ req'[x].phase = "save" =>
                            /\ TakesNothingBack(req'[x].set)
                            /\ MilestonesBacked(req'[x], tickets'[req'[x].ticket])
                      /\ req'[x].phase = "insert" =>
                            /\ req'[x].ticket \notin Stored'
                            /\ \A y \in Requests \ {x} :
                                  req'[y].phase = "insert" => req'[y].ticket # req'[x].ticket
    BY <1>7 DEF InFlightIsSound
  <2>1. req[x].phase = "save" => tickets'[req[x].ticket] = tickets[req[x].ticket]
    BY <1>8
  <2>2. req[x].phase = "insert" =>
           \A y \in Requests \ {x} :
               req'[y].phase = "insert" => req'[y].ticket # req[x].ticket
    BY <1>7 DEF IInv, InFlightIsSound
  <2> QED
    BY <1>9, <2>1, <2>2 DEF IInv, InFlightIsSound
<1> QED
  BY <1>5, <1>6, <1>10

\* The _id of a request to create a ticket is new.
LEMMA SoundReceiveCreate ==
    ASSUME IInv, NEW r \in Requests, ReceiveCreate(r)
    PROVE  MilestonesAreRecorded' /\ InFlightIsSound'
<1>1. PICK t \in TicketIds : IsFresh(t) /\ Receive(r, "insert", "create", t)
  BY DEF ReceiveCreate
<1>2. PICK u \in Users : Become(r, Waiting("insert", "create", u, accounts[u].role, t, NoBody))
  BY <1>1 DEF Receive
<1>3. /\ req'[r].phase = "insert" /\ req'[r].ticket = t
      /\ \A x \in Requests \ {r} : req'[x] = req[x]
  BY <1>2 DEF Become, Waiting, IInv, TypeOK
<1>4. UNCHANGED tickets
  BY <1>1 DEF Receive
<1>5. t \notin Stored /\ \A x \in Requests : req[x].phase = "insert" => req[x].ticket # t
  BY <1>1 DEF IsFresh
<1>6. MilestonesAreRecorded'
  BY <1>4 DEF IInv, MilestonesAreRecorded, Stored
<1>7. InFlightIsSound'
  BY <1>3, <1>4, <1>5 DEF IInv, InFlightIsSound, Stored
<1> QED
  BY <1>6, <1>7

LEMMA InitIInv == Init => IInv
<1> SUFFICES ASSUME Init
             PROVE  IInv
  OBVIOUS
<1>1. TypeOK
  BY InitType
<1>2. MilestonesAreRecorded /\ InFlightIsSound
  BY DEF Init, MilestonesAreRecorded, InFlightIsSound, Stored, Idle
<1> QED
  BY <1>1, <1>2 DEF IInv

\* No step breaks the invariant, and no step erases history: only CreateTicket
\* and SaveTicket change a ticket.
LEMMA NextIInv ==
    ASSUME IInv, [Next]_vars
    PROVE  IInv' /\ \A t \in Stored : t \in Stored' /\ Keeps(tickets'[t], tickets[t])
<1>1. TypeOK'
  BY NextType DEF IInv
<1>2. ASSUME UNCHANGED tickets
      PROVE  \A t \in Stored : t \in Stored' /\ Keeps(tickets'[t], tickets[t])
  BY <1>2, KeepsItself DEF IInv, TypeOK, Stored
<1> DEFINE Goal == /\ MilestonesAreRecorded' /\ InFlightIsSound'
                   /\ \A t \in Stored : t \in Stored' /\ Keeps(tickets'[t], tickets[t])
<1>3. ASSUME NEW r \in Requests, Arrive(r)
      PROVE  Goal
  <2>1. CASE ReceiveCreate(r)
    <3>1. UNCHANGED tickets
      BY <2>1 DEF ReceiveCreate, Receive
    <3> QED
      BY <2>1, <3>1, <1>2, SoundReceiveCreate
  <2>2. ASSUME NEW phase \in {"view", "agent", "find"}, NEW op, NEW t \in Stored,
               Receive(r, phase, op, t)
        PROVE  Goal
    <3>1. UNCHANGED tickets
      BY <2>2 DEF Receive
    <3> QED
      BY <2>2, <3>1, <1>2, SoundReceive
  <2> QED
    BY <1>3, <2>1, <2>2
       DEF Arrive, ReceiveUpdate, ReceiveAssign, ReceiveAccept, ReceiveReject, ReceiveDelete
<1>4. ASSUME NEW r \in Requests, CreateTicket(r)
      PROVE  Goal
  BY <1>4, SoundCreate
<1>5. ASSUME NEW r \in Requests, SaveTicket(r)
      PROVE  Goal
  BY <1>5, SoundWrite
<1>6. ASSUME NEW r \in Requests, Become(r, Idle), UNCHANGED tickets
      PROVE  Goal
  BY <1>6, <1>2, SoundIdle
<1>7. ASSUME NEW r \in Requests, GetTicketById(r)
      PROVE  Goal
  <2> DEFINE next == Waiting("find", "update", req[r].user, req[r].role, req[r].ticket, NoBody)
  <2>1. IsSound(next) /\ next.phase # "insert"
    BY DEF IsSound, Waiting, NoBody, TakesNothingBack
  <2>2. CASE Become(r, next) /\ UNCHANGED tickets
    BY <2>1, <2>2, <1>2, SoundQuietStep
  <2>3. CASE Refuse(r)
    BY <2>3, <1>6 DEF Refuse
  <2> QED
    BY <1>7, <2>2, <2>3 DEF GetTicketById
<1>8. ASSUME NEW r \in Requests, AssignTicket(r)
      PROVE  Goal
  <2> DEFINE body(a) == [assignedTo |-> a, acceptanceStatus |-> "pending", assignedAt |-> now]
             next(a) == Waiting("find", "assign", req[r].user, req[r].role, req[r].ticket, body(a))
  <2>1. \A a : IsSound(next(a)) /\ next(a).phase # "insert"
    BY DEF IsSound, Waiting, TakesNothingBack, IInv, TypeOK, DateFields, Never
  <2>2. ASSUME NEW a \in Users, Become(r, next(a)), UNCHANGED tickets
        PROVE  Goal
    BY <2>1, <2>2, <1>2, SoundQuietStep
  <2>3. CASE Refuse(r)
    BY <2>3, <1>6 DEF Refuse
  <2> QED
    BY <1>8, <2>2, <2>3 DEF AssignTicket, Assignment
<1>9. ASSUME NEW r \in Requests, NEW patch, NEW push, NEW action, req[r].phase = "find",
             IsHandlerPatch(patch, push),
             Refuse(r) \/ Save(r, tickets[req[r].ticket], patch, push, action)
      PROVE  Goal
  <2>1. CASE Refuse(r)
    BY <2>1, <1>6 DEF Refuse
  <2>2. CASE Save(r, tickets[req[r].ticket], patch, push, action)
    <3>1. UNCHANGED tickets
      BY <2>2 DEF Save
    <3> QED
      BY <1>9, <2>2, <3>1, <1>2, SoundSave
  <2> QED
    BY <1>9, <2>1, <2>2
<1>10. ASSUME NEW r \in Requests, UpdateTicket(r)
       PROVE  Goal
  <2> DEFINE q == req[r]
  <2>1. q.phase = "find" /\ IsWaiting(q, Stored)
    BY <1>10, RequestShape DEF UpdateTicket, IInv, TypeOK
  <2>2. PICK body \in IF q.op = "assign" THEN {q.body} ELSE UpdateBodies :
           Refuse(r) \/ Save(r, tickets[q.ticket], body, <<>>, UpdateAction(tickets[q.ticket], body))
    BY <1>10 DEF UpdateTicket
  <2>3. IsHandlerPatch(body, <<>>)
    <3>1. CASE q.op = "assign"
      BY <2>1, <2>2, <3>1 DEF IInv, InFlightIsSound, IsWaiting, IsHandlerPatch
    <3>2. CASE q.op # "assign"
      <4>1. IsPatch(body) /\ DOMAIN body \subseteq UpdateKeys
        BY <2>2, <3>2, BodiesAssumption DEF IsUpdateBody
      <4> QED
        BY <4>1 DEF UpdateKeys, IsHandlerPatch, TakesNothingBack, DateFields
    <3> QED
      BY <3>1, <3>2
  <2> QED
    BY <1>9, <2>1, <2>2, <2>3
<1>11. ASSUME NEW r \in Requests, AcceptTicket(r)
       PROVE  Goal
  <2>1. IsPatch(Acceptance)
    BY FieldTypes DEF IsPatch, Acceptance, Acceptances, Statuses, IInv, TypeOK
  <2>2. IsHandlerPatch(Acceptance, <<>>)
    BY <2>1 DEF IsHandlerPatch, TakesNothingBack, Acceptance, DateFields, Never, IInv, TypeOK
  <2> QED
    BY <1>9, <1>11, <2>2 DEF AcceptTicket
<1>12. ASSUME NEW r \in Requests, RejectTicket(r)
       PROVE  Goal
  <2>1. IsPatch(Rejection)
    BY FieldTypes DEF IsPatch, Rejection, Acceptances, Statuses
  <2>2. IsHandlerPatch(Rejection, <<req[r].user>>)
    BY <2>1 DEF IsHandlerPatch, TakesNothingBack, Rejection, DateFields
  <2> QED
    BY <1>9, <1>12, <2>2 DEF RejectTicket
<1>13. ASSUME NEW r \in Requests, DeleteTicket(r)
       PROVE  Goal
  <2>1. DOMAIN Deletion = {"isDeleted"} /\ Deletion.isDeleted = TRUE
    BY DEF Deletion
  <2>2. Deletion.isDeleted \in FieldType.isDeleted
    BY <2>1, FieldTypes
  <2>3. IsHandlerPatch(Deletion, <<>>)
    BY <2>1, <2>2, FieldTypes DEF IsHandlerPatch, IsPatch, TakesNothingBack, DateFields
  <2> QED
    BY <1>9, <1>13, <2>3 DEF DeleteTicket
<1>14. ASSUME NEW r \in Requests, Audit(r) \/ AuditFails(r) \/ RequestFails(r)
       PROVE  Goal
  BY <1>14, <1>6 DEF Audit, AuditFails, RequestFails
<1>15. ASSUME ChangeAccount \/ Tick \/ UNCHANGED vars
       PROVE  Goal
  <2>1. UNCHANGED <<tickets, req>>
    BY <1>15 DEF ChangeAccount, Tick, vars
  <2>2. MilestonesAreRecorded' /\ InFlightIsSound'
    BY <2>1 DEF IInv, MilestonesAreRecorded, InFlightIsSound, Stored
  <2> QED
    BY <2>1, <2>2, <1>2
<1>16. Goal
  BY <1>3, <1>4, <1>5, <1>7, <1>8, <1>10, <1>11, <1>12, <1>13, <1>14, <1>15
     DEF Next, Handle
<1> QED
  BY <1>1, <1>16 DEF IInv

\* However the requests interleave, a ticket that was assigned, accepted,
\* rejected, resolved or closed has the record of it.
THEOREM MilestonesRecorded == Spec => []MilestonesAreRecorded
<1>1. IInv => MilestonesAreRecorded
  BY DEF IInv
<1>2. IInv /\ [Next]_vars => IInv'
  BY NextIInv
<1> QED
  BY InitIInv, <1>1, <1>2, PTL DEF Spec

\* What is in flight stays sound.
THEOREM InFlightSound == Spec => []InFlightIsSound
<1>1. IInv => InFlightIsSound
  BY DEF IInv
<1>2. IInv /\ [Next]_vars => IInv'
  BY NextIInv
<1> QED
  BY InitIInv, <1>1, <1>2, PTL DEF Spec

\* However the requests interleave, no save erases the rejections, the dates,
\* the creator or the deletion another one recorded.
THEOREM HistoryKept == Spec => HistoryIsKept
<1>1. IInv /\ [Next]_vars => IInv'
  BY NextIInv
<1>2. IInv /\ [Next]_vars =>
         [\A t \in Stored : t \in Stored' /\ Keeps(tickets'[t], tickets[t])]_vars
  BY NextIInv
<1> QED
  BY InitIInv, <1>1, <1>2, PTL DEF Spec, HistoryIsKept

-----------------------------------------------------------------------------
(* Who changes what on a ticket, and whether the audit log can tell: the   *)
(* inductive invariant says what the requests in flight carry.             *)

\* A save sends nothing its request may not change (compare MayChange; d is the
\* stored document).
MaySend(q, d, f) ==
    \/ q.role = "customer" /\ f = "priority" /\ q.user = d.createdBy
    \/ q.role = "agent" /\ f \in {"status", "resolvedAt", "closedAt"}
    \/ q.op = "accept" /\ f \in {"acceptanceStatus", "acceptedAt", "status"}
    \/ q.op = "reject" /\ f \in {"acceptanceStatus", "status"}
    \/ q.op = "reject" /\ f = "assignedTo" /\ q.set[f] = NoUser
    \/ q.role \in Staff /\ f \notin {"createdBy", "isDeleted", "acceptedAt"}
    \/ f = "isDeleted" /\ (q.role = "admin" \/ q.user = d.createdBy)

IsEntitled(q, d) ==
    /\ \A f \in DOMAIN q.set : MaySend(q, d, f)
    /\ q.push # <<>> => q.op = "reject"

\* The audit action of a save names what it sends.
IsExplained(q) ==
    LET sends(f, S) == f \in DOMAIN q.set /\ q.set[f] \in S IN
    /\ "isDeleted" \in DOMAIN q.set => q.action = "deleted"
    /\ sends("acceptanceStatus", {"accepted"}) => q.action = "accepted"
    /\ q.push # <<>> => q.action = "rejected"
    /\ sends("status", Statuses \ {"open"}) => q.action \in {"accepted", "status_changed"}
    /\ sends("assignedTo", Users) =>
           q.action \in {"assigned", "status_changed", "priority_changed"}

\* assignTicket is reached by staff only, and hands over an assignment.
IsAssigning(q) ==
    /\ q.role \in Staff
    /\ q.phase = "find" =>
           /\ DOMAIN q.body = {"assignedTo", "acceptanceStatus", "assignedAt"}
           /\ q.body.assignedTo \in Users /\ q.body.acceptanceStatus = "pending"

\* What the middleware and the checks on the copy let through.
RightsAreKept ==
    \A r \in Requests :
        LET q == req[r] IN
        /\ q.phase \in {"agent", "find"} /\ q.op = "assign" => IsAssigning(q)
        /\ q.phase = "save" => IsEntitled(q, tickets[q.ticket]) /\ IsExplained(q)


-----------------------------------------------------------------------------
(* What save() sends.                                                      *)

\* What save() sends is what the handler assigned, and the dates the hook adds
\* for a resolution, a closing or an assignment.
LEMMA SentFields ==
    ASSUME NEW old, IsTicket(old), NEW p, IsPatch(p), now \in Nat \ {0}
    PROVE  LET set == Modified(old, PreSave(old, Assign(old, p))) IN
           \A f \in DOMAIN set :
               /\ set[f] # old[f]
               /\ \/ f \in DOMAIN p /\ f \notin DateFields /\ set[f] = p[f]
                  \/ f \in DOMAIN p \cap DateFields
                  \/ /\ f \in {"resolvedAt", "closedAt"}
                     /\ "status" \in DOMAIN p /\ p.status \in {"resolved", "closed"}
                  \/ f = "assignedAt" /\ "assignedTo" \in DOMAIN p /\ p.assignedTo # NoUser
<1> DEFINE mid == Assign(old, p)
           new == PreSave(old, mid)
           set == Modified(old, new)
<1>1. IsTicket(mid)
  BY AssignType
<1>2. \A f \in Fields : mid[f] = IF f \in DOMAIN p THEN p[f] ELSE old[f]
  BY DEF Assign
<1>3. \A f \in Fields \ {"resolvedAt", "closedAt", "assignedAt"} : new[f] = mid[f]
  BY <1>1, PreSaveType
<1>4. /\ new.resolvedAt # mid.resolvedAt =>
            mid.status # old.status /\ mid.status \in {"resolved", "closed"}
      /\ new.closedAt # mid.closedAt => mid.status # old.status /\ mid.status = "closed"
      /\ new.assignedAt # mid.assignedAt => mid.assignedTo \notin {old.assignedTo, NoUser}
  BY FieldTypes DEF PreSave, Assign
<1>5. DOMAIN set = {f \in Fields : new[f] # old[f]} /\ \A f \in DOMAIN set : set[f] = new[f]
  BY DEF Modified
<1> HIDE DEF mid, new, set
<1>6. ASSUME NEW f \in DOMAIN set
      PROVE  /\ set[f] # old[f]
             /\ \/ f \in DOMAIN p /\ f \notin DateFields /\ set[f] = p[f]
                \/ f \in DOMAIN p \cap DateFields
                \/ /\ f \in {"resolvedAt", "closedAt"}
                   /\ "status" \in DOMAIN p /\ p.status \in {"resolved", "closed"}
                \/ f = "assignedAt" /\ "assignedTo" \in DOMAIN p /\ p.assignedTo # NoUser
  <2>1. f \in Fields /\ set[f] = new[f] /\ new[f] # old[f]
    BY <1>5, <1>6
  <2>2. CASE new[f] = mid[f]
    <3>1. f \in DOMAIN p /\ set[f] = p[f]
      BY <1>2, <2>1, <2>2
    <3> QED
      BY <2>1, <3>1
  <2>3. CASE new[f] # mid[f]
    <3>1. f \in {"resolvedAt", "closedAt", "assignedAt"}
      BY <1>3, <2>1, <2>3
    <3>2. /\ "status" \in Fields /\ "assignedTo" \in Fields
      BY FieldTypes
    <3>3. /\ mid.status # old.status => "status" \in DOMAIN p /\ p.status = mid.status
          /\ mid.assignedTo # old.assignedTo => "assignedTo" \in DOMAIN p /\ p.assignedTo = mid.assignedTo
      BY <1>2, <3>2
    <3> QED
      BY <1>4, <2>1, <2>3, <3>1, <3>3
  <2> QED
    BY <2>2, <2>3
<1> QED
  BY <1>6 DEF set, new, mid

-----------------------------------------------------------------------------
(* Rights: what each handler sends it may change.                          *)

HasRights(q) ==
    /\ q.phase \in {"agent", "find"} /\ q.op = "assign" => IsAssigning(q)
    /\ q.phase = "save" => IsEntitled(q, tickets[q.ticket]) /\ IsExplained(q)

\* A step that moves one request on and changes no ticket.
LEMMA RightsQuietStep ==
    ASSUME IInv, RightsAreKept, NEW r \in Requests, NEW q, Become(r, q), HasRights(q),
           UNCHANGED tickets
    PROVE  RightsAreKept'
<1>1. req'[r] = q /\ \A x \in Requests \ {r} : req'[x] = req[x]
  BY DEF IInv, TypeOK, Become
<1> QED
  BY <1>1 DEF RightsAreKept, HasRights

LEMMA RightsIdle ==
    ASSUME IInv, RightsAreKept, NEW r \in Requests, Become(r, Idle), UNCHANGED tickets
    PROVE  RightsAreKept'
  BY RightsQuietStep DEF HasRights, Idle

\* A handler calls save() with a patch that its checks allow it.
LEMMA RightsSave ==
    ASSUME IInv, RightsAreKept, NEW r \in Requests, req[r].phase = "find",
           NEW patch, IsPatch(patch), NEW push, NEW action,
           Save(r, tickets[req[r].ticket], patch, push, action),
           LET old == tickets[req[r].ticket]
               set == Modified(old, PreSave(old, Assign(old, patch)))
               s   == Saving(req[r], set, push, action)
           IN  (\A f \in DOMAIN set :
                   /\ set[f] # old[f]
                   /\ \/ f \in DOMAIN patch /\ f \notin DateFields /\ set[f] = patch[f]
                      \/ f \in DOMAIN patch \cap DateFields
                      \/ /\ f \in {"resolvedAt", "closedAt"}
                         /\ "status" \in DOMAIN patch /\ patch.status \in {"resolved", "closed"}
                      \/ f = "assignedAt" /\ "assignedTo" \in DOMAIN patch /\ patch.assignedTo # NoUser)
               => IsEntitled(s, old) /\ IsExplained(s)
    PROVE  RightsAreKept'
<1> DEFINE old == tickets[req[r].ticket]
           set == Modified(old, PreSave(old, Assign(old, patch)))
           s   == Saving(req[r], set, push, action)
<1>1. IsTicket(old) /\ now \in Nat \ {0}
  BY RequestShape DEF IInv, TypeOK, IsWaiting
<1>2. IsEntitled(s, old) /\ IsExplained(s)
  BY <1>1, SentFields
<1>3. s.phase = "save" /\ s.ticket = req[r].ticket
  BY DEF Saving
<1>4. HasRights(s)
  BY <1>2, <1>3 DEF HasRights
<1>5. Become(r, s) /\ UNCHANGED tickets
  BY DEF Save
<1> QED
  BY <1>4, <1>5, RightsQuietStep

\* updateTicket, for a PUT of the ticket or of its assignment.
LEMMA RightsUpdate ==
    ASSUME IInv, RightsAreKept, NEW r \in Requests, UpdateTicket(r)
    PROVE  RightsAreKept'
<1> DEFINE q   == req[r]
           old == tickets[q.ticket]
<1>1. q.phase = "find" /\ q.op \in {"update", "assign"} /\ IsWaiting(q, Stored)
  BY RequestShape DEF UpdateTicket, IInv, TypeOK
<1>2. PICK body \in IF q.op = "assign" THEN {q.body} ELSE UpdateBodies :
         \/ Refuse(r)
         \/ /\ CanUserUpdateTicket(old, q.user, q.role, DOMAIN body)
            /\ Save(r, old, body, <<>>, UpdateAction(old, body))
  BY DEF UpdateTicket
<1>3. CASE Refuse(r)
  BY <1>3, RightsIdle DEF Refuse
<1>4. CASE /\ CanUserUpdateTicket(old, q.user, q.role, DOMAIN body)
           /\ Save(r, old, body, <<>>, UpdateAction(old, body))
  <2> DEFINE set == Modified(old, PreSave(old, Assign(old, body)))
             s   == Saving(q, set, <<>>, UpdateAction(old, body))
  <2>1. IsPatch(body)
    BY <1>1, <1>2, BodiesAssumption DEF IsWaiting, IsUpdateBody
  <2>2. /\ DOMAIN body \subseteq UpdateKeys \cup {"acceptanceStatus", "assignedAt"}
        /\ "acceptanceStatus" \in DOMAIN body => body.acceptanceStatus = "pending"
    <3>1. CASE q.op = "assign"
      BY <1>1, <1>2, <3>1 DEF RightsAreKept, IsAssigning, UpdateKeys
    <3>2. CASE q.op # "assign"
      BY <1>2, <3>2, BodiesAssumption DEF IsUpdateBody, UpdateKeys
    <3> QED
      BY <3>1, <3>2
  <2>3. ASSUME \A f \in DOMAIN set :
                 /\ set[f] # old[f]
                 /\ \/ f \in DOMAIN body /\ f \notin DateFields /\ set[f] = body[f]
                    \/ f \in DOMAIN body \cap DateFields
                    \/ /\ f \in {"resolvedAt", "closedAt"}
                       /\ "status" \in DOMAIN body /\ body.status \in {"resolved", "closed"}
                    \/ f = "assignedAt" /\ "assignedTo" \in DOMAIN body /\ body.assignedTo # NoUser
        PROVE  IsEntitled(s, old) /\ IsExplained(s)
    <3>1. /\ s.set = set /\ s.push = <<>> /\ s.action = UpdateAction(old, body)
          /\ s.role = q.role /\ s.user = q.user /\ s.op = q.op
      BY DEF Saving
    <3> HIDE DEF set, s
    <3>2. ASSUME NEW f \in DOMAIN set
          PROVE  MaySend(s, old, f)
      <4>1. CASE q.role \in Staff
        BY <2>2, <2>3, <3>1, <3>2, <4>1 DEF MaySend, UpdateKeys, DateFields
      <4>2. CASE q.role = "agent" /\ DOMAIN body \subseteq {"status"}
        BY <2>3, <3>1, <3>2, <4>2 DEF MaySend, DateFields
      <4>3. CASE q.role = "customer" /\ old.createdBy = q.user /\ DOMAIN body \subseteq {"priority"}
        BY <2>3, <3>1, <3>2, <4>3 DEF MaySend, DateFields
      <4> QED
        BY <1>4, <4>1, <4>2, <4>3 DEF CanUserUpdateTicket
    <3>3. /\ "isDeleted" \notin DOMAIN set
          /\ "acceptanceStatus" \in DOMAIN set => set.acceptanceStatus = "pending"
      BY <2>2, <2>3 DEF UpdateKeys, DateFields
    <3>4. "status" \in DOMAIN set => UpdateAction(old, body) = "status_changed"
      BY <2>3 DEF UpdateAction, DateFields
    <3>5. "assignedTo" \in DOMAIN set /\ set.assignedTo # NoUser =>
             UpdateAction(old, body) \in {"assigned", "status_changed", "priority_changed"}
      BY <2>3 DEF UpdateAction, DateFields
    <3> QED
      BY <3>1, <3>2, <3>3, <3>4, <3>5, NoUserAssumption DEF IsEntitled, IsExplained
  <2> QED
    BY <1>1, <1>4, <2>1, <2>3, RightsSave
<1> QED
  BY <1>2, <1>3, <1>4

\* acceptTicket, rejectTicket and deleteTicket.
LEMMA RightsDecide ==
    ASSUME IInv, RightsAreKept, NEW r \in Requests, AcceptTicket(r) \/ RejectTicket(r)
    PROVE  RightsAreKept'
<1> DEFINE q   == req[r]
           old == tickets[q.ticket]
<1>1. q.phase = "find" /\ IsWaiting(q, Stored)
  BY RequestShape DEF AcceptTicket, RejectTicket, IInv, TypeOK
<1>2. CASE Refuse(r)
  BY <1>2, RightsIdle DEF Refuse
<1>3. CASE q.op = "accept" /\ Save(r, old, Acceptance, <<>>, "accepted")
  <2> DEFINE set == Modified(old, PreSave(old, Assign(old, Acceptance)))
             s   == Saving(q, set, <<>>, "accepted")
  <2>1. IsPatch(Acceptance)
    BY FieldTypes DEF IsPatch, Acceptance, Acceptances, Statuses, IInv, TypeOK
  <2>2. /\ DOMAIN Acceptance = {"acceptanceStatus", "acceptedAt", "status"}
        /\ Acceptance.status = "in_progress" /\ Acceptance.acceptanceStatus = "accepted"
    BY DEF Acceptance
  <2>3. s.set = set /\ s.push = <<>> /\ s.action = "accepted" /\ s.op = "accept"
    BY <1>3 DEF Saving
  <2>4. ASSUME \A f \in DOMAIN set :
                 \/ f \in DOMAIN Acceptance
                 \/ /\ f \in {"resolvedAt", "closedAt"}
                    /\ "status" \in DOMAIN Acceptance /\ Acceptance.status \in {"resolved", "closed"}
                 \/ f = "assignedAt" /\ "assignedTo" \in DOMAIN Acceptance
        PROVE  IsEntitled(s, old) /\ IsExplained(s)
    <3> HIDE DEF set, s
    <3>1. DOMAIN set \subseteq {"acceptanceStatus", "acceptedAt", "status"}
      BY <2>2, <2>4
    <3>2. IsEntitled(s, old)
      BY <2>3, <3>1 DEF IsEntitled, MaySend
    <3>3. IsExplained(s)
      BY <2>3, <3>1 DEF IsExplained
    <3> QED
      BY <3>2, <3>3
  <2> QED
    BY <1>1, <1>3, <2>1, <2>4, RightsSave
<1>4. CASE q.op = "reject" /\ Save(r, old, Rejection, <<q.user>>, "rejected")
  <2> DEFINE set == Modified(old, PreSave(old, Assign(old, Rejection)))
             s   == Saving(q, set, <<q.user>>, "rejected")
  <2>1. IsPatch(Rejection)
    BY FieldTypes DEF IsPatch, Rejection, Acceptances, Statuses
  <2>2. /\ DOMAIN Rejection = {"acceptanceStatus", "assignedTo", "status"}
        /\ Rejection.status = "open" /\ Rejection.acceptanceStatus = "rejected"
        /\ Rejection.assignedTo = NoUser
    BY DEF Rejection
  <2>3. s.set = set /\ s.action = "rejected" /\ s.op = "reject"
    BY <1>4 DEF Saving
  <2>4. ASSUME \A f \in DOMAIN set :
                 \/ f \in DOMAIN Rejection /\ f \notin DateFields /\ set[f] = Rejection[f]
                 \/ f \in DOMAIN Rejection \cap DateFields
                 \/ /\ f \in {"resolvedAt", "closedAt"}
                    /\ "status" \in DOMAIN Rejection /\ Rejection.status \in {"resolved", "closed"}
                 \/ f = "assignedAt" /\ "assignedTo" \in DOMAIN Rejection
                    /\ Rejection.assignedTo # NoUser
        PROVE  IsEntitled(s, old) /\ IsExplained(s)
    <3> HIDE DEF set, s
    <3>1. /\ DOMAIN set \subseteq {"acceptanceStatus", "assignedTo", "status"}
          /\ \A f \in DOMAIN set : set[f] = Rejection[f]
      BY <2>2, <2>4 DEF DateFields
    <3>2. IsEntitled(s, old)
      BY <2>2, <2>3, <3>1 DEF IsEntitled, MaySend
    <3>3. IsExplained(s)
      BY <2>2, <2>3, <3>1, NoUserAssumption DEF IsExplained
    <3> QED
      BY <3>2, <3>3
  <2> QED
    BY <1>1, <1>4, <2>1, <2>4, RightsSave
<1> QED
  BY <1>2, <1>3, <1>4 DEF AcceptTicket, RejectTicket

LEMMA RightsDelete ==
    ASSUME IInv, RightsAreKept, NEW r \in Requests, DeleteTicket(r)
    PROVE  RightsAreKept'
<1> DEFINE q   == req[r]
           old == tickets[q.ticket]
           set == Modified(old, PreSave(old, Assign(old, Deletion)))
           s   == Saving(q, set, <<>>, "deleted")
<1>1. q.phase = "find" /\ IsWaiting(q, Stored)
  BY RequestShape DEF DeleteTicket, IInv, TypeOK
<1>2. CASE Refuse(r)
  BY <1>2, RightsIdle DEF Refuse
<1>3. CASE CanUserDeleteTicket(old, q.user, q.role) /\ Save(r, old, Deletion, <<>>, "deleted")
  <2>1. DOMAIN Deletion = {"isDeleted"} /\ Deletion.isDeleted = TRUE
    BY DEF Deletion
  <2>2. Deletion.isDeleted \in FieldType.isDeleted
    BY <2>1, FieldTypes
  <2>3. IsPatch(Deletion)
    BY <2>1, <2>2, FieldTypes DEF IsPatch
  <2>4. /\ s.set = set /\ s.push = <<>> /\ s.action = "deleted"
        /\ s.role = q.role /\ s.user = q.user
    BY DEF Saving
  <2>5. ASSUME \A f \in DOMAIN set :
                 \/ f \in DOMAIN Deletion
                 \/ /\ f \in {"resolvedAt", "closedAt"} /\ "status" \in DOMAIN Deletion
                 \/ f = "assignedAt" /\ "assignedTo" \in DOMAIN Deletion
        PROVE  IsEntitled(s, old) /\ IsExplained(s)
    <3> HIDE DEF set, s
    <3>1. DOMAIN set \subseteq {"isDeleted"}
      BY <2>1, <2>5
    <3>2. IsEntitled(s, old)
      BY <1>3, <2>4, <3>1 DEF IsEntitled, MaySend, CanUserDeleteTicket
    <3>3. IsExplained(s)
      BY <2>4, <3>1 DEF IsExplained
    <3> QED
      BY <3>2, <3>3
  <2> QED
    BY <1>1, <1>3, <2>3, <2>5, RightsSave
<1> QED
  BY <1>2, <1>3 DEF DeleteTicket

\* The routes: assignTicket is authorized for staff only.
LEMMA RightsReceive ==
    ASSUME IInv, RightsAreKept, NEW r \in Requests, NEW phase, NEW op, NEW t,
           Receive(r, phase, op, t), phase # "save", phase = "find" => op # "assign"
    PROVE  RightsAreKept'
<1>1. PICK u \in Users : /\ Authorized(accounts[u].role, op)
                         /\ Become(r, Waiting(phase, op, u, accounts[u].role, t, NoBody))
  BY DEF Receive
<1>2. accounts[u].role \in Roles
  BY DEF IInv, TypeOK, Accounts
<1>3. op = "assign" => accounts[u].role \in Staff
  BY <1>1, <1>2 DEF Authorized, RolePermissions, Roles, Staff
<1>4. HasRights(Waiting(phase, op, u, accounts[u].role, t, NoBody))
  BY <1>3 DEF HasRights, IsAssigning, Waiting
<1> QED
  BY <1>1, <1>4, RightsQuietStep DEF Receive

\* A save reaches the database: the others are entitled to theirs as before,
\* for no save changes the creator of a ticket.
LEMMA RightsWrite ==
    ASSUME IInv, RightsAreKept, NEW r \in Requests, NEW q, Become(r, q),
           q.phase \notin {"agent", "find", "save"},
           \A t \in Stored : Keeps(tickets'[t], tickets[t])
    PROVE  RightsAreKept'
<1>1. req'[r] = q /\ \A x \in Requests \ {r} : req'[x] = req[x]
  BY DEF IInv, TypeOK, Become
<1>2. ASSUME NEW x \in Requests, req'[x].phase = "save"
      PROVE  IsEntitled(req'[x], tickets'[req'[x].ticket]) /\ IsExplained(req'[x])
  <2>1. req'[x] = req[x] /\ req[x].phase = "save"
    BY <1>1, <1>2
  <2>2. req[x].ticket \in Stored
    BY <2>1, RequestShape DEF IInv, TypeOK, IsSaving
  <2>3. IsEntitled(req[x], tickets[req[x].ticket]) /\ IsExplained(req[x])
    BY <2>1 DEF RightsAreKept
  <2> QED
    BY <2>1, <2>2, <2>3 DEF IsEntitled, MaySend, Keeps
<1> QED
  BY <1>1, <1>2 DEF RightsAreKept

\* No step breaks the rights.
LEMMA NextRights ==
    ASSUME IInv, RightsAreKept, [Next]_vars
    PROVE  RightsAreKept'
<1>1. ASSUME NEW r \in Requests, Arrive(r)
      PROVE  RightsAreKept'
  BY <1>1, RightsReceive
     DEF Arrive, ReceiveCreate, ReceiveUpdate, ReceiveAssign, ReceiveAccept, ReceiveReject,
         ReceiveDelete
<1>2. \A t \in Stored : t \in Stored' /\ Keeps(tickets'[t], tickets[t])
  BY NextIInv
<1>3. ASSUME NEW r \in Requests, CreateTicket(r) \/ SaveTicket(r)
      PROVE  RightsAreKept'
  BY <1>2, <1>3, RightsWrite DEF CreateTicket, SaveTicket, Auditing
<1>4. ASSUME NEW r \in Requests, Become(r, Idle), UNCHANGED tickets
      PROVE  RightsAreKept'
  BY <1>4, RightsIdle
<1>5. ASSUME NEW r \in Requests, GetTicketById(r)
      PROVE  RightsAreKept'
  <2> DEFINE next == Waiting("find", "update", req[r].user, req[r].role, req[r].ticket, NoBody)
  <2>1. HasRights(next)
    BY DEF HasRights, Waiting
  <2>2. CASE Become(r, next) /\ UNCHANGED tickets
    BY <2>1, <2>2, RightsQuietStep
  <2> QED
    BY <1>4, <1>5, <2>2 DEF GetTicketById, Refuse
<1>6. ASSUME NEW r \in Requests, AssignTicket(r)
      PROVE  RightsAreKept'
  <2> DEFINE next(a) == Waiting("find", "assign", req[r].user, req[r].role, req[r].ticket,
                                Assignment(a))
  <2>1. req[r].phase = "agent" /\ req[r].op = "assign"
    BY <1>6, RequestShape DEF AssignTicket, IInv, TypeOK, IsWaiting
  <2>2. req[r].role \in Staff
    BY <2>1 DEF RightsAreKept, IsAssigning
  <2>3. ASSUME NEW a \in Users
        PROVE  HasRights(next(a))
    BY <2>2 DEF HasRights, IsAssigning, Waiting, Assignment
  <2>4. ASSUME NEW a \in Users, Become(r, next(a)), UNCHANGED tickets
        PROVE  RightsAreKept'
    BY <2>3, <2>4, RightsQuietStep
  <2> QED
    BY <1>4, <1>6, <2>4 DEF AssignTicket, Refuse
<1>7. ASSUME NEW r \in Requests, Audit(r) \/ AuditFails(r) \/ RequestFails(r)
      PROVE  RightsAreKept'
  BY <1>4, <1>7 DEF Audit, AuditFails, RequestFails
<1>8. CASE ChangeAccount \/ Tick \/ UNCHANGED vars
  <2>1. UNCHANGED <<tickets, req>>
    BY <1>8 DEF ChangeAccount, Tick, vars
  <2> QED
    BY <2>1 DEF RightsAreKept
<1> QED
  BY <1>1, <1>3, <1>5, <1>6, <1>7, <1>8, RightsUpdate, RightsDecide, RightsDelete
     DEF Next, Handle

LEMMA InitRights == Init => RightsAreKept
  BY DEF Init, RightsAreKept, Idle

\* What the database applies changes nothing that the request may not change.
LEMMA WriteRights ==
    ASSUME IInv, RightsAreKept, NEW r \in Requests, SaveTicket(r),
           NEW t \in Stored, tickets'[t] # tickets[t]
    PROVE  /\ Saves(r) /\ req[r].ticket = t
           /\ \A f \in Fields : tickets'[t][f] # tickets[t][f] => MayChange(req[r], t, f)
<1> DEFINE q == req[r]
           d == tickets[t]
           e == Written(d, q.set, q.push)
<1>1. q.phase = "save" /\ IsSaving(q, Stored)
  BY RequestShape DEF SaveTicket, IInv, TypeOK
<1>2. q.ticket = t /\ tickets'[t] = e
  BY DEF SaveTicket, Stored
<1>3. req'[r].phase = "audit"
  BY DEF SaveTicket, Become, Auditing, IInv, TypeOK
<1>4. IsTicket(d)
  BY DEF IInv, TypeOK
<1>5. /\ \A f \in Fields \ {"rejectionHistory"} :
            e[f] = IF f \in DOMAIN q.set THEN q.set[f] ELSE d[f]
      /\ e.rejectionHistory = d.rejectionHistory \o q.push
  BY <1>1, FieldTypes DEF Written, Assign, IsSaving
<1>6. IsEntitled(q, d) /\ "rejectionHistory" \notin DOMAIN q.set
  BY <1>1, <1>2 DEF RightsAreKept, IsSaving
<1> HIDE DEF e
<1>7. ASSUME NEW f \in Fields, e[f] # d[f]
      PROVE  MayChange(q, t, f)
  <2>1. CASE f = "rejectionHistory"
    <3>1. d.rejectionHistory \in Seq(Users)
      BY <1>4, TicketFields
    <3>2. \A h \in Seq(Users) : h \o <<>> = h
      OBVIOUS
    <3>3. q.push # <<>>
      BY <1>5, <1>7, <2>1, <3>1, <3>2
    <3> QED
      BY <1>6, <2>1, <3>3 DEF IsEntitled, MayChange
  <2>2. CASE f # "rejectionHistory"
    <3>1. f \in DOMAIN q.set /\ e[f] = q.set[f]
      BY <1>5, <1>7, <2>2
    <3>2. MaySend(q, d, f)
      BY <1>6, <3>1 DEF IsEntitled
    <3> QED
      BY <1>2, <2>2, <3>1, <3>2 DEF MaySend, MayChange
  <2> QED
    BY <2>1, <2>2
<1> QED
  BY <1>1, <1>2, <1>3, <1>7 DEF Saves

\* No step changes a field of a ticket but the save of a request that may.
LEMMA StepRights ==
    ASSUME IInv, RightsAreKept, [Next]_vars, NEW t \in Stored, tickets'[t] # tickets[t]
    PROVE  \E r \in Requests :
              /\ Saves(r) /\ req[r].ticket = t
              /\ \A f \in Fields : tickets'[t][f] # tickets[t][f] => MayChange(req[r], t, f)
<1>1. ASSUME NEW r \in Requests, CreateTicket(r)
      PROVE  tickets'[t] = tickets[t]
  BY <1>1 DEF CreateTicket, IInv, InFlightIsSound
<1>2. \E r \in Requests : SaveTicket(r)
  BY <1>1 DEF Next, vars, Arrive, Receive, ReceiveCreate, ReceiveUpdate, ReceiveAssign,
              ReceiveAccept, ReceiveReject, ReceiveDelete, Handle, GetTicketById, AssignTicket,
              UpdateTicket, AcceptTicket, RejectTicket, DeleteTicket, Save, Refuse, Audit,
              AuditFails, RequestFails, ChangeAccount, Tick
<1> QED
  BY <1>2, WriteRights

\* However the requests interleave and accounts are edited meanwhile, no field
\* of a ticket changes but by the save of a request whose role, or whose part in
\* the ticket, lets it.
THEOREM RolesRespected == Spec => RoleBoundaries
<1> DEFINE Allowed == \A t \in Stored :
                         tickets'[t] # tickets[t] =>
                            \E r \in Requests :
                               /\ Saves(r) /\ req[r].ticket = t
                               /\ \A f \in Fields : tickets'[t][f] # tickets[t][f] =>
                                                       MayChange(req[r], t, f)
<1>1. Init => IInv /\ RightsAreKept
  BY InitIInv, InitRights
<1>2. IInv /\ RightsAreKept /\ [Next]_vars => IInv' /\ RightsAreKept'
  BY NextIInv, NextRights
<1>3. IInv /\ RightsAreKept /\ [Next]_vars => [Allowed]_vars
  BY StepRights
<1> QED
  BY <1>1, <1>2, <1>3, PTL DEF Spec, RoleBoundaries

-----------------------------------------------------------------------------
(* The audit trail.                                                        *)

\* The entries on ticket t that are written or about to be.
Trail(t) ==
    audit[t] \cup {req[r].action : r \in
                      {x \in Requests : req[x].phase = "audit" /\ req[x].ticket = t}}

\* The entries of a trail account for document d (compare AuditTrailAccounts).
Explains(S, trail) == (S \cap AuditedActions) # S \/ (S \cap trail) # {}

AccountsFor(d, trail) ==
    /\ Explains({"created"}, trail)
    /\ d.isDeleted => Explains({"deleted"}, trail)
    /\ d.acceptanceStatus = "accepted" => Explains({"accepted"}, trail)
    /\ d.rejectionHistory # <<>> => Explains({"rejected"}, trail)
    /\ d.status # "open" => Explains({"accepted", "status_changed"}, trail)
    /\ d.assignedTo # NoUser =>
           Explains({"assigned", "status_changed", "priority_changed"}, trail)

LEMMA TrailAccounts ==
    AuditTrailAccounts <=> \A t \in Stored \ auditLost : AccountsFor(tickets[t], Trail(t))
  BY DEF AuditTrailAccounts, AccountsFor, Explains, Trail

\* A longer trail accounts for what a shorter one did; entries that are not in
\* view do not count.
LEMMA AccountsGrows ==
    ASSUME NEW d, NEW trail, NEW more, AccountsFor(d, trail),
           trail \cap AuditedActions \subseteq more
    PROVE  AccountsFor(d, more)
<1>1. \A S : Explains(S, trail) => Explains(S, more)
  BY DEF Explains
<1> QED
  BY <1>1 DEF AccountsFor

\* With the entry a save leaves behind, the trail accounts for what it wrote.
LEMMA AccountsWritten ==
    ASSUME NEW d, IsTicket(d), NEW q, IsPatch(q.set), "rejectionHistory" \notin DOMAIN q.set,
           q.push \in Seq(Users), IsExplained(q),
           NEW trail, AccountsFor(d, trail), q.action \in trail
    PROVE  AccountsFor(Written(d, q.set, q.push), trail)
<1> DEFINE e == Written(d, q.set, q.push)
<1>1. /\ \A f \in Fields \ {"rejectionHistory"} :
            e[f] = IF f \in DOMAIN q.set THEN q.set[f] ELSE d[f]
      /\ e.rejectionHistory = d.rejectionHistory \o q.push
  BY FieldTypes DEF Written, Assign
<1>2. IsTicket(e)
  BY WrittenType
<1> HIDE DEF e
<1>3. /\ e.status \in Statuses /\ e.assignedTo \in Users \cup {NoUser}
      /\ d.rejectionHistory \in Seq(Users)
  BY <1>2, TicketFields
<1>4. e.rejectionHistory # <<>> => d.rejectionHistory # <<>> \/ q.push # <<>>
  BY <1>1
<1>5. \A S : S \cap {q.action} # {} => Explains(S, trail)
  BY DEF Explains
<1>6. e.isDeleted => Explains({"deleted"}, trail)
  BY <1>1, <1>5, FieldTypes DEF AccountsFor, IsExplained
<1>7. e.acceptanceStatus = "accepted" => Explains({"accepted"}, trail)
  BY <1>1, <1>5, FieldTypes DEF AccountsFor, IsExplained
<1>8. e.rejectionHistory # <<>> => Explains({"rejected"}, trail)
  BY <1>4, <1>5 DEF AccountsFor, IsExplained
<1>9. e.status # "open" => Explains({"accepted", "status_changed"}, trail)
  BY <1>1, <1>3, <1>5, FieldTypes DEF AccountsFor, IsExplained
<1>10. e.assignedTo # NoUser =>
          Explains({"assigned", "status_changed", "priority_changed"}, trail)
  BY <1>1, <1>3, <1>5, FieldTypes DEF AccountsFor, IsExplained
<1> QED
  BY <1>6, <1>7, <1>8, <1>9, <1>10 DEF AccountsFor, e

\* A request that is not at its audit entry moves on: no entry disappears, and
\* the one it arrives at is added.
LEMMA TrailGrows ==
    ASSUME TypeOK, NEW r \in Requests, NEW q, Become(r, q), req[r].phase # "audit",
           Unaudited, NEW t
    PROVE  /\ Trail(t) \subseteq Trail(t)'
           /\ q.phase = "audit" /\ q.ticket = t => q.action \in Trail(t)'
<1>1. req'[r] = q /\ \A x \in Requests \ {r} : req'[x] = req[x]
  BY DEF TypeOK, Become
<1>2. audit'[t] = audit[t]
  BY DEF Unaudited
<1> QED
  BY <1>1, <1>2 DEF Trail

\* Steps that change no ticket and write no entry.
LEMMA TrailQuietStep ==
    ASSUME TypeOK, AuditTrailAccounts, NEW r \in Requests, NEW q, Become(r, q),
           req[r].phase # "audit", UNCHANGED tickets, Unaudited
    PROVE  AuditTrailAccounts'
<1>1. ASSUME NEW t \in Stored \ auditLost
      PROVE  AccountsFor(tickets[t], Trail(t)')
  BY TrailGrows, TrailAccounts, AccountsGrows
<1>2. Stored' = Stored /\ auditLost' = auditLost /\ tickets' = tickets
  BY DEF Stored, Unaudited
<1> QED
  BY <1>1, <1>2 DEF AuditTrailAccounts, AccountsFor, Explains, Trail

\* The entry is written, or lost.
LEMMA TrailAudit ==
    ASSUME TypeOK, AuditTrailAccounts, NEW r \in Requests, Audit(r) \/ AuditFails(r)
    PROVE  AuditTrailAccounts'
<1> DEFINE q == req[r]
<1>1. /\ q.phase = "audit" /\ q.ticket \in TicketIds
      /\ req'[r] = Idle /\ \A x \in Requests \ {r} : req'[x] = req[x]
      /\ UNCHANGED tickets
  BY RequestShape DEF TypeOK, IsAuditing, Become, Audit, AuditFails
<1>2. ASSUME NEW t \in Stored \ auditLost'
      PROVE  t \in Stored \ auditLost /\ Trail(t) \cap AuditedActions \subseteq Trail(t)'
  <2>1. t \in TicketIds /\ t \in Stored \ auditLost
    BY <1>2 DEF Audit, AuditFails, TypeOK
  <2>2. audit[t] \subseteq audit'[t]
    BY <2>1 DEF Audit, AuditFails, TypeOK
  <2>3. q.ticket = t => q.action \in audit'[t] \/ q.action \notin AuditedActions
    BY <1>1, <1>2, <2>1 DEF Audit, AuditFails, TypeOK
  <2> QED
    BY <1>1, <2>1, <2>2, <2>3 DEF Trail
<1>3. ASSUME NEW t \in Stored \ auditLost'
      PROVE  AccountsFor(tickets[t], Trail(t)')
  BY <1>2, <1>3, TrailAccounts, AccountsGrows
<1>4. Stored' = Stored /\ tickets' = tickets
  BY <1>1 DEF Stored
<1> QED
  BY <1>3, <1>4 DEF AuditTrailAccounts, AccountsFor, Explains, Trail

\* The database applies a save: its entry is on the way.
LEMMA TrailWrite ==
    ASSUME IInv, RightsAreKept, AuditTrailAccounts, NEW r \in Requests, SaveTicket(r)
    PROVE  AuditTrailAccounts'
<1> DEFINE q == req[r]
           a == Auditing(q.ticket, q.action)
<1>1. q.phase = "save" /\ IsSaving(q, Stored) /\ IsExplained(q)
  BY RequestShape DEF SaveTicket, IInv, TypeOK, RightsAreKept
<1>2. /\ Become(r, a) /\ Unaudited
      /\ a.phase = "audit" /\ a.ticket = q.ticket /\ a.action = q.action
  BY DEF SaveTicket, Auditing
<1>3. /\ Stored' = Stored /\ auditLost' = auditLost
      /\ tickets'[q.ticket] = Written(tickets[q.ticket], q.set, q.push)
      /\ \A t \in Stored : t # q.ticket => tickets'[t] = tickets[t]
  BY <1>1 DEF SaveTicket, Stored, IsSaving, Unaudited
<1>4. ASSUME NEW t \in Stored \ auditLost
      PROVE  AccountsFor(tickets'[t], Trail(t)')
  <2>1. /\ Trail(t) \subseteq Trail(t)'
        /\ q.ticket = t => q.action \in Trail(t)'
    BY <1>1, <1>2, TrailGrows DEF IInv
  <2>2. AccountsFor(tickets[t], Trail(t)')
    BY <2>1, TrailAccounts, AccountsGrows
  <2>3. CASE t = q.ticket
    BY <1>1, <1>3, <2>1, <2>2, <2>3, AccountsWritten DEF IInv, TypeOK, IsSaving
  <2> QED
    BY <1>3, <2>2, <2>3
<1> QED
  BY <1>3, <1>4 DEF AuditTrailAccounts, AccountsFor, Explains, Trail

\* So is that of a ticket just created.
LEMMA TrailCreate ==
    ASSUME IInv, AuditTrailAccounts, NEW r \in Requests, CreateTicket(r)
    PROVE  AuditTrailAccounts'
<1> DEFINE q == req[r]
           a == Auditing(q.ticket, "created")
<1>1. q.phase = "insert"
  BY DEF CreateTicket
<1>2. /\ Become(r, a) /\ Unaudited
      /\ a.phase = "audit" /\ a.ticket = q.ticket /\ a.action = "created"
  BY DEF CreateTicket, Auditing
<1>3. PICK p \in Priorities, c \in Categories :
         tickets' = [t \in Stored \cup {q.ticket} |->
                       IF t = q.ticket THEN NewTicket(q.user, p, c) ELSE tickets[t]]
  BY DEF CreateTicket
<1>4. Stored' = Stored \cup {q.ticket} /\ auditLost' = auditLost
  BY <1>2, <1>3 DEF Stored, Unaudited
<1>5. ASSUME NEW t \in Stored' \ auditLost
      PROVE  AccountsFor(tickets'[t], Trail(t)')
  <2>1. /\ Trail(t) \subseteq Trail(t)'
        /\ q.ticket = t => "created" \in Trail(t)'
    BY <1>1, <1>2, TrailGrows DEF IInv
  <2>2. CASE t = q.ticket
    <3>1. tickets'[t] = NewTicket(q.user, p, c)
      BY <1>3, <2>2
    <3> QED
      BY <2>1, <2>2, <3>1 DEF AccountsFor, Explains, NewTicket
  <2>3. CASE t # q.ticket
    <3>1. t \in Stored \ auditLost /\ tickets'[t] = tickets[t]
      BY <1>3, <1>4, <2>3
    <3> QED
      BY <2>1, <3>1, TrailAccounts, AccountsGrows
  <2> QED
    BY <2>2, <2>3
<1> QED
  BY <1>4, <1>5 DEF AuditTrailAccounts, AccountsFor, Explains, Trail

LEMMA NextTrail ==
    ASSUME IInv, RightsAreKept, AuditTrailAccounts, [Next]_vars
    PROVE  AuditTrailAccounts'
<1>1. ASSUME NEW r \in Requests, NEW q, Become(r, q), req[r].phase # "audit",
             UNCHANGED tickets, Unaudited
      PROVE  AuditTrailAccounts'
  BY <1>1, TrailQuietStep DEF IInv
<1>2. ASSUME NEW r \in Requests, Arrive(r)
      PROVE  AuditTrailAccounts'
  <2>1. PICK phase, op, t : Receive(r, phase, op, t)
    BY <1>2 DEF Arrive, ReceiveCreate, ReceiveUpdate, ReceiveAssign, ReceiveAccept,
                ReceiveReject, ReceiveDelete
  <2> QED
    BY <1>1, <2>1 DEF Receive, Idle
<1>3. ASSUME NEW r \in Requests,
             \/ GetTicketById(r) \/ AssignTicket(r) \/ UpdateTicket(r) \/ AcceptTicket(r)
             \/ RejectTicket(r) \/ DeleteTicket(r)
      PROVE  AuditTrailAccounts'
  <2>1. req[r].phase # "audit" /\ UNCHANGED tickets /\ Unaudited
    BY <1>3 DEF GetTicketById, AssignTicket, UpdateTicket, AcceptTicket, RejectTicket,
                DeleteTicket, Save, Refuse
  <2>2. \E q : Become(r, q)
    BY <1>3 DEF GetTicketById, AssignTicket, UpdateTicket, AcceptTicket, RejectTicket,
                DeleteTicket, Save, Refuse
  <2> QED
    BY <1>1, <2>1, <2>2
<1>4. ASSUME NEW r \in Requests, RequestFails(r)
      PROVE  AuditTrailAccounts'
  BY <1>1, <1>4 DEF RequestFails
<1>5. CASE ChangeAccount \/ Tick \/ UNCHANGED vars
  <2>1. UNCHANGED <<tickets, req, audit, auditLost>>
    BY <1>5 DEF ChangeAccount, Tick, vars, Unaudited
  <2> QED
    BY <2>1 DEF AuditTrailAccounts, Stored
<1> QED
  BY <1>2, <1>3, <1>4, <1>5, TrailAudit, TrailWrite, TrailCreate DEF IInv, Next, Handle

LEMMA InitTrail == Init => AuditTrailAccounts
  BY DEF Init, AuditTrailAccounts, Stored

\* Unless an entry was lost, the audit log accounts for the state of every
\* ticket, however many requests wrote it from whatever copies.
THEOREM AuditTrailComplete == Spec => []AuditTrailAccounts
<1>1. Init => IInv /\ RightsAreKept /\ AuditTrailAccounts
  BY InitIInv, InitRights, InitTrail
<1>2. IInv /\ RightsAreKept /\ AuditTrailAccounts /\ [Next]_vars
         => IInv' /\ RightsAreKept' /\ AuditTrailAccounts'
  BY NextIInv, NextRights, NextTrail
<1> QED
  BY <1>1, <1>2, PTL DEF Spec

-----------------------------------------------------------------------------
(***************************************************************************)
(* What a handler checked still holds when its save is applied, as long as *)
(* no two saves of one ticket are under way at the same time.  Requests    *)
(* may overlap otherwise: the reads ahead of a handler, the audit entries  *)
(* and the requests for other tickets are free.                            *)
(***************************************************************************)

-----------------------------------------------------------------------------
(* The inductive invariant.                                                *)

\* The hypothesis of the theorems below.  With one slot for requests it
\* always holds.
NoSaveRace ==
    \A a, b \in Requests :
        req[a].phase = "save" /\ req[b].phase = "save" /\ req[a].ticket = req[b].ticket
            => a = b

LEMMA OneSlot == (\A a, b \in Requests : a = b) => NoSaveRace
  BY DEF NoSaveRace

\* The fields a ticket's users go by.
LifeOf(d) ==
    [status           |-> d.status,
     assignedTo       |-> d.assignedTo,
     acceptanceStatus |-> d.acceptanceStatus,
     isDeleted        |-> d.isDeleted]

\* Operation op takes a live document d to e, as TicketLifecycle has it.
Transition(op, d, e) ==
    \/ /\ op = "update"
       /\ e.acceptanceStatus = d.acceptanceStatus /\ e.isDeleted = d.isDeleted
    \/ /\ op = "assign"
       /\ e.assignedTo \in Users /\ e.acceptanceStatus = "pending"
       /\ e.status = d.status /\ e.isDeleted = d.isDeleted
    \/ /\ op = "accept" /\ d.assignedTo # NoUser /\ d.acceptanceStatus # "accepted"
       /\ e.acceptanceStatus = "accepted" /\ e.status = "in_progress"
       /\ e.assignedTo = d.assignedTo /\ e.isDeleted = d.isDeleted
    \/ /\ op = "reject" /\ d.assignedTo # NoUser /\ d.acceptanceStatus # "accepted"
       /\ e.acceptanceStatus = "rejected" /\ e.status = "open"
       /\ e.assignedTo = NoUser /\ e.isDeleted = d.isDeleted
    \/ /\ op = "delete" /\ e.isDeleted = TRUE
       /\ e.status = d.status /\ e.assignedTo = d.assignedTo
       /\ e.acceptanceStatus = d.acceptanceStatus

\* What the handler of save q found on the ticket, and what it is about to make
\* of it, with d the document the database holds.
IsCurrentSave(q, d) ==
    LET e == Written(d, q.set, q.push) IN
    /\ ~d.isDeleted
    /\ q.op = "delete" /\ q.role # "admin" => d.status = "open"
    /\ q.op \in {"accept", "reject"} =>
           d.assignedTo = q.user /\ d.acceptanceStatus # "accepted"
    /\ \A at \in {"resolvedAt", "closedAt"} : d[at] # Never => e[at] = d[at]
    /\ Transition(q.op, d, e)

\* Every copy a save was prepared on is the stored document still.
CopiesAreCurrent ==
    \A r \in Requests :
        req[r].phase = "save" => IsCurrentSave(req[r], tickets[req[r].ticket])

-----------------------------------------------------------------------------
(* A handler calls save().                                                 *)

\* Applied to the document it was prepared on, a save makes what the handler
\* prepared: the patch, with dates set only where there were none.
LEMMA PreparedWritten ==
    ASSUME NEW d, IsTicket(d), NEW p, IsPatch(p), NEW push \in Seq(Users),
           now \in Nat \ {0},
           DOMAIN p \cap {"resolvedAt", "closedAt", "rejectionHistory"} = {}
    PROVE  LET e == Written(d, Modified(d, PreSave(d, Assign(d, p))), push) IN
           /\ \A f \in Fields \ (DateFields \cup {"rejectionHistory"}) :
                  e[f] = IF f \in DOMAIN p THEN p[f] ELSE d[f]
           /\ \A at \in {"resolvedAt", "closedAt"} : d[at] # Never => e[at] = d[at]
<1> DEFINE mid == Assign(d, p)
           new == PreSave(d, mid)
           set == Modified(d, new)
           e   == Written(d, set, push)
<1>1. IsTicket(mid) /\ IsTicket(new)
  BY AssignType, PreSaveType
<1>2. \A f \in Fields : mid[f] = IF f \in DOMAIN p THEN p[f] ELSE d[f]
  BY DEF Assign
<1>3. \A f \in Fields \ {"resolvedAt", "closedAt", "assignedAt"} : new[f] = mid[f]
  BY <1>1, PreSaveType
<1>4. \A at \in {"resolvedAt", "closedAt"} : mid[at] # Never => new[at] = mid[at]
  BY FieldTypes DEF PreSave, Assign
<1>5. DOMAIN set = {f \in Fields : new[f] # d[f]} /\ \A f \in DOMAIN set : set[f] = new[f]
  BY DEF Modified
<1>6. \A f \in Fields \ {"rejectionHistory"} :
         e[f] = IF f \in DOMAIN set THEN set[f] ELSE d[f]
  BY FieldTypes DEF Written, Assign
<1> HIDE DEF mid, new, set, e
<1>7. \A f \in Fields \ {"rejectionHistory"} : e[f] = new[f]
  BY <1>5, <1>6
<1>8. \A f \in Fields \ (DateFields \cup {"rejectionHistory"}) :
         e[f] = IF f \in DOMAIN p THEN p[f] ELSE d[f]
  BY <1>2, <1>3, <1>7 DEF DateFields
<1>9. \A at \in {"resolvedAt", "closedAt"} : d[at] # Never => e[at] = d[at]
  BY <1>2, <1>4, <1>7, FieldTypes
<1> QED
  BY <1>8, <1>9 DEF e, set, new, mid

\* A step that moves one request on, to a save made from the stored document
\* or to none.
LEMMA CurrentQuietStep ==
    ASSUME IInv, CopiesAreCurrent, NEW r \in Requests, NEW q, Become(r, q),
           q.phase = "save" => IsCurrentSave(q, tickets[q.ticket]), UNCHANGED tickets
    PROVE  CopiesAreCurrent'
<1>1. req'[r] = q /\ \A x \in Requests \ {r} : req'[x] = req[x]
  BY DEF IInv, TypeOK, Become
<1> QED
  BY <1>1 DEF CopiesAreCurrent

\* A handler that found the ticket alive and may do what it is about to do.
LEMMA CurrentSave ==
    ASSUME IInv, CopiesAreCurrent, NEW r \in Requests, req[r].phase = "find",
           NEW patch, IsPatch(patch),
           DOMAIN patch \cap {"resolvedAt", "closedAt", "rejectionHistory"} = {},
           NEW push \in Seq(Users), NEW action,
           Found(req[r].ticket), Save(r, tickets[req[r].ticket], patch, push, action),
           LET q == req[r]
               d == tickets[q.ticket]
           IN  /\ q.op = "delete" /\ q.role # "admin" => d.status = "open"
               /\ q.op \in {"accept", "reject"} =>
                      d.assignedTo = q.user /\ d.acceptanceStatus # "accepted",
           \A e : (\A f \in {"status", "assignedTo", "acceptanceStatus", "isDeleted"} :
                     e[f] = IF f \in DOMAIN patch THEN patch[f] ELSE tickets[req[r].ticket][f])
                  => Transition(req[r].op, tickets[req[r].ticket], e)
    PROVE  CopiesAreCurrent'
<1> DEFINE q   == req[r]
           d   == tickets[q.ticket]
           set == Modified(d, PreSave(d, Assign(d, patch)))
           s   == Saving(q, set, push, action)
           e   == Written(d, set, push)
<1>1. IsTicket(d) /\ now \in Nat \ {0}
  BY RequestShape DEF IInv, TypeOK, IsWaiting
<1>2. /\ \A f \in Fields \ (DateFields \cup {"rejectionHistory"}) :
            e[f] = IF f \in DOMAIN patch THEN patch[f] ELSE d[f]
      /\ \A at \in {"resolvedAt", "closedAt"} : d[at] # Never => e[at] = d[at]
  BY <1>1, PreparedWritten
<1>3. /\ s.set = set /\ s.push = push /\ s.ticket = q.ticket /\ s.op = q.op
      /\ s.user = q.user /\ s.role = q.role
  BY DEF Saving
<1>4. Become(r, s) /\ UNCHANGED tickets
  BY DEF Save
<1> HIDE DEF e, set, s
<1>5. \A f \in {"status", "assignedTo", "acceptanceStatus", "isDeleted"} :
         e[f] = IF f \in DOMAIN patch THEN patch[f] ELSE d[f]
  BY <1>2, FieldTypes DEF DateFields
<1>6. Transition(q.op, d, e)
  BY <1>5
<1>7. ~d.isDeleted
  BY DEF Found
<1>8. IsCurrentSave(s, d)
  BY <1>2, <1>3, <1>6, <1>7 DEF IsCurrentSave, e
<1> QED
  BY <1>3, <1>4, <1>8, CurrentQuietStep

LEMMA CurrentUpdate ==
    ASSUME IInv, RightsAreKept, CopiesAreCurrent, NEW r \in Requests, UpdateTicket(r)
    PROVE  CopiesAreCurrent'
<1> DEFINE q   == req[r]
           old == tickets[q.ticket]
<1>1. q.phase = "find" /\ q.op \in {"update", "assign"} /\ IsWaiting(q, Stored)
  BY RequestShape DEF UpdateTicket, IInv, TypeOK
<1>2. PICK body \in IF q.op = "assign" THEN {q.body} ELSE UpdateBodies :
         \/ Refuse(r)
         \/ /\ Found(q.ticket)
            /\ Save(r, old, body, <<>>, UpdateAction(old, body))
  BY DEF UpdateTicket
<1>3. CASE Refuse(r)
  BY <1>3, CurrentQuietStep DEF Refuse, Idle
<1>4. CASE Found(q.ticket) /\ Save(r, old, body, <<>>, UpdateAction(old, body))
  <2>1. /\ IsPatch(body)
        /\ DOMAIN body \cap {"resolvedAt", "closedAt", "rejectionHistory", "isDeleted"} = {}
        /\ q.op = "update" => "acceptanceStatus" \notin DOMAIN body
        /\ q.op = "assign" =>
              /\ DOMAIN body = {"assignedTo", "acceptanceStatus", "assignedAt"}
              /\ body.assignedTo \in Users /\ body.acceptanceStatus = "pending"
    <3>1. CASE q.op = "assign"
      BY <1>1, <1>2, <3>1 DEF RightsAreKept, IsAssigning, IsWaiting
    <3>2. CASE q.op # "assign"
      BY <1>2, <3>2, BodiesAssumption DEF IsUpdateBody, UpdateKeys
    <3> QED
      BY <3>1, <3>2
  <2>2. ASSUME NEW e,
               \A f \in {"status", "assignedTo", "acceptanceStatus", "isDeleted"} :
                   e[f] = IF f \in DOMAIN body THEN body[f] ELSE old[f]
        PROVE  Transition(q.op, old, e)
    BY <1>1, <2>1, <2>2 DEF Transition
  <2>3. q.op \notin {"delete", "accept", "reject"}
    BY <1>1
  <2>4. <<>> \in Seq(Users)
    OBVIOUS
  <2> QED
    BY <1>1, <1>4, <2>1, <2>2, <2>3, <2>4, CurrentSave
<1> QED
  BY <1>2, <1>3, <1>4

LEMMA CurrentDecide ==
    ASSUME IInv, CopiesAreCurrent, NEW r \in Requests, AcceptTicket(r) \/ RejectTicket(r)
    PROVE  CopiesAreCurrent'
<1> DEFINE q   == req[r]
           old == tickets[q.ticket]
<1>1. q.phase = "find" /\ IsWaiting(q, Stored)
  BY RequestShape DEF AcceptTicket, RejectTicket, IInv, TypeOK
<1>2. CASE Refuse(r)
  BY <1>2, CurrentQuietStep DEF Refuse, Idle
<1>3. q.user \in Users
  BY <1>1 DEF IsWaiting
<1>4. CASE /\ q.op = "accept" /\ Found(q.ticket) /\ CanUserDecide(old, q.user)
           /\ Save(r, old, Acceptance, <<>>, "accepted")
  <2>1. IsPatch(Acceptance)
    BY FieldTypes DEF IsPatch, Acceptance, Acceptances, Statuses, IInv, TypeOK
  <2>2. /\ DOMAIN Acceptance = {"acceptanceStatus", "acceptedAt", "status"}
        /\ Acceptance.status = "in_progress" /\ Acceptance.acceptanceStatus = "accepted"
    BY DEF Acceptance
  <2>3. ASSUME NEW e,
               \A f \in {"status", "assignedTo", "acceptanceStatus", "isDeleted"} :
                   e[f] = IF f \in DOMAIN Acceptance THEN Acceptance[f] ELSE old[f]
        PROVE  Transition(q.op, old, e)
    BY <1>3, <1>4, <2>2, <2>3, NoUserAssumption DEF Transition, CanUserDecide
  <2>4. <<>> \in Seq(Users)
    OBVIOUS
  <2>5. old.assignedTo = q.user /\ old.acceptanceStatus # "accepted" /\ q.op # "delete"
    BY <1>4 DEF CanUserDecide
  <2> QED
    BY <1>1, <1>4, <2>1, <2>2, <2>3, <2>4, <2>5, CurrentSave
<1>5. CASE /\ q.op = "reject" /\ Found(q.ticket) /\ CanUserDecide(old, q.user)
           /\ Save(r, old, Rejection, <<q.user>>, "rejected")
  <2>1. IsPatch(Rejection)
    BY FieldTypes DEF IsPatch, Rejection, Acceptances, Statuses
  <2>2. /\ DOMAIN Rejection = {"acceptanceStatus", "assignedTo", "status"}
        /\ Rejection.status = "open" /\ Rejection.acceptanceStatus = "rejected"
        /\ Rejection.assignedTo = NoUser
    BY DEF Rejection
  <2>3. ASSUME NEW e,
               \A f \in {"status", "assignedTo", "acceptanceStatus", "isDeleted"} :
                   e[f] = IF f \in DOMAIN Rejection THEN Rejection[f] ELSE old[f]
        PROVE  Transition(q.op, old, e)
    BY <1>3, <1>5, <2>2, <2>3, NoUserAssumption DEF Transition, CanUserDecide
  <2>4. <<q.user>> \in Seq(Users)
    BY <1>3
  <2>5. old.assignedTo = q.user /\ old.acceptanceStatus # "accepted" /\ q.op # "delete"
    BY <1>5 DEF CanUserDecide
  <2> QED
    BY <1>1, <1>5, <2>1, <2>2, <2>3, <2>4, <2>5, CurrentSave
<1> QED
  BY <1>2, <1>4, <1>5 DEF AcceptTicket, RejectTicket

LEMMA CurrentDelete ==
    ASSUME IInv, CopiesAreCurrent, NEW r \in Requests, DeleteTicket(r)
    PROVE  CopiesAreCurrent'
<1> DEFINE q   == req[r]
           old == tickets[q.ticket]
<1>1. q.phase = "find" /\ q.op = "delete" /\ q.ticket \in Stored
  BY RequestShape DEF DeleteTicket, IInv, TypeOK, IsWaiting
<1>2. CASE Refuse(r)
  BY <1>2, CurrentQuietStep DEF Refuse, Idle
<1>3. CASE /\ Found(q.ticket) /\ CanUserDeleteTicket(old, q.user, q.role)
           /\ Save(r, old, Deletion, <<>>, "deleted")
  <2>1. DOMAIN Deletion = {"isDeleted"} /\ Deletion.isDeleted = TRUE
    BY DEF Deletion
  <2>2. Deletion.isDeleted \in FieldType.isDeleted
    BY <2>1, FieldTypes
  <2>3. IsPatch(Deletion)
    BY <2>1, <2>2, FieldTypes DEF IsPatch
  <2>4. ASSUME NEW e,
               \A f \in {"status", "assignedTo", "acceptanceStatus", "isDeleted"} :
                   e[f] = IF f \in DOMAIN Deletion THEN Deletion[f] ELSE old[f]
        PROVE  Transition(q.op, old, e)
    <3>1. e.isDeleted = TRUE
      BY <2>1, <2>4
    <3>2. /\ e.status = old.status /\ e.assignedTo = old.assignedTo
          /\ e.acceptanceStatus = old.acceptanceStatus
      BY <2>1, <2>4
    <3> QED
      BY <1>1, <3>1, <3>2 DEF Transition
  <2>5. old.status \in Statuses
    BY <1>1, TicketFields DEF IInv, TypeOK
  <2>6. q.role # "admin" => old.status = "open"
    BY <1>3, <2>5 DEF CanUserDeleteTicket, Statuses
  <2>7. <<>> \in Seq(Users)
    OBVIOUS
  <2> QED
    BY <1>1, <1>3, <2>1, <2>3, <2>4, <2>6, <2>7, CurrentSave
<1> QED
  BY <1>2, <1>3 DEF DeleteTicket

-----------------------------------------------------------------------------
(* Every step.                                                             *)

\* A save is applied: the copies of the saves that remain are of other tickets.
LEMMA CurrentWrite ==
    ASSUME IInv, CopiesAreCurrent, NoSaveRace, NEW r \in Requests, SaveTicket(r)
    PROVE  CopiesAreCurrent'
<1>1. /\ req[r].phase = "save" /\ req'[r].phase = "audit"
      /\ \A x \in Requests \ {r} : req'[x] = req[x]
  BY DEF SaveTicket, Become, Auditing, IInv, TypeOK
<1>2. ASSUME NEW x \in Requests, req'[x].phase = "save"
      PROVE  IsCurrentSave(req'[x], tickets'[req'[x].ticket])
  <2>1. x # r /\ req'[x] = req[x] /\ req[x].phase = "save"
    BY <1>1, <1>2
  <2>2. req[x].ticket # req[r].ticket /\ req[x].ticket \in Stored
    BY <1>1, <2>1, RequestShape DEF NoSaveRace, IInv, TypeOK, IsSaving
  <2>3. tickets'[req[x].ticket] = tickets[req[x].ticket]
    BY <2>2 DEF SaveTicket, Stored
  <2> QED
    BY <2>1, <2>3 DEF CopiesAreCurrent
<1> QED
  BY <1>2 DEF CopiesAreCurrent

LEMMA CurrentCreate ==
    ASSUME IInv, CopiesAreCurrent, NEW r \in Requests, CreateTicket(r)
    PROVE  CopiesAreCurrent'
<1>1. /\ req'[r].phase = "audit"
      /\ \A x \in Requests \ {r} : req'[x] = req[x]
  BY DEF CreateTicket, Become, Auditing, IInv, TypeOK
<1>2. req[r].ticket \notin Stored
  BY DEF CreateTicket, IInv, InFlightIsSound
<1>3. \A t \in Stored : tickets'[t] = tickets[t]
  BY <1>2 DEF CreateTicket
<1>4. ASSUME NEW x \in Requests, req'[x].phase = "save"
      PROVE  IsCurrentSave(req'[x], tickets'[req'[x].ticket])
  <2>1. req'[x] = req[x] /\ req[x].phase = "save"
    BY <1>1, <1>4
  <2>2. req[x].ticket \in Stored
    BY <2>1, RequestShape DEF IInv, TypeOK, IsSaving
  <2> QED
    BY <1>3, <2>1, <2>2 DEF CopiesAreCurrent
<1> QED
  BY <1>4 DEF CopiesAreCurrent

LEMMA NextCurrent ==
    ASSUME IInv, RightsAreKept, CopiesAreCurrent, NoSaveRace, [Next]_vars
    PROVE  CopiesAreCurrent'
<1>1. ASSUME NEW r \in Requests, NEW q, Become(r, q), q.phase # "save", UNCHANGED tickets
      PROVE  CopiesAreCurrent'
  BY <1>1, CurrentQuietStep
<1>2. ASSUME NEW r \in Requests, Arrive(r)
      PROVE  CopiesAreCurrent'
  <2>1. \E phase \in {"insert", "view", "agent", "find"} : \E op, t : Receive(r, phase, op, t)
    BY <1>2 DEF Arrive, ReceiveCreate, ReceiveUpdate, ReceiveAssign, ReceiveAccept,
                ReceiveReject, ReceiveDelete
  <2> QED
    BY <1>1, <2>1 DEF Receive, Waiting
<1>3. ASSUME NEW r \in Requests, GetTicketById(r) \/ AssignTicket(r)
      PROVE  CopiesAreCurrent'
  <2>1. UNCHANGED tickets
    BY <1>3 DEF GetTicketById, AssignTicket, Refuse
  <2>2. CASE Refuse(r)
    BY <1>1, <2>2 DEF Refuse, Idle
  <2>3. ASSUME NEW op, NEW body,
               Become(r, Waiting("find", op, req[r].user, req[r].role, req[r].ticket, body))
        PROVE  CopiesAreCurrent'
    BY <1>1, <2>1, <2>3 DEF Waiting
  <2> QED
    BY <1>3, <2>2, <2>3 DEF GetTicketById, AssignTicket
<1>4. ASSUME NEW r \in Requests, Audit(r) \/ AuditFails(r) \/ RequestFails(r)
      PROVE  CopiesAreCurrent'
  BY <1>1, <1>4 DEF Audit, AuditFails, RequestFails, Idle
<1>5. CASE ChangeAccount \/ Tick \/ UNCHANGED vars
  <2>1. UNCHANGED <<tickets, req>>
    BY <1>5 DEF ChangeAccount, Tick, vars
  <2> QED
    BY <2>1 DEF CopiesAreCurrent
<1> QED
  BY <1>2, <1>3, <1>4, <1>5, CurrentUpdate, CurrentDecide, CurrentDelete, CurrentWrite,
     CurrentCreate DEF Next, Handle

SInv == IInv /\ RightsAreKept /\ CopiesAreCurrent

LEMMA InitSInv == Init => SInv
<1>1. Init => CopiesAreCurrent
  BY DEF Init, CopiesAreCurrent, Idle
<1> QED
  BY <1>1, InitIInv, InitRights DEF SInv

LEMMA NextSInv == SInv /\ NoSaveRace /\ [Next]_vars => SInv'
  BY NextIInv, NextRights, NextCurrent DEF SInv

-----------------------------------------------------------------------------
(* What a step does to the tickets.                                        *)

\* A step that changes a stored ticket applies one save, made from the ticket
\* as it is.
LEMMA WriteStep ==
    ASSUME SInv, [Next]_vars, NEW t \in Stored, tickets'[t] # tickets[t]
    PROVE  \E r \in Requests : /\ Saves(r) /\ req[r].ticket = t
                               /\ IsCurrentSave(req[r], tickets[t])
                               /\ tickets'[t] = Written(tickets[t], req[r].set, req[r].push)
<1>1. PICK r \in Requests : SaveTicket(r)
  <2>1. ASSUME NEW r \in Requests, CreateTicket(r)
        PROVE  tickets'[t] = tickets[t]
    BY <2>1 DEF CreateTicket, SInv, IInv, InFlightIsSound
  <2> QED
    BY <2>1 DEF Next, vars, Arrive, Receive, ReceiveCreate, ReceiveUpdate, ReceiveAssign,
                ReceiveAccept, ReceiveReject, ReceiveDelete, Handle, GetTicketById,
                AssignTicket, UpdateTicket, AcceptTicket, RejectTicket, DeleteTicket, Save,
                Refuse, Audit, AuditFails, RequestFails, ChangeAccount, Tick
<1>2. req[r].ticket = t /\ tickets'[t] = Written(tickets[t], req[r].set, req[r].push)
  BY <1>1 DEF SaveTicket, Stored
<1>3. req[r].phase = "save" /\ req'[r].phase = "audit"
  BY <1>1 DEF SaveTicket, Become, Auditing, SInv, IInv, TypeOK
<1> QED
  BY <1>2, <1>3 DEF Saves, SInv, CopiesAreCurrent

\* The two properties of a save hold of every save that is applied.
LEMMA SavesAreCurrent ==
    ASSUME SInv, NEW r \in Requests, Saves(r)
    PROVE  IsCurrentSave(req[r], tickets[req[r].ticket])
  BY DEF SInv, CopiesAreCurrent, Saves

LEMMA DeleteStep ==
    ASSUME SInv, NEW r \in Requests, Saves(r), req[r].op = "delete", req[r].role # "admin"
    PROVE  tickets[req[r].ticket].status = "open"
  BY SavesAreCurrent DEF IsCurrentSave

LEMMA DecisionStep ==
    ASSUME SInv, NEW r \in Requests, Saves(r), req[r].op \in {"accept", "reject"}
    PROVE  /\ tickets[req[r].ticket].assignedTo = req[r].user
           /\ tickets[req[r].ticket].acceptanceStatus # "accepted"
  BY SavesAreCurrent DEF IsCurrentSave

LEMMA DatesStep ==
    ASSUME SInv, [Next]_vars, NEW t \in Stored, NEW at \in {"resolvedAt", "closedAt"},
           tickets[t][at] # Never
    PROVE  tickets'[t][at] = tickets[t][at]
  BY WriteStep DEF IsCurrentSave

LEMMA FrozenStep ==
    ASSUME SInv, [Next]_vars, NEW t \in Stored, tickets[t].isDeleted
    PROVE  tickets'[t] = tickets[t]
  BY WriteStep DEF IsCurrentSave

-----------------------------------------------------------------------------
(* The theorems.                                                           *)

\* As long as no two saves of one ticket are under way at once, a ticket that
\* has been picked up is deleted by an admin only.
THEOREM UnpickedDeletions == Spec /\ []NoSaveRace => OwnerDeletesOnlyUnpicked
<1>1. SInv /\ [Next]_vars =>
        [\A r \in Requests :
            LET t == req[r].ticket IN
            Saves(r) /\ req[r].op = "delete" /\ req[r].role # "admin"
                => tickets[t].status = "open"]_vars
  BY DeleteStep
<1> QED
  BY <1>1, InitSInv, NextSInv, PTL DEF Spec, OwnerDeletesOnlyUnpicked

\* ... a decision is its assignee's, and taken once.
THEOREM DecisionsByAssignee == Spec /\ []NoSaveRace => AssigneeDecides
<1>1. SInv /\ [Next]_vars =>
        [\A r \in Requests :
            LET d == tickets[req[r].ticket] IN
            Saves(r) /\ req[r].op \in {"accept", "reject"}
                => d.assignedTo = req[r].user /\ d.acceptanceStatus # "accepted"]_vars
  BY DecisionStep
<1> QED
  BY <1>1, InitSInv, NextSInv, PTL DEF Spec, AssigneeDecides

\* ... the dates of the first resolution and closing are never moved.
THEOREM FirstDatesKept == Spec /\ []NoSaveRace => FirstDatesStand
<1>1. SInv /\ [Next]_vars =>
        [\A t \in Stored, at \in {"resolvedAt", "closedAt"} :
            tickets[t][at] # Never => tickets'[t][at] = tickets[t][at]]_vars
  BY DatesStep
<1> QED
  BY <1>1, InitSInv, NextSInv, PTL DEF Spec, FirstDatesStand

\* ... a deleted ticket does not change.
THEOREM DeletedFrozen == Spec /\ []NoSaveRace => DeletedTicketsAreFrozen
<1>1. SInv /\ [Next]_vars =>
        [\A t \in Stored : tickets[t].isDeleted => tickets'[t] = tickets[t]]_vars
  BY FrozenStep
<1> QED
  BY <1>1, InitSInv, NextSInv, PTL DEF Spec, DeletedTicketsAreFrozen

-----------------------------------------------------------------------------
(* The refinement of TicketLifecycle.                                      *)

\* The state of TicketLifecycle that a state of Tickets stands for.
LifeBar == [t \in Stored |-> LifeOf(tickets[t])]

\* One save is one transition of one ticket.
LEMMA TransitionStep ==
    ASSUME NEW t \in Stored, t \in TicketIds, Stored' = Stored,
           \A x \in Stored : x # t => tickets'[x] = tickets[x],
           IsTicket(tickets[t]), IsTicket(tickets'[t]), ~tickets[t].isDeleted,
           NEW op, Transition(op, tickets[t], tickets'[t])
    PROVE  Life!Next
<1> DEFINE d == tickets[t]
           e == tickets'[t]
<1>1. LifeBar' = [LifeBar EXCEPT ![t] = LifeOf(e)]
  BY DEF LifeBar
<1>2. /\ e.status \in {"open", "in_progress", "resolved", "closed"}
      /\ e.assignedTo \in Users \cup {NoUser}
  BY TicketFields DEF Statuses
<1>3. Life!Live(t)
  BY DEF Life!Live
<1>4. CASE op = "update"
  <2>1. LifeBar' = [LifeBar EXCEPT ![t].status = e.status, ![t].assignedTo = e.assignedTo]
    BY <1>1, <1>4 DEF LifeBar, LifeOf, Transition
  <2>2. Life!Update(t)
    BY <1>2, <1>3, <2>1 DEF Life!Update, LifeBar, LifeOf
  <2> QED
    BY <2>2 DEF Life!Next
<1>5. CASE op = "assign"
  <2>1. LifeBar' = [LifeBar EXCEPT ![t].assignedTo = e.assignedTo,
                                   ![t].acceptanceStatus = "pending"]
    BY <1>1, <1>5 DEF LifeBar, LifeOf, Transition
  <2>2. Life!Assign(t)
    BY <1>3, <1>5, <2>1 DEF Life!Assign, LifeBar, LifeOf, Transition
  <2> QED
    BY <2>2 DEF Life!Next
<1>6. ASSUME d.assignedTo # NoUser, d.acceptanceStatus # "accepted"
      PROVE  Life!Undecided(t)
  BY <1>3, <1>6 DEF Life!Undecided
<1>7. CASE op = "accept"
  <2>1. LifeBar' = [LifeBar EXCEPT ![t].acceptanceStatus = "accepted",
                                   ![t].status = "in_progress"]
    BY <1>1, <1>7 DEF LifeBar, LifeOf, Transition
  <2>2. Life!Accept(t)
    BY <1>6, <1>7, <2>1 DEF Life!Accept, LifeBar, LifeOf, Transition
  <2> QED
    BY <2>2 DEF Life!Next
<1>8. CASE op = "reject"
  <2>1. LifeBar' = [LifeBar EXCEPT ![t].acceptanceStatus = "rejected",
                                   ![t].status = "open", ![t].assignedTo = NoUser]
    BY <1>1, <1>8 DEF LifeBar, LifeOf, Transition
  <2>2. Life!Reject(t)
    BY <1>6, <1>8, <2>1 DEF Life!Reject, LifeBar, LifeOf, Transition
  <2> QED
    BY <2>2 DEF Life!Next
<1>9. CASE op = "delete"
  <2>1. LifeBar' = [LifeBar EXCEPT ![t].isDeleted = TRUE]
    BY <1>1, <1>9 DEF LifeBar, LifeOf, Transition
  <2>2. Life!Delete(t)
    BY <1>3, <2>1 DEF Life!Delete, LifeBar, LifeOf
  <2> QED
    BY <2>2 DEF Life!Next
<1> QED
  BY <1>4, <1>5, <1>7, <1>8, <1>9 DEF Transition

\* Creating a ticket is another.
LEMMA CreationStep ==
    ASSUME SInv, NEW r \in Requests, CreateTicket(r)
    PROVE  Life!Next
<1>1. req[r].ticket \in TicketIds \ Stored
  BY RequestShape DEF CreateTicket, SInv, IInv, TypeOK, IsWaiting, InFlightIsSound
<1> PICK n \in TicketIds \ Stored : n = req[r].ticket
  BY <1>1
<1>2. PICK p \in Priorities, c \in Categories :
         tickets' = [x \in Stored \cup {n} |->
                       IF x = n THEN NewTicket(req[r].user, p, c) ELSE tickets[x]]
  BY DEF CreateTicket
<1>3. Stored' = Stored \cup {n}
  BY <1>2 DEF Stored
<1>4. LifeOf(NewTicket(req[r].user, p, c)) =
         [status |-> "open", assignedTo |-> NoUser, acceptanceStatus |-> "pending",
          isDeleted |-> FALSE]
  BY DEF LifeOf, NewTicket
<1>5. LifeBar' = [x \in Stored \cup {n} |->
                    IF x = n THEN [status |-> "open", assignedTo |-> NoUser,
                                   acceptanceStatus |-> "pending", isDeleted |-> FALSE]
                             ELSE LifeBar[x]]
  BY <1>2, <1>3, <1>4 DEF LifeBar
<1>6. Life!Create(n)
  BY <1>5 DEF Life!Create, LifeBar, LifeOf
<1> QED
  BY <1>6 DEF Life!Next

\* Every other step changes no ticket.
LEMMA LifeStep ==
    ASSUME SInv, [Next]_vars
    PROVE  Life!Next \/ UNCHANGED LifeBar
<1>1. TypeOK /\ TypeOK'
  BY NextType DEF SInv, IInv
<1>2. CASE UNCHANGED tickets
  BY <1>2 DEF LifeBar, Stored
<1>3. CASE \E r \in Requests : CreateTicket(r)
  BY <1>3, CreationStep
<1>4. ASSUME NEW r \in Requests, SaveTicket(r)
      PROVE  Life!Next
  <2> DEFINE t == req[r].ticket
  <2>1. /\ req[r].phase = "save" /\ t \in Stored /\ t \in TicketIds
    BY <1>1, <1>4, RequestShape DEF SaveTicket, TypeOK, IsSaving
  <2>2. /\ Stored' = Stored
        /\ tickets'[t] = Written(tickets[t], req[r].set, req[r].push)
        /\ \A x \in Stored : x # t => tickets'[x] = tickets[x]
    BY <1>4, <2>1 DEF SaveTicket, Stored
  <2>3. IsCurrentSave(req[r], tickets[t])
    BY <2>1 DEF SInv, CopiesAreCurrent
  <2>4. IsTicket(tickets[t]) /\ IsTicket(tickets'[t])
    BY <1>1, <2>1, <2>2 DEF TypeOK
  <2>5. ~tickets[t].isDeleted /\ Transition(req[r].op, tickets[t], tickets'[t])
    BY <2>2, <2>3 DEF IsCurrentSave
  <2> QED
    BY <2>1, <2>2, <2>4, <2>5, TransitionStep
<1>5. CASE \E r \in Requests : SaveTicket(r)
  BY <1>4, <1>5
<1>6. \/ UNCHANGED tickets
      \/ \E r \in Requests : CreateTicket(r)
      \/ \E r \in Requests : SaveTicket(r)
  BY DEF Next, vars, Arrive, Receive, ReceiveCreate, ReceiveUpdate, ReceiveAssign,
         ReceiveAccept, ReceiveReject, ReceiveDelete, Handle, GetTicketById, AssignTicket,
         UpdateTicket, AcceptTicket, RejectTicket, DeleteTicket, Save, Refuse, Audit,
         AuditFails, RequestFails, ChangeAccount, Tick
<1> QED
  BY <1>2, <1>3, <1>5, <1>6

LEMMA LifeInit == Init => Life!Init
  BY DEF Init, Life!Init, Stored

\* ... and every behaviour of the requests is one of TicketLifecycle: each
\* request takes effect in one step, on a ticket that is as it was found.
THEOREM LifecycleImplemented == Spec /\ []NoSaveRace => ImplementsLifecycle
<1>1. SInv /\ [Next]_vars => [Life!Next]_LifeBar
  BY LifeStep
<1> QED
  BY <1>1, InitSInv, NextSInv, LifeInit, PTL
     DEF Spec, ImplementsLifecycle, Life!Spec, LifeBar, LifeOf

\* Where requests are served one at a time, all of this holds without a condition.
COROLLARY TicketsOneAtATime ==
    ASSUME \A a, b \in Requests : a = b
    PROVE  Spec => /\ OwnerDeletesOnlyUnpicked /\ AssigneeDecides /\ FirstDatesStand
                   /\ DeletedTicketsAreFrozen /\ ImplementsLifecycle
<1>1. NoSaveRace
  BY OneSlot
<1> QED
  BY <1>1, UnpickedDeletions, DecisionsByAssignee, FirstDatesKept, DeletedFrozen,
     LifecycleImplemented, PTL

=============================================================================

-------------------------- MODULE StaffProperties --------------------------
(***************************************************************************)
(* What user management promises.  The first part holds however requests   *)
(* interleave; the second part of a request that was alone all the time.   *)
(***************************************************************************)
EXTENDS Staff

IsRequest(q) ==
    \/ q = Idle
    \/ /\ q.phase \in {"received", "save"}
       /\ q.op \in {"update", "delete", "create"}
       /\ q.actor \in People /\ q.role \in {"admin", "manager"}
       /\ q.target \in People /\ (q.op # "create" => q.target \in Registered)
       /\ IsUpdateBody(q.body)
       /\ q.phase = "save" => IsUpdateBody(q.set)
       /\ q.op = "create" => q.body \in Accounts

\* Type invariant: accounts keep the schema's types, and a request in flight
\* was let in for someone who could manage users.
TypeOK ==
    /\ Registered \subseteq People /\ \A p \in Registered : accounts[p] \in Accounts
    /\ DOMAIN req = Requests /\ \A r \in Requests : IsRequest(req[r])
    /\ overlapped \subseteq Requests

\* r's save() or create() is what changes account p in this step.
Changes(r, p) ==
    /\ req[r] # Idle /\ req'[r] = Idle /\ req[r].target = p
    /\ p \in Registered => accounts'[p] # accounts[p]

Changed == {p \in DOMAIN accounts' : p \notin Registered \/ accounts'[p] # accounts[p]}

\* However requests interleave, an account becomes an administrator's or a
\* manager's only by the request of one who was an administrator when it came
\* in (updateUser and createUser, "Managers cannot assign admin or manager
\* roles").
AdminsAppoint ==
    [][\A p \in Changed :
          accounts'[p].role \notin Below =>
              \/ p \in Registered /\ accounts[p].role = accounts'[p].role
              \/ \E r \in Requests : Changes(r, p) /\ req[r].role = "admin"]_vars

\* An account changes in the fields one request asked for and in no other,
\* whatever was written since that request loaded it: two administrators who
\* edit different fields of one account both succeed (Object.assign and
\* save() in updateUser), and an account once created is not created again.
ChangesWereAskedFor ==
    [][\A p \in Changed : \E r \in Requests :
          /\ Changes(r, p)
          /\ p \notin Registered <=> req[r].op = "create"
          /\ \A f \in {"role", "isActive"} :
                p \in Registered /\ accounts[p][f] # accounts'[p][f] =>
                    f \in DOMAIN req[r].body /\ req[r].body[f] = accounts'[p][f]]_vars

-----------------------------------------------------------------------------
(* One request at a time.                                                  *)

\* One request at a time, a manager never changes an administrator or another
\* manager ("Managers can only update agents and customers"); the checks are
\* made on a copy, so that two requests at once may.
ManagersStayBelow ==
    [][\A p \in Changed \cap Registered, r \in Requests \ overlapped :
          Changes(r, p) /\ req[r].role = "manager" => accounts[p].role \in Below]_vars

ActiveAdmins(a) == {p \in DOMAIN a : a[p] = [role |-> "admin", isActive |-> TRUE]}

\* One request at a time, the last active administrator is lost by a request
\* of their own to update themselves, and in no other way: nobody else can
\* manage them, and deleteUser refuses to delete the account in use.
AdminsRemain ==
    [][ActiveAdmins(accounts) # {} /\ ActiveAdmins(accounts)' = {} =>
          \E r \in Requests :
              /\ req[r] # Idle /\ req'[r] = Idle
              /\ \/ r \in overlapped
                 \/ req[r].op = "update" /\ ActiveAdmins(accounts) = {req[r].actor}]_vars
=============================================================================

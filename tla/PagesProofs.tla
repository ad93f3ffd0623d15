---------------------------- MODULE PagesProofs ----------------------------
(***************************************************************************)
(* Proofs about the pages, for any users, roles and number of changes.     *)
(***************************************************************************)
EXTENDS PagesProperties, TLAPS

-----------------------------------------------------------------------------
(* The inductive invariant of the ticket pages.                            *)

Places == {"list", "ticket", "create"}
Operations == {"accept", "reject", "update", "assign", "delete"}

LifeTyped ==
    /\ DOMAIN life \subseteq {TheTicket}
    /\ Exists => life[TheTicket] \in [status           : Statuses,
                                      assignedTo       : Agents \cup {NoUser},
                                      acceptanceStatus : {"pending", "accepted", "rejected"},
                                      isDeleted        : BOOLEAN]

\* An answer, or what a page keeps of one: if it is of the last edition, it is
\* what the server would answer now.
Agrees(copy) ==
    /\ copy.edition \in 0..edition
    /\ copy.shows = "ticket" /\ copy.edition = edition => Visible /\ copy.doc = Document

IsCopy(e) ==
    /\ DOMAIN e = {"shows", "doc", "edition", "call"}
    /\ Agrees(e)
    /\ e.call \in {NoCall, Fetch} \/ e.call.phase = "answered"
    /\ e.call.phase = "answered" => Agrees(e.call.data)

\* Where an operation in flight was asked for, and that it may be asked for there.
MutationTyped ==
    doing # Idle =>
        /\ doing = [phase |-> doing.phase, op |-> doing.op, arg |-> doing.arg,
                    at |-> doing.at, stayed |-> doing.stayed]
        /\ doing.phase \in {"sent", "ok", "refused"}
        /\ doing.op = "create" \/ (doing.op \in Operations /\ doing.at \in Keys)
        /\ doing.stayed => doing.at = page.at
        /\ doing.op = "update" => doing.arg \in Statuses \cup {NoUser}
        /\ doing.op = "assign" => doing.arg \in Agents \cup {NoUser}
        /\ doing.phase = "sent" /\ doing.op = "update" => doing.arg \in Statuses

ScreensTyped ==
    /\ me \in Users
    /\ edition \in Nat
    /\ page = [at |-> page.at, modal |-> page.modal]
    /\ page.at \in Places /\ page.modal \in Operations \cup {"none"}
    /\ DOMAIN cache = Keys

\* What a page has, unless it is fetching, and what it is about to be given.
NotOlder(n, e) ==
    /\ e.call = NoCall /\ e.shows # "error" => n <= e.edition
    /\ e.call.phase = "answered" => n <= e.call.data.edition

WritesAreShown ==
    /\ owed \in 0..edition
    /\ owed > 0 /\ page.at \in Keys => NotOlder(owed, Shown)

ScreensInv ==
    /\ ScreensTyped /\ LifeTyped /\ MutationTyped /\ WritesAreShown
    /\ \A k \in Keys : IsCopy(cache[k])

-----------------------------------------------------------------------------
(* The inductive invariant of the users' page.                             *)

\* What the list shows of the account, or is about to be given.
Lists(copy) ==
    /\ copy.edition \in 0..changes
    /\ copy.shows = "account" /\ copy.edition = changes =>
           Staff!Admitted /\ Staff!Listed /\ copy.account = account

FormTyped ==
    form # Staff!Closed =>
        /\ form.kind \in {"create", "update", "delete"}
        /\ form.kind = "update" /\ form.edition = changes => form.account = account /\ Staff!Exists
        /\ form.edition \in 0..changes

SendingTyped ==
    sending # Staff!Idle =>
        /\ sending.phase \in {"sent", "ok", "refused"}
        /\ sending.phase = "sent" =>
              /\ sending.op \in {"create", "update", "delete"}
              /\ sending.body \in Staff!Bodies(sending.op)
              /\ sending.edition \in 0..changes
        /\ sending.phase = "sent" /\ sending.op = "update" /\ sending.edition = changes =>
              /\ account \in Staff!Rules!Accounts
              /\ \A f \in {"role", "isActive"} \ sending.touched : sending.body[f] = account[f]

StaffInv ==
    /\ own \in BOOLEAN
    /\ account \in Staff!Rules!Accounts \cup {Staff!NoAccount}
    /\ changes \in Nat
    /\ DOMAIN list = {"shows", "account", "edition", "call"}
    /\ list.call \in {Staff!NoCall, Staff!Fetch} \/ list.call.phase = "answered"
    /\ Lists(list)
    /\ list.call.phase = "answered" => Lists(list.call.data)
    /\ FormTyped /\ SendingTyped

PagesInv ==
    /\ route \in {"users", "tickets"}
    /\ route = "users" => MayManageUsers
    /\ ScreensInv /\ StaffInv

-----------------------------------------------------------------------------
(* The ticket pages: copies.                                               *)

LEMMA RolesOfUsers ==
    \A u \in Users : Role[u] \in {"admin", "manager", "agent", "customer"}
  BY RoleAssumption

\* A copy goes on to agree, whether the ticket changes or not.
LEMMA CopyStays ==
    ASSUME edition \in Nat, UNCHANGED <<life, edition, me>> \/ edition' = edition + 1
    PROVE  /\ \A c : Agrees(c) => Agrees(c)'
           /\ \A e : IsCopy(e) => IsCopy(e)'
<1>1. ASSUME NEW c, Agrees(c) PROVE Agrees(c)'
  <2>1. CASE UNCHANGED <<life, edition, me>>
    <3>1. (Visible' <=> Visible) /\ Document' = Document
      BY <2>1 DEF Visible, Document, Rules!Found, Rules!Stored, Rules!CanUserAccessTicket
    <3> QED
      BY <1>1, <2>1, <3>1 DEF Agrees
  <2>2. CASE edition' = edition + 1
    BY <1>1, <2>2 DEF Agrees
  <2> QED
    BY <2>1, <2>2
<1>2. ASSUME NEW e, IsCopy(e) PROVE IsCopy(e)'
  BY <1>1, <1>2 DEF IsCopy
<1> QED
  BY <1>1, <1>2

LEMMA AnswerAgrees ==
    ASSUME edition \in Nat
    PROVE  \A k : Agrees(Answer(k)) /\ Answer(k).edition = edition
<1> TAKE k
<1>1. Answer(k).edition = edition
  BY DEF Answer
<1>2. Answer(k).shows = "ticket" => Visible /\ Answer(k).doc = Document
  BY DEF Answer
<1> QED
  BY <1>1, <1>2 DEF Agrees

\* What a step that leaves the ticket alone has to keep.
LEMMA QuietScreens ==
    ASSUME ScreensInv, UNCHANGED <<life, edition, me>>,
           page' = [at |-> page.at, modal |-> page.modal]',
           page'.at \in Places, page'.modal \in Operations \cup {"none"},
           DOMAIN cache' = Keys, \A k \in Keys : IsCopy(cache'[k]),
           MutationTyped', WritesAreShown'
    PROVE  ScreensInv'
<1>1. \A e : IsCopy(e) => IsCopy(e)'
  BY CopyStays DEF ScreensInv, ScreensTyped
<1>2. LifeTyped'
  BY DEF ScreensInv, LifeTyped, Exists
<1>3. ScreensTyped'
  BY DEF ScreensInv, ScreensTyped
<1>4. \A k \in Keys : IsCopy(cache[k])'
  BY <1>1
<1> QED
  BY <1>2, <1>3, <1>4 DEF ScreensInv

\* One entry of the cache changes, and does not become older.
LEMMA EntryStep ==
    ASSUME ScreensInv, UNCHANGED <<life, edition, me, page, doing, owed>>,
           NEW k \in Keys, NEW e, cache' = [cache EXCEPT ![k] = e],
           IsCopy(e),
           \A n \in 0..edition : NotOlder(n, cache[k]) => NotOlder(n, e)
    PROVE  ScreensInv'
<1>1. DOMAIN cache' = Keys /\ \A j \in Keys : IsCopy(cache'[j])
  BY DEF ScreensInv, ScreensTyped
<1>2. WritesAreShown'
  <2>1. owed' \in 0..edition'
    BY DEF ScreensInv, WritesAreShown
  <2>2. ASSUME owed > 0, page.at \in Keys PROVE NotOlder(owed, cache'[page.at])
    <3>1. NotOlder(owed, cache[page.at]) /\ owed \in 0..edition
      BY <2>2 DEF ScreensInv, WritesAreShown, Shown
    <3>2. CASE page.at = k
      <4>1. cache'[page.at] = e
        BY <3>2 DEF ScreensInv, ScreensTyped
      <4> QED
        BY <3>1, <3>2, <4>1
    <3>3. CASE page.at # k
      <4>1. cache'[page.at] = cache[page.at]
        BY <2>2, <3>3 DEF ScreensInv, ScreensTyped
      <4> QED
        BY <3>1, <4>1
    <3> QED
      BY <3>2, <3>3
  <2>3. \A n, f : NotOlder(n, f) => NotOlder(n, f)'
    BY DEF NotOlder, NoCall
  <2> QED
    BY <2>1, <2>2, <2>3 DEF WritesAreShown, Shown
<1>3. MutationTyped'
  BY DEF ScreensInv, MutationTyped, Idle, Agents
<1> QED
  BY <1>1, <1>2, <1>3, QuietScreens DEF ScreensInv, ScreensTyped

\* The fields of an entry.
LEMMA EntryFields ==
    ASSUME NEW e, IsCopy(e), NEW call
    PROVE  LET f == [e EXCEPT !.call = call] IN
           /\ DOMAIN f = {"shows", "doc", "edition", "call"}
           /\ f.shows = e.shows /\ f.doc = e.doc /\ f.edition = e.edition /\ f.call = call
  BY DEF IsCopy

LEMMA AgreeByFields ==
    ASSUME NEW c, NEW d, Agrees(c), d.edition = c.edition, d.shows = c.shows, d.doc = c.doc
    PROVE  Agrees(d)
  BY DEF Agrees

LEMMA FetchSent ==
    ASSUME NEW e, IsCopy(e)
    PROVE  LET f == [e EXCEPT !.call = Fetch] IN IsCopy(f) /\ \A n : NotOlder(n, f)
<1> DEFINE f == [e EXCEPT !.call = Fetch]
<1>1. /\ DOMAIN f = {"shows", "doc", "edition", "call"}
      /\ f.shows = e.shows /\ f.doc = e.doc /\ f.edition = e.edition /\ f.call = Fetch
  BY EntryFields
<1> HIDE DEF f
<1>2. Agrees(f)
  BY <1>1, AgreeByFields DEF IsCopy
<1>3. Fetch # NoCall /\ Fetch.phase = "sent"
  BY DEF Fetch, NoCall
<1>4. IsCopy(f) /\ \A n : NotOlder(n, f)
  BY <1>1, <1>2, <1>3 DEF IsCopy, NotOlder
<1> QED
  BY <1>4 DEF f

-----------------------------------------------------------------------------
(* The ticket pages: fetches.                                              *)

LEMMA ServeFetchInv ==
    ASSUME ScreensInv, NEW k \in Keys, ServeFetch(k)
    PROVE  ScreensInv'
<1> DEFINE call == [phase |-> "answered", data |-> Answer(k)]
           e == [cache[k] EXCEPT !.call = call]
<1>1. IsCopy(cache[k]) /\ edition \in Nat /\ DOMAIN cache = Keys
  BY DEF ScreensInv, ScreensTyped
<1>2. Agrees(Answer(k)) /\ Answer(k).edition = edition
  BY <1>1, AnswerAgrees
<1>3. cache' = [cache EXCEPT ![k] = e]
  BY DEF ServeFetch
<1>4. /\ DOMAIN e = {"shows", "doc", "edition", "call"}
      /\ e.shows = cache[k].shows /\ e.doc = cache[k].doc /\ e.edition = cache[k].edition
      /\ e.call = call
  BY <1>1, EntryFields
<1>5. call.phase = "answered" /\ call.data = Answer(k) /\ call # NoCall
  BY DEF NoCall
<1> HIDE DEF e, call
<1>6. IsCopy(e)
  <2>1. Agrees(e)
    BY <1>1, <1>4, AgreeByFields DEF IsCopy
  <2> QED
    BY <1>2, <1>4, <1>5, <2>1 DEF IsCopy
<1>7. \A n \in 0..edition : NotOlder(n, e)
  BY <1>1, <1>2, <1>4, <1>5 DEF NotOlder
<1> QED
  BY <1>3, <1>6, <1>7, EntryStep DEF ServeFetch

LEMMA FetchAnsweredInv ==
    ASSUME ScreensInv, NEW k \in Keys, FetchAnswered(k)
    PROVE  ScreensInv'
<1> DEFINE data == cache[k].call.data
           e == [shows |-> data.shows, doc |-> data.doc, edition |-> data.edition, call |-> NoCall]
<1>1. IsCopy(cache[k]) /\ cache[k].call.phase = "answered"
  BY DEF ScreensInv, ScreensTyped, FetchAnswered
<1>2. cache' = [cache EXCEPT ![k] = e]
  BY DEF FetchAnswered
<1>3. /\ DOMAIN e = {"shows", "doc", "edition", "call"}
      /\ e.shows = data.shows /\ e.doc = data.doc /\ e.edition = data.edition /\ e.call = NoCall
  OBVIOUS
<1>4. NoCall.phase # "answered"
  BY DEF NoCall
<1>5. Agrees(data)
  BY <1>1 DEF IsCopy
<1> HIDE DEF e
<1>6. IsCopy(e)
  BY <1>3, <1>4, <1>5, AgreeByFields DEF IsCopy
<1>7. \A n \in 0..edition : NotOlder(n, cache[k]) => NotOlder(n, e)
  BY <1>1, <1>3, <1>4 DEF NotOlder
<1> QED
  BY <1>2, <1>6, <1>7, EntryStep DEF FetchAnswered

LEMMA FetchFailsInv ==
    ASSUME ScreensInv, NEW k \in Keys, FetchFails(k)
    PROVE  ScreensInv'
<1> DEFINE e == [cache[k] EXCEPT !.shows = "error", !.doc = NoDoc, !.call = NoCall]
<1>1. IsCopy(cache[k])
  BY DEF ScreensInv, ScreensTyped
<1>2. cache' = [cache EXCEPT ![k] = e]
  BY DEF FetchFails
<1>3. /\ DOMAIN e = {"shows", "doc", "edition", "call"}
      /\ e.shows = "error" /\ e.doc = NoDoc /\ e.edition = cache[k].edition /\ e.call = NoCall
  BY <1>1 DEF IsCopy
<1>4. NoCall.phase # "answered"
  BY DEF NoCall
<1> HIDE DEF e
<1>5. IsCopy(e)
  BY <1>1, <1>3, <1>4 DEF IsCopy, Agrees
<1>6. \A n \in 0..edition : NotOlder(n, e)
  BY <1>3, <1>4 DEF NotOlder
<1> QED
  BY <1>2, <1>5, <1>6, EntryStep DEF FetchFails

\* A page that is mounted fetches.
LEMMA MountedCache ==
    ASSUME ScreensInv, NEW at, Mounted(at)
    PROVE  DOMAIN cache' = Keys /\ \A k \in Keys : IsCopy(cache'[k])
<1>1. \A k \in Keys : IsCopy(cache[k]) /\ IsCopy([cache[k] EXCEPT !.call = Fetch])
  BY FetchSent DEF ScreensInv
<1> QED
  BY <1>1 DEF Mounted

LEMMA PollInv ==
    ASSUME ScreensInv, Poll
    PROVE  ScreensInv'
<1> DEFINE e == [cache["list"] EXCEPT !.call = Fetch]
<1>1. "list" \in Keys /\ DOMAIN cache = Keys /\ IsCopy(cache["list"])
  BY DEF Keys, ScreensInv, ScreensTyped
<1>2. cache' = [cache EXCEPT !["list"] = e]
  BY <1>1 DEF Poll, Mounted
<1>3. IsCopy(e) /\ \A n : NotOlder(n, e)
  BY <1>1, FetchSent
<1> HIDE DEF e
<1> QED
  BY <1>1, <1>2, <1>3, EntryStep DEF Poll

-----------------------------------------------------------------------------
(* The ticket pages: the user.                                             *)

\* The page that is left owes nothing, and what was asked for there goes on.
LEMMA LeftPage ==
    ASSUME ScreensInv, NEW where \in Places, Leave(where),
           UNCHANGED <<life, edition, me>>,
           doing' = Idle \/ (doing # Idle /\ doing' = [doing EXCEPT !.stayed = FALSE])
    PROVE  ScreensInv'
<1>1. page' = [at |-> where, modal |-> "none"] /\ owed' = 0
  BY DEF Leave, At
<1>2. DOMAIN cache' = Keys /\ \A k \in Keys : IsCopy(cache'[k])
  BY MountedCache DEF Leave
<1>3. MutationTyped'
  <2>1. CASE doing' = Idle
    BY <2>1 DEF MutationTyped, Idle
  <2>2. CASE doing # Idle /\ doing' = [doing EXCEPT !.stayed = FALSE]
    <3>1. doing = [phase |-> doing.phase, op |-> doing.op, arg |-> doing.arg,
                   at |-> doing.at, stayed |-> doing.stayed]
      BY <2>2 DEF ScreensInv, MutationTyped
    <3>2. doing' = [phase |-> doing.phase, op |-> doing.op, arg |-> doing.arg,
                    at |-> doing.at, stayed |-> FALSE]
      BY <2>2, <3>1
    <3>3. /\ doing'.phase = doing.phase /\ doing'.op = doing.op /\ doing'.arg = doing.arg
          /\ doing'.at = doing.at /\ doing'.stayed = FALSE
      BY <3>2
    <3>4. doing' = [phase |-> doing.phase, op |-> doing.op, arg |-> doing.arg,
                    at |-> doing.at, stayed |-> doing.stayed]'
      BY <3>2, <3>3
    <3> QED
      BY <2>2, <3>3, <3>4 DEF ScreensInv, MutationTyped, Agents
  <2> QED
    BY <2>1, <2>2
<1>4. WritesAreShown'
  BY <1>1 DEF WritesAreShown, ScreensInv, ScreensTyped
<1> QED
  BY <1>1, <1>2, <1>3, <1>4, QuietScreens

LEMMA GoToInv ==
    ASSUME ScreensInv, NEW where \in Places, GoTo(where)
    PROVE  ScreensInv'
<1>1. CASE doing = Idle
  BY <1>1, LeftPage DEF GoTo
<1>2. CASE doing # Idle
  BY <1>2, LeftPage DEF GoTo
<1> QED
  BY <1>1, <1>2

\* Only the modal changes.
LEMMA ModalStep ==
    ASSUME ScreensInv, UNCHANGED <<life, edition, me, cache, doing, owed>>,
           NEW op \in Operations \cup {"none"}, page' = [page EXCEPT !.modal = op]
    PROVE  ScreensInv'
<1>1. page' = [at |-> page.at, modal |-> op] /\ page.at \in Places
  BY DEF ScreensInv, ScreensTyped
<1>2. MutationTyped'
  BY <1>1 DEF ScreensInv, MutationTyped, Idle, Agents
<1>3. WritesAreShown'
  BY <1>1 DEF ScreensInv, WritesAreShown, Shown, NotOlder, NoCall
<1> QED
  BY <1>1, <1>2, <1>3, QuietScreens DEF ScreensInv, ScreensTyped

LEMMA ModalInv ==
    ASSUME ScreensInv, CloseModal \/ \E op \in Operations : OpenModal(op)
    PROVE  ScreensInv'
  BY ModalStep DEF CloseModal, OpenModal

\* A mutation starts on the page that is open.
LEMMA StartedMutation ==
    ASSUME ScreensInv, NEW op, NEW arg, doing' = Mutation(op, arg), page'.at = page.at,
           op = "create" \/ (op \in Operations /\ page.at \in Keys),
           op = "update" => arg \in Statuses,
           op = "assign" => arg \in Agents \cup {NoUser}
    PROVE  MutationTyped'
<1>1. doing' = [phase |-> "sent", op |-> op, arg |-> arg, at |-> page.at, stayed |-> TRUE]
  BY DEF Mutation
<1>2. /\ doing'.phase = "sent" /\ doing'.op = op /\ doing'.arg = arg
      /\ doing'.at = page.at /\ doing'.stayed = TRUE
  BY <1>1
<1> QED
  BY <1>1, <1>2 DEF MutationTyped, Agents

LEMMA SubmitInv ==
    ASSUME ScreensInv, NEW op \in Operations, Submit(op)
    PROVE  ScreensInv'
<1>1. page' \in {page, At("list")} /\ page'.at = page.at
      /\ page' = [at |-> page.at, modal |-> page.modal]'
      /\ page'.modal \in Operations \cup {"none"} /\ page'.at \in Places
  BY DEF Submit, At, ScreensInv, ScreensTyped
<1>2. page.at \in Keys
  BY DEF Submit, Offers, ShowsTicket, Keys
<1>3. PICK arg \in Arguments(op) : doing' = Mutation(op, arg)
  BY DEF Submit
<1>4. op = "update" => arg \in Statuses
  BY <1>3 DEF Arguments, StatusArguments, AgentChoices, StaffChoices, Statuses
<1>5. op = "assign" => arg \in Agents \cup {NoUser}
  BY <1>3 DEF Arguments, AssignArguments
<1>6. MutationTyped'
  BY <1>1, <1>2, <1>3, <1>4, <1>5, StartedMutation
<1>7. WritesAreShown'
  BY <1>1 DEF Submit, ScreensInv, WritesAreShown, Shown, NotOlder, NoCall
<1> QED
  BY <1>1, <1>6, <1>7, QuietScreens DEF Submit, ScreensInv, ScreensTyped

LEMMA SubmitTicketInv ==
    ASSUME ScreensInv, SubmitTicket
    PROVE  ScreensInv'
<1>1. MutationTyped'
  BY StartedMutation DEF SubmitTicket
<1>2. WritesAreShown'
  BY DEF SubmitTicket, ScreensInv, WritesAreShown, Shown, NotOlder, NoCall
<1> QED
  BY <1>1, <1>2, QuietScreens DEF SubmitTicket, ScreensInv, ScreensTyped

LEMMA MutationFailsInv ==
    ASSUME ScreensInv, MutationFails
    PROVE  ScreensInv'
<1>1. MutationTyped'
  BY DEF MutationFails, MutationTyped, Idle
<1>2. WritesAreShown'
  BY DEF MutationFails, ScreensInv, WritesAreShown, Shown, NotOlder, NoCall
<1> QED
  BY <1>1, <1>2, QuietScreens DEF MutationFails, ScreensInv, ScreensTyped

\* The page an operation was asked for on is fetched anew, and shows nothing
\* that is older than the operation.
LEMMA MutationSucceedsInv ==
    ASSUME ScreensInv, MutationSucceeds
    PROVE  ScreensInv'
<1>1. doing # Idle
  BY DEF MutationSucceeds, Idle
<1>2. CASE doing.op \in {"create", "delete"} /\ page.at = "list"
  <2>1. UNCHANGED <<life, edition, me, page, cache, owed>> /\ doing' = Idle
    BY <1>2 DEF MutationSucceeds
  <2>2. MutationTyped'
    BY <2>1 DEF MutationTyped, Idle
  <2>3. WritesAreShown'
    BY <2>1 DEF ScreensInv, WritesAreShown, Shown, NotOlder, NoCall
  <2> QED
    BY <2>1, <2>2, <2>3, QuietScreens DEF ScreensInv, ScreensTyped
<1>3. CASE doing.op \in {"create", "delete"} /\ page.at # "list"
  <2>1. "list" \in Places
    BY DEF Places
  <2> QED
    BY <1>3, <2>1, LeftPage DEF MutationSucceeds
<1>4. CASE doing.op \notin {"create", "delete"}
  <2>1. /\ cache' = Invalidated(doing.at) /\ doing' = Idle
        /\ page' = IF doing.stayed /\ doing.at = "ticket" /\ page.modal = doing.op THEN At("ticket")
                   ELSE page
        /\ owed' = IF doing.stayed THEN edition ELSE owed
        /\ UNCHANGED <<life, edition, me>>
    BY <1>4 DEF MutationSucceeds
  <2>2. doing.at \in Keys /\ (doing.stayed => doing.at = page.at)
    BY <1>1, <1>4 DEF ScreensInv, MutationTyped
  <2>3. page' \in {page, At("ticket")} /\ page'.at = page.at
        /\ page' = [at |-> page.at, modal |-> page.modal]'
        /\ page'.modal \in Operations \cup {"none"} /\ page'.at \in Places
    BY <2>1, <2>2 DEF At, ScreensInv, ScreensTyped
  <2>4. /\ DOMAIN cache' = Keys
        /\ \A k \in Keys : cache'[k] \in {cache[k], [cache[k] EXCEPT !.call = Fetch]}
        /\ page.at = doing.at => cache'[page.at] = [cache[page.at] EXCEPT !.call = Fetch]
    BY <2>1, <2>2 DEF Invalidated, InvalidatedBy
  <2>5. \A k \in Keys : /\ IsCopy(cache[k]) /\ IsCopy([cache[k] EXCEPT !.call = Fetch])
                        /\ \A n : NotOlder(n, [cache[k] EXCEPT !.call = Fetch])
    BY FetchSent DEF ScreensInv
  <2>6. MutationTyped'
    BY <2>1 DEF MutationTyped, Idle
  <2>7. owed' \in 0..edition
    BY <2>1 DEF ScreensInv, ScreensTyped, WritesAreShown
  <2>8. owed' > 0 /\ page.at \in Keys => NotOlder(owed', cache'[page.at])
    <3>1. CASE page.at = doing.at
      BY <2>2, <2>4, <2>5, <3>1
    <3>2. CASE page.at # doing.at
      <4>1. owed' = owed /\ (page.at \in Keys => cache'[page.at] = cache[page.at])
        BY <2>1, <2>2, <3>2 DEF Invalidated, InvalidatedBy
      <4> QED
        BY <4>1 DEF ScreensInv, WritesAreShown, Shown
    <3> QED
      BY <3>1, <3>2
  <2>9. WritesAreShown'
    BY <2>1, <2>3, <2>7, <2>8 DEF WritesAreShown, Shown, NotOlder, NoCall
  <2> QED
    BY <2>1, <2>3, <2>4, <2>5, <2>6, <2>9, QuietScreens
<1> QED
  BY <1>2, <1>3, <1>4

-----------------------------------------------------------------------------
(* The ticket pages: the server.                                           *)

TicketType ==
    [status           : Statuses,
     assignedTo       : Agents \cup {NoUser},
     acceptanceStatus : {"pending", "accepted", "rejected"},
     isDeleted        : BOOLEAN]

\* Assigning a patch to a ticket, field by field.
LEMMA PatchedTicket ==
    ASSUME NEW d \in TicketType, NEW p
    PROVE  [f \in DOMAIN d |-> IF f \in DOMAIN p THEN p[f] ELSE d[f]] =
           [status           |-> IF "status" \in DOMAIN p THEN p.status ELSE d.status,
            assignedTo       |-> IF "assignedTo" \in DOMAIN p THEN p.assignedTo ELSE d.assignedTo,
            acceptanceStatus |-> IF "acceptanceStatus" \in DOMAIN p THEN p.acceptanceStatus
                                 ELSE d.acceptanceStatus,
            isDeleted        |-> IF "isDeleted" \in DOMAIN p THEN p.isDeleted ELSE d.isDeleted]
<1>1. DOMAIN d = {"status", "assignedTo", "acceptanceStatus", "isDeleted"}
  BY DEF TicketType
<1> QED
  BY <1>1

\* A ticket is its four fields.
LEMMA TicketByFields ==
    ASSUME NEW r, r = [f \in DOMAIN r |-> r[f]],
           DOMAIN r = {"status", "assignedTo", "acceptanceStatus", "isDeleted"}
    PROVE  r = [status |-> r.status, assignedTo |-> r.assignedTo,
                acceptanceStatus |-> r.acceptanceStatus, isDeleted |-> r.isDeleted]
  OBVIOUS

LEMMA ChangedTicket ==
    ASSUME NEW d \in TicketType, NEW s, NEW a, NEW u, NEW x
    PROVE  /\ [d EXCEPT !.status = s, !.assignedTo = u] =
                  [status |-> s, assignedTo |-> u,
                   acceptanceStatus |-> d.acceptanceStatus, isDeleted |-> d.isDeleted]
           /\ [d EXCEPT !.assignedTo = u, !.acceptanceStatus = a] =
                  [status |-> d.status, assignedTo |-> u,
                   acceptanceStatus |-> a, isDeleted |-> d.isDeleted]
           /\ [d EXCEPT !.acceptanceStatus = a, !.status = s] =
                  [status |-> s, assignedTo |-> d.assignedTo,
                   acceptanceStatus |-> a, isDeleted |-> d.isDeleted]
           /\ [d EXCEPT !.acceptanceStatus = a, !.status = s, !.assignedTo = u] =
                  [status |-> s, assignedTo |-> u,
                   acceptanceStatus |-> a, isDeleted |-> d.isDeleted]
           /\ [d EXCEPT !.isDeleted = x] =
                  [status |-> d.status, assignedTo |-> d.assignedTo,
                   acceptanceStatus |-> d.acceptanceStatus, isDeleted |-> x]
<1> DEFINE fields == {"status", "assignedTo", "acceptanceStatus", "isDeleted"}
           r1 == [d EXCEPT !.status = s, !.assignedTo = u]
           r2 == [d EXCEPT !.assignedTo = u, !.acceptanceStatus = a]
           r3 == [d EXCEPT !.acceptanceStatus = a, !.status = s]
           r4 == [d EXCEPT !.acceptanceStatus = a, !.status = s, !.assignedTo = u]
           r5 == [d EXCEPT !.isDeleted = x]
<1>1. DOMAIN d = fields
  BY DEF TicketType
<1>2. \A r \in {r1, r2, r3, r4, r5} : DOMAIN r = fields /\ r = [f \in DOMAIN r |-> r[f]]
  BY <1>1
<1>3. /\ r1.status = s /\ r1.assignedTo = u
      /\ r1.acceptanceStatus = d.acceptanceStatus /\ r1.isDeleted = d.isDeleted
  BY <1>1
<1>4. /\ r2.status = d.status /\ r2.assignedTo = u
      /\ r2.acceptanceStatus = a /\ r2.isDeleted = d.isDeleted
  BY <1>1
<1>5. /\ r3.status = s /\ r3.assignedTo = d.assignedTo
      /\ r3.acceptanceStatus = a /\ r3.isDeleted = d.isDeleted
  BY <1>1
<1>6. /\ r4.status = s /\ r4.assignedTo = u
      /\ r4.acceptanceStatus = a /\ r4.isDeleted = d.isDeleted
  BY <1>1
<1>7. /\ r5.status = d.status /\ r5.assignedTo = d.assignedTo
      /\ r5.acceptanceStatus = d.acceptanceStatus /\ r5.isDeleted = x
  BY <1>1
<1> HIDE DEF r1, r2, r3, r4, r5
<1>8. \A r \in {r1, r2, r3, r4, r5} :
          r = [status |-> r.status, assignedTo |-> r.assignedTo,
               acceptanceStatus |-> r.acceptanceStatus, isDeleted |-> r.isDeleted]
  BY <1>2, TicketByFields
<1>9. /\ r1 = [status |-> s, assignedTo |-> u,
               acceptanceStatus |-> d.acceptanceStatus, isDeleted |-> d.isDeleted]
      /\ r2 = [status |-> d.status, assignedTo |-> u,
               acceptanceStatus |-> a, isDeleted |-> d.isDeleted]
      /\ r3 = [status |-> s, assignedTo |-> d.assignedTo,
               acceptanceStatus |-> a, isDeleted |-> d.isDeleted]
      /\ r4 = [status |-> s, assignedTo |-> u,
               acceptanceStatus |-> a, isDeleted |-> d.isDeleted]
      /\ r5 = [status |-> d.status, assignedTo |-> d.assignedTo,
               acceptanceStatus |-> d.acceptanceStatus, isDeleted |-> x]
  BY <1>3, <1>4, <1>5, <1>6, <1>7, <1>8
<1> QED
  BY <1>9 DEF r1, r2, r3, r4, r5

\* What each handler makes of a ticket.
LEMMA HandlersPatches ==
    ASSUME NEW d \in TicketType, NEW p
    PROVE  LET new == [f \in DOMAIN d |-> IF f \in DOMAIN p THEN p[f] ELSE d[f]] IN
           /\ p = [status |-> p.status] => new = [d EXCEPT !.status = p.status, !.assignedTo = d.assignedTo]
           /\ p = [assignedTo |-> p.assignedTo, acceptanceStatus |-> "pending"] =>
                  new = [d EXCEPT !.assignedTo = p.assignedTo, !.acceptanceStatus = "pending"]
           /\ p = [acceptanceStatus |-> "accepted", acceptedAt |-> 1, status |-> "in_progress"] =>
                  new = [d EXCEPT !.acceptanceStatus = "accepted", !.status = "in_progress"]
           /\ p = [acceptanceStatus |-> "rejected", assignedTo |-> NoUser, status |-> "open"] =>
                  new = [d EXCEPT !.acceptanceStatus = "rejected", !.status = "open", !.assignedTo = NoUser]
           /\ p = [isDeleted |-> TRUE] => new = [d EXCEPT !.isDeleted = TRUE]
<1> DEFINE new == [f \in DOMAIN d |-> IF f \in DOMAIN p THEN p[f] ELSE d[f]]
<1>0. DOMAIN d = {"status", "assignedTo", "acceptanceStatus", "isDeleted"}
  BY DEF TicketType
<1>1. new = [status           |-> IF "status" \in DOMAIN p THEN p.status ELSE d.status,
             assignedTo       |-> IF "assignedTo" \in DOMAIN p THEN p.assignedTo ELSE d.assignedTo,
             acceptanceStatus |-> IF "acceptanceStatus" \in DOMAIN p THEN p.acceptanceStatus
                                  ELSE d.acceptanceStatus,
             isDeleted        |-> IF "isDeleted" \in DOMAIN p THEN p.isDeleted ELSE d.isDeleted]
  BY PatchedTicket
<1> HIDE DEF new
<1>2. ASSUME p = [status |-> p.status]
      PROVE  new = [d EXCEPT !.status = p.status, !.assignedTo = d.assignedTo]
  <2>1. new = [status |-> p.status, assignedTo |-> d.assignedTo,
               acceptanceStatus |-> d.acceptanceStatus, isDeleted |-> d.isDeleted]
    BY <1>1, <1>2
  <2> DEFINE r == [d EXCEPT !.status = p.status, !.assignedTo = d.assignedTo]
  <2>2. DOMAIN r = {"status", "assignedTo", "acceptanceStatus", "isDeleted"} /\ r = [f \in DOMAIN r |-> r[f]]
    BY <1>0
  <2>3. /\ r.status = p.status /\ r.assignedTo = d.assignedTo
        /\ r.acceptanceStatus = d.acceptanceStatus /\ r.isDeleted = d.isDeleted
    BY <1>0
  <2> HIDE DEF r
  <2>4. new = r
    BY <2>1, <2>2, <2>3, TicketByFields
  <2> QED
    BY <2>4 DEF r
<1>3. ASSUME p = [assignedTo |-> p.assignedTo, acceptanceStatus |-> "pending"]
      PROVE  new = [d EXCEPT !.assignedTo = p.assignedTo, !.acceptanceStatus = "pending"]
  <2>1. new = [status |-> d.status, assignedTo |-> p.assignedTo,
               acceptanceStatus |-> "pending", isDeleted |-> d.isDeleted]
    BY <1>1, <1>3
  <2> DEFINE r == [d EXCEPT !.assignedTo = p.assignedTo, !.acceptanceStatus = "pending"]
  <2>2. DOMAIN r = {"status", "assignedTo", "acceptanceStatus", "isDeleted"} /\ r = [f \in DOMAIN r |-> r[f]]
    BY <1>0
  <2>3. /\ r.status = d.status /\ r.assignedTo = p.assignedTo
        /\ r.acceptanceStatus = "pending" /\ r.isDeleted = d.isDeleted
    BY <1>0
  <2> HIDE DEF r
  <2>4. new = r
    BY <2>1, <2>2, <2>3, TicketByFields
  <2> QED
    BY <2>4 DEF r
<1>4. ASSUME p = [acceptanceStatus |-> "accepted", acceptedAt |-> 1, status |-> "in_progress"]
      PROVE  new = [d EXCEPT !.acceptanceStatus = "accepted", !.status = "in_progress"]
  <2>1. new = [status |-> "in_progress", assignedTo |-> d.assignedTo,
               acceptanceStatus |-> "accepted", isDeleted |-> d.isDeleted]
    BY <1>1, <1>4
  <2> DEFINE r == [d EXCEPT !.acceptanceStatus = "accepted", !.status = "in_progress"]
  <2>2. DOMAIN r = {"status", "assignedTo", "acceptanceStatus", "isDeleted"} /\ r = [f \in DOMAIN r |-> r[f]]
    BY <1>0
  <2>3. /\ r.status = "in_progress" /\ r.assignedTo = d.assignedTo
        /\ r.acceptanceStatus = "accepted" /\ r.isDeleted = d.isDeleted
    BY <1>0
  <2> HIDE DEF r
  <2>4. new = r
    BY <2>1, <2>2, <2>3, TicketByFields
  <2> QED
    BY <2>4 DEF r
<1>5. ASSUME p = [acceptanceStatus |-> "rejected", assignedTo |-> NoUser, status |-> "open"]
      PROVE  new = [d EXCEPT !.acceptanceStatus = "rejected", !.status = "open", !.assignedTo = NoUser]
  <2>1. new = [status |-> "open", assignedTo |-> NoUser,
               acceptanceStatus |-> "rejected", isDeleted |-> d.isDeleted]
    BY <1>1, <1>5
  <2> DEFINE r == [d EXCEPT !.acceptanceStatus = "rejected", !.status = "open", !.assignedTo = NoUser]
  <2>2. DOMAIN r = {"status", "assignedTo", "acceptanceStatus", "isDeleted"} /\ r = [f \in DOMAIN r |-> r[f]]
    BY <1>0
  <2>3. /\ r.status = "open" /\ r.assignedTo = NoUser
        /\ r.acceptanceStatus = "rejected" /\ r.isDeleted = d.isDeleted
    BY <1>0
  <2> HIDE DEF r
  <2>4. new = r
    BY <2>1, <2>2, <2>3, TicketByFields
  <2> QED
    BY <2>4 DEF r
<1>6. ASSUME p = [isDeleted |-> TRUE]
      PROVE  new = [d EXCEPT !.isDeleted = TRUE]
  <2>1. new = [status |-> d.status, assignedTo |-> d.assignedTo,
               acceptanceStatus |-> d.acceptanceStatus, isDeleted |-> TRUE]
    BY <1>1, <1>6
  <2> DEFINE r == [d EXCEPT !.isDeleted = TRUE]
  <2>2. DOMAIN r = {"status", "assignedTo", "acceptanceStatus", "isDeleted"} /\ r = [f \in DOMAIN r |-> r[f]]
    BY <1>0
  <2>3. /\ r.status = d.status /\ r.assignedTo = d.assignedTo
        /\ r.acceptanceStatus = d.acceptanceStatus /\ r.isDeleted = TRUE
    BY <1>0
  <2> HIDE DEF r
  <2>4. new = r
    BY <2>1, <2>2, <2>3, TicketByFields
  <2> QED
    BY <2>4 DEF r
<1> QED
  BY <1>2, <1>3, <1>4, <1>5, <1>6 DEF new

\* Whatever the life cycle allows keeps the types of the ticket.
LEMMA LifeStep ==
    ASSUME LifeTyped, Life!Next
    PROVE  LifeTyped'
<1>1. Agents' = Agents
  BY DEF Agents
<1>2. CASE Life!Create(TheTicket)
  <2> DEFINE new == [status |-> "open", assignedTo |-> NoUser,
                     acceptanceStatus |-> "pending", isDeleted |-> FALSE]
  <2>1. DOMAIN life' = {TheTicket} /\ life'[TheTicket] = new
    BY <1>2 DEF Life!Create, LifeTyped
  <2>2. new \in TicketType
    BY DEF TicketType, Statuses
  <2> QED
    BY <1>1, <2>1, <2>2 DEF LifeTyped, Exists, TicketType
<1>3. ASSUME ~Life!Create(TheTicket)
      PROVE  LifeTyped'
  <2>1. Exists /\ life[TheTicket] \in TicketType
    BY <1>3 DEF Life!Next, Life!Update, Life!Assign, Life!Accept, Life!Reject, Life!Delete,
       Life!Undecided, Life!Live, Exists, LifeTyped, TicketType
  <2>2. DOMAIN life' = DOMAIN life
    BY <1>3 DEF Life!Next, Life!Update, Life!Assign, Life!Accept, Life!Reject, Life!Delete
  <2>3. life'[TheTicket] \in TicketType
    <3> DEFINE d == life[TheTicket]
    <3>1. \/ \E s \in Statuses, u \in Agents \cup {NoUser} :
                life'[TheTicket] = [d EXCEPT !.status = s, !.assignedTo = u]
          \/ \E u \in Agents : life'[TheTicket] = [d EXCEPT !.assignedTo = u, !.acceptanceStatus = "pending"]
          \/ life'[TheTicket] = [d EXCEPT !.acceptanceStatus = "accepted", !.status = "in_progress"]
          \/ life'[TheTicket] = [d EXCEPT !.acceptanceStatus = "rejected", !.status = "open", !.assignedTo = NoUser]
          \/ life'[TheTicket] = [d EXCEPT !.isDeleted = TRUE]
      <4>1. d = life[TheTicket] /\ TheTicket \in DOMAIN life
        BY <2>1 DEF Exists
      <4> HIDE DEF d
      <4>2. CASE Life!Update(TheTicket)
        BY <4>1, <4>2 DEF Life!Update, Statuses
      <4>3. CASE Life!Assign(TheTicket)
        BY <4>1, <4>3 DEF Life!Assign
      <4>4. CASE Life!Accept(TheTicket)
        BY <4>1, <4>4 DEF Life!Accept
      <4>5. CASE Life!Reject(TheTicket)
        BY <4>1, <4>5 DEF Life!Reject
      <4>6. CASE Life!Delete(TheTicket)
        BY <4>1, <4>6 DEF Life!Delete
      <4> QED
        BY <1>3, <4>2, <4>3, <4>4, <4>5, <4>6 DEF Life!Next
    <3> HIDE DEF d
    <3> QED
      BY <2>1, <3>1, ChangedTicket DEF d, TicketType, Statuses
  <2> QED
    BY <1>1, <2>1, <2>2, <2>3 DEF LifeTyped, Exists, TicketType
<1> QED
  BY <1>2, <1>3

\* The user's own requests are operations of the life cycle too: the checks of
\* the handlers and of the schema admit no others.
LEMMA OwnRequest ==
    ASSUME ScreensInv, NEW op, NEW arg, Allowed(op), ValidArgument(op, arg), Applied(op, arg),
           op = "create" \/ op \in Operations,
           op = "update" => arg \in Statuses,
           op = "assign" => arg \in Agents \cup {NoUser}
    PROVE  Life!Next
<1>1. CASE op = "create"
  BY <1>1 DEF Applied, Life!Next
<1>2. CASE op # "create"
  <2> DEFINE d == life[TheTicket]
             new == [f \in DOMAIN d |-> IF f \in DOMAIN Patch(op, arg) THEN Patch(op, arg)[f] ELSE d[f]]
  <2>1. Exists /\ d \in TicketType /\ ~d.isDeleted
    BY <1>2 DEF Allowed, Rules!Found, Rules!Stored, ScreensInv, LifeTyped, Exists, TicketType
  <2>2. life' = [life EXCEPT ![TheTicket] = new]
    BY <1>2 DEF Applied
  <2>3. Life!Live(TheTicket)
    BY <2>1 DEF Life!Live, Exists
  <2>4. DOMAIN d = {"status", "assignedTo", "acceptanceStatus", "isDeleted"}
    BY <2>1 DEF TicketType
  <2>5. CASE op = "update"
    <3>1. Patch(op, arg) = [status |-> arg]
      BY <2>5 DEF Patch
    <3>2. new = [d EXCEPT !.status = arg, !.assignedTo = d.assignedTo]
      <4>1. Patch(op, arg) = [status |-> Patch(op, arg).status] /\ Patch(op, arg).status = arg
        BY <3>1
      <4>2. new = [d EXCEPT !.status = Patch(op, arg).status, !.assignedTo = d.assignedTo]
        BY <2>1, <4>1, HandlersPatches
      <4> QED
        BY <4>1, <4>2, Zenon
    <3>3. Life!Update(TheTicket)
      <4>1. life' = [life EXCEPT ![TheTicket].status = arg, ![TheTicket].assignedTo = d.assignedTo]
        BY <2>2, <3>2
      <4> QED
        BY <2>1, <2>3, <2>5, <4>1 DEF Life!Update, Statuses, TicketType
    <3> QED
      BY <3>3 DEF Life!Next
  <2>6. CASE op = "assign"
    <3>1. Patch(op, arg) = [assignedTo |-> arg, acceptanceStatus |-> "pending"]
      BY <2>6 DEF Patch
    <3>2. arg \in Agents
      BY <2>6 DEF ValidArgument
    <3>3. new = [d EXCEPT !.assignedTo = arg, !.acceptanceStatus = "pending"]
      <4>1. /\ Patch(op, arg) = [assignedTo |-> Patch(op, arg).assignedTo, acceptanceStatus |-> "pending"]
            /\ Patch(op, arg).assignedTo = arg
        BY <3>1
      <4>2. new = [d EXCEPT !.assignedTo = Patch(op, arg).assignedTo, !.acceptanceStatus = "pending"]
        BY <2>1, <4>1, HandlersPatches
      <4> QED
        BY <4>1, <4>2, Zenon
    <3>4. Life!Assign(TheTicket)
      <4>1. life' = [life EXCEPT ![TheTicket].assignedTo = arg, ![TheTicket].acceptanceStatus = "pending"]
        BY <2>2, <3>3
      <4> QED
        BY <2>3, <3>2, <4>1 DEF Life!Assign
    <3> QED
      BY <3>4 DEF Life!Next
  <2>7. ASSUME op \in {"accept", "reject"}
        PROVE  Life!Undecided(TheTicket)
    <3>1. Document.assignedTo = me /\ Document.acceptanceStatus # "accepted"
      BY <2>7 DEF Allowed, Rules!CanUserDecide
    <3>2. d.assignedTo = me /\ d.acceptanceStatus # "accepted"
      BY <2>4, <3>1 DEF Document
    <3> QED
      BY <2>3, <3>2, OwnerAssumption DEF Life!Undecided, ScreensInv, ScreensTyped
  <2>8. CASE op = "accept"
    <3>1. Patch(op, arg) = [acceptanceStatus |-> "accepted", acceptedAt |-> 1, status |-> "in_progress"]
      BY <2>8 DEF Patch, Rules!Acceptance
    <3>2. new = [d EXCEPT !.acceptanceStatus = "accepted", !.status = "in_progress"]
      BY <2>1, <3>1, HandlersPatches
    <3>3. Life!Accept(TheTicket)
      <4>1. life' = [life EXCEPT ![TheTicket].acceptanceStatus = "accepted", ![TheTicket].status = "in_progress"]
        BY <2>2, <3>2
      <4> QED
        BY <2>7, <2>8, <4>1 DEF Life!Accept
    <3> QED
      BY <3>3 DEF Life!Next
  <2>9. CASE op = "reject"
    <3>1. Patch(op, arg) = [acceptanceStatus |-> "rejected", assignedTo |-> NoUser, status |-> "open"]
      BY <2>9 DEF Patch, Rules!Rejection
    <3>2. new = [d EXCEPT !.acceptanceStatus = "rejected", !.status = "open", !.assignedTo = NoUser]
      BY <2>1, <3>1, HandlersPatches
    <3>3. Life!Reject(TheTicket)
      <4>1. life' = [life EXCEPT ![TheTicket].acceptanceStatus = "rejected", ![TheTicket].status = "open",
                                 ![TheTicket].assignedTo = NoUser]
        BY <2>2, <3>2
      <4> QED
        BY <2>7, <2>9, <4>1 DEF Life!Reject
    <3> QED
      BY <3>3 DEF Life!Next
  <2>10. CASE op = "delete"
    <3>1. Patch(op, arg) = [isDeleted |-> TRUE]
      BY <2>10 DEF Patch, Rules!Deletion
    <3>2. new = [d EXCEPT !.isDeleted = TRUE]
      BY <2>1, <3>1, HandlersPatches
    <3>3. Life!Delete(TheTicket)
      <4>1. life' = [life EXCEPT ![TheTicket].isDeleted = TRUE]
        BY <2>2, <3>2
      <4> QED
        BY <2>3, <4>1 DEF Life!Delete
    <3> QED
      BY <3>3 DEF Life!Next
  <2> QED
    BY <1>2, <2>5, <2>6, <2>8, <2>9, <2>10 DEF Operations
<1> QED
  BY <1>1, <1>2

\* A change of the ticket makes every copy an earlier edition.
LEMMA ChangedEdition ==
    ASSUME ScreensInv, edition' = edition + 1, UNCHANGED <<me, page, cache, owed>>,
           LifeTyped', MutationTyped'
    PROVE  ScreensInv'
<1>1. \A k \in Keys : IsCopy(cache[k])'
  BY CopyStays DEF ScreensInv, ScreensTyped
<1>2. ScreensTyped'
  BY DEF ScreensInv, ScreensTyped
<1>3. WritesAreShown'
  BY DEF ScreensInv, ScreensTyped, WritesAreShown, Shown, NotOlder, NoCall
<1> QED
  BY <1>1, <1>2, <1>3 DEF ScreensInv

LEMMA ServeMutationInv ==
    ASSUME ScreensInv, ServeMutation
    PROVE  ScreensInv'
<1>1. doing # Idle /\ doing.phase = "sent"
  BY DEF ServeMutation, Idle
<1>2. doing = [phase |-> doing.phase, op |-> doing.op, arg |-> doing.arg,
               at |-> doing.at, stayed |-> doing.stayed]
  BY <1>1 DEF ScreensInv, MutationTyped
<1>3. ASSUME NEW answer \in {"ok", "refused"}, doing' = [doing EXCEPT !.phase = answer, !.arg = NoUser],
             page' = page
      PROVE  MutationTyped'
  <2>1. doing' = [phase |-> answer, op |-> doing.op, arg |-> NoUser,
                  at |-> doing.at, stayed |-> doing.stayed]
    BY <1>2, <1>3
  <2>2. /\ doing'.phase = answer /\ doing'.op = doing.op /\ doing'.arg = NoUser
        /\ doing'.at = doing.at /\ doing'.stayed = doing.stayed
    BY <2>1
  <2> QED
    BY <1>1, <1>3, <2>1, <2>2 DEF ScreensInv, MutationTyped, Agents
<1>4. CASE Allowed(doing.op) /\ ValidArgument(doing.op, doing.arg)
  <2>1. Applied(doing.op, doing.arg) /\ edition' = edition + 1
    BY <1>4 DEF ServeMutation
  <2>2. Life!Next
    BY <1>1, <1>4, <2>1, OwnRequest DEF ScreensInv, MutationTyped
  <2>3. LifeTyped'
    BY <2>2, LifeStep DEF ScreensInv
  <2>4. MutationTyped'
    BY <1>3, <1>4 DEF ServeMutation
  <2> QED
    BY <2>1, <2>3, <2>4, ChangedEdition DEF ServeMutation
<1>5. CASE ~(Allowed(doing.op) /\ ValidArgument(doing.op, doing.arg))
  <2>1. MutationTyped'
    BY <1>3, <1>5 DEF ServeMutation
  <2>2. WritesAreShown'
    BY <1>5 DEF ServeMutation, ScreensInv, WritesAreShown, Shown, NotOlder, NoCall
  <2> QED
    BY <1>5, <2>1, <2>2, QuietScreens DEF ServeMutation, ScreensInv, ScreensTyped
<1> QED
  BY <1>4, <1>5

LEMMA ElsewhereInv ==
    ASSUME ScreensInv, Elsewhere
    PROVE  ScreensInv'
<1>1. LifeTyped'
  BY LifeStep DEF ScreensInv, Elsewhere
<1>2. MutationTyped'
  BY DEF Elsewhere, ScreensInv, MutationTyped, Idle, Agents
<1> QED
  BY <1>1, <1>2, ChangedEdition DEF Elsewhere

LEMMA ScreensInit ==
    ASSUME Init
    PROVE  ScreensInv
<1> DEFINE entry(k) == [shows |-> "nothing", doc |-> NoDoc, edition |-> 0,
                        call |-> IF k = "list" THEN Fetch ELSE NoCall]
<1>1. DOMAIN cache = Keys /\ \A k \in Keys : cache[k] = entry(k)
  BY DEF Init
<1>2. \A k \in Keys : IsCopy(entry(k))
  BY DEF Init, IsCopy, Agrees, Fetch, NoCall
<1>3. \A k \in Keys : IsCopy(cache[k])
  BY <1>1, <1>2
<1>4. ScreensTyped /\ LifeTyped
  BY <1>1 DEF Init, At, ScreensTyped, LifeTyped, Exists, Places
<1>5. MutationTyped /\ WritesAreShown
  BY DEF Init, MutationTyped, WritesAreShown
<1> QED
  BY <1>3, <1>4, <1>5 DEF ScreensInv

LEMMA ScreensStep ==
    ASSUME ScreensInv, Next
    PROVE  ScreensInv'
  BY ServeFetchInv, FetchAnsweredInv, FetchFailsInv, GoToInv, ModalInv, SubmitInv, PollInv,
     SubmitTicketInv, ServeMutationInv, MutationFailsInv, MutationSucceedsInv, ElsewhereInv
  DEF Next, Places, Operations

\* Where the ticket pages are not open, nothing of them changes.
LEMMA ScreensStutter ==
    ASSUME ScreensInv, UNCHANGED vars
    PROVE  ScreensInv'
<1>1. MutationTyped'
  BY DEF vars, ScreensInv, MutationTyped, Idle, Agents
<1>2. WritesAreShown'
  BY DEF vars, ScreensInv, WritesAreShown, Shown, NotOlder, NoCall
<1> QED
  BY <1>1, <1>2, QuietScreens DEF vars, ScreensInv, ScreensTyped

-----------------------------------------------------------------------------
(* The users' page.                                                        *)

\* What the list shows stays right, or becomes an earlier edition.
LEMMA ListStays ==
    ASSUME changes \in Nat, UNCHANGED me,
           UNCHANGED <<own, account, changes>> \/ changes' = changes + 1
    PROVE  \A c : Lists(c) => Lists(c)'
<1> TAKE c
<1>1. CASE UNCHANGED <<own, account, changes>>
  BY <1>1 DEF Lists, Staff!Admitted, Staff!Listed, Staff!Exists, Staff!MyRole
<1>2. CASE changes' = changes + 1
  BY <1>2 DEF Lists
<1> QED
  BY <1>1, <1>2

\* The account stays: what has to be shown of the list, the form and the mutation.
LEMMA QuietStaff ==
    ASSUME StaffInv, UNCHANGED <<own, account, changes, me>>,
           DOMAIN list' = {"shows", "account", "edition", "call"},
           list'.call \in {Staff!NoCall, Staff!Fetch} \/ list'.call.phase = "answered",
           Lists(list'), list'.call.phase = "answered" => Lists(list'.call.data),
           FormTyped', SendingTyped'
    PROVE  StaffInv'
<1>1. \A c : Lists(c) => Lists(c)'
  BY ListStays DEF StaffInv
<1>2. Lists(list)' /\ (list'.call.phase = "answered" => Lists(list.call.data)')
  BY <1>1
<1> QED
  BY <1>2 DEF StaffInv, Staff!NoCall, Staff!Fetch

LEMMA SameList ==
    ASSUME StaffInv, UNCHANGED <<own, account, changes, me, list>>, FormTyped', SendingTyped'
    PROVE  StaffInv'
  BY QuietStaff DEF StaffInv

LEMMA SameForm ==
    ASSUME FormTyped, UNCHANGED <<account, changes, form>>
    PROVE  FormTyped'
  BY DEF FormTyped, Staff!Closed, Staff!Exists

LEMMA SameSending ==
    ASSUME SendingTyped, UNCHANGED <<account, changes, sending, me>>
    PROVE  SendingTyped'
<1>1. \A op : Staff!Bodies(op)' = Staff!Bodies(op)
  BY DEF Staff!Bodies, Staff!RoleOptions
<1> QED
  BY <1>1 DEF SendingTyped, Staff!Idle

\* The list is fetched, answered or fetched anew.
LEMMA ListFields ==
    ASSUME StaffInv, NEW call
    PROVE  LET l == [list EXCEPT !.call = call] IN
           /\ DOMAIN l = {"shows", "account", "edition", "call"}
           /\ l.shows = list.shows /\ l.account = list.account
           /\ l.edition = list.edition /\ l.call = call
           /\ Lists(l)
<1> DEFINE l == [list EXCEPT !.call = call]
<1>1. /\ DOMAIN l = {"shows", "account", "edition", "call"}
      /\ l.shows = list.shows /\ l.account = list.account
      /\ l.edition = list.edition /\ l.call = call
  BY DEF StaffInv
<1> HIDE DEF l
<1>2. Lists(l)
  BY <1>1 DEF StaffInv, Lists
<1> QED
  BY <1>1, <1>2 DEF l

LEMMA AnswerIsRight ==
    ASSUME changes \in Nat
    PROVE  Lists(Staff!Answer)
<1>1. /\ Staff!Answer.edition = changes
      /\ Staff!Answer.shows = "account" => Staff!Admitted /\ Staff!Listed
      /\ Staff!Admitted /\ Staff!Listed => Staff!Answer.account = account
  BY DEF Staff!Answer
<1> QED
  BY <1>1 DEF Lists

LEMMA ListFetchedInv ==
    ASSUME StaffInv, UNCHANGED <<own, account, changes, form, sending, me>>,
           list' = [list EXCEPT !.call = Staff!Fetch]
    PROVE  StaffInv'
<1>1. Staff!Fetch.phase # "answered"
  BY DEF Staff!Fetch
<1>2. FormTyped' /\ SendingTyped'
  BY SameForm, SameSending DEF StaffInv
<1> QED
  BY <1>1, <1>2, ListFields, QuietStaff

LEMMA ServeListInv ==
    ASSUME StaffInv, Staff!ServeList, UNCHANGED me
    PROVE  StaffInv'
<1> DEFINE call == [phase |-> "answered", data |-> Staff!Answer]
<1>1. list' = [list EXCEPT !.call = call] /\ UNCHANGED <<own, account, changes, form, sending>>
  BY DEF Staff!ServeList
<1>2. call.phase = "answered" /\ call.data = Staff!Answer
  OBVIOUS
<1>3. Lists(Staff!Answer)
  BY AnswerIsRight DEF StaffInv
<1>4. FormTyped' /\ SendingTyped'
  BY <1>1, SameForm, SameSending DEF StaffInv
<1> HIDE DEF call
<1> QED
  BY <1>1, <1>2, <1>3, <1>4, ListFields, QuietStaff

LEMMA ListAnsweredInv ==
    ASSUME StaffInv, Staff!ListAnswered, UNCHANGED me
    PROVE  StaffInv'
<1> DEFINE data == list.call.data
<1>1. /\ list' = [shows |-> data.shows, account |-> data.account, edition |-> data.edition,
                  call |-> Staff!NoCall]
      /\ UNCHANGED <<own, account, changes, form, sending>>
  BY DEF Staff!ListAnswered
<1>2. Lists(data)
  BY DEF Staff!ListAnswered, StaffInv
<1> HIDE DEF data
<1>3. /\ DOMAIN list' = {"shows", "account", "edition", "call"}
      /\ list'.shows = data.shows /\ list'.account = data.account
      /\ list'.edition = data.edition /\ list'.call = Staff!NoCall
  BY <1>1
<1>4. Lists(list') /\ Staff!NoCall.phase # "answered"
  BY <1>2, <1>3 DEF Lists, Staff!NoCall
<1>5. FormTyped' /\ SendingTyped'
  BY <1>1, SameForm, SameSending DEF StaffInv
<1> QED
  BY <1>1, <1>3, <1>4, <1>5, QuietStaff

\* A modal is filled from the copy the list shows.
LEMMA OpenFormInv ==
    ASSUME StaffInv, UNCHANGED me, NEW op \in {"create", "update", "delete"}, Staff!OpenModal(op)
    PROVE  StaffInv'
<1>1. /\ UNCHANGED <<own, account, changes, list, sending>>
      /\ form' = [kind |-> op, account |-> list.account, edition |-> list.edition]
  BY DEF Staff!OpenModal
<1>2. form'.kind = op /\ form'.account = list.account /\ form'.edition = list.edition
  BY <1>1
<1>3. op = "update" => list.shows = "account"
  BY DEF Staff!OpenModal, Staff!Offers
<1>4. FormTyped'
  BY <1>1, <1>2, <1>3 DEF StaffInv, Lists, FormTyped, Staff!Listed, Staff!Exists
<1>5. SendingTyped'
  BY <1>1, SameSending DEF StaffInv
<1> QED
  BY <1>1, <1>4, <1>5, SameList

LEMMA CloseFormInv ==
    ASSUME StaffInv, UNCHANGED me, Staff!CloseModal
    PROVE  StaffInv'
<1>1. FormTyped'
  BY DEF Staff!CloseModal, FormTyped
<1>2. SendingTyped'
  BY SameSending DEF Staff!CloseModal, StaffInv
<1> QED
  BY <1>1, <1>2, SameList DEF Staff!CloseModal

\* What was not touched is as it was in the copy the form was filled from.
LEMMA SubmitFormInv ==
    ASSUME StaffInv, UNCHANGED me, Staff!Submit
    PROVE  StaffInv'
<1>1. PICK body \in Staff!Bodies(form.kind) :
          sending' = [phase |-> "sent", op |-> form.kind, body |-> body,
                      touched |-> Staff!Touched(form.kind, body), edition |-> form.edition]
  BY DEF Staff!Submit
<1>2. /\ sending'.phase = "sent" /\ sending'.op = form.kind /\ sending'.body = body
      /\ sending'.touched = Staff!Touched(form.kind, body) /\ sending'.edition = form.edition
  BY <1>1
<1>3. /\ form # Staff!Closed /\ UNCHANGED <<own, account, changes, list, form>>
  BY DEF Staff!Submit
<1>4. \A op : Staff!Bodies(op)' = Staff!Bodies(op)
  BY DEF Staff!Bodies, Staff!RoleOptions
<1>5. ASSUME form.kind = "update", form.edition = changes
      PROVE  /\ account \in Staff!Rules!Accounts
             /\ \A f \in {"role", "isActive"} \ Staff!Touched(form.kind, body) : body[f] = account[f]
  <2>1. form.account = account /\ account # Staff!NoAccount
    BY <1>3, <1>5 DEF StaffInv, FormTyped, Staff!Exists
  <2>2. DOMAIN body = {"role", "isActive"}
    BY <1>5 DEF Staff!Bodies
  <2> QED
    BY <1>5, <2>1, <2>2 DEF StaffInv, Staff!Touched, Staff!Filled
<1>6. SendingTyped'
  BY <1>2, <1>3, <1>4, <1>5 DEF SendingTyped, StaffInv, FormTyped
<1>7. FormTyped'
  BY <1>3, SameForm DEF StaffInv
<1> QED
  BY <1>3, <1>6, <1>7, SameList

\* The account changes: what was shown or asked for before is an earlier edition.
LEMMA AccountChanges ==
    ASSUME StaffInv, UNCHANGED <<own, list, form, me>>, changes' = changes + 1,
           account' \in Staff!Rules!Accounts,
           sending' = sending \/ \E op : sending' = [phase |-> "ok", op |-> op]
    PROVE  StaffInv'
<1>1. \A c : Lists(c) => Lists(c)'
  BY ListStays DEF StaffInv
<1>2. Lists(list)' /\ (list'.call.phase = "answered" => Lists(list.call.data)')
  BY <1>1 DEF StaffInv
<1>3. FormTyped'
  BY DEF StaffInv, FormTyped, Staff!Closed
<1>4. SendingTyped'
  <2>1. \A op : Staff!Bodies(op)' = Staff!Bodies(op)
    BY DEF Staff!Bodies, Staff!RoleOptions
  <2>2. CASE sending' = sending
    BY <2>1, <2>2 DEF StaffInv, SendingTyped, Staff!Idle
  <2>3. CASE \E op : sending' = [phase |-> "ok", op |-> op]
    <3>1. sending'.phase = "ok"
      BY <2>3
    <3> QED
      BY <3>1 DEF SendingTyped
  <2> QED
    BY <2>2, <2>3
<1> QED
  BY <1>2, <1>3, <1>4 DEF StaffInv, Staff!NoCall, Staff!Fetch

LEMMA OptionsAreRoles == Staff!RoleOptions \subseteq Staff!Rules!Roles
  BY DEF Staff!RoleOptions, Staff!Roles, Staff!Below, Staff!Rules!Roles, Staff!Rules!Below

\* What the handlers write is an account.
LEMMA ResultIsAccount ==
    ASSUME StaffInv, NEW op \in {"create", "update", "delete"}, NEW body \in Staff!Bodies(op),
           Staff!Allowed(op, body)
    PROVE  Staff!Result(op, body) \in Staff!Rules!Accounts
<1>1. CASE op = "create"
  BY <1>1, OptionsAreRoles DEF Staff!Bodies, Staff!Result, Staff!Rules!Accounts
<1>2. CASE op # "create"
  <2> DEFINE set == Staff!Rules!Modified(account, body)
  <2>1. account \in Staff!Rules!Accounts
    BY <1>2 DEF Staff!Allowed, Staff!Exists, StaffInv
  <2>2. /\ "role" \in DOMAIN body => body.role \in Staff!Rules!Roles
        /\ "isActive" \in DOMAIN body => body.isActive \in BOOLEAN
    <3>1. CASE op = "update"
      <4>1. body \in [role : Staff!RoleOptions, isActive : BOOLEAN]
        BY <3>1 DEF Staff!Bodies
      <4> QED
        BY <4>1, OptionsAreRoles
    <3>2. CASE op = "delete"
      <4>1. body = [isActive |-> FALSE]
        BY <3>2 DEF Staff!Bodies
      <4> QED
        BY <4>1
    <3> QED
      BY <1>2, <3>1, <3>2
  <2>3. /\ "role" \in DOMAIN set => set.role \in Staff!Rules!Roles
        /\ "isActive" \in DOMAIN set => set.isActive \in BOOLEAN
    BY <2>2 DEF Staff!Rules!Modified
  <2>4. Staff!Result(op, body) = Staff!Rules!Written(account, set)
    BY <1>2 DEF Staff!Result
  <2> HIDE DEF set
  <2> QED
    BY <2>1, <2>3, <2>4 DEF Staff!Rules!Written, Staff!Rules!Accounts
<1> QED
  BY <1>1, <1>2

LEMMA ServeInv ==
    ASSUME StaffInv, UNCHANGED me, Staff!Serve
    PROVE  StaffInv'
<1>1. /\ sending # Staff!Idle /\ sending.phase = "sent"
      /\ sending.op \in {"create", "update", "delete"} /\ sending.body \in Staff!Bodies(sending.op)
  BY DEF Staff!Serve, Staff!Idle, StaffInv, SendingTyped
<1>2. CASE Staff!Allowed(sending.op, sending.body)
  <2>1. Staff!Result(sending.op, sending.body) \in Staff!Rules!Accounts
    BY <1>1, <1>2, ResultIsAccount
  <2> QED
    BY <1>2, <2>1, AccountChanges DEF Staff!Serve
<1>3. CASE ~Staff!Allowed(sending.op, sending.body)
  <2>1. sending' = [phase |-> "refused"] /\ UNCHANGED <<own, account, changes, list, form>>
    BY <1>3 DEF Staff!Serve
  <2>2. SendingTyped'
    BY <2>1 DEF SendingTyped
  <2>3. FormTyped'
    BY <2>1, SameForm DEF StaffInv
  <2> QED
    BY <2>1, <2>2, <2>3, SameList
<1> QED
  BY <1>2, <1>3

LEMMA SentInv ==
    ASSUME StaffInv, UNCHANGED me, Staff!MutationSucceeds \/ Staff!MutationFails
    PROVE  StaffInv'
<1>1. SendingTyped'
  BY DEF Staff!MutationSucceeds, Staff!MutationFails, SendingTyped
<1>2. CASE Staff!MutationSucceeds
  <2>1. /\ UNCHANGED <<own, account, changes>>
        /\ list' = [list EXCEPT !.call = Staff!Fetch]
        /\ form' = Staff!Closed \/ form' = form
    BY <1>2 DEF Staff!MutationSucceeds
  <2>2. FormTyped'
    <3>1. CASE form' = Staff!Closed
      BY <3>1 DEF FormTyped, Staff!Closed
    <3>2. CASE form' = form
      BY <2>1, <3>2, SameForm DEF StaffInv
    <3> QED
      BY <2>1, <3>1, <3>2
  <2>3. Staff!Fetch.phase # "answered"
    BY DEF Staff!Fetch
  <2> QED
    BY <1>1, <2>1, <2>2, <2>3, ListFields, QuietStaff
<1>3. CASE Staff!MutationFails
  <2>1. FormTyped'
    BY <1>3, SameForm DEF Staff!MutationFails, StaffInv
  <2> QED
    BY <1>1, <1>3, <2>1, SameList DEF Staff!MutationFails
<1> QED
  BY <1>2, <1>3

LEMMA StaffStep ==
    ASSUME StaffInv, UNCHANGED me, Staff!Next
    PROVE  StaffInv'
<1>1. CASE Staff!Poll
  BY <1>1, ListFetchedInv DEF Staff!Poll
<1>2. CASE Staff!Elsewhere
  BY <1>2, AccountChanges DEF Staff!Elsewhere
<1> QED
  BY <1>1, <1>2, ServeListInv, ListAnsweredInv, OpenFormInv, CloseFormInv, SubmitFormInv,
     ServeInv, SentInv DEF Staff!Next

\* Where the users' page is not open, it is as if it had never been.
LEMMA AwayInv ==
    ASSUME list = Staff!Nowhere, form = Staff!Closed, sending = Staff!Idle, changes = 0,
           own \in BOOLEAN, account \in Staff!Rules!Accounts \cup {Staff!NoAccount}
    PROVE  StaffInv
<1>1. /\ DOMAIN list = {"shows", "account", "edition", "call"}
      /\ list.shows = "nothing" /\ list.edition = 0 /\ list.call = Staff!NoCall
  BY DEF Staff!Nowhere
<1>2. FormTyped /\ SendingTyped
  BY DEF FormTyped, SendingTyped
<1> QED
  BY <1>1, <1>2 DEF StaffInv, Lists, Staff!NoCall

LEMMA StaffStutter ==
    ASSUME StaffInv, UNCHANGED <<own, account, changes, list, form, sending, me>>
    PROVE  StaffInv'
<1>1. FormTyped' /\ SendingTyped'
  BY SameForm, SameSending DEF StaffInv
<1> QED
  BY <1>1, SameList

-----------------------------------------------------------------------------
(* All the pages.                                                          *)

LEMMA NextKeepsUser == Next => UNCHANGED me
  BY DEF Next, ServeFetch, FetchAnswered, FetchFails, GoTo, OpenModal, Submit, Poll, CloseModal,
     SubmitTicket, ServeMutation, MutationFails, MutationSucceeds, Elsewhere

LEMMA PagesInitInv == PagesInit => PagesInv
<1> SUFFICES ASSUME PagesInit PROVE PagesInv
  OBVIOUS
<1>1. ScreensInv
  BY ScreensInit DEF PagesInit
<1>2. CASE route = "users"
  <2>1. Role[me] \in Staff!Rules!Roles
    BY <1>1, RolesOfUsers DEF ScreensInv, ScreensTyped, Staff!Rules!Roles
  <2>2. /\ own \in BOOLEAN /\ account \in Staff!Rules!Accounts \cup {Staff!NoAccount}
        /\ list = Staff!Nowhere /\ form = Staff!Closed /\ sending = Staff!Idle /\ changes = 0
    <3>1. [role |-> Role[me], isActive |-> TRUE] \in Staff!Rules!Accounts
      BY <2>1 DEF Staff!Rules!Accounts
    <3> QED
      BY <1>2, <3>1 DEF PagesInit, Staff!Init
  <2>3. StaffInv
    BY <2>2, AwayInv
  <2> QED
    BY <1>1, <1>2, <2>3 DEF PagesInv, PagesInit
<1>3. CASE route = "tickets"
  <2>1. StaffInv
    BY <1>3, AwayInv DEF PagesInit, Staff!Away
  <2> QED
    BY <1>1, <1>3, <2>1 DEF PagesInv
<1> QED
  BY <1>2, <1>3 DEF PagesInit

LEMMA PagesStepInv == PagesInv /\ [PagesNext]_allVars => PagesInv'
<1> SUFFICES ASSUME PagesInv, [PagesNext]_allVars PROVE PagesInv'
  OBVIOUS
<1>1. CASE route = "tickets" /\ Next /\ UNCHANGED <<route, own, account, changes, list, form, sending>>
  <2>1. UNCHANGED me /\ ScreensInv' /\ StaffInv'
    BY <1>1, NextKeepsUser, ScreensStep, StaffStutter DEF PagesInv
  <2> QED
    BY <1>1, <2>1 DEF PagesInv
<1>2. CASE route = "users" /\ Staff!Next /\ UNCHANGED <<route, vars>>
  <2>1. ScreensInv' /\ StaffInv'
    BY <1>2, ScreensStutter, StaffStep DEF PagesInv, vars
  <2> QED
    BY <1>2, <2>1 DEF PagesInv, MayManageUsers, vars
<1>3. CASE GoToTickets
  <2>1. ScreensInv'
    BY <1>3, ScreensStutter DEF PagesInv, GoToTickets
  <2>2. StaffInv'
    <3>1. /\ list' = Staff!Nowhere /\ form' = Staff!Closed /\ sending' = Staff!Idle /\ changes' = 0
          /\ own' = FALSE /\ account' = Staff!NoAccount
      BY <1>3 DEF GoToTickets, Staff!Leave
    <3>2. /\ DOMAIN list' = {"shows", "account", "edition", "call"}
          /\ list'.shows = "nothing" /\ list'.edition = 0 /\ list'.call = Staff!NoCall
      BY <3>1 DEF Staff!Nowhere
    <3>3. FormTyped' /\ SendingTyped'
      BY <3>1 DEF FormTyped, SendingTyped
    <3>4. Lists(list)' /\ list'.call.phase # "answered"
      BY <3>1, <3>2 DEF Lists, Staff!NoCall
    <3>5. /\ own' \in BOOLEAN /\ changes' \in Nat
          /\ account' \in Staff!Rules!Accounts \cup {Staff!NoAccount}
      BY <3>1
    <3> QED
      BY <3>2, <3>3, <3>4, <3>5 DEF StaffInv, Staff!NoCall, Staff!Fetch, Staff!NoAccount
  <2> QED
    BY <1>3, <2>1, <2>2 DEF PagesInv, GoToTickets
<1>4. CASE UNCHANGED allVars
  <2>1. UNCHANGED vars /\ UNCHANGED <<route, own, account, changes, list, form, sending>>
    BY <1>4 DEF allVars, vars
  <2>2. ScreensInv' /\ StaffInv'
    BY <2>1, ScreensStutter, StaffStutter DEF PagesInv, vars
  <2> QED
    BY <2>1, <2>2 DEF PagesInv, MayManageUsers, vars
<1> QED
  BY <1>1, <1>2, <1>3, <1>4 DEF PagesNext

\* THEOREM: the invariant of the pages.  It types every variable and relates
\* what is shown, what is in flight and what the server keeps.
THEOREM PagesCorrect == PagesSpec => []PagesInv
<1>1. PagesInit => PagesInv
  BY PagesInitInv
<1>2. PagesInv /\ [PagesNext]_allVars => PagesInv'
  BY PagesStepInv
<1> QED
  BY <1>1, <1>2, PTL DEF PagesSpec

-----------------------------------------------------------------------------
(* What the pages offer.                                                   *)

\* The fields of the document are those of the ticket.
LEMMA DocumentFields ==
    ASSUME LifeTyped, Exists
    PROVE  /\ Document.createdBy = Owner
           /\ Document.status = life[TheTicket].status
           /\ Document.assignedTo = life[TheTicket].assignedTo
           /\ Document.acceptanceStatus = life[TheTicket].acceptanceStatus
<1>1. DOMAIN life[TheTicket] = {"status", "assignedTo", "acceptanceStatus", "isDeleted"}
  BY DEF LifeTyped
<1> QED
  BY <1>1 DEF Document

\* Staff may do to any ticket what their pages offer.
LEMMA StaffMay ==
    ASSUME ScreensInv, Visible, Role[me] \in {"admin", "manager"}
    PROVE  /\ Allowed("update") /\ Allowed("assign")
           /\ Role[me] = "admin" => Allowed("delete")
<1>1. Rules!Found(TheTicket)
  BY DEF Visible
<1>2. Allowed("update")
  BY <1>1 DEF Allowed, Rules!CanUserUpdateTicket, Rules!Staff
<1>3. Allowed("assign")
  BY <1>1 DEF Allowed, Rules!Authorized, Rules!RolePermissions
<1>4. ASSUME Role[me] = "admin" PROVE Allowed("delete")
  BY <1>1, <1>4 DEF Allowed, Rules!CanUserDeleteTicket
<1> QED
  BY <1>2, <1>3, <1>4

\* So may an agent, to the tickets that are theirs.
LEMMA AgentsMay ==
    ASSUME ScreensInv, Visible, Role[me] = "agent"
    PROVE  /\ MyPending(Document) => Allowed("accept") /\ Allowed("reject")
           /\ MyAccepted(Document) => Allowed("update")
<1>1. Rules!Found(TheTicket)
  BY DEF Visible
<1>2. ASSUME MyPending(Document) PROVE Allowed("accept") /\ Allowed("reject")
  BY <1>1, <1>2 DEF Allowed, Rules!CanUserDecide, MyPending, Mine
<1>3. ASSUME MyAccepted(Document) PROVE Allowed("update")
  BY <1>1, <1>3 DEF Allowed, Rules!CanUserUpdateTicket, MyAccepted, Mine
<1> QED
  BY <1>2, <1>3

\* And the customer, to a ticket nobody has started on.
LEMMA CustomersMay ==
    ASSUME ScreensInv, Visible, Document.createdBy = me, Document.status = "open"
    PROVE  Allowed("delete")
<1>1. Rules!Found(TheTicket)
  BY DEF Visible
<1> QED
  BY <1>1 DEF Allowed, Rules!CanUserDeleteTicket

LEMMA TicketChoices ==
    ASSUME PagesInv, ShowsTicket, NEW op \in Offers, NEW arg \in Arguments(op)
    PROVE  ValidArgument(op, arg) \/ UnfitChoice(op, arg)
<1>1. page.at \in Keys
  BY DEF ShowsTicket
<1>2. CASE op = "update"
  BY <1>2 DEF Arguments, StatusArguments, AgentChoices, StaffChoices, Statuses, ValidArgument
<1>3. CASE op = "assign"
  BY <1>1, <1>3, OwnerAssumption
  DEF Arguments, AssignArguments, Agents, Keys, ValidArgument, UnfitChoice
<1>4. CASE op = "reject"
  BY <1>1, <1>4 DEF Arguments, ReasonArguments, Keys, ValidArgument, UnfitChoice
<1>5. CASE op \notin {"update", "assign", "reject"}
  BY <1>5 DEF ValidArgument
<1> QED
  BY <1>2, <1>3, <1>4, <1>5

LEMMA TicketOffers == PagesInv => TicketOffersAreAllowed
<1> SUFFICES ASSUME PagesInv, ShowsTicket, Shown.edition = edition, NEW op \in Offers
             PROVE  Allowed(op) \/ (Role[me] = "customer" /\ op = "update")
  BY TicketChoices DEF TicketOffersAreAllowed
<1>1. ScreensInv /\ Role[me] \in {"admin", "manager", "agent", "customer"}
  BY RolesOfUsers DEF PagesInv, ScreensInv, ScreensTyped
<1>2. page.at \in Keys /\ Shown.shows = "ticket"
  BY DEF ShowsTicket
<1>3. Visible /\ Shown.doc = Document
  BY <1>1, <1>2 DEF ScreensInv, IsCopy, Agrees, Shown
<1>4. op \in ListOffers(Document) \cup DetailOffers(Document)
  BY <1>3 DEF Offers
<1>5. CASE Role[me] = "admin"
  BY <1>1, <1>3, <1>4, <1>5, StaffMay DEF ListOffers, DetailOffers, AdminListOffers, When
<1>6. CASE Role[me] = "manager"
  BY <1>1, <1>3, <1>4, <1>6, StaffMay DEF ListOffers, DetailOffers, ManagerListOffers, When
<1>7. CASE Role[me] = "agent"
  BY <1>1, <1>3, <1>4, <1>7, AgentsMay DEF ListOffers, DetailOffers, AgentListOffers, AgentOffers, When
<1>8. CASE Role[me] = "customer"
  BY <1>1, <1>3, <1>4, <1>8, CustomersMay
  DEF ListOffers, DetailOffers, CustomerListOffers, CustomerOffers, When
<1> QED
  BY <1>1, <1>5, <1>6, <1>7, <1>8

LEMMA UserOffers == PagesInv => UserOffersAreAllowed
<1> SUFFICES ASSUME PagesInv, list.shows = "account", list.edition = changes,
                    NEW op \in Staff!Offers \ {"create"}, NEW body \in Staff!Bodies(op)
             PROVE  Staff!Allowed(op, body) \/ (own /\ op = "delete")
  BY DEF UserOffersAreAllowed
<1>1. /\ Staff!Admitted /\ Staff!Listed /\ list.account = account /\ Staff!Exists
      /\ own \in BOOLEAN
  BY DEF PagesInv, StaffInv, Lists, Staff!Listed
<1>2. op \in {"update", "delete"}
  BY DEF Staff!Offers
<1>3. CASE own
  \* The list shows a manager no manager, so the user is an administrator.
  <2>1. Staff!MyRole = "admin"
    BY <1>1, <1>3 DEF Staff!Admitted, Staff!Listed, Staff!MyRole, Staff!Below, Staff!Rules!Below,
       Staff!Rules!MayManage
  <2> QED
    BY <1>1, <1>2, <1>3, <2>1 DEF Staff!Allowed, Staff!Rules!MayUpdate
<1>4. CASE ~own
  <2>1. /\ Staff!MyRole = Role[me] /\ Staff!Me = "another"
        /\ Role[me] = "manager" => account.role \in Staff!Rules!Below
    BY <1>1, <1>4 DEF Staff!MyRole, Staff!Me, Staff!Listed, Staff!Below
  <2>2. CASE op = "update"
    <3>1. Role[me] = "manager" => body.role \in Staff!Rules!Below
      <4>1. body \in [role : Staff!RoleOptions, isActive : BOOLEAN]
        BY <2>2 DEF Staff!Bodies
      <4> QED
        BY <4>1 DEF Staff!RoleOptions, Staff!Below
    <3> QED
      BY <1>1, <2>1, <2>2, <3>1 DEF Staff!Allowed, Staff!Rules!MayUpdate
  <2>3. CASE op = "delete"
    BY <1>1, <2>1, <2>3 DEF Staff!Allowed, Staff!Rules!MayDelete
  <2> QED
    BY <1>2, <2>2, <2>3
<1> QED
  BY <1>1, <1>3, <1>4

\* THEOREM: what a page shows as the last edition, and offers to do with it, the
\* server allows, and so it does with every choice of a form but the exceptions
\* named at OffersAreAllowed: whatever the roles of the users, on both kinds of
\* pages.
THEOREM PagesOfferWhatIsAllowed == PagesSpec => []OffersAreAllowed
<1>1. PagesInv => OffersAreAllowed
  BY TicketOffers, UserOffers DEF OffersAreAllowed
<1> QED
  BY <1>1, PagesCorrect, PTL

-----------------------------------------------------------------------------
(* What the pages show.                                                    *)

\* THEOREM: who stays on a page sees there what they wrote.
THEOREM PagesShowOwnWrites == PagesSpec => []OwnWritesAreShown
<1>1. PagesInv => OwnWritesAreShown
  <2> SUFFICES ASSUME PagesInv, page.at \in Keys, Shown.call = NoCall, Shown.shows # "error"
               PROVE  Shown.edition >= owed
    BY DEF OwnWritesAreShown
  <2>1. Shown.edition \in Nat /\ owed \in Nat
    BY DEF PagesInv, ScreensInv, ScreensTyped, IsCopy, Agrees, Shown, WritesAreShown
  <2>2. owed > 0 => owed <= Shown.edition
    BY DEF PagesInv, ScreensInv, WritesAreShown, NotOlder
  <2> QED
    BY <2>1, <2>2
<1> QED
  BY <1>1, PagesCorrect, PTL

\* THEOREM: an edit of an account changes nothing the user has left as it was,
\* unless the account has changed since the form was filled.
THEOREM FormsUndoNothing == PagesSpec => FormsKeepWhatTheyShow
<1> DEFINE Kept ==
      sending.phase = "sent" /\ sending'.phase = "ok" /\ sending.op = "update" /\ sending.edition = changes =>
          \A f \in {"role", "isActive"} \ sending.touched : account'[f] = account[f]
<1>1. PagesInv /\ [PagesNext]_allVars => [Kept]_allVars
  <2> SUFFICES ASSUME PagesInv, PagesNext, sending.phase = "sent", sending'.phase = "ok",
                      sending.op = "update", sending.edition = changes,
                      NEW f \in {"role", "isActive"} \ sending.touched
               PROVE  account'[f] = account[f]
    OBVIOUS
  <2>1. sending # Staff!Idle
    BY DEF Staff!Idle
  <2>2. /\ account \in Staff!Rules!Accounts
        /\ sending.body \in Staff!Bodies("update") /\ sending.body[f] = account[f]
    BY <2>1 DEF PagesInv, StaffInv, SendingTyped
  <2>3. Staff!Serve
    BY <2>1 DEF PagesNext, GoToTickets, Staff!Leave, Staff!Idle, Staff!Next, Staff!Poll, Staff!ServeList,
       Staff!ListAnswered, Staff!OpenModal, Staff!CloseModal, Staff!Submit, Staff!MutationSucceeds,
       Staff!MutationFails, Staff!Elsewhere
  <2>4. account' = Staff!Result("update", sending.body)
    <3>1. ~(sending' = [phase |-> "refused"])
      OBVIOUS
    <3> QED
      BY <2>3, <3>1 DEF Staff!Serve
  <2>5. account' = Staff!Rules!Written(account, Staff!Rules!Modified(account, sending.body))
    BY <2>4 DEF Staff!Result
  <2>6. f \notin DOMAIN Staff!Rules!Modified(account, sending.body)
    BY <2>2 DEF Staff!Rules!Modified
  <2> QED
    BY <2>5, <2>6 DEF Staff!Rules!Written
<1> QED
  BY <1>1, PagesCorrect, PTL DEF PagesSpec, FormsKeepWhatTheyShow

-----------------------------------------------------------------------------
(* The ticket, seen from the pages, goes through TicketLifecycle.          *)

LEMMA LifeStepOrNot == PagesInv /\ [PagesNext]_allVars => [Life!Next]_life
<1> SUFFICES ASSUME PagesInv, [PagesNext]_allVars, life' # life PROVE Life!Next
  OBVIOUS
<1>1. Next
  BY DEF PagesNext, GoToTickets, vars, allVars
<1>2. CASE Elsewhere
  BY <1>2 DEF Elsewhere
<1>3. CASE ServeMutation
  <2>1. doing # Idle /\ doing.phase = "sent"
    BY <1>3 DEF ServeMutation, Idle
  <2>2. Allowed(doing.op) /\ ValidArgument(doing.op, doing.arg) /\ Applied(doing.op, doing.arg)
    BY <1>3 DEF ServeMutation
  <2> QED
    BY <2>1, <2>2, OwnRequest DEF PagesInv, ScreensInv, MutationTyped
<1> QED
  BY <1>1, <1>2, <1>3 DEF Next, ServeFetch, FetchAnswered, FetchFails, GoTo, OpenModal, Submit, Poll,
     CloseModal, SubmitTicket, MutationFails, MutationSucceeds

\* THEOREM: the pages implement TicketLifecycle.  Every request of the user that
\* passes the checks is one of its operations, and every other step of the
\* pages leaves the ticket as it is.
THEOREM PagesImplementLifecycle == PagesSpec => TicketGoesThroughItsLife
<1>1. PagesInit => Life!Init
  BY DEF PagesInit, Init, Life!Init
<1>2. PagesInv /\ [PagesNext]_allVars => [Life!Next]_life
  BY LifeStepOrNot
<1> QED
  BY <1>1, <1>2, PagesCorrect, PTL DEF PagesSpec, TicketGoesThroughItsLife, Life!Spec

=============================================================================

# Role-Based Ticketing System: TLA+ specification

A verification development for the ticketing system in `src/` (paths below are
relative to the repository; `server/` is the Node/Express/Mongoose API, `client/`
the React application). It models what the API does to tickets, accounts,
comments and the sessions of an account when requests interleave, fail and meet
one another's writes; what the browser does with its tokens, and what its pages
show and offer meanwhile; checks it with TLC; and proves its safety properties with TLAPS.

## The system

The API is one Node process over MongoDB. A request passes middleware
(authenticate, authorize, validate), a controller, a static service class and
Mongoose models, then emits Socket.IO events. Handlers are `async`: between two
`await`s a handler runs alone, at each `await` any other handler may run. There
is no transaction and no optimistic version check anywhere, so every handler of
the form *find, check, assign, save* checks one document and writes another.

| Component | State | Operations | Interacts by |
|---|---|---|---|
| Tickets (`server/features/tickets`) | `tickets` collection: status, assignee, acceptance, dates, rejection history, `isDeleted` | create, update, assign, accept, reject, soft delete; list, view, statistics | reads users, writes the audit log, emits events |
| Audit log (`audit.model.js`) | one entry per operation, expiring after 90 days | `_audit`, whose failure is swallowed | called by the ticket handlers after the save |
| Users (`server/features/users`) | accounts: role, `isActive`, e-mail, credentials | create, update, deactivate, under the role hierarchy | read by every authenticated request |
| Sessions (`server/features/auth`) | password hash, refresh-token hash, failed logins, `lockUntil`, reset token | register, login, refresh, logout, change, forget and reset password | cookie and access token of each browser; e-mail |
| Middleware (`server/shared/middleware`) | none | authenticate, authorize, validate, errorHandler | first and last step of each request |
| Comments (`server/features/comments`) | comments, internal or public | create, edit (15 minutes), delete | checks access through the ticket service; events |
| Real time (`server/shared/config/socket.js`) | sockets and rooms, presence | connect, join, leave, typing, disconnect | events of the other services |
| Connection limiter (`wsRateLimit.middleware.js`) | per-IP counter and window | admit, clean up | in front of the sockets |
| System configuration (`system-config.model.js`) | one document | get-or-create, upsert | registration reads it; two forms of the client edit it |
| Monitoring (`monitoring.routes.js`) | error feed | reports over tickets, resolve errors | reads every collection |
| Browser session (`client/src/shared/utils/api.js`, `socket.js`, `features/auth`) | access token in memory, refresh lock, expiry timer, socket, stored user | login, logout, refresh and retry on 401, restoring a page | cookie; the sessions API |
| Pages (`client/src/features/tickets`, `users`) | query cache, modals, mutations in flight | show, offer, submit, fetch again | the API; other users change what they show |
| Lists, dashboards, settings (`client/src/features/*`) | a view (tab, selects, search, page), cached answers, forms | choose, type, turn pages, poll; edit and save | the API |
| Not modelled | | landing page, layout, e-mail transport, swagger, version and header middleware, `backend/` and `frontend/` (an earlier application) | |

### What is hard

* **Check on a copy, write to the store.** `acceptTicket` and `rejectTicket`
  check the assignee, `deleteTicket` the status, `updateTicket` everything, on
  the document `findById` returned; `save()` sends the changed paths with only
  `_id` as its condition.
* **Documents made of several writers.** Two saves merge path by path. An equal
  value assigned is *not* sent. Whether a milestone and its date both arrive
  depends on what each handler had read.
* **Soft delete is a read filter.** The `pre(/^find/)` hook hides a deleted
  ticket from queries; a save under way does not ask it.
* **Audit after the fact.** The entry is written after the save, may be lost,
  and names an action computed from the copy.
* **Stale principals.** `req.user` is loaded once per request.
* **Sessions**: read-increment-write of the login counter, one refresh hash per
  user, refreshes that race logout, a lock that ends without a reset.
* **Browser**: a refresh shared by many requests, a logout that races it, a
  socket that outlives the user it was opened for.
* **Rooms**: presence counted over sockets that come and go; events emitted after
  an await or two, from requests that cross.
* **Pages**: buttons and forms made from a copy, fetches answered out of order,
  forms sent whole.
* **Lists and settings**: one query for each view, answered when the page may show
  another; a debounce that every render makes anew; a form filled by an effect; a
  document that is looked for and then created.
* **Figures**: the same tickets counted by three queries, from fields that
  reassignments and rejections leave at different stages.

### What makes each component correct

* Tickets: milestones carry their records; history is never erased; roles change
  only what they may; the decision on a ticket is its assignee's; a deleted one is
  left alone; the whole is an atomic life cycle when requests do not overlap.
* Audit: unless an entry was lost, the log explains the ticket.
* Users: only admins appoint; an account changes as somebody asked; a request that
  is alone keeps the hierarchy and does not take the last admin away.
* Sessions: a token works only while it is the last one issued and its session
  is not ended; five failures lock; a reset token works once.
* Comments and real time: a deleted comment stays deleted; what a page heard last
  is so; online and offline are announced when they are true.
* Browser: one refresh at a time, a call stays open only while the refresh does, every
  signed-in page signs out in the end, a page speaks for the user it shows, and a
  reload restores that user.
* Pages: what is offered is allowed, what was written is shown, what was not
  touched is not changed.
* Lists: the rows are those of the view above them; "none" means none.
* Settings: what was saved is shown, stays, and is what registration goes by.
* Figures: the same thing has the same number on every page, but for the period a
  report is of; times are not negative.

## Modules

| Module | Contents |
|---|---|
| `Tickets` | the ticket component: state, one action per stretch of a handler between two awaits, `Spec` and `FairSpec` |
| `TicketLifecycle` | abstract specification: the life of each ticket, each operation in one step |
| `TicketProperties` | type invariant, safety invariants, action properties, liveness, the refinement mapping to `TicketLifecycle` |
| `MCTickets` | users, bodies and edits for TLC, over `Reports` |
| `TicketsProofs` | theorems and proofs about tickets: types, milestones, history, who may change what, the audit log; what holds unless two saves race, and the refinement of `TicketLifecycle` |
| `Sessions` | the credentials of one account: state, one action per stretch of a handler between two awaits, a clock |
| `SessionLifecycle` | abstract specification: one session at most, opened by a login and ended for good |
| `SessionProperties` | type invariant, invariants, action properties, the refinement mapping to `SessionLifecycle` |
| `MCSessions` | symmetry and view for TLC |
| `SessionsProofs` | theorems and proofs about sessions: types, tokens, locks; what holds unless certain requests cross, and the refinement of `SessionLifecycle` |
| `Staff` | user management: state, one action per stretch of a handler between two awaits |
| `StaffProperties`, `MCStaff` | its properties, its instance |
| `StaffProofs` | theorems and proofs about user management |
| `Browser` | the browser's side of a session: token store, refresh lock, timer, socket, over a server of one step per call |
| `BrowserProperties`, `MCBrowser` | its properties, its instance |
| `BrowserProofs` | theorems and proofs about the browser's side |
| `Realtime` | the socket server: limiter, handshake, rooms, presence |
| `Comments` | the comments of a ticket and their events, composed with `Realtime`, which it extends |
| `RoomsProperties`, `MCRooms` | the properties of both, their instance |
| `RoomsProofs` | theorems and proofs about presence and comments |
| `Screens` | the ticket pages over the query cache; others' requests are steps of `TicketLifecycle`, the user's own are checked by the operators of `Tickets` |
| `UserPage` | the users' page and its modals; requests are checked by the operators of `Staff` |
| `Pages` | one signed-in user on the pages of `UserPage` and `Screens` |
| `PagesProperties`, `MCPages` | the properties of the pages, the ticket's life cycle as they leave it, their instance |
| `PagesProofs` | theorems and proofs about the pages |
| `Lists` | the lists of the client: views, query cache, debounced search, pages; the routes that answer them |
| `Settings` | the sections of the settings; `SystemConfig`, the forms that edit it, and the registration that reads it |
| `Office` | one user on a list of `Lists` or on the pages of `Settings` |
| `OfficeProperties`, `MCOffice` | the properties of both, their instance |
| `OfficeProofs` | theorems and proofs about lists and settings |
| `Reports` | the figures of dashboards and reports as functions of the state of `Tickets`, and what they promise |
| `ReportsProofs` | theorems and proofs about the figures, with the sums of the report |

### How `Tickets` corresponds to the code

`req[r]` is a request in flight; its `phase` is the `await` it is suspended at.

| Phase | Suspended in | Next action | Code |
|---|---|---|---|
| `insert` | `Ticket.create` | `CreateTicket` | `ticket.service.js:128` |
| `view` | `getTicketById` of the controller | `GetTicketById` | `ticket.controller.js:46`, `ticket.service.js:111` |
| `agent` | `User.findOne` | `AssignTicket` | `ticket.service.js:208` |
| `find` | the service's `findById` | `UpdateTicket`, `AcceptTicket`, `RejectTicket`, `DeleteTicket` | `ticket.service.js:138, 222, 250, 173` |
| `save` | `ticket.save()` | `SaveTicket` | 159, 200, 236, 273 |
| `audit` | `AuditLog.create` | `Audit`, `AuditFails` | 11-18 |

The step out of `find` reads the stored document, makes every check, applies the
handler's assignments (`Assign`), the `pre('save')` hook (`PreSave`) and computes
what `save()` will send (`Modified`: the paths whose value differs from the one
loaded, plus one `$push` for a rejection). `SaveTicket` applies that to whatever
the stored document is by then (`Written`). `Receive` is the middleware: it keeps
the role the account has at that moment for the rest of the request.
`ChangeAccount` stands for user management, as one step; `Staff` splits it. `RequestFails` is a database error or a process stop
before the write; after the write only the audit entry can be lost
(`AuditFails`), which also covers a save that was applied and reported failed.
`auditLost` is a history variable and guards nothing.

`Modified`, `Written`, `SaveTicket` and `IsFresh` model Mongoose and MongoDB as
the handlers use them: an update of one document by `_id` is atomic, unchanged
paths are not sent, `push` becomes `$push`.

Abstracted: title, description, tags, due date, attachments and reasons;
`assignedBy`, `rejectedAt`, `rejectionReason`, `deletedAt`, `deletedBy`, which are
written with a field the model keeps and read by no check; `rejectionHistory` keeps
who rejected. A PUT body is a record of the keys among status, priority, category
and assignedTo it carries; one with none of them stands for a body of texts.
Socket events are not part of `Tickets`.

### How `Sessions` corresponds to the code

One account (no handler touches two). `account` is the stored document; a
password stands for its bcrypt hash, a token for its SHA-256. `cookies` are the
refresh tokens browsers were sent, `mail` the reset tokens the user was sent.

| Phase | Suspended in | Next action | Code |
|---|---|---|---|
| `login` | `User.findOne` | `Login` | `auth.service.js:53` |
| `compare` | `bcrypt.compare` | `LoginCompared` | 64 |
| `save` by `login` | `resetFailedLogins`, `updateLastLogin` | `LoginSaved` | 71-72 |
| `save` by `miss` | `incFailedLogins` | `Saved` | 66 |
| `store` | the update in `_tokenPair` | `TokenPairStored` | 29 |
| `refresh` | `User.findById` | `RefreshTokensOf` | 91 |
| `save` by `reuse` | the update after a mismatch | `Saved` | 105 |
| `logout`, `change` | `authenticate` | `Logout`, `ChangePassword` | 202, 187 |
| `forgot`, `mail` | `User.findOne`, the e-mail | `ForgotPassword`, `ForgotPasswordMailed` | 123, 135 |
| `reset` | `User.findOne` by token | `ResetPassword` | 150 |
| `save` by `logout`, `change`, `forgot`, `unsent`, `reset` | the write | `Saved`, `ForgotPasswordSaved` | 204, 197, 132, 139, 162 |

`Modified` and `Write` are again what Mongoose and MongoDB do: a save sends the
fields that differ from the copy, and an update by `_id` takes effect at once on
whatever is stored. So `resetFailedLogins` sends `lockUntil: null` only if the
copy had a lock; `resetPassword` and `changePassword` load none of the fields
they clear and send them all. `TokenPairStored` lets the answer with the cookie
be lost, `ForgotPasswordMailed` lets the e-mail fail, `RequestFails` stops a
handler at any await. `SetActive` is user management. An account starts as an
administrator creates it, or in the middle of `register`, which ends as a login
does. Two tokens are never equal (`jti`), so a draw takes one nobody drew.
`root`, `retired`, `ended` and `misses` are history variables and guard nothing.

Abstracted: access tokens, which no handler stores (a logout or a password change
is possible to whoever has been sent a cookie, which came with one); the expiry of
refresh tokens after seven days; `lastLogin` and the profile.

### How `Staff` corresponds to the code

| Phase | Suspended in | Next action | Code |
|---|---|---|---|
| `received` | `User.findById`, `User.findOne` | `UpdateUser`, `DeleteUser`, `CreateUser` | `user.service.js:126, 163, 106` |
| `save` | `user.save()`, `User.create` | `SaveUser`, `InsertUser` | 157, 187, 111 |

`Admitted` is `authenticate` with `requireRole`; the role it loads stays with the
request. The checks are made on the copy, `Modified` and `Written` are again what
Mongoose sends and MongoDB applies. Two creations with one address may both pass
`findOne`; the unique index lets the first through. `overlapped` is a history
variable: the requests that were not alone all the time.

### How `Browser` corresponds to the code

A step is a JavaScript task: a click, a timer, an answer, with the effect React
runs after it. `tab[t]` holds the module variables of `api.js` and `socket.js` and
the context's state; `call[t]` the calls in flight.

| Phase of a call | Where the code waits | Next action |
|---|---|---|
| `sent` | axios | `ServeLogin`, `Serve` (the server) |
| `ok` | the answer | `LoginAnswered`, `ProfileAnswered`, `OtherAnswered` |
| `refused` | a 401 on its way | `Refused` (`api.js:82`) |
| `refresh_sent`, `refresh_ok`, `refresh_refused` | `doRefresh` | `ServeRefresh`, `RefreshAnswered`, `RefreshRefused` |
| `waiting` | `await _refreshing` | as the refresh it waits for |

Axios runs a request interceptor in a microtask, after the task that made the
call: `SignOut` clears the token first, so the logout's header is empty. That is
what the comment at `auth.service.js:65` does not expect. A refresh is answered
with a token for whoever the cookie was of, whoever is at the page by then.
`Lost` is a time-out or network error, before or after the server has acted.
`Revoke` ends the session elsewhere. `Expire` spares calls just retried, as long as
they are on their way: a token lasts 15 minutes, a call 10 seconds. A refresh has no
such bound: `doRefresh` calls `axios.post` itself (`api.js:52`), not the instance with
the time-out.

### How `Realtime` and `Comments` correspond to the code

A connection is `closed`, `authenticating` (suspended in `User.findById` of
`io.use`, `socket.js:23`) or `connected`. The limiter is one step with the
beginning of the handshake; all sockets share an address. `told` is what the
rooms of admins and managers were told last of each user.

| Phase of a comment request | Suspended in | Next action | Code |
|---|---|---|---|
| `insert` | `Comment.create` | `InsertComment` | `comment.service.js:55` |
| `save` | `comment.save()` | `SaveEdit` | 85 |
| `find` | `findById` of `deleteComment` | `FindForDelete` | 92 |
| `remove` | `findByIdAndDelete` | `RemoveComment` | 105 |
| `added`, `updated`, `deleted` | `populate`, or the controller about to emit | `Emit` | `comment.controller.js:31, 62, 78` |

`save()` of a document that is gone fails (`Meets`). A deletion by an admin of a
comment whose ticket is soft-deleted succeeds and then fails on `ticket._id`, so
that nobody hears of it. `unsettled` is a history variable: the comments two
requests were about at once, or whose event was not sent. Any user may see the
ticket at some time, since its assignee and the roles may change; `CanSeeTicket`
keeps only what no such change helps, its deletion.

### How `Screens`, `UserPage` and `Pages` correspond to the code

`cache` (`list` in `UserPage`) is what a query shows and the fetch under way:
`Poll` is the mount or `refetchInterval`, `ServeFetch` the server, `FetchAnswered`
the answer, and `Invalidated` what `invalidateQueries` does to a query of the page
that is shown - fetch it again, even if it was being fetched. `Offers` are the
buttons, by the copy shown; `Arguments` and `Bodies` what their forms may send: a
status, an agent or none, a reason that is too short, fits or is too long, a role and
an activity. `ValidArgument` is what the Joi schemas take of it.
The user's mutation (`doing`, `sending`) is served in one step with the checks of
`Tickets` and `Staff`, instantiated over the one ticket or account in view; others
act by `Life!Next` and `Elsewhere` at any time. `edition` (`changes`) counts the
changes, so that a copy can be told from a newer one. `owed` is a history variable:
the edition of the user's last confirmed write on the page they are on.

A modal stays open whatever becomes of the copy behind it, and its selection is
made once. An agent's `AgentStatusModal` may thus submit any status; the server
takes it.

`GoToTickets` leaves the users' page for good (a bound).

### How `Lists`, `Settings` and `Office` correspond to the code

A list is what its `useState`s hold (`view`), the query of that key (`cache`), and
the documents of the server in the order of their creation. `Asks` is what each page
makes of its view before it calls (`getTicketFilters` of `ManagerTicketList.jsx`, for
one), `Fits`, `Rows` and `Pages` are the route's filters, `find` and
`countDocuments`: a row belongs to the page on which its rank among the newest falls
(`Before`), and `rows` is the set of them, since nothing is said of their order within
a page. A document is its mark (status, role, resolved or not, action),
its owner, and whether the searched word is in it.

| Action | Code |
|---|---|
| `Choose`, `ChooseTab`, `TurnPage` | `handleFilterChange`; `setActiveTab`, which leaves the page alone; the buttons of the pagination |
| `Type`, `Debounced` | the search box and `debounce` (`helpers.js:50`): each render makes a new debounced function, so that calls of earlier ones are not cancelled |
| `FetchAnswered`, `FetchFails`, `Poll` | the query, its retries, its `refetchInterval` |
| `Resolve`, `ServeResolve`, `Resolved`, `ResolveFails` | the errors tab and `PATCH /errors/:id/resolve` |
| `Add`, `Change`, `Delete` | requests of others |

`Homes` are the recent tickets on the dashboards of agents and customers, which ask
for one page and offer nothing to choose. `strayed` is a history variable: a tab was
chosen on a page beyond the first.

In `Settings`, `section` is the tab that is open, `query` the one query both forms
use, `form` the values with `isDirty`. The fetch and the registration look the
document up and, if there is none, create it in a second step (`Looked`, `Created`;
`system-config.model.js:43-46`), `ServeSave` is the upsert. The configuration's tab
copies the whole document into its form when changes are discarded, so that the next
save carries keys `configSchema` refuses (`whole`). Of the six settings two are
kept: `allowRegistration`, the only one the server reads, and a limit. The forms of
profile, security, notifications and preferences are sections without a state: what
they submit is `Promise.resolve()`. `owed` is a history variable: the version of the
user's last save, if nothing else was under way with it.

`GoToSettings` leaves a list for good, and no visitor registers while the user is an
administrator (bounds).

### How `Reports` corresponds to the code

`TicketStats` is `getTicketStats` (`ticket.service.js:287`), `AgentRow` and `Summary`
are `GET /monitoring/agent-performance`, `Overview` is the part of `GET
/monitoring/stats` that counts tickets; the four dashboards are what they show of
them. All read the same state, and time is counted in instants of `Tickets`. The report
is of the tickets created in the last 7, 30 or 90 days (`monitoring.routes.js:380-390`),
the statistics are of all time: the model keeps no dates of creation, so that the
period `P` is any set of tickets, and the properties are stated for each.

## Runs

The ticket runs use one ticket (no handler and no property relates two), the
session runs one account. All but the runs of `Staff` check for deadlock: there the last
active member of staff may be demoted, and nobody is left to make a request.

| Run | Instance | Checks |
|---|---|---|
| `Tickets_sequential` | one request slot; admin, agent, customer; two priorities; every kind of body; two instants | `ResponseTimesAreTimes`, `FiguresAgree`, `OwnerDeletesOnlyUnpicked`, `AssigneeDecides`, `FirstDatesStand`, `DeletedTicketsAreFrozen`, `ImplementsLifecycle` |
| `Tickets_any_assignee` | one slot; admin, agent, customer; a PUT that gives the ticket to the customer | `AgentsDecide` is **violated** |
| `Tickets_concurrent` | two slots; admin, agent, customer; the agent may be made a customer at any moment; resolve and re-assign bodies; audit entries kept in view | `MilestonesAreRecorded`, `AuditTrailAccounts`, `HistoryIsKept`, `RoleBoundaries` |
| `Tickets_settle` | two slots; admin, customer; `FairSpec` | `DeletedTicketsSettle` |
| `Sessions_shared` | two slots; two passwords, two refresh tokens and a reset token; limit of two attempts; two instants | `SupersededTokensStayDead`, `MismatchMeansReuse`, `LocksAreKept`, and until requests cross `LocksAfterFailures`, `LoginsAreCurrent`, `ResetTokensWorkOnce`, `ImplementsSessions` |
| `Sessions_end_race` | two slots | `EndedSessionsStayEnded` is **violated** |
| `Browser_session` | one tab, one user, two calls; `FairSpec` | `OneRefreshPerTab`, `CallsSettle`, `SignedInPagesSignOut` |
| `Browser_next_user` | one tab, two users one after the other | `CredentialsAreTheUsers` is **violated** |
| `Staff_pairs` | two slots; an admin, a manager and a free address; bodies of one field and of two | `AdminsAppoint`, `ChangesWereAskedFor`, `ManagersStayBelow`, `AdminsRemain` |
| `Rooms_shared` | admin, agent, customer; two sockets, a comment, two slots | `PresenceIsTrue`, `LastWordIsTrue`, `DeletedCommentsStayDeleted` |
| `Pages_open` | one user of each role; three changes of the ticket, two of the account | `OffersAreAllowed`, `OwnWritesAreShown`, `FormsKeepWhatTheyShow`, `TicketGoesThroughItsLife` |
| `Office_open` | each of ten lists with up to two documents, one on a page, two moves of the user and a change by others; or the settings of each role, two versions of the document | `RowsFitTheView`, `EmptyMeansNone`, `RegistrationFollowsTheSetting`, `SavedSettingsAreShown`, `ConfigIsNeverReset` |

The sequential ticket run shows that the checks of the handlers say what they mean, and
that the component then implements the atomic `TicketLifecycle`. The concurrent
runs show what is left of it once handlers overlap: milestones keep their records,
nothing is erased, no role exceeds its bounds. The session run shows in one instance
that tokens are safe in any order - a superseded one stays dead, and a mismatch is
always reuse - and that lock, rotation and reset are as promised up to the first
overlap that can break them: `crossed`, a history variable of `WatchedSpec`, becomes
true when two requests in flight are of a pair named in `Apart` (two logins, a login
and a change of the password, a reset and another or a request for a link, two such
requests, a refresh and another write of the hash). Any other two requests may overlap.

With two slots, `OwnerDeletesOnlyUnpicked`, `AssigneeDecides`, `FirstDatesStand`,
`DeletedTicketsAreFrozen`, `ResponseTimesAreTimes` and `ImplementsLifecycle` fail, and
so do the four of `Sessions_shared` without their condition, because each check is made
on a copy. They are checked where they hold, and proved for any number of slots under
the overlap they do not survive. The crossings that break them, on no run of their own,
contradict the code's words here and there: an acceptance saved after a rejection leaves
a ticket accepted for nobody (`ticket.service.js:227`, "You can only accept tickets
assigned to you"); a creator's deletion is saved after the acceptance (`:186`, "Once an
agent is working on it, only an admin can delete it"); two failed logins that read one
count are one failure (`src/README.md:28`); a manager's update is saved to who has been
promoted since the check (`user.service.js:135`); and a logout answered after the next
login takes the cookie of the new session, so that a reload restores nobody
(`api.js:26`). That two resolutions date one ticket twice, that two resets use one link,
and that a deactivated account finishes its login, contradict nothing the repository says.

Three disagreements between the code and its own words have each a run of their own:

* `Tickets_any_assignee`. `ticket.routes.js:396`: "Accept ticket (Agent only - for
  assigned tickets)", `src/README.md:246`: "(Agent)". PUT /tickets/:id gives the
  ticket to a customer, the acceptance looks at the assignee only.
* `Sessions_end_race`. `auth.service.js:97`: "all sessions have been invalidated
  (logout / password change / token-theft response)". A refresh compares the hash,
  the session is ended, the refresh stores its new hash: the session goes on.
* `Browser_next_user`. `auth.context.jsx:90`: "Keep the socket in sync with the auth
  token". The logout goes out without its token and is answered 401, the interceptor
  refreshes the session it was to end, and the answer brings its token, and its
  socket, to the page where the next user signs in meanwhile, or has signed in.

The other runs show what does hold:

* `Browser_session`: the refresh lock does what its comment says, whatever is lost. A
  call hangs only where the refresh it is, or waits for, is never answered, which
  nothing ends; and even then the page does not stay signed in for ever.
* `Staff_pairs`: overlapping updates of one account merge by field; a manager can at
  worst act on somebody who has just been promoted (only `overlapped` requests may).
  The last admin is lost by demoting or deactivating themselves with PUT /users/:id,
  which DELETE refuses; that is the exception in `AdminsRemain`.
* `Rooms_shared`: counting sockets before and after is enough for presence; an edit
  cannot bring a comment back.
* `Pages_open`: the pages' conditions agree with the server's, but for what
  `OffersAreAllowed` excepts by name, all of it offered and always refused: the
  customer's "Update Ticket", which sends a status; "Unassigned" in
  `AssignTicketModal`, which `assignTicketSchema` does not take; a reason of less than
  ten characters in `RejectTicketModal` (the list's modal asks for ten) and one of more
  than 500 in either; an admin's "Delete" of the account in use. Whatever a modal sends
  from an old copy, what passes the checks is a step of `TicketLifecycle`.
* `Office_open`: whatever is chosen and typed while answers are under way, rows belong
  to the view, since the view is the key; a page is empty for another reason only
  where a tab kept its number or others changed something. The administrator's form
  shows a save unless another fetch or save met it, and no interleaving of looking
  and creating resets the document.
* `Tickets_sequential` with `Reports`: three queries agree on what they count, and the
  report differs from the statistics by the tickets older than its period. The
  response time is negative only while a ticket that was accepted once waits again.

The type invariants of `Tickets`, `Sessions`, `Staff`, `Comments` and `Browser`, and the two
inductive invariants `InFlightIsSound` and `InFlightIsFresh`, are proved for all
values of the constants, so that no run repeats them.

Seen while modelling, on no run: `EditUserModal` offers an e-mail and a new password,
`updateUserSchema` strips both, and the page says "User updated successfully!";
the list's modal for rejections takes a typed reason into the state that shows the box,
so that the box is gone after the first character (`AgentTicketList.jsx:532`);
`UserListPage` sends `status`, where the controller reads `isActive`; the query cache
is not cleared on logout.
The lists: "Unassigned" asks for all tickets (`AdminTicketList.jsx`,
`ManagerTicketList.jsx`), and the department of "Team Tickets" and the `createdBy` of
customers are none of the filters of `getAllTickets`; a tab keeps the page number, so
that the page may be empty; `ticket.model.js:136` says "Exclude soft-deleted tickets
from all queries", and `countDocuments` counts them; the errors tab says "No errors"
when its fetch failed. The settings: profile, password, notifications and preferences
are said to be saved and are sent nowhere (`ProfileSettings.jsx:16`,
`SecuritySettings.jsx:17`); only `allowRegistration` is read by the server, whatever
`MonitoringPage.jsx:834` says of `maxLoginAttempts`; a save after "Discard" in the
configuration's tab is refused, because the form then holds the whole document; a
background fetch that brings another version wipes a form that is being edited. The
report: the manager's dashboard shows what is open of all time beside a team's strip of
7, 30 or 90 days; `rejected` is zero but for tickets given away by PUT, since `rejectTicket`
clears the assignee the rows are grouped by; the dashboards' average resolution time
includes reopened tickets, the report's does not.

### Bounds

* One ticket; two slots. A race of this code is between a read and a save of one
  handler and one other save: two slots show each of them. A third repeats them.
* `MaxTime` = 2 where a date is compared with another or may be moved, 1 where
  only "set or not" matters. `now` starts at 1; 0 is `null`.
* `MaxRejections` = 1 stops *asking* for rejections once one is recorded; with
  two slots the history still reaches two, which is when an array could be lost.
* `UpdateBodies`: every value of each key in the sequential run; in the concurrent
  ones the values that decide something (finish, give away). `AuditedActions` keeps
  only the log entries the invariant reads.
* Sessions: two refresh tokens let a session be opened and then rotated, ended or
  replaced, and two slots hold both of them, one to be stored late; one reset token is
  asked for, used, and tried again. `MaxAttempts` = 2 is the least that tells a count
  from a flag. Locks and reset tokens last one tick, so that they are in force at one
  instant and over at the next. When the tokens are used up, logins no longer open
  sessions and everything else goes on.
* `Remembered`, the view of `Sessions_shared`, leaves out `root`, `ended` and `misses`
  once requests have crossed: no action reads them into the rest, and the properties
  that mention them say nothing any more.
* Symmetry: tokens are compared only for equality; request slots are
  interchangeable in the runs that declare it. None of these checks
  liveness, and the refinement of `Sessions_shared` compares tokens only for
  equality.

* `Browser_session`: two calls are the least that can be refused together and share
  a refresh; the second slot also lets a logout meet one. Five stamps are one more
  than can be in use of one user at once (jar, server, two calls); in general
  `StampsAssumption` asks for more stamps than calls and two, which is what a new
  `jti` being new comes to, so that `Fresh` always finds one. One user, since the lock,
  the calls and the timer do not tell users apart.
* The runs that find a disagreement need no more than the requests whose crossing it
  takes (in `Tickets_any_assignee`, one), and the bodies that decide.
* `Staff_pairs`: three addresses let a manager, an admin and a newcomer be each the
  actor and the target; two slots show a check and a save with one save in between.
* `Rooms_shared`: two sockets are of one user or of two; `MaxConn` = 1 lets the
  limiter refuse. One comment, since no two are related, and two requests about it.
* `Pages_open`: create, assign and accept need three changes of the ticket; of the
  account, one elsewhere and one of the user's own.
* `Office_open`: one document on a page and two documents make a second page; two
  moves let a fetch be left for another view and the view be left again or returned
  to; one change by others makes a fetch out of date. Two versions of `SystemConfig`
  are one that is there and one that is saved; one save in flight, since the form
  allows no second one while it is open.
* `Reports`: with one ticket each figure is 0 or 1; `ReportsProofs` shows that the
  queries add over tickets, of which there may be any number.
* Symmetry: sockets and comment requests, and the requests of `Staff_pairs`, are
  interchangeable.

### Fairness

`FairSpec` adds weak fairness of `Handle(r)` for each slot: an awaited database
call settles, with a result or an error (the driver has time-outs), and the event
loop resumes the handler. Nothing obliges a client to send a request, an account
to change, the clock to tick or a call to fail.

`FairSpec` of `Browser` says that a call of the axios instance settles, which has a
time-out of ten seconds (`api.js:16`), and that a timer that was set fires. It says
nothing of a refresh, which has no time-out (`api.js:52`): it may stay on its way for
ever, and with it the lock and every call that waits, so that `CallsSettle` says of a
call that it ends or that the lock is held from some time on. Nothing obliges a person
to do anything, a token to expire, or the session to be ended elsewhere.

`Sessions`, `Staff`, `Comments`, `Pages` and `Office` state no fairness: all their properties
are safety.

## Proofs

### `TicketsProofs`

For every set of users, tickets, request slots and bodies allowed by the four
assumptions of `Tickets` (`NoUser` is no user; the bounds are naturals; accounts
and edits have their types; bodies are those `updateTicketSchema` lets through):

* `TypeCorrect == Spec => []TypeOK`
* `MilestonesRecorded == Spec => []MilestonesAreRecorded`
* `InFlightSound == Spec => []InFlightIsSound`
* `HistoryKept == Spec => HistoryIsKept`

`TypeOK` is inductive by itself. `MilestonesAreRecorded` is not: a save writes a
status computed from one document onto another, so nothing in the stored ticket
says that the date is there. The inductive invariant is

    IInv == TypeOK /\ MilestonesAreRecorded /\ InFlightIsSound

where `InFlightIsSound` says of each suspended save that the milestones it sets
have their record either in what it sends or in the document *now* stored. Such
a fact, once true, stays true, because no save unsets a date or shortens the
history (`BackedGrows`); it is true when the save is computed because the copy
was then the stored document and the hook filled in what was missing
(`PreparedDocument`, `PreparedSave`); and it gives the milestone when the save is
applied (`WrittenDocument`). `NextIInv` puts the actions together and yields
`HistoryKept` along the way.

From the same assumptions, and with `IInv`:

* `RolesRespected == Spec => RoleBoundaries`
* `AuditTrailComplete == Spec => []AuditTrailAccounts`

The invariant added is `RightsAreKept`: what a suspended save sends is no more than
the role it was admitted with, or its part in the ticket, may change (whatever the
account is by now), and the action it will be logged under names what it sends.
`WriteRights` turns the first into the action property when the save
is applied; the second is carried by `TrailWrite` (the log will explain the ticket
once the suspended entry is in) and `TrailAudit` (it is).

#### What holds unless two saves race

The properties of `Tickets_sequential` fail when a second save meets the ticket
between a handler's check and its own save. The theorems say that nothing else can
make them fail. Their hypothesis, `NoSaveRace`, is that no two saves *of one ticket*
are under way at once; reads, audit entries, changes of accounts and saves of other
tickets may overlap in any way. For any users, tickets, slots and bodies:

* `UnpickedDeletions == Spec /\ []NoSaveRace => OwnerDeletesOnlyUnpicked`
* `DecisionsByAssignee == Spec /\ []NoSaveRace => AssigneeDecides`
* `FirstDatesKept == Spec /\ []NoSaveRace => FirstDatesStand`
* `DeletedFrozen == Spec /\ []NoSaveRace => DeletedTicketsAreFrozen`
* `LifecycleImplemented == Spec /\ []NoSaveRace => ImplementsLifecycle`
* `TicketsOneAtATime`: with one request slot `NoSaveRace` always holds (`OneSlot`),
  and `Spec` alone implies all five: what the run shows for its instance.

The invariant added is `CopiesAreCurrent`: for a suspended save, the *stored*
document still satisfies the checks made on the copy, and applying the save to it is
one of the steps of `TicketLifecycle` (`Transition`). `PreparedWritten` establishes it
when `save()` is called, where copy and document are the same; afterwards only
another save of that ticket could break it. For the refinement, `LifeStep` maps the
application of a save to the abstract operation, and every other step to a stutter.
TLC checked the invariant with two overlapping requests in behaviours constrained by
`NoSaveRace` (296 535 states), so that the hypothesis leaves overlaps to speak about.

### `SessionsProofs`

For every set of requests, tokens and passwords allowed by the assumptions of
`Sessions` (`NoToken` is no token; a refresh token is no reset token; the first
password is one; limits are positive):

* `SessionsTypeCorrect == Spec => []TypeOK`
* `InFlightFresh == Spec => []InFlightIsFresh`
* `SupersededStayDead == Spec => []SupersededTokensStayDead`
* `MismatchIsReuse == Spec => []MismatchMeansReuse`
* `LocksKept == Spec => LocksAreKept`

The inductive invariant is

    IInv == TypeOK /\ InFlightIsFresh /\ SupersededTokensStayDead /\ MismatchMeansReuse

A handler suspended in `_tokenPair` will make its token the current one whatever
has happened meanwhile, so that no retired token comes back only because such a
token is nobody else's: drawn, never current, in the hands of one handler.
`InFlightIsFresh` says this, and that the other saves leave the hash alone or
clear it. `FreshStep` carries it over every step but the store of a pair,
`FreshPairStored` over that one. For `LocksKept` it also says of each suspended
save that it clears a lock only if it may (`LockStep`).

#### What holds unless certain requests cross

The properties two requests can break, each under the one overlap it does not
survive; everything else may interleave freely. Five predicates on the requests in
flight name these overlaps:

| Hypothesis | At any time at most one request is ... |
|---|---|
| `LoginsAlone` | between loading the account for a login and saving its counters |
| `PasswordsRest` | (no login is under way while a new password is being saved) |
| `ResetsAlone` | saving a reset; and no link is being made or taken back meanwhile |
| `LinksAlone` | storing, sending or taking back a reset link |
| `RefreshesAlone` | storing the token of a refresh; and no other save of the hash is under way meanwhile |

* `FailuresLock == Spec /\ []LoginsAlone => []FailuresLocked`
* `LoginsGoByTheAccount == Spec /\ []LoginsAlone /\ []PasswordsRest => [][LoginStep]_vars`
* `ResetsWorkOnce == Spec /\ []ResetsAlone => [][ResetStep]_vars`
* `LinksStand == Spec /\ []LinksAlone /\ []ResetsAlone => SentResetTokensStand`
* `EndedStayEnded == Spec /\ []RefreshesAlone => []EndedSessionsStayEnded`
* `SessionsImplemented == Spec /\ []RefreshesAlone => Owner!Spec`
* `SessionsOneAtATime`: with one request slot the five hold (`OneSlot`), and `Spec`
  alone implies all six conclusions.
* `UncrossedFailuresLock`, `UncrossedLoginsAreCurrent`, `UncrossedResetsWorkOnce` and
  `UncrossedSessions`: `WatchedSpec` implies the four properties of `Sessions_shared`
  that hold until requests cross. As long as none have, `Apart` holds, and with it the
  invariants of the theorems above (`Together`, `UntilCrossed`).

`SentResetTokensStand` says that a link that was sent is replaced or taken back only by
the reset it is used for or by a newer request for a link: `forgotPassword` overwrites
the token (`auth.service.js:130`), as it should, and a failed e-mail takes back the
token it was to carry and no other. It is on no run.

`EndedStayEnded` is the counterpart of the run `Sessions_end_race`: the race that run
finds is the only way an ended session goes on.

Each theorem has an invariant of the same form: what a handler in flight goes by is
what the account has now. `CountsAreCurrent` (the copy's counter, or a reset of it),
`PasswordsAreCurrent`, `ResetsAreCurrent`, `LinksAreCurrent` (a link that will be taken
back was not sent) and `RefreshesAreCurrent` (the token to be replaced is the current
one, with `RootsAreKnown`: each token stored descends from a login's). They rest on
`SavesAreMeant`, what each handler's save consists of, and on `StepKinds`, which sorts
the actions into those that save, store a pair, prepare or send and those that only
settle, so that each invariant is carried over five kinds of step rather than over
every action. TLC checked each invariant with two overlapping requests under its hypothesis (9 500
to 2.2 million states), and that without it each property fails with two.

### `StaffProofs`

For every set of addresses, request slots and bodies allowed by the assumptions of
`Staff` (the accounts at the start have their types, bodies are those
`updateUserSchema` lets through, new roles are roles):

* `StaffTypeCorrect == Spec => []TypeOK`
* `AdministratorsAppoint == Spec => AdminsAppoint`
* `ChangesAreAskedFor == Spec => ChangesWereAskedFor`
* `ManagersChangeOnlyBelow == Spec => ManagersStayBelow`
* `AdministratorsRemain == Spec => AdminsRemain`

The inductive invariant is

    IInv == TypeOK /\ InFlightAsAsked /\ AloneIsUndisturbed

A save meets an account that may have changed since it was checked. What does not
depend on the account is that the paths sent are fields of the body, none of which
promotes anyone when the actor is a manager (`InFlightAsAsked`); from it follow the
first two action properties. The last two hold for requests that were alone, because
for those everything that was checked is still so (`AloneIsUndisturbed`): any step of
another slot would have made both `overlapped`. `WhoChanges` finds, for each account
a step changes, the request that changed it; each action property asks of that one
request only.

### `RoomsProofs`

For every set of users, sockets, comments and request slots, and any limit that is
positive (`MaxConnAssumption`):

* `RoomsTypeCorrect == Spec => []TypeOK`
* `PresenceIsAlwaysTrue == Spec => []PresenceIsTrue`
* `DeletionsAreFinal == Spec => DeletedCommentsStayDeleted`
* `LastWordIsAlwaysTrue == Spec => []LastWordIsTrue`

The inductive invariant has two halves that do not depend on one another. For
presence: the registry is exactly the connected sockets and is finite, and
`PresenceIsTrue` itself; the code announces on a count of one (before the last leaves)
or zero (before the first comes), and `NobodyIsZero` and `OneIsAlone` turn these
counts into statements about the other sockets. For comments: of every comment that
two requests never shared (`drawn \ unsettled`), `Settled` says which request deals
with it, what that request has done to it, and what the room has heard of it; one
that is heard of and gone has a request about to tell that it is gone.

### `BrowserProofs`

For every set of tabs, users and slots allowed by the assumptions of `Browser`
(`NoUser` is no user, a tab can make a call, tabs and slots are finite and stamps
never run out):

* `BrowserTypeCorrect == Spec => []TypeOK`
* `OneRefresh == Spec => []OneRefreshPerTab`
* `ReloadRestores`: if there is one tab, `Spec /\ []LoginsAlone => []ReloadKeepsTheUser`

The inductive invariant `BInv` says of each tab and its calls (`IsGoodTab`) the two
properties, what an answer carries (a login its user, a refreshed call a token: the
cookie and the session could not be typed without it), and that a page which is
loading has neither memory nor calls - otherwise a refresh that was under way before
a reload could be answered into a tab that has a second one. `FreshType` counts the
refresh tokens in use to show that a new one can be drawn. An action sets one slot of
one tab (`SlotStep`), ends a refresh (`RefreshEnds`) or loads the page
(`PageLoadStep`); `TabOperators` says of each operator on a tab that the calls do not
notice it (`Alike`).

`ReloadRestores` has a second invariant, `Fits`: the cookie and localStorage are those
of who is signed in, every refresh that was granted to a page with a user is of that
user, the profile a restored page will be answered is the cookie's, and a restored page
makes no other call before it (`CallFits`, `UserFits`, `RestoresAlone`). The cookie is
the weak point: every answered login, refresh and logout writes it, whoever is signed in
by then, so that the theorem needs that no login is under way together with another call
(`LoginsAlone`); and with a second tab it fails, since the two share cookie and
localStorage. TLC checked `BInv` with one tab and two users (2.5
million states) and with two tabs (0.5 million), and `Fits` and
`ReloadKeepsTheUser` with one tab, two users and three calls
under the constraint `LoginsAlone` (0.5 million).

### `OfficeProofs`

For any number of documents, moves, pages and versions allowed by the assumptions of
`Office` (the lists opened are lists of `Lists`; `All`, the choice of no filter, is not
the value that asks for one's own; a page has at least one row; the bounds are
naturals; the default limit is a limit):

* `RowsAreForTheView == OfficeSpec => []RowsFitTheView`
* `EmptyIsEmpty == OfficeSpec => []EmptyMeansNone`
* `RegistrationGoesByTheSetting == OfficeSpec => []RegistrationFollowsTheSetting`
* `SavesAreShown == OfficeSpec => []SavedSettingsAreShown`
* `SettingsAreNeverReset == OfficeSpec => ConfigIsNeverReset`

The user is on a list or on the settings, so that there are two inductive invariants.

`ListInv` is about the whole cache, since a view that is left and returned to shows an
old answer: every entry, whichever view it was fetched for, holds rows that were asked
for by its own key and fit it, no more than a page of them, and is what the server
would answer now if nothing has changed since it was fetched (`IsEntry`). The fetch
under way for an entry asks for the entry's key. `EmptyMeansNone` also needs that the
page the view is on is one the answer has (`PageIsThere`) and that a page that exists
has rows; the second is a fact about ranks, proved by `Ranks` (a set of n numbers has
one of each rank below n), `RowsOfAPage` and `PagesHaveRows`.

`SettingsInv` says that what the setting is while a registration is under way, and what
the registration has read of it, is something it was during that request
(`VisitorIsTold`), that a save nothing met is the only thing under way and stores a
version the page has not seen (`LoneSaves`), and that what the page has, and what it is about to be given, is not
older than the user's save (`SaveIsShown`). From it `SettingsAreNeverReset` takes that a
version is never negative, so that a creation which comes late finds its document
there.

TLC checked `ListInv` on the instance of `Office_open` (1.9 million states) and
`SettingsInv` with two saves in flight and three versions (4.6 million).

### `PagesProofs`

For any users, their roles and any number of changes allowed by the assumptions of
`Screens` and `Pages` (`NoUser` is no user; the ticket's owner is a customer; roles are
those of `ROLES`; the bounds are naturals):

* `PagesCorrect == PagesSpec => []PagesInv`
* `PagesOfferWhatIsAllowed == PagesSpec => []OffersAreAllowed`
* `PagesShowOwnWrites == PagesSpec => []OwnWritesAreShown`
* `FormsUndoNothing == PagesSpec => FormsKeepWhatTheyShow`
* `PagesImplementLifecycle == PagesSpec => TicketGoesThroughItsLife`

`PagesInv` types the pages and says of both queries three things. A copy that carries
the number of the last edition - kept by the cache or still on its way - is what the
server would answer now (`Agrees`, `Lists`): the offers of a page are made from the
copy, the checks of the handlers from the document, and only this makes them the same.
`EntryStep` carries it over a fetch, `CopyStays` over everything else, since a change
of the ticket makes every copy an older one. Since the user's last write, the page waits
for a fetch the server has yet to serve, or what it has, or is about to be given, is of
that edition or a later one (`NotOlder`): an answer served before the write is given up
by `invalidateQueries`. And a form that was filled from the last edition of an
account holds it but for the fields the user touched (`FormTyped`, `SendingTyped`).

With the invariant, `TicketOffers` and `UserOffers` go through the roles (`StaffMay`,
`AgentsMay`, `CustomersMay`), and `TicketChoices` through the choices of the forms. For the life cycle, `OwnRequest` maps a request that
passes the checks to the operation of `TicketLifecycle` it is (`HandlersPatches` says
which fields each handler changes, `ChangedTicket` what comes of them), and `LifeStep`
types the ticket after any operation. TLC checked `PagesInv` on the instance of
`Pages_open` (4.0 million states).

### `ReportsProofs`

From the assumptions of `Tickets`, for any number of users, tickets and requests:

* `ReportsAgree == Spec => []FiguresAgree`, for every period of the report
* `ResponseTimesCorrect == Spec /\ []NoSaveRace => []ResponseTimesAreTimes`

The figures are read in one state, so that no race can make them disagree:
`ReportsAgree` has no condition, and its invariant is only that there are finitely many
documents with their types (`Documents`). What it takes is that a sum over the agents
of counts of tickets is the count of the tickets of any agent (`ColumnSum`): an
induction over finite sets. The induction rules of the library have an operator
for the property, which the provers here cannot instantiate; a *set* of the good subsets
can be, so `Least` (from `WFMin`) and `SubsetInduction` do the same by a least
counterexample. `SumExists` shows that the recursive function behind `SumFunction`
exists, `SumAdds` what it computes, `SumNotNegative` and `SumOfParts` what the figures
need of it.

`ResponseTimesAreTimes` relates two dates of a ticket that come from different requests,
and each is written from a copy. Its invariant, `DatesInOrder`, says that no date is
ahead of the clock, that the acceptance of an accepted ticket is not before its
assignment, and that every suspended save leaves it so when it is applied to the
*stored* document. A re-assignment saved between the check of an acceptance and its
save breaks the last - the acceptance is dated before the assignment that stands - and
with two slots TLC finds that behaviour; hence the hypothesis `NoSaveRace`, which one
request slot satisfies (`OneSlot`).
TLC checked `DatesInOrder` on the instance of `Tickets_sequential` (0.8 million states).

### Model-checked only

* Liveness: `DeletedTicketsSettle`, `CallsSettle`, `SignedInPagesSignOut`. The provers
  have no rule for fairness.

Every other property of the passing runs is stated by a theorem; those of the tickets that
two requests can break, under the overlap they do not survive. `AgentsDecide`,
`EndedSessionsStayEnded` and `CredentialsAreTheUsers` are what the code does not keep: TLC
finds the behaviours.

## Not modelled

* Health probes, the figures about users, errors and a day, the ticket volume, and
  sorting of the report: read and shown.
* Landing page, layout, and the texts of every form: rendering.
* E-mail transport, swagger, headers, third-party rate limits, version negotiation:
  no state of the program.
* `backend/` and `frontend/`: a previous version that nothing builds or runs.
* Composition of `Lists` with `Screens`: which of many tickets a page shows is in the
  one, what it offers for a ticket in the other; they share the cache and nothing else.

## Where to go on

* `Browser` with two tabs: what `ReloadKeepsTheUser` becomes when two pages share
  localStorage and the cookie.
* Comments on the ticket's page: composing `Comments` with `Screens`, whose page hears
  the events and fetches again.

------------------------------- MODULE Lists -------------------------------
(***************************************************************************)
(* The lists of the client: the ticket lists of the four roles,            *)
(* UserListPage, the tabs "Error Feed" and "Audit Log" of the monitoring   *)
(* page, and the recent tickets of the agent's and the customer's          *)
(* dashboards.  All of them are one query of React Query whose key is the  *)
(* view: tab, selects, search and page.                                    *)
(*                                                                         *)
(* One page is open in a behaviour.  Others change the documents, and a    *)
(* fetch is answered for the view it was started for, which the page may   *)
(* have left by then.                                                      *)
(*                                                                         *)
(* A document is reduced to what the lists tell apart: its mark (status,   *)
(* role, resolved or action), who it belongs to, and whether it holds the  *)
(* word that is searched for.  The selects for priority and category work  *)
(* as the one for the mark.  Left out: what the pages let the user do with *)
(* a row (Screens, UserPage), but for the errors; statistics; documents    *)
(* that expire.                                                            *)
(***************************************************************************)
EXTENDS Integers, Sequences, SequencesExt, FiniteSets

CONSTANTS
    All,           \* no choice in a select
    Kinds,         \* the pages that may be the open one
    PageSize,      \* documents on a page
    MaxDocuments,  \* bounds: documents,
    MaxEdits,      \*   changes of them by others,
    MaxMoves       \*   moves of the user

VARIABLES
    kind,        \* the page
    documents,   \* the server: the documents, in the order of their creation
    edits,       \* how often they have changed
    view,        \* what the page's hooks hold
    box,         \* what stands in the search box
    timers,      \* the calls debounce has scheduled
    cache,       \* the query cache: an entry for each key
    resolving,   \* the mutation of the errors tab
    strayed,     \* history: a tab was chosen beyond the first page
    moves

vars == <<kind, documents, edits, view, box, timers, cache, resolving, strayed, moves>>

-----------------------------------------------------------------------------
(* The pages: their tabs and selects, whether a failed fetch is told, and  *)
(* when the buttons "Previous" and "Next" are there.                       *)

TicketMarks == {"open", "closed"}

Homes == {"agentHome", "customerHome"}

AdminPage ==
    [tabs |-> {"overview"}, marks |-> {All} \cup TicketMarks, whos |-> {All, "unassigned", "agent"},
     words |-> BOOLEAN, tellsFailures |-> TRUE, pager |-> "rows"]

ManagerPage ==
    [tabs |-> {"overview", "unassigned", "team"}, marks |-> {All} \cup TicketMarks,
     whos |-> {All, "unassigned", "agent"}, words |-> BOOLEAN, tellsFailures |-> TRUE, pager |-> "rows"]

AgentPage ==
    [tabs |-> {"all", "assigned"}, marks |-> {All} \cup TicketMarks, whos |-> {All},
     words |-> BOOLEAN, tellsFailures |-> TRUE, pager |-> "rows"]

CustomerPage ==
    [tabs |-> {"all"}, marks |-> {All} \cup TicketMarks, whos |-> {All},
     words |-> BOOLEAN, tellsFailures |-> TRUE, pager |-> "rows"]

\* A manager has no option for the roles above.  The second select is "Status".
UsersPage(roles) ==
    [tabs |-> {"all"}, marks |-> {All} \cup roles, whos |-> {All, "inactive"},
     words |-> BOOLEAN, tellsFailures |-> TRUE, pager |-> "rows"]

ErrorsPage ==
    [tabs |-> {"errors"}, marks |-> {"unresolved", All}, whos |-> {All},
     words |-> {FALSE}, tellsFailures |-> FALSE, pager |-> "data"]

AuditPage ==
    [tabs |-> {"audit"}, marks |-> {All, "created", "updated"}, whos |-> {All},
     words |-> {FALSE}, tellsFailures |-> FALSE, pager |-> "data"]

\* The dashboards ask for the newest tickets, and for no others.
HomePage ==
    [tabs |-> {"home"}, marks |-> {All}, whos |-> {All},
     words |-> {FALSE}, tellsFailures |-> FALSE, pager |-> "never"]

Page ==
    CASE kind = "admin"    -> AdminPage
      [] kind = "manager"  -> ManagerPage
      [] kind = "agent"    -> AgentPage
      [] kind = "customer" -> CustomerPage
      [] kind = "users"    -> UsersPage({"admin", "agent"})
      [] kind = "team"     -> UsersPage({"agent"})
      [] kind = "errors"   -> ErrorsPage
      [] kind = "audit"    -> AuditPage
      [] kind \in Homes    -> HomePage

\* The useState of each page.
FirstViewOf(k) ==
    [tab  |-> CASE k \in {"admin", "manager"} -> "overview"
                [] k \in {"errors", "audit"} -> k
                [] k \in Homes -> "home"
                [] OTHER -> "all",
     mark |-> IF k = "errors" THEN "unresolved" ELSE All,
     who  |-> All, search |-> FALSE, page |-> 1]

FirstView == FirstViewOf(kind)

-----------------------------------------------------------------------------
(* What each page asks the server for.                                     *)

Asked(v, who) == [mark |-> v.mark, who |-> who, word |-> v.search, page |-> v.page]

\* 'unassigned' is sent as no choice at all.
AdminAsks(v) == Asked(v, IF v.who = "unassigned" THEN All ELSE v.who)

\* The tab overrides the select; the department of "team" is none of the
\* filters getAllTickets has.
ManagerAsks(v) == Asked(v, IF "unassigned" \in {v.tab, v.who} THEN All ELSE v.who)

AgentAsks(v) == Asked(v, IF v.tab = "assigned" THEN "me" ELSE All)

\* createdBy is none of the filters of getAllTickets either.
CustomerAsks(v) == Asked(v, All)

UsersAsks(v) == Asked(v, v.who)

ErrorsAsks(v) == Asked(v, All)

AuditAsks(v) == Asked(v, All)

HomeAsks == Asked(FirstView, All)

Asks(v) ==
    CASE kind = "admin"             -> AdminAsks(v)
      [] kind = "manager"           -> ManagerAsks(v)
      [] kind = "agent"             -> AgentAsks(v)
      [] kind = "customer"          -> CustomerAsks(v)
      [] kind \in {"users", "team"} -> UsersAsks(v)
      [] kind = "errors"            -> ErrorsAsks(v)
      [] kind = "audit"             -> AuditAsks(v)
      [] kind \in Homes             -> HomeAsks

-----------------------------------------------------------------------------
(* The server.                                                             *)

OfTickets == {"admin", "manager", "agent", "customer"} \cup Homes
OfAgents == {"agent", "agentHome"}
OfCustomers == {"customer", "customerHome"}

\* Documents that may be there, for the page that is open.  Bound: the first
\* marks, and no others, go with the word.
Marks ==
    CASE kind \in OfTickets         -> TicketMarks
      [] kind \in {"users", "team"} -> {"agent", "admin"}
      [] kind = "errors"            -> {"unresolved", "resolved"}
      [] kind = "audit"             -> {"created", "updated"}

Owners ==
    CASE kind \in {"admin", "manager"} -> {"nobody", "agent"}
      [] kind \in OfAgents             -> {"nobody", "me"}
      [] kind \in OfCustomers          -> {"me", "another"}
      [] OTHER                         -> {"nobody"}

Documents ==
    {[mark |-> mark, who |-> who, word |-> mark \in {"open", "agent"}, gone |-> FALSE] :
        mark \in Marks, who \in Owners}

\* getAllTickets: customers see their own, agents theirs and the open ones
\* nobody has.
SeesTicket(d) ==
    /\ kind \in OfCustomers => d.who = "me"
    /\ kind \in OfAgents => d.who = "me" \/ (d.who = "nobody" /\ d.mark = "open")

TicketFits(q, d) ==
    SeesTicket(d) /\ q.mark \in {All, d.mark} /\ q.who \in {All, d.who} /\ (q.word => d.word)

\* getAllUsers: managers see agents and customers.  The page sends `status`,
\* the server reads `isActive`.
UserFits(q, d) ==
    (kind = "team" => d.mark = "agent") /\ q.mark \in {All, d.mark} /\ (q.word => d.word)

ErrorFits(q, d) == q.mark \in {All, d.mark}

AuditFits(q, d) == q.mark \in {All, d.mark}

Fits(q, d) ==
    CASE kind \in OfTickets         -> TicketFits(q, d)
      [] kind \in {"users", "team"} -> UserFits(q, d)
      [] kind = "errors"            -> ErrorFits(q, d)
      [] kind = "audit"             -> AuditFits(q, d)

\* The newest first: how many of ns come before n.
Before(n, ns) == Cardinality({m \in ns : m > n})

\* The hook of ticketSchema hides deleted tickets from find ...
Found(q) == {n \in 1..Len(documents) : Fits(q, documents[n]) /\ ~documents[n].gone}

Rows(q) ==
    LET skip == (q.page - 1) * PageSize
        page == {n \in Found(q) : Before(n, Found(q)) \in skip..(skip + PageSize - 1)}
    IN {[number |-> n, document |-> documents[n]] : n \in page}

\* ... but not from countDocuments.
Counted(q) == {n \in 1..Len(documents) : Fits(q, documents[n])}

Pages(q) == (Cardinality(Counted(q)) + PageSize - 1) \div PageSize

-----------------------------------------------------------------------------
(* The query cache.                                                        *)

\* Mutant: the tab is no part of the key.
KeyWithoutTab(v) == [v EXCEPT !.tab = FirstView.tab]

Key(v) == v

NoCall == [phase |-> "none"]
Fetch(v) == [phase |-> "sent", asked |-> Asks(v)]
NoEntry == [loaded |-> FALSE, rows |-> {}, pages |-> 0, edition |-> 0, failed |-> FALSE, call |-> NoCall]

Entry(k) == IF k \in DOMAIN cache THEN cache[k] ELSE NoEntry

Kept(k, entry) == [j \in DOMAIN cache \cup {k} |-> IF j = k THEN entry ELSE cache[j]]

\* A fetch starts, unless one is under way.  The error of a query without
\* data is forgotten.
Started(k, v) ==
    IF Entry(k).call # NoCall THEN cache
    ELSE Kept(k, [Entry(k) EXCEPT !.call = Fetch(v), !.failed = @ /\ Entry(k).loaded])

\* invalidateQueries: a fetch under way is given up if there is data to show.
Refetched(k, v) ==
    IF Entry(k).loaded THEN [cache EXCEPT ![k].call = Fetch(v)] ELSE Started(k, v)

Here == Entry(Key(view))

\* What the page shows.
Shown ==
    IF ~Here.loaded /\ Here.call # NoCall THEN "loading"
    ELSE IF Here.failed /\ Page.tellsFailures THEN "failure"
    ELSE IF Here.rows = {} THEN "empty" ELSE "rows"

\* The agent's dashboard shows their own of the newest tickets, if there are any.
Displayed ==
    LET mine == {r \in Here.rows : r.document.who = "me"}
    IN IF kind = "agentHome" /\ mine # {} THEN mine ELSE Here.rows

\* find and countDocuments, for what was asked when the fetch started.  Bound:
\* they are answered at one moment, which no property here tells apart; and
\* after the last move a view that was left is of no more interest.
FetchAnswered(k) ==
    /\ cache[k].call # NoCall
    /\ moves < MaxMoves \/ k = Key(view)
    /\ cache' = [cache EXCEPT ![k] = [loaded |-> TRUE, rows |-> Rows(@.call.asked), pages |-> Pages(@.call.asked),
                                      edition |-> edits, failed |-> FALSE, call |-> NoCall]]
    /\ UNCHANGED <<kind, documents, edits, view, box, timers, resolving, strayed, moves>>

\* After the retries.
FetchFails(k) ==
    /\ cache[k].call # NoCall
    /\ moves < MaxMoves \/ k = Key(view)
    /\ cache' = [cache EXCEPT ![k].call = NoCall, ![k].failed = TRUE]
    /\ UNCHANGED <<kind, documents, edits, view, box, timers, resolving, strayed, moves>>

\* refetchInterval.  Bound: the answer is the one there is if nothing has
\* changed.
Poll ==
    /\ Here.call = NoCall
    /\ cache' = IF Here.loaded /\ Here.edition = edits THEN cache ELSE Started(Key(view), view)
    /\ UNCHANGED <<kind, documents, edits, view, box, timers, resolving, strayed, moves>>

-----------------------------------------------------------------------------
(* The user.                                                               *)

\* Another key is observed; the fetch of the former one goes on.
Turned(v) ==
    /\ view' = v
    /\ cache' = IF Key(v) = Key(view) THEN cache ELSE Started(Key(v), v)

Moved == moves < MaxMoves /\ moves' = moves + 1

\* Mutant: the page stays.
FilterKeepsPage(v) == v

\* handleFilterChange, and the buttons and the select of the monitoring tabs.
Filtered(v) == [v EXCEPT !.page = 1]

Choose ==
    /\ Moved
    /\ \/ \E mark \in Page.marks : Turned(Filtered([view EXCEPT !.mark = mark]))
       \/ \E who \in Page.whos : Turned(Filtered([view EXCEPT !.who = who]))
    /\ strayed' = FALSE
    /\ UNCHANGED <<kind, documents, edits, box, timers, resolving>>

\* setActiveTab is all a tab does.
ChooseTab ==
    /\ Moved
    /\ \E tab \in Page.tabs \ {view.tab} : Turned([view EXCEPT !.tab = tab])
    /\ strayed' = (view.page > 1)
    /\ UNCHANGED <<kind, documents, edits, box, timers, resolving>>

PagerShown ==
    \/ Page.pager = "rows" /\ Shown = "rows"
    \/ Page.pager = "data" /\ Here.loaded

TurnPage ==
    /\ Moved
    /\ PagerShown
    /\ \/ view.page < Here.pages /\ Turned([view EXCEPT !.page = @ + 1])
       \/ view.page > 1 /\ Here.pages > 1 /\ Turned([view EXCEPT !.page = @ - 1])
    /\ UNCHANGED <<kind, documents, edits, box, timers, resolving, strayed>>

\* A debounced function replaces the call it scheduled before.  Every render
\* makes a new one, and what is typed after it leaves the earlier call standing.
Type ==
    /\ Moved
    /\ \E word \in Page.words \ {box} :
          /\ box' = word
          /\ \/ timers' = Append(timers, word)
             \/ timers # <<>> /\ timers' = Append(Front(timers), word)
    /\ UNCHANGED <<kind, documents, edits, view, cache, resolving, strayed>>

\* All wait equally long: the first one runs first.
Debounced ==
    /\ timers # <<>>
    /\ timers' = Tail(timers)
    /\ Turned([view EXCEPT !.search = Head(timers), !.page = 1])
    /\ strayed' = FALSE
    /\ UNCHANGED <<kind, documents, edits, box, resolving, moves>>

-----------------------------------------------------------------------------
(* The errors: an administrator marks one as resolved.                     *)

Idle == [phase |-> "idle"]

Resolve ==
    /\ kind = "errors" /\ Shown = "rows" /\ resolving = Idle
    /\ Moved
    /\ \E r \in Here.rows :
          /\ r.document.mark = "unresolved"
          /\ resolving' = [phase |-> "sent", number |-> r.number]
    /\ UNCHANGED <<kind, documents, edits, view, box, timers, cache, strayed>>

ServeResolve ==
    /\ resolving.phase = "sent"
    /\ documents' = [documents EXCEPT ![resolving.number].mark = "resolved"]
    /\ edits' = IF documents' = documents THEN edits ELSE edits + 1
    /\ resolving' = [phase |-> "ok"]
    /\ UNCHANGED <<kind, view, box, timers, cache, strayed, moves>>

\* invalidateQueries(['monitoring-errors']).
Resolved ==
    /\ resolving.phase = "ok"
    /\ resolving' = Idle
    /\ cache' = Refetched(Key(view), view)
    /\ UNCHANGED <<kind, documents, edits, view, box, timers, strayed, moves>>

ResolveFails ==
    /\ resolving # Idle
    /\ resolving' = Idle
    /\ UNCHANGED <<kind, documents, edits, view, box, timers, cache, strayed, moves>>

-----------------------------------------------------------------------------
(* The others.                                                             *)

Edited(after) ==
    /\ edits < MaxEdits /\ edits' = edits + 1
    /\ documents' = after
    /\ UNCHANGED <<kind, view, box, timers, cache, resolving, strayed, moves>>

Add ==
    /\ Len(documents) < MaxDocuments
    /\ \E d \in Documents : Edited(Append(documents, d))

\* An audit entry is never changed, an error only resolved.
Change ==
    \E n \in 1..Len(documents), d \in Documents :
        /\ ~documents[n].gone
        /\ (d.mark = documents[n].mark) # (d.who = documents[n].who)
        /\ kind # "audit"
        /\ kind = "errors" => d.mark = "resolved"
        /\ Edited([documents EXCEPT ![n] = d])

\* Only tickets are deleted: they are marked so.
Delete ==
    \E n \in 1..Len(documents) :
        /\ kind \in OfTickets /\ ~documents[n].gone
        /\ Edited([documents EXCEPT ![n].gone = TRUE])

-----------------------------------------------------------------------------

Init ==
    /\ kind \in Kinds
    /\ documents \in UNION {[1..n -> Documents] : n \in 0..MaxDocuments}
    /\ edits = 0 /\ moves = 0
    /\ view = FirstView /\ box = FALSE /\ timers = <<>> /\ strayed = FALSE
    /\ cache = [k \in {Key(FirstView)} |-> [NoEntry EXCEPT !.call = Fetch(FirstView)]]
    /\ resolving = Idle

Next ==
    \/ \E k \in DOMAIN cache : FetchAnswered(k) \/ FetchFails(k)
    \/ Poll
    \/ Choose \/ ChooseTab \/ TurnPage \/ Type \/ Debounced
    \/ Resolve \/ ServeResolve \/ Resolved \/ ResolveFails
    \/ Add \/ Change \/ Delete

Spec == Init /\ [][Next]_vars

-----------------------------------------------------------------------------
(* No list is open.                                                        *)

Away ==
    /\ kind = "customer" /\ documents = <<>> /\ edits = 0 /\ moves = 0
    /\ view = FirstView /\ box = FALSE /\ timers = <<>> /\ strayed = FALSE
    /\ cache = <<>> /\ resolving = Idle

Leave ==
    /\ kind' = "customer" /\ documents' = <<>> /\ edits' = 0 /\ moves' = 0
    /\ view' = FirstViewOf("customer") /\ box' = FALSE /\ timers' = <<>> /\ strayed' = FALSE
    /\ cache' = <<>> /\ resolving' = Idle
=============================================================================

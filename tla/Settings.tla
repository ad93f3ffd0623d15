------------------------------ MODULE Settings ------------------------------
(***************************************************************************)
(* The settings: SystemConfig on the server, the two forms that edit it    *)
(* (SystemSettings and the tab "System Config" of the monitoring page),    *)
(* the other sections of the settings pages, and the registration that     *)
(* goes by it.                                                             *)
(*                                                                         *)
(* One user goes through the sections; another administrator saves, and a  *)
(* visitor registers.  Of the six settings two are kept: the one the       *)
(* server reads, and a limit, which stands for those it does not read.     *)
(*                                                                         *)
(* Left out: what the fields of the other sections are about, and the      *)
(* checks of their values.                                                 *)
(***************************************************************************)
EXTENDS Integers, FiniteSets

CONSTANTS
    Limits,        \* values of maxLoginAttempts, within the bounds of configSchema
    DefaultLimit,
    MaxStamp,      \* bounds: versions of the document,
    MaxSaves       \*   saves in flight

VARIABLES
    role,       \* of the user
    section,    \* the section the user is in
    form,       \* the state of the form, if it is one for SystemConfig
    config,     \* the server: the document, at stamp 0 while there is none
    query,      \* the query ['system-config']
    saves,      \* the user's saves in flight
    owed,       \* history: the version of that save
    visitor     \* the registration in flight

settingsVars == <<role, section, form, config, query, saves, owed, visitor>>

-----------------------------------------------------------------------------
(* The sections.                                                           *)

\* Each role's tabs.  The forms of the first four never reach the server.
Common == {"profile", "security", "notifications", "preferences"}

AdminTabs == Common \cup {"system", "user-management", "security-policies", "database"}
ManagerTabs == Common \cup {"team-management", "reporting", "workflow"}
AgentTabs == Common \cup {"availability", "performance"}
CustomerTabs == Common \cup {"communication", "feedback"}

\* The monitoring page is the administrators'.
Sections ==
    CASE role = "admin"    -> AdminTabs \cup {"config"}
      [] role = "manager"  -> ManagerTabs
      [] role = "agent"    -> AgentTabs
      [] role = "customer" -> CustomerTabs

OfConfig == {"system", "config"}

-----------------------------------------------------------------------------
(* SystemConfig.                                                           *)

Defaults == [registration |-> TRUE, limit |-> DefaultLimit]

Document(values, stamp) == [registration |-> values.registration, limit |-> values.limit, stamp |-> stamp]
NoDocument == Document(Defaults, 0)

\* getConfig looks the document up and, if there is none, creates it, which
\* fails where another has done so meanwhile.
NoCall == [phase |-> "none"]
Calling == [phase |-> "sent", config |-> NoDocument]

Looked(call) ==
    [call EXCEPT !.phase = IF config.stamp = 0 THEN "missing" ELSE "answered", !.config = config]

\* Mutant: the document is replaced.
CreationReplaces == Document(Defaults, config.stamp + 1)

Creation == IF config.stamp = 0 THEN Document(Defaults, 1) ELSE config

Created(call) ==
    IF Creation = config THEN [call EXCEPT !.phase = "refused"]
    ELSE [call EXCEPT !.phase = "answered", !.config = Creation]

\* configSchema refuses keys it does not know.
Acceptable(body) == ~body.whole

\* The visitor's request, if there is one, as it meets a document that changes.
Noticed(after) ==
    IF visitor.call = NoCall THEN visitor ELSE [visitor EXCEPT !.allowed = @ \/ after.registration]

-----------------------------------------------------------------------------
(* The query and the forms.                                                *)

Started(q) == IF q.call = NoCall THEN [q EXCEPT !.call = Calling, !.failed = @ /\ q.loaded] ELSE q

\* Who mounts a form: without data, or after 60 seconds, the query is fetched.
Mounted(q) == IF q.loaded /\ q.fresh THEN q ELSE Started(q)

FirstForm == [values |-> Defaults, dirty |-> FALSE, whole |-> FALSE]

\* The effect on [config].
FormOf(document) ==
    [FirstForm EXCEPT !.values = [registration |-> document.registration, limit |-> document.limit]]

Received(q, document) ==
    [q EXCEPT !.loaded = TRUE, !.document = document, !.fresh = TRUE, !.failed = FALSE]

\* The effect runs when the document is another one.
Refilled(document, otherwise) ==
    IF section \in OfConfig /\ document # query.document THEN FormOf(document) ELSE otherwise

Ready == section \in OfConfig /\ query.loaded /\ ~query.failed

Pending == \E s \in saves : s.here

\* What is on the way when another fetch or save meets it.
Disturbed == {[s EXCEPT !.alone = FALSE] : s \in saves}

-----------------------------------------------------------------------------
(* The user.                                                               *)

Open(where) ==
    LET q == IF where \in OfConfig THEN Mounted(query) ELSE query IN
    /\ where \in Sections \ {section}
    /\ section' = where
    /\ query' = q
    /\ form' = IF where \in OfConfig /\ query.loaded THEN FormOf(query.document) ELSE FirstForm
    /\ saves' = {[s EXCEPT !.here = FALSE, !.alone = @ /\ q = query] : s \in saves}
    /\ UNCHANGED <<role, config, owed, visitor>>

\* A field is changed, also while a save is under way.
Change ==
    /\ Ready
    /\ \E values \in [registration : BOOLEAN, limit : Limits] :
          /\ \E field \in {"registration", "limit"} :
                values = [form.values EXCEPT ![field] = values[field]] /\ values # form.values
          /\ form' = [form EXCEPT !.values = values, !.dirty = TRUE]
    /\ UNCHANGED <<role, section, config, query, saves, owed, visitor>>

SystemDiscards == FALSE
ConfigDiscards == TRUE

\* The form of the monitoring page takes the whole document back, with the
\* keys the server adds.
Discard ==
    /\ Ready /\ form.dirty /\ ~Pending
    /\ form' = [FormOf(query.document) EXCEPT
                  !.whole = IF section = "config" THEN ConfigDiscards ELSE SystemDiscards]
    /\ UNCHANGED <<role, section, config, query, saves, owed, visitor>>

Save ==
    /\ Ready /\ form.dirty /\ ~Pending
    /\ Cardinality(saves) < MaxSaves
    /\ saves' = Disturbed \cup
                  {[phase |-> "sent", whole |-> form.whole, document |-> Document(form.values, 0),
                    here |-> TRUE, alone |-> saves = {} /\ query.call = NoCall]}
    /\ UNCHANGED <<role, section, form, config, query, owed, visitor>>

\* updateConfig: the document is there afterwards, whether or not it was.
ServeSave(s) ==
    /\ s.phase = "sent"
    /\ IF Acceptable(s)
       THEN /\ config.stamp < MaxStamp
            /\ config' = Document(s.document, config.stamp + 1)
            /\ saves' = (saves \ {s}) \cup {[s EXCEPT !.phase = "ok", !.document = config']}
            /\ visitor' = Noticed(config')
       ELSE /\ saves' = (saves \ {s}) \cup {[s EXCEPT !.phase = "refused"]}
            /\ UNCHANGED <<config, visitor>>
    /\ UNCHANGED <<role, section, form, query, owed>>

\* Mutant: onSuccess does not touch the query.
SuccessForgetsTheQuery(s) == query

\* onSuccess: setQueryData, which leaves a fetch under way alone.
Cached(s) == Received(query, s.document)

SaveSucceeds(s) ==
    /\ s.phase = "ok"
    /\ saves' = saves \ {s}
    /\ query' = Cached(s)
    /\ form' = LET clean == Refilled(s.document, [form EXCEPT !.dirty = FALSE])
               IN IF s.here THEN clean ELSE Refilled(s.document, form)
    /\ owed' = IF s.alone THEN s.document.stamp ELSE 0
    /\ UNCHANGED <<role, section, config, visitor>>

SaveFails(s) ==
    /\ saves' = saves \ {s}
    /\ UNCHANGED <<role, section, form, config, query, owed, visitor>>

-----------------------------------------------------------------------------
(* The query's fetch.                                                      *)

ServeFetch ==
    \/ /\ query.call.phase = "sent"
       /\ query' = [query EXCEPT !.call = Looked(@)]
       /\ UNCHANGED <<role, section, form, config, saves, owed, visitor>>
    \/ /\ query.call.phase = "missing"
       /\ query' = [query EXCEPT !.call = Created(@)]
       /\ config' = Creation
       /\ visitor' = Noticed(config')
       /\ UNCHANGED <<role, section, form, saves, owed>>

FetchAnswered ==
    /\ query.call.phase = "answered"
    /\ query' = [Received(query, query.call.config) EXCEPT !.call = NoCall]
    /\ form' = Refilled(query.call.config, form)
    /\ UNCHANGED <<role, section, config, saves, owed, visitor>>

FetchFails ==
    /\ query.call # NoCall
    /\ query' = [query EXCEPT !.call = NoCall, !.failed = TRUE]
    /\ UNCHANGED <<role, section, form, config, saves, owed, visitor>>

\* staleTime.
Age ==
    /\ query.fresh
    /\ query' = [query EXCEPT !.fresh = FALSE]
    /\ UNCHANGED <<role, section, form, config, saves, owed, visitor>>

\* refetchOnReconnect.
Reconnect ==
    /\ section \in OfConfig /\ query.call = NoCall
    /\ query' = Mounted(query)
    /\ saves' = IF query' = query THEN saves ELSE Disturbed
    /\ UNCHANGED <<role, section, form, config, owed, visitor>>

-----------------------------------------------------------------------------
(* The others.                                                             *)

SaveElsewhere ==
    /\ config.stamp < MaxStamp
    /\ \E values \in [registration : BOOLEAN, limit : Limits] :
          config' = Document(values, config.stamp + 1)
    /\ visitor' = Noticed(config')
    /\ UNCHANGED <<role, section, form, query, saves, owed>>

NoVisitor == [call |-> NoCall, registered |-> FALSE, allowed |-> FALSE]

\* RegisterPage.  Bound: no visitor comes while the user is an administrator,
\* whose saves are to a registration what those of others are.
Visit ==
    /\ visitor = NoVisitor /\ role # "admin"
    /\ visitor' = [call |-> Calling, registered |-> FALSE, allowed |-> config.registration]
    /\ UNCHANGED <<role, section, form, config, query, saves, owed>>

LookUp ==
    \/ /\ visitor.call.phase = "sent"
       /\ visitor' = [visitor EXCEPT !.call = Looked(@)]
       /\ UNCHANGED <<role, section, form, config, query, saves, owed>>
    \/ /\ visitor.call.phase = "missing"
       /\ visitor' = [Noticed(Creation) EXCEPT !.call = Created(@)]
       /\ config' = Creation
       /\ UNCHANGED <<role, section, form, query, saves, owed>>

\* Mutant: the setting is looked up and not asked.
AnybodyRegisters(document) == TRUE

MayRegister(document) == document.registration

\* register: the account is created some time after the look at the settings.
Register ==
    /\ visitor.call.phase = "answered" /\ MayRegister(visitor.call.config)
    /\ visitor' = [visitor EXCEPT !.call = NoCall, !.registered = TRUE]
    /\ UNCHANGED <<role, section, form, config, query, saves, owed>>

\* 403, or the error of create.
TurnAway ==
    /\ \/ visitor.call.phase = "refused"
       \/ visitor.call.phase = "answered" /\ ~MayRegister(visitor.call.config)
    /\ visitor' = NoVisitor
    /\ UNCHANGED <<role, section, form, config, query, saves, owed>>

-----------------------------------------------------------------------------

SettingsInit ==
    /\ role \in {"admin", "manager", "agent", "customer"}
    /\ section = "profile" /\ form = FirstForm
    /\ config \in {NoDocument} \cup {Document([Defaults EXCEPT !.registration = r], 1) : r \in BOOLEAN}
    /\ query = [loaded |-> FALSE, document |-> NoDocument, fresh |-> FALSE, failed |-> FALSE, call |-> NoCall]
    /\ saves = {} /\ owed = 0
    /\ visitor = NoVisitor

SettingsNext ==
    \/ \E where \in Sections : Open(where)
    \/ Change \/ Discard \/ Save
    \/ \E s \in saves : ServeSave(s) \/ SaveSucceeds(s) \/ SaveFails(s)
    \/ ServeFetch \/ FetchAnswered \/ FetchFails \/ Age \/ Reconnect
    \/ SaveElsewhere \/ Visit \/ LookUp \/ Register \/ TurnAway

SettingsSpec == SettingsInit /\ [][SettingsNext]_settingsVars
=============================================================================

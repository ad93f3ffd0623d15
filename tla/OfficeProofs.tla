---------------------------- MODULE OfficeProofs ----------------------------
(***************************************************************************)
(* Proofs about the lists and the settings, for any number of documents,   *)
(* moves, values and versions.                                             *)
(***************************************************************************)
EXTENDS OfficeProperties, FiniteSetTheorems, SequenceTheorems, TLAPS

-----------------------------------------------------------------------------
(* The inductive invariant of a list.                                      *)

Views ==
    [tab : List!Page.tabs, mark : List!Page.marks, who : List!Page.whos,
     search : List!Page.words, page : Nat \ {0}]

DocumentType ==
    [mark : {"open", "closed", "agent", "admin", "unresolved", "resolved", "created", "updated"},
     who : {"nobody", "agent", "me", "another"}, word : BOOLEAN, gone : BOOLEAN]

EntryFields == {"loaded", "rows", "pages", "edition", "failed", "call"}

\* What is kept for a view was asked for it, fits it and fills a page at most;
\* and it is what is there, unless something changed since.
IsEntry(k, e) ==
    /\ k \in Views /\ DOMAIN e = EntryFields
    /\ e.call \in {List!NoCall, List!Fetch(k)}
    /\ \A r \in e.rows : List!Fits(List!Asks(k), r.document)
    /\ IsFiniteSet(e.rows) /\ Cardinality(e.rows) <= PageSize
    /\ ~e.loaded => e.rows = {} /\ e.pages = 0
    /\ e.edition \in Nat /\ e.edition <= edits
    /\ e.loaded /\ e.edition = edits =>
           e.rows = List!Rows(List!Asks(k)) /\ e.pages = List!Pages(List!Asks(k))

\* Until something changed or a tab was chosen on a later page, the page that is
\* open is one there is.
PageIsThere ==
    edits = 0 /\ ~strayed /\ view.page > 1 => view.page <= List!Pages(List!Asks(view))

AllKept == \A k \in DOMAIN cache : IsEntry(k, cache[k])

ListInv ==
    /\ kind \in AllKinds
    /\ view \in Views /\ timers \in Seq(List!Page.words)
    /\ strayed \in BOOLEAN /\ edits \in Nat
    /\ documents \in Seq(DocumentType)
    /\ edits = 0 => \A n \in 1..Len(documents) : ~documents[n].gone
    /\ AllKept
    /\ PageIsThere

-----------------------------------------------------------------------------
(* The inductive invariant of the settings.                                *)

Values == [registration : BOOLEAN, limit : Limits]
ConfigType == [registration : BOOLEAN, limit : Limits, stamp : Nat]

CallType ==
    {Setting!NoCall} \cup [phase : {"sent", "missing", "answered", "refused"}, config : ConfigType]

SaveType ==
    [phase : {"sent", "ok", "refused"}, whole : BOOLEAN, document : ConfigType,
     here : BOOLEAN, alone : BOOLEAN]

SettingsTyped ==
    /\ form \in [values : Values, dirty : BOOLEAN, whole : BOOLEAN]
    /\ config \in ConfigType
    /\ query \in [loaded : BOOLEAN, document : ConfigType, fresh : BOOLEAN, failed : BOOLEAN,
                  call : CallType]
    /\ saves \subseteq SaveType
    /\ owed \in Nat
    /\ visitor \in [call : CallType, registered : BOOLEAN, allowed : BOOLEAN]

\* While a registration is under way, what the setting is now, and what was read
\* of it, is something it was during the request.
VisitorIsTold ==
    /\ visitor.call # Setting!NoCall /\ config.registration => visitor.allowed
    /\ visitor.call.phase = "answered" /\ visitor.call.config.registration => visitor.allowed
    /\ visitor.registered => visitor.allowed

\* A save that nothing met is the only thing under way, and stores a version
\* the page has not seen.
LoneSaves ==
    \A s \in saves : s.alone =>
        /\ saves = {s} /\ query.call = Setting!NoCall
        /\ s.phase = "ok" =>
               query.document.stamp < s.document.stamp /\ s.document.stamp <= config.stamp

\* What the page has, and what it is about to be given, is not older than the
\* user's save, and the form was filled with it.
SaveIsShown ==
    /\ query.document.stamp <= config.stamp
    /\ query.call.phase = "answered" => query.call.config.stamp <= config.stamp
    /\ \A s \in saves : s.phase = "ok" => s.document.stamp <= config.stamp
    /\ owed > 0 =>
          /\ query.loaded /\ owed <= query.document.stamp
          /\ query.call.phase = "answered" => owed <= query.call.config.stamp
          /\ section \in Setting!OfConfig /\ ~form.dirty =>
                 form.values = Setting!FormOf(query.document).values

SettingsInv == SettingsTyped /\ VisitorIsTold /\ LoneSaves /\ SaveIsShown

-----------------------------------------------------------------------------
(* The settings.                                                           *)

LEMMA SettingsInitially == Setting!SettingsInit => SettingsInv
<1> SUFFICES ASSUME Setting!SettingsInit PROVE SettingsInv
  OBVIOUS
<1>1. Setting!Defaults \in Values
  BY LimitsAssumption DEF Setting!Defaults, Values
<1>2. Setting!NoDocument \in ConfigType /\ Setting!NoDocument.stamp = 0
  BY <1>1 DEF Setting!NoDocument, Setting!Document, Values, ConfigType
<1>3. config \in ConfigType
  BY <1>1, <1>2 DEF Setting!SettingsInit, Setting!Document, Values, ConfigType
<1>4. form \in [values : Values, dirty : BOOLEAN, whole : BOOLEAN]
  BY <1>1 DEF Setting!SettingsInit, Setting!FirstForm
<1>5. SettingsTyped
  BY <1>2, <1>3, <1>4 DEF Setting!SettingsInit, SettingsTyped, CallType, SaveType, Setting!NoVisitor
<1> QED
  BY <1>2, <1>3, <1>5 DEF Setting!SettingsInit, SettingsInv, VisitorIsTold, LoneSaves, SaveIsShown,
     Setting!NoCall, Setting!NoVisitor, ConfigType

\* Versions, forms and calls.
LEMMA SettingsOperators ==
    ASSUME SettingsTyped
    PROVE  /\ Setting!Calling \in CallType /\ Setting!Calling.phase = "sent"
           /\ \A v \in Values, n \in Nat :
                  Setting!Document(v, n) \in ConfigType /\ Setting!Document(v, n).stamp = n
           /\ \A d \in ConfigType : \A n \in Nat :
                  Setting!Document(d, n) \in ConfigType /\ Setting!Document(d, n).stamp = n
           /\ \A d \in ConfigType :
                  /\ Setting!FormOf(d) \in [values : Values, dirty : BOOLEAN, whole : BOOLEAN]
                  /\ ~Setting!FormOf(d).dirty
           /\ Setting!FirstForm \in [values : Values, dirty : BOOLEAN, whole : BOOLEAN]
           /\ Setting!Creation \in ConfigType /\ config.stamp <= Setting!Creation.stamp
           /\ config.stamp > 0 => Setting!Creation = config
<1>1. Setting!Defaults \in Values
  BY LimitsAssumption DEF Setting!Defaults, Values
<1>2. \A v \in Values, n \in Nat :
          Setting!Document(v, n) \in ConfigType /\ Setting!Document(v, n).stamp = n
  BY DEF Setting!Document, Values, ConfigType
<1>3. \A d \in ConfigType : \A n \in Nat :
          Setting!Document(d, n) \in ConfigType /\ Setting!Document(d, n).stamp = n
  BY DEF Setting!Document, ConfigType
<1>4. Setting!NoDocument \in ConfigType
  BY <1>1, <1>2 DEF Setting!NoDocument
<1>5. Setting!FirstForm \in [values : Values, dirty : BOOLEAN, whole : BOOLEAN]
      /\ ~Setting!FirstForm.dirty
  BY <1>1 DEF Setting!FirstForm
<1>6. \A d \in ConfigType :
          /\ Setting!FormOf(d) \in [values : Values, dirty : BOOLEAN, whole : BOOLEAN]
          /\ ~Setting!FormOf(d).dirty
  BY <1>5 DEF Setting!FormOf, ConfigType, Values
<1>7. Setting!Calling \in CallType /\ Setting!Calling.phase = "sent"
  BY <1>4 DEF Setting!Calling, CallType
<1>8. /\ Setting!Creation \in ConfigType /\ config.stamp <= Setting!Creation.stamp
      /\ config.stamp > 0 => Setting!Creation = config
  BY <1>1, <1>2 DEF SettingsTyped, ConfigType, Setting!Creation
<1> QED
  BY <1>2, <1>3, <1>5, <1>6, <1>7, <1>8

\* A fetch starts or does not; what is kept stays.
LEMMA StartedQuery ==
    ASSUME SettingsTyped
    PROVE  LET q == Setting!Mounted(query) IN
           /\ q \in [loaded : BOOLEAN, document : ConfigType, fresh : BOOLEAN, failed : BOOLEAN,
                     call : CallType]
           /\ q.document = query.document /\ q.loaded = query.loaded
           /\ q = query \/ (query.call = Setting!NoCall /\ q.call = Setting!Calling)
  BY SettingsOperators DEF SettingsTyped, Setting!Mounted, Setting!Started

\* A call once the document was looked up, or created.
LEMMA ServedCall ==
    ASSUME SettingsTyped, NEW c \in CallType
    PROVE  /\ c.phase = "sent" =>
                /\ Setting!Looked(c) \in CallType
                /\ Setting!Looked(c).phase = "answered" => Setting!Looked(c).config = config
                /\ Setting!Looked(c) # Setting!NoCall
           /\ c.phase = "missing" =>
                /\ Setting!Created(c) \in CallType
                /\ Setting!Created(c).phase = "answered" =>
                       /\ Setting!Created(c).config = Setting!Creation
                       /\ config.stamp = 0 /\ Setting!Creation # config
                /\ Setting!Created(c) # Setting!NoCall
<1>1. Setting!Creation \in ConfigType /\ config \in ConfigType /\ config.stamp \in Nat
      /\ (config.stamp > 0 => Setting!Creation = config)
  BY SettingsOperators DEF SettingsTyped, ConfigType
<1>2. c.phase # "none" => c \in [phase : {"sent", "missing", "answered", "refused"}, config : ConfigType]
  BY DEF CallType, Setting!NoCall
<1>3. \A x \in [phase : {"sent", "missing", "answered", "refused"}, config : ConfigType] :
          x \in CallType /\ x # Setting!NoCall
  BY DEF CallType, Setting!NoCall
<1>4. ASSUME c.phase = "sent"
      PROVE  /\ Setting!Looked(c) \in [phase : {"sent", "missing", "answered", "refused"}, config : ConfigType]
             /\ Setting!Looked(c).config = config
  BY <1>1, <1>2, <1>4 DEF Setting!Looked
<1>5. ASSUME c.phase = "missing"
      PROVE  /\ Setting!Created(c) \in [phase : {"sent", "missing", "answered", "refused"}, config : ConfigType]
             /\ Setting!Created(c).phase = "answered" =>
                    Setting!Created(c).config = Setting!Creation /\ Setting!Creation # config
  BY <1>1, <1>2, <1>5 DEF Setting!Created
<1> HIDE DEF CallType
<1> QED
  BY <1>1, <1>3, <1>4, <1>5

LEMMA OpenStep ==
    ASSUME SettingsInv, NEW where, Setting!Open(where)
    PROVE  SettingsInv'
<1> DEFINE q == IF where \in Setting!OfConfig THEN Setting!Mounted(query) ELSE query
<1>1. /\ q \in [loaded : BOOLEAN, document : ConfigType, fresh : BOOLEAN, failed : BOOLEAN,
                call : CallType]
      /\ q.document = query.document /\ q.loaded = query.loaded
      /\ q = query \/ (query.call = Setting!NoCall /\ q.call = Setting!Calling)
  BY StartedQuery DEF SettingsInv, SettingsTyped
<1>2. /\ section' = where /\ query' = q /\ UNCHANGED <<config, owed, visitor>>
      /\ form' = IF where \in Setting!OfConfig /\ query.loaded
                 THEN Setting!FormOf(query.document) ELSE Setting!FirstForm
      /\ saves' = {[s EXCEPT !.here = FALSE, !.alone = @ /\ q = query] : s \in saves}
  BY DEF Setting!Open
<1> HIDE DEF q
<1>3. \A s \in saves' : \E o \in saves :
          /\ s \in SaveType /\ s.phase = o.phase /\ s.document = o.document
          /\ s.alone => o.alone /\ q = query /\ s = [o EXCEPT !.here = FALSE, !.alone = TRUE]
  <2> TAKE s \in saves'
  <2>1. PICK o \in saves : s = [o EXCEPT !.here = FALSE, !.alone = @ /\ q = query]
    BY <1>2
  <2>2. o \in [phase : {"sent", "ok", "refused"}, whole : BOOLEAN, document : ConfigType,
               here : BOOLEAN, alone : BOOLEAN]
    BY DEF SettingsInv, SettingsTyped, SaveType
  <2>3. CASE q = query /\ o.alone
    <3>1. s = [o EXCEPT !.here = FALSE, !.alone = TRUE]
      BY <2>1, <2>3
    <3>2. s \in SaveType /\ s.phase = o.phase /\ s.document = o.document
      BY <2>2, <3>1 DEF SaveType
    <3> QED
      BY <2>3, <3>1, <3>2
  <2>4. CASE ~(q = query /\ o.alone)
    <3>1. s = [o EXCEPT !.here = FALSE, !.alone = FALSE]
      BY <2>1, <2>4
    <3>2. s \in SaveType /\ s.phase = o.phase /\ s.document = o.document /\ ~s.alone
      BY <2>2, <3>1 DEF SaveType
    <3> QED
      BY <3>2
  <2> QED
    BY <2>3, <2>4
<1>4. SettingsTyped'
  BY <1>1, <1>2, <1>3, SettingsOperators DEF SettingsInv, SettingsTyped
<1>5. VisitorIsTold'
  BY <1>2 DEF SettingsInv, VisitorIsTold
<1>6. LoneSaves'
  <2> SUFFICES ASSUME NEW s \in saves', s.alone
               PROVE  /\ saves' = {s} /\ query'.call = Setting!NoCall
                      /\ s.phase = "ok" => /\ query'.document.stamp < s.document.stamp
                                           /\ s.document.stamp <= config'.stamp
    BY DEF LoneSaves
  <2>1. PICK o \in saves : /\ s.phase = o.phase /\ s.document = o.document
                           /\ o.alone /\ q = query
                           /\ s = [o EXCEPT !.here = FALSE, !.alone = TRUE]
    BY <1>3
  <2>2. saves = {o} /\ query.call = Setting!NoCall
        /\ (o.phase = "ok" => query.document.stamp < o.document.stamp
                              /\ o.document.stamp <= config.stamp)
    BY <2>1 DEF SettingsInv, LoneSaves
  <2>3. saves' = {s}
    BY <1>2, <2>2
  <2> QED
    BY <1>2, <2>1, <2>2, <2>3
<1>7. SaveIsShown'
  <2>1. q.call.phase = "answered" => q = query
    BY <1>1, SettingsOperators DEF SettingsInv
  <2>2. /\ query'.document = query.document
        /\ query'.call.phase = "answered" => query'.call = query.call
        /\ query'.loaded = query.loaded
    BY <1>1, <1>2, <2>1
  <2>3. section' \in Setting!OfConfig /\ query'.loaded =>
            form'.values = Setting!FormOf(query'.document).values
    BY <1>2, <2>2
  <2>4. \A s \in saves' : s.phase = "ok" => s.document.stamp <= config'.stamp
    <3> SUFFICES ASSUME NEW s \in saves', s.phase = "ok"
                 PROVE  s.document.stamp <= config.stamp
      BY <1>2
    <3>1. PICK o \in saves : s.phase = o.phase /\ s.document = o.document
      BY <1>3
    <3> QED
      BY <3>1 DEF SettingsInv, SaveIsShown
  <2> QED
    BY <1>2, <2>2, <2>3, <2>4 DEF SettingsInv, SaveIsShown, Setting!FormOf, Setting!FirstForm
<1> QED
  BY <1>4, <1>5, <1>6, <1>7 DEF SettingsInv

LEMMA FormStep ==
    ASSUME SettingsInv, Setting!Change \/ Setting!Discard
    PROVE  SettingsInv'
<1>1. UNCHANGED <<section, config, query, saves, owed, visitor>>
  BY DEF Setting!Change, Setting!Discard
<1>2. /\ form' \in [values : Values, dirty : BOOLEAN, whole : BOOLEAN]
      /\ form'.dirty \/ form'.values = Setting!FormOf(query.document).values
  <2>1. CASE Setting!Change
    BY <2>1 DEF Setting!Change, SettingsInv, SettingsTyped, Values
  <2>2. CASE Setting!Discard
    <3>1. Setting!FormOf(query.document) \in [values : Values, dirty : BOOLEAN, whole : BOOLEAN]
      BY SettingsOperators DEF SettingsInv, SettingsTyped
    <3>2. PICK w \in BOOLEAN : form' = [Setting!FormOf(query.document) EXCEPT !.whole = w]
      BY <2>2 DEF Setting!Discard, Setting!ConfigDiscards, Setting!SystemDiscards
    <3> QED
      BY <3>1, <3>2
  <2> QED
    BY <2>1, <2>2
<1>3. SettingsTyped'
  BY <1>1, <1>2 DEF SettingsInv, SettingsTyped
<1> QED
  BY <1>1, <1>2, <1>3 DEF SettingsInv, VisitorIsTold, LoneSaves, SaveIsShown, Setting!FormOf,
     Setting!FirstForm, Setting!OfConfig

\* What is on the way when another fetch or save meets it.
LEMMA DisturbedSaves ==
    ASSUME SettingsTyped
    PROVE  \A s \in Setting!Disturbed :
               /\ s \in SaveType /\ ~s.alone
               /\ \E o \in saves : s.phase = o.phase /\ s.document = o.document
<1> SUFFICES ASSUME NEW o \in saves
             PROVE  LET s == [o EXCEPT !.alone = FALSE] IN
                    s \in SaveType /\ ~s.alone /\ s.phase = o.phase /\ s.document = o.document
  BY DEF Setting!Disturbed
<1>1. o \in [phase : {"sent", "ok", "refused"}, whole : BOOLEAN, document : ConfigType,
             here : BOOLEAN, alone : BOOLEAN]
  BY DEF SettingsTyped, SaveType
<1> QED
  BY <1>1 DEF SaveType

LEMMA SaveStep ==
    ASSUME SettingsInv, Setting!Save
    PROVE  SettingsInv'
<1> DEFINE new == [phase |-> "sent", whole |-> form.whole, document |-> Setting!Document(form.values, 0),
                   here |-> TRUE, alone |-> saves = {} /\ query.call = Setting!NoCall]
<1>1. /\ saves' = Setting!Disturbed \cup {new}
      /\ UNCHANGED <<role, section, form, config, query, owed, visitor>>
  BY DEF Setting!Save
<1>2. new \in SaveType /\ new.phase = "sent"
  <2>1. form.values \in Values /\ form.whole \in BOOLEAN
    BY DEF SettingsInv, SettingsTyped
  <2>2. Setting!Document(form.values, 0) \in ConfigType
    BY <2>1, SettingsOperators DEF SettingsInv
  <2> QED
    BY <2>1, <2>2 DEF SaveType
<1>3. new.alone <=> saves = {} /\ query.call = Setting!NoCall
  OBVIOUS
<1> HIDE DEF new
<1>4. SettingsTyped'
  BY <1>1, <1>2, DisturbedSaves DEF SettingsInv, SettingsTyped
<1>5. VisitorIsTold'
  BY <1>1 DEF SettingsInv, VisitorIsTold
<1>6. LoneSaves'
  <2> SUFFICES ASSUME NEW s \in saves', s.alone
               PROVE  saves' = {s} /\ query'.call = Setting!NoCall /\ s.phase # "ok"
    BY DEF LoneSaves
  <2>1. s = new
    BY <1>1, DisturbedSaves DEF SettingsInv
  <2>2. Setting!Disturbed = {}
    BY <1>3, <2>1 DEF Setting!Disturbed
  <2> QED
    BY <1>1, <1>2, <1>3, <2>1, <2>2
<1>7. \A s \in saves' : s.phase = "ok" => s.document.stamp <= config.stamp
  <2> SUFFICES ASSUME NEW s \in Setting!Disturbed, s.phase = "ok"
               PROVE  s.document.stamp <= config.stamp
    BY <1>1, <1>2
  <2>1. PICK o \in saves : s.phase = o.phase /\ s.document = o.document
    BY DisturbedSaves DEF SettingsInv
  <2> QED
    BY <2>1 DEF SettingsInv, SaveIsShown
<1>8. SaveIsShown'
  BY <1>1, <1>7 DEF SettingsInv, SaveIsShown, Setting!FormOf, Setting!FirstForm, Setting!OfConfig
<1> QED
  BY <1>4, <1>5, <1>6, <1>8 DEF SettingsInv

\* A document takes the place of another: the registration under way is told.
LEMMA NoticedStep ==
    ASSUME SettingsTyped, VisitorIsTold, NEW after \in ConfigType,
           config' = after, visitor' = Setting!Noticed(after)
    PROVE  /\ visitor' \in [call : CallType, registered : BOOLEAN, allowed : BOOLEAN]
           /\ VisitorIsTold'
<1>1. after.registration \in BOOLEAN
  BY DEF ConfigType
<1>2. visitor \in [call : CallType, registered : BOOLEAN, allowed : BOOLEAN]
  BY DEF SettingsTyped
<1>3. CASE visitor.call = Setting!NoCall
  BY <1>2, <1>3 DEF Setting!Noticed, VisitorIsTold
<1>4. CASE visitor.call # Setting!NoCall
  <2>1. visitor' = [visitor EXCEPT !.allowed = @ \/ after.registration]
    BY <1>4 DEF Setting!Noticed
  <2>2. CASE after.registration
    <3>1. visitor' = [visitor EXCEPT !.allowed = TRUE]
      BY <2>1, <2>2
    <3> QED
      BY <1>2, <3>1 DEF VisitorIsTold
  <2>3. CASE ~after.registration
    <3>1. visitor' = [visitor EXCEPT !.allowed = visitor.allowed]
      BY <1>2, <2>1, <2>3
    <3>2. visitor' = visitor
      BY <1>2, <3>1
    <3> QED
      BY <1>2, <2>3, <3>2 DEF VisitorIsTold
  <2> QED
    BY <1>1, <2>2, <2>3
<1> QED
  BY <1>3, <1>4

\* A newer version is stored, whoever stores it.
LEMMA NewerVersion ==
    ASSUME SettingsInv, NEW after \in ConfigType, config.stamp <= after.stamp,
           config' = after, visitor' = Setting!Noticed(after),
           UNCHANGED <<section, form, query, owed>>, saves' \subseteq saves
    PROVE  SettingsInv'
<1>1. visitor' \in [call : CallType, registered : BOOLEAN, allowed : BOOLEAN] /\ VisitorIsTold'
  BY NoticedStep DEF SettingsInv
<1>2. SettingsTyped'
  BY <1>1 DEF SettingsInv, SettingsTyped
<1>3. \A s \in SaveType : s.document.stamp \in Nat
  BY DEF SaveType, ConfigType
<1>4. config.stamp \in Nat /\ after.stamp \in Nat /\ query.document.stamp \in Nat
  BY DEF SettingsInv, SettingsTyped, ConfigType
<1>5. query.call.phase = "answered" => query.call.config.stamp \in Nat
  BY DEF SettingsInv, SettingsTyped, CallType, ConfigType, Setting!NoCall
<1>6. LoneSaves'
  BY <1>3, <1>4 DEF SettingsInv, SettingsTyped, LoneSaves
<1>7. SaveIsShown'
  BY <1>3, <1>4, <1>5 DEF SettingsInv, SettingsTyped, SaveIsShown, Setting!FormOf,
     Setting!FirstForm, Setting!OfConfig
<1> QED
  BY <1>1, <1>2, <1>6, <1>7 DEF SettingsInv

LEMMA ServeSaveStep ==
    ASSUME SettingsInv, NEW s \in saves, Setting!ServeSave(s)
    PROVE  SettingsInv'
<1>1. s \in [phase : {"sent", "ok", "refused"}, whole : BOOLEAN, document : ConfigType,
             here : BOOLEAN, alone : BOOLEAN]
  BY DEF SettingsInv, SettingsTyped, SaveType
<1>2. config \in ConfigType /\ config.stamp \in Nat /\ query.document.stamp <= config.stamp
  BY DEF SettingsInv, SettingsTyped, ConfigType, SaveIsShown
<1>3. s.alone => saves = {s} /\ query.call = Setting!NoCall
  BY DEF SettingsInv, LoneSaves
<1>4. CASE Setting!Acceptable(s)
  <2> DEFINE after == Setting!Document(s.document, config.stamp + 1)
             new == [s EXCEPT !.phase = "ok", !.document = after]
  <2>1. /\ config' = after /\ saves' = (saves \ {s}) \cup {new}
        /\ visitor' = Setting!Noticed(after)
        /\ UNCHANGED <<section, form, query, owed>>
    BY <1>4 DEF Setting!ServeSave
  <2>2. after \in ConfigType /\ after.stamp = config.stamp + 1
    <3>1. s.document \in ConfigType
      BY <1>1
    <3>2. config.stamp + 1 \in Nat
      BY <1>2
    <3> QED
      BY <3>1, <3>2 DEF Setting!Document, ConfigType
  <2>3. /\ new \in SaveType /\ new.phase = "ok" /\ new.document = after /\ new.alone = s.alone
    BY <1>1, <2>2 DEF SaveType
  <2> HIDE DEF after, new
  <2>4. visitor' \in [call : CallType, registered : BOOLEAN, allowed : BOOLEAN] /\ VisitorIsTold'
    BY <2>1, <2>2, NoticedStep DEF SettingsInv
  <2>5. SettingsTyped'
    BY <2>1, <2>2, <2>3, <2>4 DEF SettingsInv, SettingsTyped
  <2>6. \A o \in SaveType : o.document.stamp \in Nat
    BY DEF SaveType, ConfigType
  <2>7. query.document.stamp \in Nat /\ query.call.phase = "answered" => query.call.config.stamp \in Nat
    BY DEF SettingsInv, SettingsTyped, CallType, ConfigType, Setting!NoCall
  <2>8. LoneSaves'
    <3> SUFFICES ASSUME NEW o \in saves', o.alone
                 PROVE  /\ saves' = {o} /\ query.call = Setting!NoCall
                        /\ o.phase = "ok" => /\ query.document.stamp < o.document.stamp
                                             /\ o.document.stamp <= after.stamp
      BY <2>1 DEF LoneSaves
    <3>1. o = new
      BY <1>3, <2>1, <2>3 DEF SettingsInv, LoneSaves
    <3>2. s.alone /\ saves' = {new}
      BY <1>3, <2>1, <2>3, <3>1
    <3>3. query.document.stamp \in Nat
      BY DEF SettingsInv, SettingsTyped, ConfigType
    <3> QED
      BY <1>2, <1>3, <2>2, <2>3, <3>1, <3>2, <3>3
  <2>9. \A o \in saves' : o.phase = "ok" => o.document.stamp <= after.stamp
    BY <1>2, <2>1, <2>2, <2>3, <2>6 DEF SettingsInv, SettingsTyped, SaveIsShown
  <2>10. SaveIsShown'
    BY <1>2, <2>1, <2>2, <2>7, <2>9 DEF SettingsInv, SettingsTyped, ConfigType, SaveIsShown,
       Setting!FormOf, Setting!FirstForm, Setting!OfConfig
  <2> QED
    BY <2>4, <2>5, <2>8, <2>10 DEF SettingsInv
<1>5. CASE ~Setting!Acceptable(s)
  <2> DEFINE new == [s EXCEPT !.phase = "refused"]
  <2>1. /\ saves' = (saves \ {s}) \cup {new}
        /\ UNCHANGED <<section, form, config, query, owed, visitor>>
    BY <1>5 DEF Setting!ServeSave
  <2>2. new \in SaveType /\ new.phase = "refused" /\ new.alone = s.alone
    BY <1>1 DEF SaveType
  <2> HIDE DEF new
  <2>3. SettingsTyped'
    BY <2>1, <2>2 DEF SettingsInv, SettingsTyped
  <2>4. LoneSaves'
    BY <1>3, <2>1, <2>2 DEF SettingsInv, LoneSaves
  <2>5. SaveIsShown' /\ VisitorIsTold'
    BY <2>1, <2>2 DEF SettingsInv, SaveIsShown, VisitorIsTold, Setting!FormOf, Setting!FirstForm,
       Setting!OfConfig
  <2> QED
    BY <2>3, <2>4, <2>5 DEF SettingsInv
<1> QED
  BY <1>4, <1>5

LEMMA SaveFailsStep ==
    ASSUME SettingsInv, NEW s \in saves, Setting!SaveFails(s)
    PROVE  SettingsInv'
<1>1. saves' = saves \ {s} /\ UNCHANGED <<section, form, config, query, owed, visitor>>
  BY DEF Setting!SaveFails
<1>2. SettingsTyped'
  BY <1>1 DEF SettingsInv, SettingsTyped
<1>3. LoneSaves'
  BY <1>1 DEF SettingsInv, LoneSaves
<1>4. SaveIsShown' /\ VisitorIsTold'
  BY <1>1 DEF SettingsInv, SaveIsShown, VisitorIsTold, Setting!FormOf, Setting!FirstForm,
     Setting!OfConfig
<1> QED
  BY <1>2, <1>3, <1>4 DEF SettingsInv

LEMMA SaveSucceedsStep ==
    ASSUME SettingsInv, NEW s \in saves, Setting!SaveSucceeds(s)
    PROVE  SettingsInv'
<1>1. s \in [phase : {"sent", "ok", "refused"}, whole : BOOLEAN, document : ConfigType,
             here : BOOLEAN, alone : BOOLEAN]
  BY DEF SettingsInv, SettingsTyped, SaveType
<1>2. /\ s.phase = "ok" /\ saves' = saves \ {s}
      /\ query' = Setting!Received(query, s.document)
      /\ owed' = IF s.alone THEN s.document.stamp ELSE 0
      /\ UNCHANGED <<section, config, visitor>>
      /\ \/ form' = Setting!Refilled(s.document, [form EXCEPT !.dirty = FALSE])
         \/ form' = Setting!Refilled(s.document, form)
  BY DEF Setting!SaveSucceeds, Setting!Cached
<1>3. /\ query' \in [loaded : BOOLEAN, document : ConfigType, fresh : BOOLEAN, failed : BOOLEAN,
                     call : CallType]
      /\ query'.document = s.document /\ query'.call = query.call /\ query'.loaded
  BY <1>1, <1>2 DEF SettingsInv, SettingsTyped, Setting!Received
<1>4. s.document.stamp \in Nat /\ s.document.stamp <= config.stamp
  BY <1>1, <1>2 DEF ConfigType, SettingsInv, SaveIsShown
<1>5. /\ form' \in [values : Values, dirty : BOOLEAN, whole : BOOLEAN]
      /\ section \in Setting!OfConfig /\ s.document # query.document =>
             form' = Setting!FormOf(s.document)
  <2>1. s.document \in ConfigType
    BY <1>1
  <2>2. Setting!FormOf(s.document) \in [values : Values, dirty : BOOLEAN, whole : BOOLEAN]
    BY <2>1, SettingsOperators DEF SettingsInv
  <2>3. /\ form \in [values : Values, dirty : BOOLEAN, whole : BOOLEAN]
        /\ [form EXCEPT !.dirty = FALSE] \in [values : Values, dirty : BOOLEAN, whole : BOOLEAN]
    BY DEF SettingsInv, SettingsTyped
  <2> QED
    BY <1>2, <2>2, <2>3 DEF Setting!Refilled
<1>6. SettingsTyped'
  BY <1>1, <1>2, <1>3, <1>4, <1>5 DEF SettingsInv, SettingsTyped
<1>7. LoneSaves' /\ VisitorIsTold'
  BY <1>2 DEF SettingsInv, LoneSaves, VisitorIsTold
<1>8. SaveIsShown'
  <2>1. owed' > 0 => /\ s.alone /\ query.call = Setting!NoCall
                     /\ query.document.stamp < s.document.stamp
                     /\ owed' = s.document.stamp
    BY <1>2 DEF SettingsInv, LoneSaves
  <2>2. owed' > 0 => s.document # query.document
    BY <1>4, <2>1 DEF SettingsInv, SettingsTyped, ConfigType
  <2>3. owed' > 0 /\ section' \in Setting!OfConfig =>
            form'.values = Setting!FormOf(query'.document).values
    BY <1>2, <1>3, <1>5, <2>2
  <2>4. \A o \in saves' : o.phase = "ok" => o.document.stamp <= config'.stamp
    BY <1>2 DEF SettingsInv, SaveIsShown
  <2>5. query'.call.phase = "answered" => query'.call.config.stamp <= config'.stamp
    BY <1>2, <1>3 DEF SettingsInv, SaveIsShown
  <2>6. owed' > 0 => query'.call.phase # "answered" /\ owed' <= query'.document.stamp
    BY <1>3, <1>4, <2>1 DEF Setting!NoCall
  <2>7. query'.document.stamp <= config'.stamp
    BY <1>2, <1>3, <1>4
  <2> QED
    BY <1>3, <2>3, <2>4, <2>5, <2>6, <2>7 DEF SaveIsShown, Setting!FormOf, Setting!FirstForm
<1> QED
  BY <1>6, <1>7, <1>8 DEF SettingsInv

LEMMA ServeFetchStep ==
    ASSUME SettingsInv, Setting!ServeFetch
    PROVE  SettingsInv'
<1> DEFINE c == query.call
<1>1. c \in CallType /\ config \in ConfigType /\ config.stamp \in Nat
  BY DEF SettingsInv, SettingsTyped, ConfigType
<1>2. c.phase # "none" => \A s \in saves : ~s.alone
  BY DEF SettingsInv, LoneSaves, Setting!NoCall
<1>3. /\ Setting!Creation \in ConfigType /\ config.stamp <= Setting!Creation.stamp
      /\ config.stamp > 0 => Setting!Creation = config
  BY SettingsOperators DEF SettingsInv
<1>4. SettingsTyped
  BY DEF SettingsInv
<1>5. CASE c.phase = "sent" /\ UNCHANGED <<section, form, config, saves, owed, visitor>>
                            /\ query' = [query EXCEPT !.call = Setting!Looked(@)]
  <2>1. /\ Setting!Looked(c) \in CallType
        /\ Setting!Looked(c).phase = "answered" => Setting!Looked(c).config = config
    BY <1>1, <1>4, <1>5, ServedCall
  <2>2. /\ query' \in [loaded : BOOLEAN, document : ConfigType, fresh : BOOLEAN, failed : BOOLEAN,
                       call : CallType]
        /\ query'.document = query.document /\ query'.call = Setting!Looked(c)
        /\ query'.loaded = query.loaded
    BY <1>4, <1>5, <2>1 DEF SettingsTyped
  <2>3. SettingsTyped' /\ LoneSaves' /\ VisitorIsTold'
    BY <1>2, <1>5, <2>2 DEF SettingsInv, SettingsTyped, LoneSaves, VisitorIsTold
  <2>4. owed > 0 => owed <= config.stamp
    BY <1>1 DEF SettingsInv, SettingsTyped, ConfigType, SaveIsShown
  <2>5. SaveIsShown'
    BY <1>1, <1>5, <2>1, <2>2, <2>4 DEF SettingsInv, SaveIsShown, Setting!FormOf,
       Setting!FirstForm, Setting!OfConfig
  <2> QED
    BY <2>3, <2>5 DEF SettingsInv
<1>6. CASE /\ c.phase = "missing" /\ UNCHANGED <<section, form, saves, owed>>
           /\ query' = [query EXCEPT !.call = Setting!Created(@)]
           /\ config' = Setting!Creation /\ visitor' = Setting!Noticed(Setting!Creation)
  <2>1. /\ Setting!Created(c) \in CallType
        /\ Setting!Created(c).phase = "answered" => Setting!Created(c).config = Setting!Creation
    BY <1>1, <1>4, <1>6, ServedCall
  <2>2. /\ query' \in [loaded : BOOLEAN, document : ConfigType, fresh : BOOLEAN, failed : BOOLEAN,
                       call : CallType]
        /\ query'.document = query.document /\ query'.call = Setting!Created(c)
        /\ query'.loaded = query.loaded
    BY <1>4, <1>6, <2>1 DEF SettingsTyped
  <2>3. visitor' \in [call : CallType, registered : BOOLEAN, allowed : BOOLEAN] /\ VisitorIsTold'
    BY <1>3, <1>6, NoticedStep DEF SettingsInv
  <2>4. SettingsTyped'
    BY <1>3, <1>6, <2>2, <2>3 DEF SettingsInv, SettingsTyped
  <2>5. LoneSaves'
    BY <1>2, <1>6 DEF LoneSaves
  <2>6. \A s \in SaveType : s.document.stamp \in Nat
    BY DEF SaveType, ConfigType
  <2>7. config.stamp \in Nat /\ Setting!Creation.stamp \in Nat /\ query.document.stamp \in Nat
        /\ owed \in Nat
    BY <1>3 DEF SettingsInv, SettingsTyped, ConfigType
  <2>8. query.document.stamp <= Setting!Creation.stamp
    BY <1>3, <2>7 DEF SettingsInv, SaveIsShown
  <2>9. \A s \in saves : s.phase = "ok" => s.document.stamp <= Setting!Creation.stamp
    BY <1>3, <2>6, <2>7 DEF SettingsInv, SettingsTyped, SaveIsShown
  <2>10. owed > 0 => owed <= query.document.stamp /\ owed <= Setting!Creation.stamp
    BY <2>7, <2>8 DEF SettingsInv, SaveIsShown
  <2>11. query'.call.phase = "answered" => query'.call.config = Setting!Creation
    BY <2>1, <2>2
  <2>12. SaveIsShown'
    BY <1>6, <2>2, <2>7, <2>8, <2>9, <2>10, <2>11 DEF SettingsInv, SaveIsShown, Setting!FormOf,
       Setting!FirstForm, Setting!OfConfig
  <2> QED
    BY <2>3, <2>4, <2>5, <2>12 DEF SettingsInv
<1> QED
  BY <1>5, <1>6 DEF Setting!ServeFetch

LEMMA FetchAnsweredStep ==
    ASSUME SettingsInv, Setting!FetchAnswered
    PROVE  SettingsInv'
<1> DEFINE document == query.call.config
<1>1. /\ query.call.phase = "answered"
      /\ query' = [Setting!Received(query, document) EXCEPT !.call = Setting!NoCall]
      /\ form' = Setting!Refilled(document, form)
      /\ UNCHANGED <<section, config, saves, owed, visitor>>
  BY DEF Setting!FetchAnswered
<1>2. document \in ConfigType
  BY <1>1 DEF SettingsInv, SettingsTyped, CallType, Setting!NoCall
<1>3. \A s \in saves : ~s.alone
  BY <1>1 DEF SettingsInv, LoneSaves, Setting!NoCall
<1> HIDE DEF document
<1>4. /\ query' \in [loaded : BOOLEAN, document : ConfigType, fresh : BOOLEAN, failed : BOOLEAN,
                     call : CallType]
      /\ query'.document = document /\ query'.call = Setting!NoCall /\ query'.loaded
  BY <1>1, <1>2 DEF SettingsInv, SettingsTyped, Setting!Received, CallType
<1>5. /\ form' \in [values : Values, dirty : BOOLEAN, whole : BOOLEAN]
      /\ form' = form \/ form' = Setting!FormOf(document)
      /\ section \in Setting!OfConfig /\ document # query.document => form' = Setting!FormOf(document)
  BY <1>1, <1>2, SettingsOperators DEF SettingsInv, SettingsTyped, Setting!Refilled
<1>6. SettingsTyped'
  BY <1>1, <1>4, <1>5 DEF SettingsInv, SettingsTyped
<1>7. LoneSaves' /\ VisitorIsTold'
  BY <1>1, <1>3 DEF SettingsInv, LoneSaves, VisitorIsTold
<1>8. document.stamp <= config.stamp /\ (owed > 0 => owed <= document.stamp)
  BY <1>1 DEF SettingsInv, SaveIsShown, document
<1>9. owed > 0 /\ section \in Setting!OfConfig /\ ~form'.dirty =>
          form'.values = Setting!FormOf(document).values
  <2> SUFFICES ASSUME owed > 0, section \in Setting!OfConfig, ~form'.dirty, document = query.document
               PROVE  form'.values = Setting!FormOf(document).values
    BY <1>5
  <2>1. CASE form' = form
    <3> QED
      BY <2>1 DEF SettingsInv, SaveIsShown
  <2>2. CASE form' = Setting!FormOf(document)
    BY <2>2
  <2> QED
    BY <1>5, <2>1, <2>2
<1>10. SaveIsShown'
  BY <1>1, <1>4, <1>8, <1>9 DEF SettingsInv, SaveIsShown, Setting!NoCall, Setting!FormOf,
     Setting!FirstForm, Setting!OfConfig
<1> QED
  BY <1>6, <1>7, <1>10 DEF SettingsInv

\* What a fetch that fails, or data that ages, leaves in the query.
LEMMA FetchEndsStep ==
    ASSUME SettingsInv, Setting!FetchFails \/ Setting!Age
    PROVE  SettingsInv'
<1>1. /\ query' \in [loaded : BOOLEAN, document : ConfigType, fresh : BOOLEAN, failed : BOOLEAN,
                     call : CallType]
      /\ query'.document = query.document /\ query'.loaded = query.loaded
      /\ query'.call \in {query.call, Setting!NoCall}
  BY DEF SettingsInv, SettingsTyped, CallType, Setting!FetchFails, Setting!Age
<1>2. UNCHANGED <<section, form, config, saves, owed, visitor>>
  BY DEF Setting!FetchFails, Setting!Age
<1>3. SettingsTyped'
  BY <1>1, <1>2 DEF SettingsInv, SettingsTyped
<1>4. LoneSaves' /\ VisitorIsTold'
  BY <1>1, <1>2 DEF SettingsInv, LoneSaves, VisitorIsTold
<1>5. query'.call.phase = "answered" => query'.call = query.call
  BY <1>1 DEF Setting!NoCall
<1>6. SaveIsShown'
  BY <1>1, <1>2, <1>5 DEF SettingsInv, SaveIsShown, Setting!FormOf, Setting!FirstForm,
     Setting!OfConfig
<1> QED
  BY <1>3, <1>4, <1>6 DEF SettingsInv

LEMMA ReconnectStep ==
    ASSUME SettingsInv, Setting!Reconnect
    PROVE  SettingsInv'
<1>1. /\ query' = Setting!Mounted(query)
      /\ saves' = IF query' = query THEN saves ELSE Setting!Disturbed
      /\ UNCHANGED <<section, form, config, owed, visitor>>
  BY DEF Setting!Reconnect
<1>2. /\ query' \in [loaded : BOOLEAN, document : ConfigType, fresh : BOOLEAN, failed : BOOLEAN,
                     call : CallType]
      /\ query'.document = query.document /\ query'.loaded = query.loaded
      /\ query' = query \/ query'.call = Setting!Calling
  BY <1>1, StartedQuery DEF SettingsInv
<1>3. CASE query' = query
  <2>1. UNCHANGED <<section, form, config, query, saves, owed, visitor>>
    BY <1>1, <1>3
  <2> QED
    BY <2>1 DEF SettingsInv, SettingsTyped, VisitorIsTold, LoneSaves, SaveIsShown, Setting!FormOf,
       Setting!FirstForm, Setting!OfConfig
<1>4. CASE query' # query
  <2>1. saves' = Setting!Disturbed /\ query'.call.phase = "sent"
    BY <1>1, <1>2, <1>4, SettingsOperators DEF SettingsInv
  <2>2. SettingsTyped'
    BY <1>1, <1>2, <2>1, DisturbedSaves DEF SettingsInv, SettingsTyped
  <2>3. LoneSaves' /\ VisitorIsTold'
    BY <1>1, <2>1, DisturbedSaves DEF SettingsInv, LoneSaves, VisitorIsTold
  <2>4. \A s \in saves' : s.phase = "ok" => s.document.stamp <= config.stamp
    <3> SUFFICES ASSUME NEW s \in Setting!Disturbed, s.phase = "ok"
                 PROVE  s.document.stamp <= config.stamp
      BY <2>1
    <3>1. PICK o \in saves : s.phase = o.phase /\ s.document = o.document
      BY DisturbedSaves DEF SettingsInv
    <3> QED
      BY <3>1 DEF SettingsInv, SaveIsShown
  <2>5. SaveIsShown'
    BY <1>1, <1>2, <2>1, <2>4 DEF SettingsInv, SaveIsShown, Setting!FormOf, Setting!FirstForm,
       Setting!OfConfig
  <2> QED
    BY <2>2, <2>3, <2>5 DEF SettingsInv
<1> QED
  BY <1>3, <1>4

LEMMA SaveElsewhereStep ==
    ASSUME SettingsInv, Setting!SaveElsewhere
    PROVE  SettingsInv'
<1>1. PICK values \in Values : config' = Setting!Document(values, config.stamp + 1)
  BY DEF Setting!SaveElsewhere, Values
<1>2. config.stamp \in Nat
  BY DEF SettingsInv, SettingsTyped, ConfigType
<1>3. config' \in ConfigType /\ config.stamp <= config'.stamp
  <2>1. config.stamp + 1 \in Nat
    BY <1>2
  <2> QED
    BY <1>1, <1>2, <2>1 DEF Setting!Document, Values, ConfigType
<1>4. visitor' = Setting!Noticed(config') /\ UNCHANGED <<section, form, query, saves, owed>>
  BY DEF Setting!SaveElsewhere
<1> QED
  BY <1>3, <1>4, NewerVersion

\* The steps of the registration itself, which leave the settings alone.
LEMMA VisitorAlone ==
    ASSUME SettingsInv, VisitorIsTold',
           visitor' \in [call : CallType, registered : BOOLEAN, allowed : BOOLEAN],
           UNCHANGED <<section, form, config, query, saves, owed>>
    PROVE  SettingsInv'
<1>1. SettingsTyped'
  BY DEF SettingsInv, SettingsTyped
<1>2. LoneSaves' /\ SaveIsShown'
  BY DEF SettingsInv, LoneSaves, SaveIsShown, Setting!FormOf, Setting!FirstForm, Setting!OfConfig
<1> QED
  BY <1>1, <1>2 DEF SettingsInv

LEMMA VisitorSteps ==
    ASSUME SettingsInv, Setting!Visit \/ Setting!LookUp \/ Setting!Register \/ Setting!TurnAway
    PROVE  SettingsInv'
<1>1. /\ visitor \in [call : CallType, registered : BOOLEAN, allowed : BOOLEAN]
      /\ visitor.call \in CallType /\ config \in ConfigType /\ config.registration \in BOOLEAN
      /\ SettingsTyped /\ VisitorIsTold
  BY DEF SettingsInv, SettingsTyped, ConfigType
<1>2. Setting!NoCall \in CallType /\ Setting!Calling \in CallType
  BY <1>1, SettingsOperators DEF CallType
<1>3. CASE Setting!Visit
  <2>1. /\ visitor' = [call |-> Setting!Calling, registered |-> FALSE, allowed |-> config.registration]
        /\ UNCHANGED <<section, form, config, query, saves, owed>>
    BY <1>3 DEF Setting!Visit
  <2>2. visitor' \in [call : CallType, registered : BOOLEAN, allowed : BOOLEAN] /\ VisitorIsTold'
    BY <1>1, <1>2, <2>1, SettingsOperators DEF VisitorIsTold
  <2> QED
    BY <2>1, <2>2, VisitorAlone
<1>4. ASSUME visitor.call.phase = "sent", visitor' = [visitor EXCEPT !.call = Setting!Looked(@)],
             UNCHANGED <<section, form, config, query, saves, owed>>
      PROVE  SettingsInv'
  <2>1. /\ Setting!Looked(visitor.call) \in CallType
        /\ Setting!Looked(visitor.call).phase = "answered" => Setting!Looked(visitor.call).config = config
    BY <1>1, <1>4, ServedCall
  <2>2. visitor.call # Setting!NoCall
    BY <1>4 DEF Setting!NoCall
  <2>3. visitor' \in [call : CallType, registered : BOOLEAN, allowed : BOOLEAN] /\ VisitorIsTold'
    BY <1>1, <1>4, <2>1, <2>2 DEF VisitorIsTold
  <2> QED
    BY <1>4, <2>3, VisitorAlone
<1>5. ASSUME visitor.call.phase = "missing", config' = Setting!Creation,
             visitor' = [Setting!Noticed(Setting!Creation) EXCEPT !.call = Setting!Created(@)],
             UNCHANGED <<section, form, query, saves, owed>>
      PROVE  SettingsInv'
  <2> DEFINE told == Setting!Noticed(Setting!Creation)
  <2>1. Setting!Creation \in ConfigType /\ config.stamp <= Setting!Creation.stamp
        /\ Setting!Creation.registration \in BOOLEAN
    BY <1>1, SettingsOperators DEF ConfigType
  <2>2. /\ told \in [call : CallType, registered : BOOLEAN, allowed : BOOLEAN]
        /\ told.call = visitor.call /\ told.registered = visitor.registered
        /\ visitor.allowed \/ Setting!Creation.registration => told.allowed
    <3>1. visitor.call # Setting!NoCall
      BY <1>5 DEF Setting!NoCall
    <3>2. told = [visitor EXCEPT !.allowed = @ \/ Setting!Creation.registration]
      BY <3>1 DEF Setting!Noticed
    <3>3. CASE visitor.allowed \/ Setting!Creation.registration
      <4>1. told = [visitor EXCEPT !.allowed = TRUE]
        BY <3>2, <3>3, <1>1
      <4> QED
        BY <1>1, <4>1
    <3>4. CASE ~(visitor.allowed \/ Setting!Creation.registration)
      <4>1. told = [visitor EXCEPT !.allowed = FALSE]
        BY <3>2, <3>4, <1>1
      <4> QED
        BY <1>1, <3>4, <4>1
    <3> QED
      BY <3>3, <3>4
  <2> HIDE DEF told
  <2>3. /\ Setting!Created(visitor.call) \in CallType
        /\ Setting!Created(visitor.call).phase = "answered" =>
               Setting!Created(visitor.call).config = Setting!Creation
    BY <1>1, <1>5, ServedCall
  <2>4. visitor' = [told EXCEPT !.call = Setting!Created(visitor.call)]
    BY <1>5, <2>2 DEF told
  <2>5. visitor' \in [call : CallType, registered : BOOLEAN, allowed : BOOLEAN]
        /\ visitor'.allowed = told.allowed /\ visitor'.registered = visitor.registered
        /\ visitor'.call = Setting!Created(visitor.call)
    BY <2>2, <2>3, <2>4
  <2>6. VisitorIsTold'
    BY <1>1, <1>5, <2>2, <2>3, <2>5 DEF VisitorIsTold
  <2>7. SettingsTyped'
    BY <1>1, <1>5, <2>1, <2>5 DEF SettingsTyped
  <2>8. /\ \A s \in SaveType : s.document.stamp \in Nat
        /\ config.stamp \in Nat /\ Setting!Creation.stamp \in Nat /\ query.document.stamp \in Nat
        /\ query.call.phase = "answered" => query.call.config.stamp \in Nat
    BY <1>1, <2>1 DEF SettingsTyped, SaveType, CallType, ConfigType, Setting!NoCall
  <2>9. LoneSaves'
    BY <1>5, <2>1, <2>8 DEF SettingsInv, SettingsTyped, LoneSaves
  <2>10. SaveIsShown'
    BY <1>5, <2>1, <2>8 DEF SettingsInv, SettingsTyped, SaveIsShown, Setting!FormOf,
       Setting!FirstForm, Setting!OfConfig
  <2> QED
    BY <2>6, <2>7, <2>9, <2>10 DEF SettingsInv
<1>6. CASE Setting!LookUp
  BY <1>4, <1>5, <1>6 DEF Setting!LookUp
<1>7. CASE Setting!Register
  <2>1. /\ visitor.call.phase = "answered" /\ visitor.call.config.registration
        /\ visitor' = [visitor EXCEPT !.call = Setting!NoCall, !.registered = TRUE]
        /\ UNCHANGED <<section, form, config, query, saves, owed>>
    BY <1>7 DEF Setting!Register, Setting!MayRegister
  <2>2. visitor.allowed
    BY <1>1, <2>1 DEF VisitorIsTold
  <2>3. /\ visitor' \in [call : CallType, registered : BOOLEAN, allowed : BOOLEAN]
        /\ visitor'.allowed
    BY <1>1, <1>2, <2>1, <2>2
  <2>4. VisitorIsTold'
    BY <2>3 DEF VisitorIsTold
  <2> QED
    BY <2>1, <2>3, <2>4, VisitorAlone
<1>8. CASE Setting!TurnAway
  <2>1. visitor' = Setting!NoVisitor /\ UNCHANGED <<section, form, config, query, saves, owed>>
    BY <1>8 DEF Setting!TurnAway
  <2>2. visitor' \in [call : CallType, registered : BOOLEAN, allowed : BOOLEAN] /\ VisitorIsTold'
    BY <1>2, <2>1 DEF VisitorIsTold, Setting!NoVisitor, Setting!NoCall
  <2> QED
    BY <2>1, <2>2, VisitorAlone
<1> QED
  BY <1>3, <1>6, <1>7, <1>8

LEMMA SettingsStep ==
    ASSUME SettingsInv, Setting!SettingsNext
    PROVE  SettingsInv'
  BY OpenStep, FormStep, SaveStep, ServeSaveStep, SaveSucceedsStep, SaveFailsStep, ServeFetchStep,
     FetchAnsweredStep, FetchEndsStep, ReconnectStep, SaveElsewhereStep, VisitorSteps
  DEF Setting!SettingsNext

LEMMA SettingsStutter ==
    ASSUME SettingsInv, UNCHANGED settingsVars
    PROVE  SettingsInv'
  BY DEF settingsVars, SettingsInv, SettingsTyped, VisitorIsTold, LoneSaves, SaveIsShown,
     Setting!FormOf, Setting!FirstForm, Setting!OfConfig

LEMMA SettingsCorrect == OfficeSpec => []SettingsInv
<1>1. OfficeInit => SettingsInv
  BY SettingsInitially DEF OfficeInit
<1>2. SettingsInv /\ [OfficeNext]_officeVars => SettingsInv'
  BY SettingsStep, SettingsStutter DEF OfficeNext, GoToSettings, officeVars
<1> QED
  BY <1>1, <1>2, PTL DEF OfficeSpec

\* Nobody registers but while the setting, at some moment of the request, allows
\* it, for any number of versions and saves.
\* Code: register of auth.controller.js and getConfig.
THEOREM RegistrationGoesByTheSetting == OfficeSpec => []RegistrationFollowsTheSetting
<1>1. SettingsInv => RegistrationFollowsTheSetting
  BY DEF SettingsInv, VisitorIsTold, RegistrationFollowsTheSetting
<1> QED
  BY <1>1, SettingsCorrect, PTL

\* A form of the settings that is not being edited shows what was saved there.
\* Code: onSuccess of SystemSettings and ConfigTab, and the effect that fills the
\* form.
THEOREM SavesAreShown == OfficeSpec => []SavedSettingsAreShown
<1>1. SettingsInv => SavedSettingsAreShown
  BY DEF SettingsInv, SaveIsShown, SavedSettingsAreShown, Setting!Ready
<1> QED
  BY <1>1, SettingsCorrect, PTL

\* What an administrator has set is changed by what an administrator sends, and
\* by nothing else.
\* Code: getConfig, which looks and then creates, and updateConfig.
THEOREM SettingsAreNeverReset == OfficeSpec => ConfigIsNeverReset
<1>1. ASSUME SettingsInv, [OfficeNext]_officeVars, config.stamp > 0, config' # config
      PROVE  \/ Setting!SaveElsewhere
             \/ \E s \in saves : s.phase = "sent" /\ config' = Setting!Document(s.document, config.stamp + 1)
  <2>1. Setting!SettingsNext
    BY <1>1 DEF OfficeNext, GoToSettings, officeVars, settingsVars
  <2>2. Setting!Creation = config
    BY <1>1, SettingsOperators DEF SettingsInv
  <2>3. CASE \E s \in saves : Setting!ServeSave(s)
    BY <1>1, <2>3 DEF Setting!ServeSave
  <2>4. CASE Setting!SaveElsewhere
    BY <2>4
  <2>5. UNCHANGED config \/ config' = Setting!Creation
        \/ (\E s \in saves : Setting!ServeSave(s)) \/ Setting!SaveElsewhere
    BY <2>1 DEF Setting!SettingsNext, Setting!Open, Setting!Change, Setting!Discard, Setting!Save,
       Setting!SaveSucceeds, Setting!SaveFails, Setting!ServeFetch, Setting!FetchAnswered,
       Setting!FetchFails, Setting!Age, Setting!Reconnect, Setting!Visit, Setting!LookUp,
       Setting!Register, Setting!TurnAway
  <2> QED
    BY <1>1, <2>2, <2>3, <2>4, <2>5
<1> QED
  BY <1>1, SettingsCorrect, PTL DEF OfficeSpec, ConfigIsNeverReset

-----------------------------------------------------------------------------
(* The lists: counting rows.                                               *)

LEMMA SameCardinality == \A S : List!Cardinality(S) = Cardinality(S)
  BY DEF List!Cardinality, Cardinality

\* The numbers of a list, the newest first, have the ranks 0, 1, 2 and so on.
LEMMA Ranks ==
    ASSUME NEW ns, ns \subseteq Nat, IsFiniteSet(ns)
    PROVE  /\ Cardinality(ns) \in Nat
           /\ \A n \in ns : List!Before(n, ns) \in 0..(Cardinality(ns) - 1)
           /\ \A m, n \in ns : List!Before(m, ns) = List!Before(n, ns) => m = n
           /\ \A j \in 0..(Cardinality(ns) - 1) : \E n \in ns : List!Before(n, ns) = j
<1> DEFINE above(n) == {m \in ns : m > n}
           last == Cardinality(ns) - 1
<1>1. Cardinality(ns) \in Nat
  BY FS_CardinalityType
<1>2. \A n \in ns : IsFiniteSet(above(n)) /\ Cardinality(above(n)) \in Nat
  <2> TAKE n \in ns
  <2>1. above(n) \in SUBSET ns
    OBVIOUS
  <2>2. IsFiniteSet(above(n))
    BY <2>1, FS_Subset
  <2> QED
    BY <2>2, FS_CardinalityType
<1>3. \A n \in ns : List!Before(n, ns) = Cardinality(above(n))
  BY SameCardinality DEF List!Before
<1>4. \A n \in ns : Cardinality(above(n)) \in 0..last
  <2> TAKE n \in ns
  <2>1. above(n) \in SUBSET ns /\ above(n) # ns
    OBVIOUS
  <2>2. /\ Cardinality(above(n)) <= Cardinality(ns)
        /\ Cardinality(ns) = Cardinality(above(n)) => ns = above(n)
    BY <2>1, FS_Subset
  <2> HIDE DEF above
  <2> QED
    BY <1>1, <1>2, <2>1, <2>2
<1>5. \A m, n \in ns : m < n => Cardinality(above(n)) < Cardinality(above(m))
  <2> TAKE m, n \in ns
  <2> SUFFICES ASSUME m < n
               PROVE  Cardinality(above(n)) < Cardinality(above(m))
    OBVIOUS
  <2>1. above(n) \in SUBSET above(m) /\ above(n) # above(m)
    <3>1. m \in Nat /\ n \in Nat
      OBVIOUS
    <3>2. \A x \in Nat : x > n => x > m
      BY <3>1
    <3>3. n \in above(m) /\ n \notin above(n)
      BY <3>1
    <3> QED
      BY <3>2, <3>3
  <2>2. /\ Cardinality(above(n)) <= Cardinality(above(m))
        /\ Cardinality(above(m)) = Cardinality(above(n)) => above(m) = above(n)
    BY <1>2, <2>1, FS_Subset
  <2> HIDE DEF above
  <2> QED
    BY <1>2, <2>1, <2>2
<1> HIDE DEF above
<1>6. \A m, n \in ns : Cardinality(above(m)) = Cardinality(above(n)) => m = n
  BY <1>2, <1>5
<1>7. \A j \in 0..last : \E n \in ns : Cardinality(above(n)) = j
  <2> DEFINE f == [n \in ns |-> Cardinality(above(n))]
  <2>1. f \in Injection(ns, 0..last)
    BY <1>4, <1>6 DEF Injection, IsInjective
  <2>2. IsFiniteSet(0..last) /\ Cardinality(0..last) = Cardinality(ns)
    <3>1. last \in Int /\ 0 \in Int
      BY <1>1
    <3>2. IsFiniteSet(0..last) /\ Cardinality(0..last) = IF 0 > last THEN 0 ELSE last - 0 + 1
      BY <3>1, FS_Interval
    <3> QED
      BY <1>1, <3>2
  <2>3. f \in Surjection(ns, 0..last)
    BY <2>1, <2>2, FS_Injection
  <2> QED
    BY <2>3 DEF Surjection
<1> QED
  BY <1>1, <1>3, <1>4, <1>6, <1>7

\* The numbers on a page are PageSize at most.
LEMMA PageFull ==
    ASSUME NEW ns, ns \subseteq Nat, IsFiniteSet(ns), NEW skip \in Nat
    PROVE  LET page == {n \in ns : List!Before(n, ns) \in skip..(skip + PageSize - 1)}
           IN  IsFiniteSet(page) /\ Cardinality(page) <= PageSize
<1> DEFINE span == skip..(skip + PageSize - 1)
           page == {n \in ns : List!Before(n, ns) \in span}
           f == [n \in page |-> List!Before(n, ns)]
<1>1. f \in Injection(page, span)
  BY Ranks DEF Injection, IsInjective
<1>2. IsFiniteSet(span) /\ Cardinality(span) = PageSize
  BY PageAssumption, FS_Interval
<1> QED
  BY <1>1, <1>2, FS_Injection

\* The numbers that are found, and counted.
LEMMA FoundNumbers ==
    ASSUME documents \in Seq(DocumentType), NEW q
    PROVE  /\ List!Found(q) \subseteq Nat /\ IsFiniteSet(List!Found(q))
           /\ IsFiniteSet(List!Counted(q)) /\ Cardinality(List!Counted(q)) \in Nat
<1>1. Len(documents) \in Nat
  OBVIOUS
<1>2. IsFiniteSet(1..Len(documents))
  BY <1>1, FS_Interval
<1>3. List!Found(q) \in SUBSET (1..Len(documents)) /\ List!Counted(q) \in SUBSET (1..Len(documents))
  BY DEF List!Found, List!Counted
<1>4. IsFiniteSet(List!Found(q)) /\ IsFiniteSet(List!Counted(q))
  BY <1>2, <1>3, FS_Subset
<1> QED
  BY <1>1, <1>3, <1>4, FS_CardinalityType

\* A page holds what was asked for, and PageSize rows at most.
LEMMA RowsOfAPage ==
    ASSUME documents \in Seq(DocumentType), NEW q, q.page \in Nat \ {0}
    PROVE  /\ IsFiniteSet(List!Rows(q)) /\ Cardinality(List!Rows(q)) <= PageSize
           /\ \A r \in List!Rows(q) : List!Fits(q, r.document)
<1> DEFINE ns == List!Found(q)
           skip == (q.page - 1) * PageSize
           page == {n \in ns : List!Before(n, ns) \in skip..(skip + PageSize - 1)}
           row(n) == [number |-> n, document |-> documents[n]]
           rows == {row(n) : n \in page}
<1>1. List!Rows(q) = rows
  BY DEF List!Rows
<1>2. ns \subseteq Nat /\ IsFiniteSet(ns) /\ skip \in Nat
  <2>1. q.page - 1 \in Nat /\ PageSize \in Nat
    BY PageAssumption
  <2>2. \A i, j \in Nat : i * j \in Nat
    OBVIOUS
  <2>3. skip \in Nat
    BY <2>1, <2>2
  <2> QED
    BY <2>3, FoundNumbers
<1>3. \A n \in ns : List!Fits(q, documents[n])
  BY DEF List!Found
<1> HIDE DEF ns, skip
<1>4. IsFiniteSet(page) /\ Cardinality(page) <= PageSize
  BY <1>2, PageFull
<1>5. \A n \in page : List!Fits(q, documents[n])
  BY <1>3
<1> HIDE DEF page
<1>6. IsFiniteSet(rows) /\ Cardinality(rows) <= Cardinality(page)
  <2> DEFINE f == [n \in page |-> row(n)]
  <2>1. f \in Surjection(page, rows)
    BY DEF Surjection
  <2> QED
    BY <1>4, <2>1, FS_Surjection
<1>7. Cardinality(rows) \in Nat /\ Cardinality(page) \in Nat /\ PageSize \in Nat
  BY <1>4, <1>6, FS_CardinalityType, PageAssumption
<1>8. Cardinality(rows) <= PageSize
  <2> HIDE DEF rows
  <2> QED
    BY <1>4, <1>6, <1>7
<1>9. \A r \in rows : List!Fits(q, r.document)
  BY <1>5
<1> QED
  BY <1>1, <1>6, <1>8, <1>9

\* The first row of a page that is there is one of n.
LEMMA LastPage ==
    ASSUME NEW p \in Nat \ {0}, NEW n \in Nat, NEW s \in Nat \ {0}, p <= (n + s - 1) \div s
    PROVE  (p - 1) * s \in 0..(n - 1)
<1> DEFINE d == (n + s - 1) \div s
<1>1. d \in Nat /\ d * s <= n + s - 1
  OBVIOUS
<1>2. p <= d
  OBVIOUS
<1> HIDE DEF d
<1>3. p * s <= d * s
  BY <1>1, <1>2
<1>4. (p - 1) * s = p * s - s /\ (p - 1) * s >= 0
  OBVIOUS
<1>5. p * s \in Nat /\ d * s \in Nat
  BY <1>1
<1> QED
  BY <1>1, <1>3, <1>4, <1>5

\* A page that is there, of a list nothing was deleted from, has rows.
LEMMA PagesHaveRows ==
    ASSUME documents \in Seq(DocumentType), NEW q, q.page \in Nat \ {0}, List!Found(q) # {},
           \/ q.page = 1
           \/ q.page <= List!Pages(q) /\ List!Found(q) = List!Counted(q)
    PROVE  List!Rows(q) # {}
<1> DEFINE ns == List!Found(q)
           size == Cardinality(ns)
           skip == (q.page - 1) * PageSize
<1>1. ns \subseteq Nat /\ IsFiniteSet(ns) /\ size \in Nat /\ size > 0
  <2>1. ns \subseteq Nat /\ IsFiniteSet(ns)
    BY FoundNumbers
  <2>2. size \in Nat
    BY <2>1, FS_CardinalityType
  <2>3. size # 0
    BY <2>1, FS_EmptySet
  <2> QED
    BY <2>1, <2>2, <2>3
<1>2. PageSize \in Nat /\ PageSize > 0
  BY PageAssumption
<1>3. skip \in 0..(size - 1)
  <2>1. CASE q.page = 1
    <3>1. skip = 0
      BY <1>2, <2>1
    <3> QED
      BY <1>1, <3>1
  <2>2. CASE q.page <= List!Pages(q) /\ List!Found(q) = List!Counted(q)
    <3>1. q.page <= (size + PageSize - 1) \div PageSize
      BY <2>2, SameCardinality DEF List!Pages
    <3> HIDE DEF size, ns
    <3> QED
      BY <1>1, <1>2, <3>1, LastPage
  <2> QED
    BY <2>1, <2>2
<1>4. PICK n \in ns : List!Before(n, ns) = skip
  BY <1>1, <1>3, Ranks
<1>5. List!Before(n, ns) \in skip..(skip + PageSize - 1)
  <2> HIDE DEF skip, size, ns
  <2> QED
    BY <1>1, <1>2, <1>3, <1>4
<1> QED
  BY <1>5 DEF List!Rows

-----------------------------------------------------------------------------
(* The lists: the pages and what they ask.                                 *)

\* The page of each kind.
LEMMA PageOfKind ==
    ASSUME kind \in AllKinds
    PROVE  /\ kind = "admin" => List!Page = List!AdminPage
           /\ kind = "manager" => List!Page = List!ManagerPage
           /\ kind = "agent" => List!Page = List!AgentPage
           /\ kind = "customer" => List!Page = List!CustomerPage
           /\ kind = "users" => List!Page = List!UsersPage({"admin", "agent"})
           /\ kind = "team" => List!Page = List!UsersPage({"agent"})
           /\ kind = "errors" => List!Page = List!ErrorsPage
           /\ kind = "audit" => List!Page = List!AuditPage
           /\ kind \in List!Homes => List!Page = List!HomePage
  BY DEF List!Page, List!Homes

LEMMA AsksOfKind ==
    ASSUME kind \in AllKinds, NEW v
    PROVE  /\ kind = "admin" => List!Asks(v) = List!AdminAsks(v)
           /\ kind = "manager" => List!Asks(v) = List!ManagerAsks(v)
           /\ kind = "agent" => List!Asks(v) = List!AgentAsks(v)
           /\ kind = "customer" => List!Asks(v) = List!CustomerAsks(v)
           /\ kind \in {"users", "team"} => List!Asks(v) = List!UsersAsks(v)
           /\ kind = "errors" => List!Asks(v) = List!ErrorsAsks(v)
           /\ kind = "audit" => List!Asks(v) = List!AuditAsks(v)
           /\ kind \in List!Homes => List!Asks(v) = List!HomeAsks
  BY DEF List!Asks, List!Homes

\* The first view of a page.
LEMMA FirstViews ==
    ASSUME kind \in AllKinds
    PROVE  /\ List!FirstView \in Views /\ List!FirstView.page = 1
           /\ List!FirstView.search = FALSE
           /\ kind \in List!Homes => List!FirstView.mark = All
<1> DEFINE f == List!FirstViewOf(kind)
<1>1. /\ f.page = 1 /\ f.search = FALSE /\ f.who = All
      /\ f.mark = IF kind = "errors" THEN "unresolved" ELSE All
      /\ kind \in {"admin", "manager"} => f.tab = "overview"
      /\ kind \in {"errors", "audit"} => f.tab = kind
      /\ kind \in List!Homes => f.tab = "home"
      /\ kind \in {"agent", "customer", "users", "team"} => f.tab = "all"
      /\ f = [tab |-> f.tab, mark |-> f.mark, who |-> f.who, search |-> f.search, page |-> f.page]
  BY DEF List!FirstViewOf, List!Homes
<1> HIDE DEF f
<1>2. /\ f.tab \in List!Page.tabs /\ f.mark \in List!Page.marks /\ f.who \in List!Page.whos
      /\ f.search \in List!Page.words
  <2>1. kind \in List!Homes \cup {"errors", "audit", "agent", "customer", "users", "team", "admin", "manager"}
    BY DEF AllKinds, List!Homes
  <2>2. CASE kind \in List!Homes
    <3>1. List!Page = List!HomePage
      BY <2>2, PageOfKind
    <3> QED
      BY <1>1, <2>2, <3>1 DEF List!Homes, List!HomePage
  <2>3. CASE kind = "errors"
    <3>1. List!Page = List!ErrorsPage
      BY <2>3, PageOfKind
    <3> QED
      BY <1>1, <2>3, <3>1 DEF List!ErrorsPage
  <2>4. CASE kind = "audit"
    <3>1. List!Page = List!AuditPage
      BY <2>4, PageOfKind
    <3> QED
      BY <1>1, <2>4, <3>1 DEF List!AuditPage
  <2>5. CASE kind = "agent"
    <3>1. List!Page = List!AgentPage
      BY <2>5, PageOfKind
    <3> QED
      BY <1>1, <2>5, <3>1 DEF List!AgentPage
  <2>6. CASE kind = "customer"
    <3>1. List!Page = List!CustomerPage
      BY <2>6, PageOfKind
    <3> QED
      BY <1>1, <2>6, <3>1 DEF List!CustomerPage
  <2>7. CASE kind \in {"users", "team"}
    <3>1. PICK roles : List!Page = List!UsersPage(roles)
      BY <2>7, PageOfKind
    <3>2. f.tab = "all" /\ f.mark = All
      BY <1>1, <2>7
    <3> QED
      BY <1>1, <3>1, <3>2 DEF List!UsersPage
  <2>8. CASE kind = "admin"
    <3>1. List!Page = List!AdminPage
      BY <2>8, PageOfKind
    <3> QED
      BY <1>1, <2>8, <3>1 DEF List!AdminPage
  <2>9. CASE kind = "manager"
    <3>1. List!Page = List!ManagerPage
      BY <2>9, PageOfKind
    <3> QED
      BY <1>1, <2>9, <3>1 DEF List!ManagerPage
  <2> QED
    BY <2>1, <2>2, <2>3, <2>4, <2>5, <2>6, <2>7, <2>8, <2>9
<1>3. f \in Views
  BY <1>1, <1>2 DEF Views
<1>4. List!FirstView = f
  BY DEF List!FirstView, f
<1> QED
  BY <1>1, <1>3, <1>4 DEF List!Homes

\* What is asked for a view.
LEMMA Asking ==
    ASSUME kind \in AllKinds, NEW v \in Views
    PROVE  /\ List!Asks(v).page \in Nat \ {0} /\ List!Asks(v).page \in {1, v.page}
           /\ List!Page.pager # "never" => List!Asks(v).page = v.page
           /\ List!Fetch(v) # List!NoCall
           /\ List!Asks(v).mark = v.mark /\ List!Asks(v).word = v.search
           /\ v.tab = "assigned" => List!Asks(v).who = "me"
           /\ kind \in {"admin", "manager"} /\ "unassigned" \notin {v.tab, v.who} =>
                  List!Asks(v).who = v.who
<1>1. List!Fetch(v) # List!NoCall
  BY DEF List!Fetch, List!NoCall
<1>2. v.page \in Nat \ {0} /\ v.tab \in List!Page.tabs /\ v.mark \in List!Page.marks
      /\ v.search \in List!Page.words
  BY DEF Views
<1>3. kind \in List!Homes \cup {"errors", "audit", "agent", "customer", "users", "team", "admin", "manager"}
  BY DEF AllKinds, List!Homes
<1>4. CASE kind \in List!Homes
  <2>1. List!Asks(v) = List!Asked(List!FirstView, All)
    BY <1>4, AsksOfKind DEF List!HomeAsks
  <2>2. /\ List!Asks(v).page = List!FirstView.page /\ List!Asks(v).mark = List!FirstView.mark
        /\ List!Asks(v).word = List!FirstView.search
    BY <2>1 DEF List!Asked
  <2>3. /\ List!FirstView.page = 1 /\ List!FirstView.mark = All /\ List!FirstView.search = FALSE
    BY <1>4, FirstViews
  <2>4. List!Page = List!HomePage
    BY <1>4, PageOfKind
  <2>5. v.tab \in {"home"} /\ v.mark \in {All} /\ List!Page.pager = "never"
        /\ List!Page.words = {FALSE}
    BY <1>2, <2>4 DEF List!HomePage
  <2>6. v.search = FALSE
    BY <1>2, <2>5, Zenon
  <2>7. List!Asks(v).word = v.search
    BY <2>2, <2>3, <2>6, Zenon
  <2>8. kind \notin {"admin", "manager"}
    BY <1>4 DEF List!Homes
  <2> QED
    BY <1>1, <1>2, <2>2, <2>3, <2>5, <2>7, <2>8
<1>5. CASE kind = "errors"
  BY <1>1, <1>2, <1>5, PageOfKind, AsksOfKind DEF List!ErrorsPage, List!ErrorsAsks, List!Asked
<1>6. CASE kind = "audit"
  BY <1>1, <1>2, <1>6, PageOfKind, AsksOfKind DEF List!AuditPage, List!AuditAsks, List!Asked
<1>7. CASE kind = "agent"
  BY <1>1, <1>2, <1>7, PageOfKind, AsksOfKind DEF List!AgentPage, List!AgentAsks, List!Asked
<1>8. CASE kind = "customer"
  BY <1>1, <1>2, <1>8, PageOfKind, AsksOfKind DEF List!CustomerPage, List!CustomerAsks, List!Asked
<1>9. CASE kind \in {"users", "team"}
  BY <1>1, <1>2, <1>9, PageOfKind, AsksOfKind DEF List!UsersPage, List!UsersAsks, List!Asked
<1>10. CASE kind = "admin"
  BY <1>1, <1>2, <1>10, PageOfKind, AsksOfKind DEF List!AdminPage, List!AdminAsks, List!Asked
<1>11. CASE kind = "manager"
  BY <1>1, <1>2, <1>11, PageOfKind, AsksOfKind DEF List!ManagerPage, List!ManagerAsks, List!Asked
<1> QED
  BY <1>3, <1>4, <1>5, <1>6, <1>7, <1>8, <1>9, <1>10, <1>11

\* What fits a view is what the user has chosen, and may see.
LEMMA FittingRows ==
    ASSUME kind \in AllKinds, view \in Views, NEW d, List!Fits(List!Asks(view), d)
    PROVE  Chosen(d) /\ List!SeesTicket(d)
<1>1. kind \in List!OfTickets => List!TicketFits(List!Asks(view), d)
  BY DEF List!Fits, List!OfTickets, List!Homes
<1>2. kind \in List!OfTickets => List!SeesTicket(d)
  BY <1>1 DEF List!TicketFits
<1>3. kind \notin List!OfTickets => List!SeesTicket(d)
  BY DEF List!SeesTicket, List!OfTickets, List!OfAgents, List!OfCustomers, List!Homes
<1>4. view.mark \in {All, d.mark} /\ (view.search => d.word)
  <2>1. List!Asks(view).mark \in {All, d.mark}
    BY DEF AllKinds, List!Fits, List!TicketFits, List!UserFits, List!ErrorFits, List!AuditFits,
       List!OfTickets, List!Homes
  <2>2. kind \notin {"errors", "audit"} => (List!Asks(view).word => d.word)
    BY DEF AllKinds, List!Fits, List!TicketFits, List!UserFits, List!OfTickets, List!Homes
  <2>3. kind \in {"errors", "audit"} => view.search = FALSE
    <3> SUFFICES ASSUME kind \in {"errors", "audit"}
                 PROVE  view.search = FALSE
      OBVIOUS
    <3>1. List!Page = List!ErrorsPage \/ List!Page = List!AuditPage
      BY PageOfKind
    <3>2. List!ErrorsPage.words = {FALSE} /\ List!AuditPage.words = {FALSE}
      BY DEF List!ErrorsPage, List!AuditPage
    <3>3. view.search \in List!Page.words
      BY DEF Views
    <3>4. view.search \in {FALSE}
      BY <3>1, <3>2, <3>3
    <3> QED
      BY <3>4, Zenon
  <2> QED
    BY <2>1, <2>2, <2>3, Asking
<1>5. view.tab = "assigned" => d.who = "me"
  <2> SUFFICES ASSUME view.tab = "assigned" PROVE d.who = "me"
    OBVIOUS
  <2>1. kind = "agent"
    <3>1. "assigned" \in List!Page.tabs
      BY DEF Views
    <3>2. /\ "assigned" \notin List!AdminPage.tabs /\ "assigned" \notin List!ManagerPage.tabs
          /\ "assigned" \notin List!CustomerPage.tabs /\ "assigned" \notin List!HomePage.tabs
          /\ "assigned" \notin List!ErrorsPage.tabs /\ "assigned" \notin List!AuditPage.tabs
          /\ \A roles : "assigned" \notin List!UsersPage(roles).tabs
      BY DEF List!AdminPage, List!ManagerPage, List!CustomerPage, List!HomePage, List!ErrorsPage,
         List!AuditPage, List!UsersPage
    <3> QED
      BY <3>1, <3>2, PageOfKind DEF AllKinds, List!Homes
  <2>2. List!Asks(view).who \in {All, d.who}
    BY <1>1, <2>1 DEF List!OfTickets, List!TicketFits
  <2> QED
    BY <2>2, Asking, AllAssumption
<1>6. kind \in {"admin", "manager"} /\ "unassigned" \notin {view.tab, view.who} =>
          view.who \in {All, d.who}
  <2>1. kind \in {"admin", "manager"} => List!Asks(view).who \in {All, d.who}
    BY <1>1 DEF List!OfTickets, List!TicketFits
  <2> QED
    BY <2>1, Asking
<1> QED
  BY <1>2, <1>3, <1>4, <1>5, <1>6 DEF Chosen

\* What depends on the page that is open, and on the documents.
LEMMA SameKind ==
    ASSUME kind' = kind
    PROVE  /\ Views' = Views /\ List!Page' = List!Page
           /\ \A v : List!Asks(v)' = List!Asks(v) /\ List!Fetch(v)' = List!Fetch(v)
           /\ \A q, d : List!Fits(q, d)' = List!Fits(q, d)
<1>1. List!Page' = List!Page
  BY DEF List!Page
<1>2. Views' = Views
  BY <1>1 DEF Views
<1>3. \A v : List!Asks(v)' = List!Asks(v)
  BY DEF List!Asks, List!HomeAsks, List!FirstView
<1>4. \A v : List!Fetch(v)' = List!Fetch(v)
  BY <1>3 DEF List!Fetch
<1>5. \A q, d : List!Fits(q, d)' = List!Fits(q, d)
  BY DEF List!Fits, List!TicketFits, List!SeesTicket, List!UserFits, List!ErrorFits, List!AuditFits
<1> QED
  BY <1>1, <1>2, <1>3, <1>4, <1>5

LEMMA SameDocuments ==
    ASSUME kind' = kind, documents' = documents
    PROVE  \A q : List!Rows(q)' = List!Rows(q) /\ List!Pages(q)' = List!Pages(q)
<1>1. \A q : List!Found(q)' = List!Found(q) /\ List!Counted(q)' = List!Counted(q)
  BY SameKind DEF List!Found, List!Counted
<1> QED
  BY <1>1 DEF List!Rows, List!Pages

\* What is kept for a view stays true of it, if nothing changed or it is known to
\* be older than the change.
LEMMA EntryStays ==
    ASSUME kind' = kind, edits \in Nat, edits' \in Nat,
           edits' > edits \/ (edits' = edits /\ documents' = documents),
           NEW k, NEW e, IsEntry(k, e)
    PROVE  IsEntry(k, e)'
<1>1. /\ k \in Views' /\ List!Fetch(k)' = List!Fetch(k) /\ List!Asks(k)' = List!Asks(k)
      /\ List!NoCall' = List!NoCall
      /\ \A r : List!Fits(List!Asks(k), r.document)' = List!Fits(List!Asks(k), r.document)
  <2>1. \A r : List!Fits(List!Asks(k), r.document)' = List!Fits(List!Asks(k), r.document)
    BY SameKind
  <2> QED
    BY <2>1, SameKind DEF IsEntry, List!NoCall
<1>2. edits' = edits =>
          List!Rows(List!Asks(k))' = List!Rows(List!Asks(k)) /\ List!Pages(List!Asks(k))' = List!Pages(List!Asks(k))
  <2> SUFFICES ASSUME edits' = edits
               PROVE  /\ List!Rows(List!Asks(k))' = List!Rows(List!Asks(k))
                      /\ List!Pages(List!Asks(k))' = List!Pages(List!Asks(k))
    OBVIOUS
  <2> QED
    BY <1>1, SameDocuments
<1> QED
  BY <1>1, <1>2 DEF IsEntry, EntryFields

-----------------------------------------------------------------------------
(* The lists: the query cache.                                             *)

\* An entry whose fetch starts is one still.
LEMMA FetchedEntry ==
    ASSUME ListInv, NEW v \in Views
    PROVE  /\ IsEntry(v, List!Entry(v))
           /\ IsEntry(v, [List!Entry(v) EXCEPT !.call = List!Fetch(v), !.failed = @ /\ List!Entry(v).loaded])
           /\ IsEntry(v, [List!Entry(v) EXCEPT !.call = List!Fetch(v)])
<1> DEFINE e == List!Entry(v)
<1>1. IsEntry(v, List!NoEntry)
  <2>1. /\ List!NoEntry.rows = {} /\ List!NoEntry.pages = 0 /\ List!NoEntry.edition = 0
        /\ List!NoEntry.call = List!NoCall /\ ~List!NoEntry.loaded
        /\ DOMAIN List!NoEntry = EntryFields
    BY DEF List!NoEntry, EntryFields
  <2>2. IsFiniteSet(List!NoEntry.rows) /\ Cardinality(List!NoEntry.rows) = 0
    BY <2>1, FS_EmptySet
  <2> QED
    BY <2>1, <2>2, PageAssumption DEF IsEntry, ListInv, AllKept
<1>2. IsEntry(v, e)
  BY <1>1 DEF List!Entry, ListInv, AllKept
<1> HIDE DEF e
<1>3. ASSUME NEW f, DOMAIN f = DOMAIN e, f.loaded = e.loaded, f.rows = e.rows, f.pages = e.pages,
             f.edition = e.edition, f.call = List!Fetch(v)
      PROVE  IsEntry(v, f)
  BY <1>2, <1>3 DEF IsEntry
<1>4. DOMAIN e = EntryFields
  BY <1>2 DEF IsEntry
<1>5. IsEntry(v, [e EXCEPT !.call = List!Fetch(v)])
  BY <1>3, <1>4 DEF EntryFields
<1>6. IsEntry(v, [e EXCEPT !.call = List!Fetch(v), !.failed = @ /\ e.loaded])
  <2>1. \A x : IsEntry(v, [e EXCEPT !.call = List!Fetch(v), !.failed = x])
    <3> TAKE x
    <3> DEFINE f == [e EXCEPT !.call = List!Fetch(v), !.failed = x]
    <3>1. /\ DOMAIN f = DOMAIN e /\ f.call = List!Fetch(v)
          /\ f.loaded = e.loaded /\ f.rows = e.rows /\ f.pages = e.pages /\ f.edition = e.edition
      BY <1>4 DEF EntryFields
    <3> HIDE DEF f
    <3>2. IsEntry(v, f)
      BY <1>3, <3>1
    <3> QED
      BY <3>2 DEF f
  <2> QED
    BY <2>1
<1> QED
  BY <1>2, <1>5, <1>6 DEF e

LEMMA StartedCache ==
    ASSUME ListInv, NEW v \in Views
    PROVE  \A c \in {List!Started(v, v), List!Refetched(v, v)} :
               \A k \in DOMAIN c : IsEntry(k, c[k])
<1>1. \A k \in DOMAIN cache : IsEntry(k, cache[k])
  BY DEF ListInv, AllKept
<1>2. ASSUME NEW e, IsEntry(v, e), NEW k \in DOMAIN List!Kept(v, e)
      PROVE  IsEntry(k, List!Kept(v, e)[k])
  BY <1>1, <1>2 DEF List!Kept
<1>3. \A k \in DOMAIN List!Started(v, v) : IsEntry(k, List!Started(v, v)[k])
  BY <1>1, <1>2, FetchedEntry DEF List!Started
<1>4. ASSUME List!Entry(v).loaded, NEW k \in DOMAIN cache
      PROVE  IsEntry(k, [cache EXCEPT ![v].call = List!Fetch(v)][k])
  <2>1. CASE v = k
    <3>1. List!Entry(v) = cache[v]
      BY <2>1 DEF List!Entry
    <3>2. [cache EXCEPT ![v].call = List!Fetch(v)][k] = [List!Entry(v) EXCEPT !.call = List!Fetch(v)]
      BY <2>1, <3>1
    <3> QED
      BY <2>1, <3>2, FetchedEntry
  <2>2. CASE v # k
    BY <1>1, <2>2
  <2> QED
    BY <2>1, <2>2
<1>5. \A k \in DOMAIN List!Refetched(v, v) : IsEntry(k, List!Refetched(v, v)[k])
  BY <1>3, <1>4 DEF List!Refetched
<1> QED
  BY <1>3, <1>5

\* The documents stay as they are, and the page is one that is there.
LEMMA QuietStep ==
    ASSUME ListInv, UNCHANGED <<kind, documents, edits>>,
           view' \in Views, timers' \in Seq(List!Page.words), strayed' \in BOOLEAN,
           \A k \in DOMAIN cache' : IsEntry(k, cache'[k]),
           edits = 0 /\ ~strayed' /\ view'.page > 1 => view'.page <= List!Pages(List!Asks(view'))
    PROVE  ListInv'
<1>1. \A k, e : IsEntry(k, e) => IsEntry(k, e)'
  BY EntryStays DEF ListInv
<1>4. AllKept'
  BY <1>1 DEF AllKept
<1>2. /\ Views' = Views /\ List!Page' = List!Page
      /\ \A v : List!Pages(List!Asks(v))' = List!Pages(List!Asks(v))
  BY SameKind, SameDocuments
<1>3. PageIsThere'
  BY <1>2 DEF PageIsThere
<1> QED
  BY <1>2, <1>3, <1>4 DEF ListInv

\* A document changes.
LEMMA EditedStep ==
    ASSUME ListInv, kind' = kind, edits' = edits + 1, documents' \in Seq(DocumentType),
           UNCHANGED <<view, timers, strayed, cache>>
    PROVE  ListInv'
<1>1. edits \in Nat /\ edits' \in Nat /\ edits' > edits /\ edits' # 0
  BY DEF ListInv
<1>2. AllKept'
  <2>1. \A k, e : IsEntry(k, e) => IsEntry(k, e)'
    BY <1>1, EntryStays
  <2> QED
    BY <2>1 DEF ListInv, AllKept
<1>3. Views' = Views /\ List!Page' = List!Page
  BY SameKind
<1> QED
  BY <1>1, <1>2, <1>3 DEF ListInv, PageIsThere

\* The number of pages there are for a view is the same on each of them.
LEMMA SamePages ==
    ASSUME NEW q, NEW r, q.mark = r.mark, q.who = r.who, q.word = r.word
    PROVE  List!Pages(q) = List!Pages(r)
<1>1. \A d : List!Fits(q, d) = List!Fits(r, d)
  BY DEF List!Fits, List!TicketFits, List!UserFits, List!ErrorFits, List!AuditFits
<1>2. List!Counted(q) = List!Counted(r)
  BY <1>1 DEF List!Counted
<1> QED
  BY <1>2 DEF List!Pages

-----------------------------------------------------------------------------
(* The lists: the documents.                                               *)

LEMMA NewDocuments ==
    ASSUME kind \in AllKinds
    PROVE  \A d \in List!Documents : d \in DocumentType /\ ~d.gone
<1> DEFINE marks == {"open", "closed", "agent", "admin", "unresolved", "resolved", "created", "updated"}
           whos == {"nobody", "agent", "me", "another"}
<1>1. List!Marks \subseteq marks
  BY DEF AllKinds, List!Marks, List!OfTickets, List!Homes, List!TicketMarks
<1>2. List!Owners \subseteq whos
  BY DEF List!Owners
<1> TAKE d \in List!Documents
<1>3. PICK mark \in List!Marks, who \in List!Owners :
          d = [mark |-> mark, who |-> who, word |-> mark \in {"open", "agent"}, gone |-> FALSE]
  BY DEF List!Documents
<1>4. mark \in marks /\ who \in whos
  BY <1>1, <1>2
<1>5. CASE mark \in {"open", "agent"}
  <2>1. d = [mark |-> mark, who |-> who, word |-> TRUE, gone |-> FALSE]
    BY <1>3, <1>5
  <2> QED
    BY <1>4, <2>1 DEF DocumentType
<1>6. CASE mark \notin {"open", "agent"}
  <2>1. d = [mark |-> mark, who |-> who, word |-> FALSE, gone |-> FALSE]
    <3>1. (mark \in {"open", "agent"}) = FALSE
      BY <1>6
    <3> QED
      BY <1>3, <3>1, Zenon
  <2> QED
    BY <1>4, <2>1 DEF DocumentType
<1> QED
  BY <1>5, <1>6

LEMMA ListInitially ==
    ASSUME List!Init
    PROVE  ListInv
<1>1. kind \in AllKinds /\ edits = 0 /\ view = List!FirstView /\ timers = <<>> /\ strayed = FALSE
  BY KindsAssumption DEF List!Init
<1>2. view \in Views /\ view.page = 1
  BY <1>1, FirstViews
<1>3. documents \in Seq(DocumentType) /\ \A n \in 1..Len(documents) : ~documents[n].gone
  <2>1. PICK n \in 0..MaxDocuments : documents \in [1..n -> List!Documents]
    BY DEF List!Init
  <2>2. n \in Nat
    BY <2>1, BoundsAssumption
  <2>3. \A i \in 1..n : documents[i] \in DocumentType /\ ~documents[i].gone
    BY <1>1, <2>1, NewDocuments
  <2>4. documents \in [1..n -> DocumentType]
    BY <2>1, <2>3
  <2>5. documents \in Seq(DocumentType) /\ Len(documents) = n
    BY <2>2, <2>4
  <2> QED
    BY <2>3, <2>5
<1>4. AllKept
  <2> DEFINE f == List!FirstView
             e == [List!NoEntry EXCEPT !.call = List!Fetch(f)]
  <2>1. cache = [k \in {f} |-> e]
    BY DEF List!Init, List!Key
  <2>2. IsEntry(f, e)
    <3>1. e.call = List!Fetch(f) /\ e.rows = {} /\ e.pages = 0 /\ ~e.loaded /\ e.edition = 0
          /\ DOMAIN e = EntryFields
      BY DEF List!NoEntry, EntryFields
    <3>2. IsFiniteSet(e.rows) /\ Cardinality(e.rows) = 0
      BY <3>1, FS_EmptySet
    <3> HIDE DEF e
    <3> QED
      BY <1>1, <1>2, <3>1, <3>2, PageAssumption DEF IsEntry
  <2> QED
    BY <2>1, <2>2 DEF AllKept
<1>5. timers \in Seq(List!Page.words)
  BY <1>1
<1>6. strayed \in BOOLEAN
  BY <1>1
<1> QED
  BY <1>1, <1>2, <1>3, <1>4, <1>5, <1>6 DEF ListInv, PageIsThere

LEMMA AwayInitially == List!Away => ListInv
<1> SUFFICES ASSUME List!Away PROVE ListInv
  OBVIOUS
<1>1. kind \in AllKinds /\ documents = <<>> /\ edits = 0 /\ view = List!FirstView /\ timers = <<>>
      /\ strayed = FALSE /\ cache = <<>>
  BY DEF List!Away, AllKinds
<1>2. view \in Views /\ view.page = 1
  BY <1>1, FirstViews
<1>3. DOMAIN cache = {} /\ Len(documents) = 0 /\ documents \in Seq(DocumentType)
      /\ timers \in Seq(List!Page.words)
  BY <1>1
<1>4. strayed \in BOOLEAN
  BY <1>1
<1> QED
  BY <1>1, <1>2, <1>3, <1>4 DEF ListInv, AllKept, PageIsThere

LEMMA AddStep ==
    ASSUME ListInv, List!Add
    PROVE  ListInv'
<1>1. PICK d \in List!Documents : List!Edited(Append(documents, d))
  BY DEF List!Add
<1>2. d \in DocumentType
  BY NewDocuments DEF ListInv
<1>3. documents' \in Seq(DocumentType)
  BY <1>1, <1>2 DEF List!Edited, ListInv
<1> QED
  BY <1>1, <1>3, EditedStep DEF List!Edited

LEMMA ChangeStep ==
    ASSUME ListInv, List!Change
    PROVE  ListInv'
<1>1. PICK n \in 1..Len(documents) : \E d \in List!Documents : List!Edited([documents EXCEPT ![n] = d])
  BY DEF List!Change
<1>2. PICK d \in List!Documents : List!Edited([documents EXCEPT ![n] = d])
  BY <1>1
<1>3. d \in DocumentType
  BY NewDocuments DEF ListInv
<1>4. documents' \in Seq(DocumentType)
  BY <1>2, <1>3 DEF List!Edited, ListInv
<1> QED
  BY <1>2, <1>4, EditedStep DEF List!Edited

LEMMA DeleteStep ==
    ASSUME ListInv, List!Delete
    PROVE  ListInv'
<1>1. PICK n \in 1..Len(documents) : List!Edited([documents EXCEPT ![n].gone = TRUE])
  BY DEF List!Delete
<1>2. documents \in Seq(DocumentType) /\ documents[n] \in DocumentType
  BY DEF ListInv
<1>3. [documents[n] EXCEPT !.gone = TRUE] \in DocumentType
  BY <1>2 DEF DocumentType
<1>4. documents' \in Seq(DocumentType)
  BY <1>1, <1>2, <1>3 DEF List!Edited
<1> QED
  BY <1>1, <1>4, EditedStep DEF List!Edited

LEMMA ServeResolveStep ==
    ASSUME ListInv, List!ServeResolve
    PROVE  ListInv'
<1> DEFINE n == resolving.number
<1>1. /\ documents' = [documents EXCEPT ![n].mark = "resolved"]
      /\ edits' = IF documents' = documents THEN edits ELSE edits + 1
      /\ UNCHANGED <<kind, view, timers, strayed, cache>>
  BY DEF List!ServeResolve
<1> HIDE DEF n
<1>2. documents \in Seq(DocumentType) /\ documents' \in Seq(DocumentType)
  <2>1. documents \in Seq(DocumentType)
    BY DEF ListInv
  <2>2. CASE n \in 1..Len(documents)
    <3>1. documents[n] \in DocumentType
      BY <2>1, <2>2
    <3>2. [documents[n] EXCEPT !.mark = "resolved"] \in DocumentType
      BY <3>1 DEF DocumentType
    <3> QED
      BY <1>1, <2>1, <2>2, <3>2
  <2>3. CASE n \notin 1..Len(documents)
    <3>1. documents \in [1..Len(documents) -> DocumentType]
      BY <2>1
    <3>2. documents' = documents
      BY <1>1, <2>3, <3>1
    <3> QED
      BY <2>1, <3>2
  <2> QED
    BY <2>1, <2>2, <2>3
<1>3. CASE documents' = documents
  <2>1. edits' = edits
    BY <1>1, <1>3
  <2> QED
    BY <1>1, <1>3, <2>1, QuietStep DEF ListInv, AllKept, PageIsThere
<1>4. CASE documents' # documents
  <2>1. edits' = edits + 1
    BY <1>1, <1>4
  <2> QED
    BY <1>1, <1>2, <2>1, EditedStep
<1> QED
  BY <1>3, <1>4

-----------------------------------------------------------------------------
(* The lists: the fetches and the user.                                    *)

\* The answer is what was asked for the view the fetch was started for.
LEMMA FetchAnsweredEntry ==
    ASSUME ListInv, NEW k \in DOMAIN cache, List!FetchAnswered(k)
    PROVE  ListInv'
<1> DEFINE q == List!Asks(k)
           new == [loaded |-> TRUE, rows |-> List!Rows(q), pages |-> List!Pages(q),
                   edition |-> edits, failed |-> FALSE, call |-> List!NoCall]
<1>1. /\ kind \in AllKinds /\ k \in Views /\ cache[k].call \in {List!NoCall, List!Fetch(k)}
      /\ documents \in Seq(DocumentType) /\ edits \in Nat
  BY DEF ListInv, AllKept, IsEntry
<1>2. cache[k].call.asked = q
  BY <1>1 DEF List!FetchAnswered, List!Fetch
<1>3. cache' = [cache EXCEPT ![k] = new]
  BY <1>2 DEF List!FetchAnswered
<1>4. q.page \in Nat \ {0}
  BY <1>1, Asking
<1> HIDE DEF q
<1>5. IsEntry(k, new)
  <2>1. /\ IsFiniteSet(List!Rows(q)) /\ Cardinality(List!Rows(q)) <= PageSize
        /\ \A r \in List!Rows(q) : List!Fits(q, r.document)
    BY <1>1, <1>4, RowsOfAPage
  <2>2. /\ new.rows = List!Rows(q) /\ new.pages = List!Pages(q) /\ new.loaded
        /\ new.edition = edits /\ new.call = List!NoCall /\ DOMAIN new = EntryFields
    BY DEF EntryFields
  <2> HIDE DEF new
  <2>3. q = List!Asks(k)
    BY DEF q
  <2> QED
    BY <1>1, <2>1, <2>2, <2>3 DEF IsEntry
<1> HIDE DEF new
<1>6. \A j \in DOMAIN cache' : IsEntry(j, cache'[j])
  BY <1>3, <1>5 DEF ListInv, AllKept
<1>7. UNCHANGED <<kind, documents, edits, view, timers, strayed>>
  BY DEF List!FetchAnswered
<1> QED
  BY <1>6, <1>7, QuietStep DEF ListInv, PageIsThere

LEMMA FetchFailsEntry ==
    ASSUME ListInv, NEW k \in DOMAIN cache, List!FetchFails(k)
    PROVE  ListInv'
<1> DEFINE e == cache[k]
           new == [e EXCEPT !.call = List!NoCall, !.failed = TRUE]
<1>1. IsEntry(k, e)
  BY DEF ListInv, AllKept
<1>2. cache' = [cache EXCEPT ![k] = new]
  BY DEF List!FetchFails
<1> HIDE DEF e
<1>3. /\ DOMAIN new = EntryFields /\ new.call = List!NoCall /\ new.loaded = e.loaded
      /\ new.rows = e.rows /\ new.pages = e.pages /\ new.edition = e.edition
  BY <1>1 DEF IsEntry, EntryFields
<1> HIDE DEF new
<1>4. IsEntry(k, new)
  BY <1>1, <1>3 DEF IsEntry
<1>5. \A j \in DOMAIN cache' : IsEntry(j, cache'[j])
  BY <1>2, <1>4 DEF ListInv, AllKept
<1>6. UNCHANGED <<kind, documents, edits, view, timers, strayed>>
  BY DEF List!FetchFails
<1> QED
  BY <1>5, <1>6, QuietStep DEF ListInv, PageIsThere

\* Nothing but the cache, the box or the mutation changes.
LEMMA RefreshStep ==
    ASSUME ListInv, List!Poll \/ List!Resolve \/ List!Resolved \/ List!ResolveFails
    PROVE  ListInv'
<1>1. view \in Views /\ \A k \in DOMAIN cache : IsEntry(k, cache[k])
  BY DEF ListInv, AllKept
<1>2. UNCHANGED <<kind, documents, edits, view, timers, strayed>>
  BY DEF List!Poll, List!Resolve, List!Resolved, List!ResolveFails
<1>3. cache' \in {cache, List!Started(view, view), List!Refetched(view, view)}
  BY DEF List!Poll, List!Resolve, List!Resolved, List!ResolveFails, List!Key
<1>4. \A k \in DOMAIN cache' : IsEntry(k, cache'[k])
  BY <1>1, <1>3, StartedCache
<1> QED
  BY <1>2, <1>4, QuietStep DEF ListInv, PageIsThere

LEMMA TurnedCache ==
    ASSUME ListInv, NEW v \in Views, List!Turned(v)
    PROVE  view' = v /\ \A k \in DOMAIN cache' : IsEntry(k, cache'[k])
<1>1. \A k \in DOMAIN cache : IsEntry(k, cache[k])
  BY DEF ListInv, AllKept
<1>2. view' = v /\ cache' \in {cache, List!Started(v, v)}
  BY DEF List!Turned, List!Key
<1> QED
  BY <1>1, <1>2, StartedCache

\* The views next to a view.
LEMMA OtherViews ==
    ASSUME NEW v \in Views
    PROVE  /\ \A mark \in List!Page.marks : [v EXCEPT !.mark = mark] \in Views
           /\ \A who \in List!Page.whos : [v EXCEPT !.who = who] \in Views
           /\ \A word \in List!Page.words  : [v EXCEPT !.search = word] \in Views
           /\ [v EXCEPT !.page = 1] \in Views /\ [v EXCEPT !.page = 1].page = 1
  BY DEF Views

LEMMA ChooseStep ==
    ASSUME ListInv, List!Choose
    PROVE  ListInv'
<1>1. view \in Views
  BY DEF ListInv
<1>2. PICK v \in Views : List!Turned(v) /\ v.page = 1
  <2>1. CASE \E mark \in List!Page.marks : List!Turned(List!Filtered([view EXCEPT !.mark = mark]))
    <3>1. PICK mark \in List!Page.marks : List!Turned(List!Filtered([view EXCEPT !.mark = mark]))
      BY <2>1
    <3>2. List!Filtered([view EXCEPT !.mark = mark]) \in Views
          /\ List!Filtered([view EXCEPT !.mark = mark]).page = 1
      <4> DEFINE w == [view EXCEPT !.mark = mark]
      <4>1. w \in Views
        BY <1>1, <3>1, OtherViews
      <4> HIDE DEF w
      <4>2. [w EXCEPT !.page = 1] \in Views /\ [w EXCEPT !.page = 1].page = 1
        BY <4>1, OtherViews
      <4> QED
        BY <4>2 DEF List!Filtered, w
    <3> QED
      BY <3>1, <3>2
  <2>2. CASE \E who \in List!Page.whos : List!Turned(List!Filtered([view EXCEPT !.who = who]))
    <3>1. PICK who \in List!Page.whos : List!Turned(List!Filtered([view EXCEPT !.who = who]))
      BY <2>2
    <3>2. List!Filtered([view EXCEPT !.who = who]) \in Views
          /\ List!Filtered([view EXCEPT !.who = who]).page = 1
      <4> DEFINE w == [view EXCEPT !.who = who]
      <4>1. w \in Views
        BY <1>1, <3>1, OtherViews
      <4> HIDE DEF w
      <4>2. [w EXCEPT !.page = 1] \in Views /\ [w EXCEPT !.page = 1].page = 1
        BY <4>1, OtherViews
      <4> QED
        BY <4>2 DEF List!Filtered, w
    <3> QED
      BY <3>1, <3>2
  <2> QED
    BY <2>1, <2>2 DEF List!Choose
<1>3. UNCHANGED <<kind, documents, edits, timers>> /\ strayed' = FALSE
  BY DEF List!Choose
<1>4. strayed' \in BOOLEAN
  BY <1>3
<1> QED
  BY <1>2, <1>3, <1>4, TurnedCache, QuietStep DEF ListInv

LEMMA ChooseTabStep ==
    ASSUME ListInv, List!ChooseTab
    PROVE  ListInv'
<1>1. view \in Views
  BY DEF ListInv
<1>2. PICK tab \in List!Page.tabs : List!Turned([view EXCEPT !.tab = tab])
  BY DEF List!ChooseTab
<1> DEFINE v == [view EXCEPT !.tab = tab]
<1>3. v \in Views /\ v.page = view.page
  BY <1>1 DEF Views
<1> HIDE DEF v
<1>4. view' = v /\ \A k \in DOMAIN cache' : IsEntry(k, cache'[k])
  BY <1>2, <1>3, TurnedCache DEF v
<1>5. UNCHANGED <<kind, documents, edits, timers>> /\ strayed' = (view.page > 1)
  BY DEF List!ChooseTab
<1>6. strayed' \in BOOLEAN
  BY <1>5
<1>7. view'.page > 1 => strayed'
  BY <1>3, <1>4, <1>5
<1> QED
  BY <1>3, <1>4, <1>5, <1>6, <1>7, QuietStep DEF ListInv

\* Who turns the page has the latest list there is before anything changes, and
\* a page next to the one that is there is there.
LEMMA TurnPageStep ==
    ASSUME ListInv, List!TurnPage
    PROVE  ListInv'
<1>1. view \in Views /\ kind \in AllKinds /\ view.page \in Nat \ {0}
  BY DEF ListInv, Views
<1>2. PICK p \in Nat \ {0} :
          /\ List!Turned([view EXCEPT !.page = p])
          /\ (p = view.page + 1 /\ view.page < List!Here.pages) \/ p = view.page - 1
  <2>1. CASE view.page < List!Here.pages /\ List!Turned([view EXCEPT !.page = @ + 1])
    BY <1>1, <2>1
  <2>2. CASE view.page > 1 /\ List!Turned([view EXCEPT !.page = @ - 1])
    BY <1>1, <2>2
  <2> QED
    BY <2>1, <2>2 DEF List!TurnPage
<1> DEFINE v == [view EXCEPT !.page = p]
<1>3. /\ v \in Views /\ v.page = p /\ v.tab = view.tab /\ v.mark = view.mark /\ v.who = view.who
      /\ v.search = view.search
  BY <1>1 DEF Views
<1> HIDE DEF v
<1>4. view' = v /\ \A k \in DOMAIN cache' : IsEntry(k, cache'[k])
  BY <1>2, <1>3, TurnedCache DEF v
<1>5. UNCHANGED <<kind, documents, edits, timers, strayed>>
  BY DEF List!TurnPage
<1>6. List!Pages(List!Asks(v)) = List!Pages(List!Asks(view))
  <2>1. /\ List!Asks(v).mark = List!Asks(view).mark /\ List!Asks(v).word = List!Asks(view).word
    BY <1>1, <1>3, Asking
  <2>2. List!Asks(v).who = List!Asks(view).who
    BY <1>1, <1>3, AsksOfKind DEF AllKinds, List!Homes, List!AdminAsks, List!ManagerAsks, List!AgentAsks,
       List!CustomerAsks, List!UsersAsks, List!ErrorsAsks, List!AuditAsks, List!HomeAsks, List!Asked
  <2> QED
    BY <2>1, <2>2, SamePages
<1>7. ASSUME edits = 0, ~strayed, v.page > 1
      PROVE  v.page <= List!Pages(List!Asks(v))
  <2>1. List!Pages(List!Asks(view)) \in Nat
    <3>1. Cardinality(List!Counted(List!Asks(view))) \in Nat
      BY FoundNumbers DEF ListInv
    <3> QED
      BY <3>1, SameCardinality, PageAssumption DEF List!Pages
  <2>2. CASE p = view.page + 1 /\ view.page < List!Here.pages
    <3>1. CASE view \in DOMAIN cache
      <4>1. List!Here = cache[view] /\ IsEntry(view, cache[view])
        BY <3>1 DEF List!Here, List!Entry, List!Key, ListInv, AllKept
      <4>2. List!Here.loaded /\ List!Here.edition = edits
        BY <1>1, <1>7, <2>2, <4>1 DEF IsEntry
      <4>3. List!Here.pages = List!Pages(List!Asks(view))
        BY <4>1, <4>2 DEF IsEntry
      <4> QED
        BY <1>1, <1>3, <1>6, <2>1, <2>2, <4>3
    <3>2. CASE view \notin DOMAIN cache
      <4>1. List!Here.pages = 0
        BY <3>2 DEF List!Here, List!Entry, List!Key, List!NoEntry
      <4> QED
        BY <1>1, <2>2, <4>1
    <3> QED
      BY <3>1, <3>2
  <2>3. CASE p = view.page - 1
    <3>1. view.page <= List!Pages(List!Asks(view))
      BY <1>1, <1>3, <1>7, <2>3 DEF ListInv, PageIsThere
    <3> QED
      BY <1>1, <1>3, <1>6, <2>1, <2>3, <3>1
  <2> QED
    BY <1>2, <2>2, <2>3
<1> QED
  BY <1>3, <1>4, <1>5, <1>7, QuietStep DEF ListInv

LEMMA TypeStep ==
    ASSUME ListInv, List!Type
    PROVE  ListInv'
<1>1. UNCHANGED <<kind, documents, edits, view, cache, strayed>>
  BY DEF List!Type
<1>2. timers \in Seq(List!Page.words)
  BY DEF ListInv
<1>3. PICK word \in List!Page.words :
          timers' = Append(timers, word) \/ (timers # <<>> /\ timers' = Append(List!Front(timers), word))
  BY DEF List!Type
<1>4. timers # <<>> => List!Front(timers) \in Seq(List!Page.words)
  <2>1. Len(timers) \in Nat /\ \A i \in 1..(Len(timers) - 1) : timers[i] \in List!Page.words
    BY <1>2, ElementOfSeq
  <2>2. 1 \in Int /\ Len(timers) - 1 \in Int
    BY <2>1
  <2>3. SubSeq(timers, 1, Len(timers) - 1) \in Seq(List!Page.words)
    BY <2>1, <2>2, SubSeqProperties
  <2> QED
    BY <2>3 DEF List!Front
<1>5. \A s \in Seq(List!Page.words) : Append(s, word) \in Seq(List!Page.words)
  BY <1>3, AppendProperties
<1>6. timers' \in Seq(List!Page.words)
  BY <1>2, <1>3, <1>4, <1>5
<1> QED
  BY <1>1, <1>6, QuietStep DEF ListInv, AllKept, PageIsThere

LEMMA DebouncedStep ==
    ASSUME ListInv, List!Debounced
    PROVE  ListInv'
<1> DEFINE v == [view EXCEPT !.search = Head(timers), !.page = 1]
<1>1. view \in Views /\ timers \in Seq(List!Page.words) /\ timers # <<>>
  BY DEF ListInv, List!Debounced
<1>2. Head(timers) \in List!Page.words /\ Tail(timers) \in Seq(List!Page.words)
  BY <1>1
<1>3. v \in Views /\ v.page = 1
  <2> DEFINE w == [view EXCEPT !.search = Head(timers)]
  <2>1. w \in Views
    BY <1>1, <1>2, OtherViews
  <2> HIDE DEF w
  <2>2. [w EXCEPT !.page = 1] \in Views /\ [w EXCEPT !.page = 1].page = 1
    BY <2>1, OtherViews
  <2> QED
    BY <2>2 DEF w
<1>4. /\ List!Turned(v) /\ timers' = Tail(timers) /\ strayed' = FALSE
      /\ UNCHANGED <<kind, documents, edits>>
  BY DEF List!Debounced
<1> HIDE DEF v
<1>5. strayed' \in BOOLEAN
  BY <1>4
<1> QED
  BY <1>2, <1>3, <1>4, <1>5, TurnedCache, QuietStep

LEMMA ListStep ==
    ASSUME ListInv, List!Next
    PROVE  ListInv'
  BY FetchAnsweredEntry, FetchFailsEntry, RefreshStep, ChooseStep, ChooseTabStep, TurnPageStep,
     TypeStep, DebouncedStep, ServeResolveStep, AddStep, ChangeStep, DeleteStep DEF List!Next

LEMMA ListStutter ==
    ASSUME ListInv, UNCHANGED listVars
    PROVE  ListInv'
<1>1. UNCHANGED <<kind, documents, edits, view, timers, strayed, cache>>
  BY DEF listVars
<1> QED
  BY <1>1, QuietStep DEF ListInv, AllKept, PageIsThere

LEMMA ListCorrect == OfficeSpec => []ListInv
<1>1. OfficeInit => ListInv
  BY ListInitially, AwayInitially DEF OfficeInit
<1>2. ListInv /\ [OfficeNext]_officeVars => ListInv' \/ List!Away'
  <2>1. GoToSettings => List!Away'
    BY DEF GoToSettings, List!Leave, List!Away, List!FirstView
  <2> QED
    BY <2>1, ListStep, ListStutter DEF OfficeNext, officeVars
<1> QED
  BY <1>1, <1>2, AwayInitially, PTL DEF OfficeSpec

-----------------------------------------------------------------------------
(* What the lists show.                                                    *)

\* The rows are kept for the view that is open.
LEMMA RowsHere ==
    ASSUME ListInv
    PROVE  /\ List!Here.rows # {} \/ List!Here.loaded => IsEntry(view, List!Here)
           /\ \A r \in List!Here.rows : List!Fits(List!Asks(view), r.document)
           /\ List!Here.rows # {} =>
                  IsFiniteSet(List!Here.rows) /\ Cardinality(List!Here.rows) <= PageSize
<1>1. CASE view \in DOMAIN cache
  <2>1. List!Here = cache[view] /\ IsEntry(view, cache[view])
    BY <1>1 DEF List!Here, List!Entry, List!Key, ListInv, AllKept
  <2> QED
    BY <2>1 DEF IsEntry
<1>2. CASE view \notin DOMAIN cache
  <2>1. List!Here.rows = {} /\ ~List!Here.loaded
    BY <1>2 DEF List!Here, List!Entry, List!Key, List!NoEntry
  <2> QED
    BY <2>1
<1> QED
  BY <1>1, <1>2

\* The rows on the page are rows for the tab, the selects, the search and the
\* page that stand above them, and no others than the user's role may see - for
\* any number of documents, changes and moves, and any size of a page.
\* Code: the query keys of the lists against the parameters they send and the
\* filters of getAllTickets, getAllUsers and the monitoring routes.
THEOREM RowsAreForTheView == OfficeSpec => []RowsFitTheView
<1>1. ListInv => RowsFitTheView
  <2> SUFFICES ASSUME ListInv, List!Shown = "rows"
               PROVE  /\ Cardinality(List!Displayed) <= PageSize
                      /\ \A r \in List!Displayed : Chosen(r.document) /\ List!SeesTicket(r.document)
    BY DEF RowsFitTheView
  <2>1. List!Here.rows # {}
    BY DEF List!Shown
  <2>2. List!Displayed \in SUBSET List!Here.rows
    BY DEF List!Displayed
  <2>3. IsFiniteSet(List!Here.rows) /\ Cardinality(List!Here.rows) <= PageSize
    BY <2>1, RowsHere
  <2>4. Cardinality(List!Displayed) <= PageSize
    <3>1. /\ IsFiniteSet(List!Displayed)
          /\ Cardinality(List!Displayed) <= Cardinality(List!Here.rows)
      BY <2>2, <2>3, FS_Subset
    <3>2. Cardinality(List!Displayed) \in Nat /\ Cardinality(List!Here.rows) \in Nat
      BY <2>3, <3>1, FS_CardinalityType
    <3> QED
      BY <2>3, <3>1, <3>2, PageAssumption
  <2>5. \A r \in List!Displayed : Chosen(r.document) /\ List!SeesTicket(r.document)
    <3> TAKE r \in List!Displayed
    <3>1. List!Fits(List!Asks(view), r.document)
      BY <2>2, RowsHere
    <3> QED
      BY <3>1, FittingRows DEF ListInv
  <2> QED
    BY <2>4, <2>5
<1> QED
  BY <1>1, ListCorrect, PTL

\* A list whose answer is the latest says that there is nothing only if nothing
\* there is fits, or on a later page, after a tab was chosen there or others
\* changed something.
\* Code: the pages' empty states, the page number that a filter resets and a tab
\* does not, and countDocuments against find.
THEOREM EmptyIsEmpty == OfficeSpec => []EmptyMeansNone
<1>1. ListInv => EmptyMeansNone
  <2> SUFFICES ASSUME ListInv, List!Shown = "empty", List!Here.loaded, List!Here.edition = edits,
                      NEW n \in 1..Len(documents), ~documents[n].gone,
                      List!Fits(List!Asks(view), documents[n]),
                      ~(view.page > 1 /\ (strayed \/ edits > 0))
               PROVE  FALSE
    BY DEF EmptyMeansNone
  <2> DEFINE q == List!Asks(view)
  <2>1. List!Here.rows = {}
    BY DEF List!Shown
  <2>2. List!Rows(q) = {}
    BY <2>1, RowsHere DEF IsEntry
  <2>3. /\ view \in Views /\ kind \in AllKinds /\ documents \in Seq(DocumentType)
        /\ edits \in Nat /\ view.page \in Nat \ {0}
    BY DEF ListInv, Views
  <2>4. q.page \in Nat \ {0} /\ q.page \in {1, view.page}
    BY <2>3, Asking
  <2>5. n \in List!Found(q)
    BY DEF List!Found
  <2>6. CASE q.page = 1
    <3> HIDE DEF q
    <3> QED
      BY <2>2, <2>3, <2>4, <2>5, <2>6, PagesHaveRows
  <2>7. CASE q.page # 1
    <3>1. q.page = view.page /\ view.page > 1 /\ edits = 0 /\ ~strayed
      BY <2>3, <2>4, <2>7
    <3>2. q.page <= List!Pages(q)
      BY <3>1 DEF ListInv, PageIsThere
    <3>3. List!Found(q) = List!Counted(q)
      BY <3>1 DEF ListInv, List!Found, List!Counted
    <3> HIDE DEF q
    <3> QED
      BY <2>2, <2>3, <2>4, <2>5, <3>2, <3>3, PagesHaveRows
  <2> QED
    BY <2>6, <2>7
<1> QED
  BY <1>1, ListCorrect, PTL

=============================================================================

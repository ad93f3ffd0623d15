-------------------------- MODULE OfficeProperties --------------------------
(***************************************************************************)
(* What the lists and the settings promise their user.                     *)
(***************************************************************************)
EXTENDS Office

\* What the user has chosen says of a document.  Excepted are the choices the
\* server is not told or does not read: "Unassigned", the team of a manager,
\* and the status of users.
Chosen(d) ==
    /\ view.mark \in {All, d.mark}
    /\ view.search => d.word
    /\ view.tab = "assigned" => d.who = "me"
    /\ kind \in {"admin", "manager"} /\ "unassigned" \notin {view.tab, view.who} => view.who \in {All, d.who}

\* Whatever is typed, chosen and turned while fetches are under way, and in
\* whatever order these are answered, the rows on the page are rows for the tab,
\* the selects, the search and the page that stand above them, and no others
\* than the user's role may see.
\* Code: the query keys of the lists against the parameters they send and the
\* filters of getAllTickets, getAllUsers and the monitoring routes.
RowsFitTheView ==
    List!Shown = "rows" =>
        /\ Cardinality(List!Displayed) <= PageSize
        /\ \A r \in List!Displayed : Chosen(r.document) /\ List!SeesTicket(r.document)

\* "No tickets found" is so: a list whose answer is the latest says that there
\* is nothing only if nothing there is fits, or on a later page, after a tab was
\* chosen there or others changed something.
\* Code: the pages' empty states, the page number that a filter resets and a tab
\* does not, and countDocuments against find.
EmptyMeansNone ==
    List!Shown = "empty" /\ List!Here.loaded /\ List!Here.edition = edits =>
        \/ \A n \in 1..Len(documents) : ~documents[n].gone => ~List!Fits(List!Asks(view), documents[n])
        \/ view.page > 1 /\ (strayed \/ edits > 0)

\* Nobody registers but while the setting, at some moment of the request, allows
\* it - also where the request meets the creation of the settings, or a change.
\* Code: register of auth.controller.js and getConfig.
RegistrationFollowsTheSetting == visitor.registered => visitor.allowed

\* What an administrator has set is changed by what an administrator sends, and
\* by nothing else: a first look that found no settings does not put the defaults
\* in the place of those somebody saved meanwhile.
\* Code: getConfig, which looks and then creates, and updateConfig.
ConfigIsNeverReset ==
    [][config.stamp > 0 /\ config' # config =>
          \/ Setting!SaveElsewhere
          \/ \E s \in saves : s.phase = "sent" /\ config' = Setting!Document(s.document, config.stamp + 1)]_officeVars

\* A form of the settings that is not being edited shows what was saved there: no
\* version before the user's last save, unless a fetch or another save was under
\* way together with it.
\* Code: onSuccess of SystemSettings and ConfigTab, and the effect that fills the
\* form.
SavedSettingsAreShown ==
    Setting!Ready /\ ~form.dirty /\ owed > 0 =>
        /\ query.document.stamp >= owed
        /\ form.values = Setting!FormOf(query.document).values
=============================================================================

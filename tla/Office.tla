------------------------------- MODULE Office -------------------------------
(***************************************************************************)
(* One signed-in user on a paged list or on the pages of the settings      *)
(* (App.jsx).                                                              *)
(***************************************************************************)
EXTENDS Integers, Sequences, FiniteSets

CONSTANTS
    All, Kinds, PageSize, MaxDocuments, MaxEdits, MaxMoves,    \* as in Lists
    Limits, DefaultLimit, MaxStamp, MaxSaves                   \* as in Settings

\* The lists there are.
AllKinds == {"admin", "manager", "agent", "customer", "users", "team", "errors", "audit",
             "agentHome", "customerHome"}

ASSUME KindsAssumption == Kinds \subseteq AllKinds
ASSUME AllAssumption == All # "me"
ASSUME PageAssumption == PageSize \in Nat \ {0}
ASSUME BoundsAssumption == MaxDocuments \in Nat /\ MaxEdits \in Nat /\ MaxMoves \in Nat
ASSUME LimitsAssumption == DefaultLimit \in Limits
ASSUME StampAssumption == MaxStamp \in Nat /\ MaxSaves \in Nat

VARIABLES
    at,                                                                             \* "list" or "settings"
    kind, documents, edits, view, box, timers, cache, resolving, strayed, moves,    \* as in Lists
    role, section, form, config, query, saves, owed, visitor                        \* as in Settings

listVars == <<kind, documents, edits, view, box, timers, cache, resolving, strayed, moves>>
settingsVars == <<role, section, form, config, query, saves, owed, visitor>>
officeVars == <<at, listVars, settingsVars>>

List == INSTANCE Lists
Setting == INSTANCE Settings

\* Who gets to a list: TicketRouter and allowedRoles.
RoleAt(where) ==
    CASE where \in {"admin", "users", "errors", "audit"} -> "admin"
      [] where \in {"manager", "team"}                   -> "manager"
      [] where = "agentHome"                             -> "agent"
      [] where = "customerHome"                          -> "customer"
      [] OTHER                                           -> where

OfficeInit ==
    /\ at \in {"list", "settings"}
    /\ IF at = "list"
       THEN List!Init /\ config = Setting!NoDocument /\ role = RoleAt(kind)
       ELSE List!Away
    /\ Setting!SettingsInit

\* Bound: who has left a list does not come back to it, so that what is in
\* flight there is of no more interest.
GoToSettings ==
    /\ at = "list"
    /\ at' = "settings"
    /\ List!Leave
    /\ UNCHANGED settingsVars

OfficeNext ==
    \/ at = "list" /\ List!Next /\ UNCHANGED <<at, settingsVars>>
    \/ at = "settings" /\ Setting!SettingsNext /\ UNCHANGED <<at, listVars>>
    \/ GoToSettings

OfficeSpec == OfficeInit /\ [][OfficeNext]_officeVars
=============================================================================

-------------------------- MODULE SessionLifecycle --------------------------
(***************************************************************************)
(* What the owner of an account expects of its sessions: there is at most  *)
(* one, each login opens another, and one that was ended or replaced, or   *)
(* whose password is no longer the account's, does not come back.          *)
(***************************************************************************)
CONSTANTS Sessions, NoSession, Passwords, FirstPassword

VARIABLES live, ended, password

\* login: the session there was, if any, is replaced
Open(s) ==
    /\ s \notin ended /\ s # live
    /\ live' = s
    /\ ended' = ended \cup ({live} \ {NoSession})
    /\ UNCHANGED password

\* logout, and a refresh with a token that is not the current one
End ==
    /\ live # NoSession
    /\ live' = NoSession
    /\ ended' = ended \cup {live}
    /\ UNCHANGED password

\* changePassword and resetPassword
ChangePassword(p) ==
    /\ password' = p
    /\ live' = NoSession
    /\ ended' = ended \cup ({live} \ {NoSession})

Init == live = NoSession /\ ended = {} /\ password = FirstPassword

Next ==
    \/ \E s \in Sessions : Open(s)
    \/ End
    \/ \E p \in Passwords : ChangePassword(p)

Spec == Init /\ [][Next]_<<live, ended, password>>

=============================================================================

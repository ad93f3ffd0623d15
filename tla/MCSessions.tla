----------------------------- MODULE MCSessions -----------------------------
(* Instances of the sessions of one account for TLC. *)
EXTENDS SessionProperties, TLC

\* Tokens are drawn, never compared but for equality; request slots likewise.
SymmetricTokens ==
    Permutations(Requests) \cup Permutations(RefreshTokens) \cup Permutations(ResetTokens)

\* What has been crossed is forgotten together with what no property asks for then.
Remembered ==
    <<account, req, drawn, cookies, mail, now, retired, crossed,
      IF crossed THEN 0 ELSE <<root, ended, misses>>>>
=============================================================================

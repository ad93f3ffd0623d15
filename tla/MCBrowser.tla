----------------------------- MODULE MCBrowser -----------------------------
(* Instances of the browser for TLC. *)
EXTENDS BrowserProperties
=============================================================================

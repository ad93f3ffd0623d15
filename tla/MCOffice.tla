------------------------------ MODULE MCOffice ------------------------------
(* An instance of the lists and the settings for TLC. *)
EXTENDS OfficeProperties
=============================================================================

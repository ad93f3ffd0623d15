------------------------------ MODULE MCPages ------------------------------
(* An instance of the pages for TLC. *)
EXTENDS PagesProperties, TLC

CONSTANTS admin, manager, agent, customer

OneOfEach ==
    (admin :> "admin") @@ (manager :> "manager") @@ (agent :> "agent") @@ (customer :> "customer")
=============================================================================

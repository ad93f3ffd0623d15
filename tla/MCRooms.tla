------------------------------ MODULE MCRooms ------------------------------
EXTENDS RoomsProperties, TLC

CONSTANTS a, g, c

AdminAgentCustomer == (a :> "admin") @@ (g :> "agent") @@ (c :> "customer")

InterchangeableSocketsAndRequests == Permutations(Sockets) \cup Permutations(Requests)
=============================================================================

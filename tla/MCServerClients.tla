--------------------------- MODULE MCServerClients ---------------------------
(* Instances of ServerClients.  Which memory a component is allocated in     *)
(* makes no difference, so the components are symmetric.                     *)
EXTENDS ServerClients, TLC

MCSymmetry == Permutations(Components)
=============================================================================

------------------------------ MODULE MCPhones ------------------------------
(* Phones on small instances.                                                *)
EXTENDS Phones

CONSTANTS ann, bob, cid

\* Two callers of one phone; two phones that call each other.
OneCallee == {<<ann, bob>>, <<cid, bob>>}
OneCaller == {<<ann, bob>>}
BothWays == {<<ann, bob>>, <<bob, ann>>}
Chain == {<<ann, bob>>, <<cid, ann>>}
=============================================================================

--------------------------- MODULE MCMacResolution ---------------------------
(* Small instances of MacResolution: two interfaces, one gateway, so that a   *)
(* dump reports the next hop, another address and the other interface.        *)
EXTENDS MacResolution

\* The target is a neighbour in state NUD_NOARP on the other interface.
OneNoArp == {<<"ingress", "target">>}
=============================================================================

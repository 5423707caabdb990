------------------------------ MODULE MCTunnel ------------------------------
(* The tunnel has no parameters: the whole module is its own instance.     *)
EXTENDS Tunnel
=============================================================================

---------------------------- MODULE MCClientTable ----------------------------
(* Small instances of ClientTable: clients 1, 2, ... alternate over buckets. *)
EXTENDS ClientTable

HashParity == [c \in Clients |-> c % CLI_DIVISOR]
=============================================================================

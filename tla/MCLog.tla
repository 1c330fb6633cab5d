-------------------------------- MODULE MCLog --------------------------------
(* A small instance of a log ring and of the log file.  They share no state: *)
(* the file is dumped while the ring is still empty, so that the two state   *)
(* spaces add up instead of multiplying.                                     *)
EXTENDS EventLog, LogDump, TLC

\* The threads differ in nothing.
WritersAlike == Permutations(Writers)

AllInit == Init /\ FileInit

AllNext == \/ Next /\ at = "closed" /\ flags = {} /\ UNCHANGED fileVars
           \/ FileNext /\ UNCHANGED vars

AllSpec == AllInit /\ [][AllNext]_<<vars, fileVars>>
=============================================================================

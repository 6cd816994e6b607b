------------------------------ MODULE MCIngest ------------------------------
(* The feeder's intake over a short chain: two logs, both transports or one, *)
(* sequential and parallel mode.                                             *)
EXTENDS Ingest

CONSTANTS l1, l2

MCLogs == {l1, l2}
MCModes == [ws : BOOLEAN, parallel : BOOLEAN]
MCBothTransports == {[ws |-> TRUE, parallel |-> FALSE]}

=============================================================================

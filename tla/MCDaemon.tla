------------------------------ MODULE MCDaemon ------------------------------
(***************************************************************************)
(* Instances of Daemon for TLC.                                            *)
(***************************************************************************)
EXTENDS Daemon

CONSTANTS k1, k2

\* Once a start has been interfered with, no further command; and k1 is the
\* terminal that is used first (a CONSTRAINT).
AloneOrOneCommand ==
  /\ alone \/ commands <= 1
  /\ cmd[k1] = "none" => cmd[k2] = "none"
=============================================================================

-------------------------- MODULE MCRollingRestart --------------------------
(* Three apps, one of them skipped, restarted one after the other.           *)
EXTENDS RollingRestart

CONSTANTS a1, a2, a3
=============================================================================

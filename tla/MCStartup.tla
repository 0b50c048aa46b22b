----------------------------- MODULE MCStartup -----------------------------
(* Values for TLC: the script may repeat its queries twice.                *)
EXTENDS Startup

MCTries == 2
=============================================================================

--------------------------- MODULE MCOutputQueue ---------------------------
(* OutputQueue for TLC.                                                     *)
EXTENDS OutputQueue
=============================================================================

--------------------------- MODULE MCCommandBuilder ---------------------------
(* Small instances of CommandBuilder for TLC.                               *)
EXTENDS CommandBuilder
=============================================================================

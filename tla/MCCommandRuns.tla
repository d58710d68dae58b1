---- MODULE MCCommandRuns ----
(* CommandRuns with the bounds of the configuration. *)
EXTENDS CommandRuns

====

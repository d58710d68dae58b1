---- MODULE MCEventStream ----
(* EventStream on tasks and refreshes named in the configuration. *)
EXTENDS EventStream

====

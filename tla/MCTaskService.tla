---- MODULE MCTaskService ----
(* TaskService on tasks named in the configuration. *)
EXTENDS TaskService

====

---- MODULE MCPluginExecution ----
(* PluginExecution on requests named in the configuration. *)
EXTENDS PluginExecution

====

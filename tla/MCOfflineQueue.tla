-------------------------- MODULE MCOfflineQueue --------------------------
(* OfflineQueue on submissions named in the configuration. *)
EXTENDS OfflineQueue

=============================================================================

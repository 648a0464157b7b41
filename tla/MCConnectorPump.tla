-------------------------- MODULE MCConnectorPump --------------------------
(* One connector's worker on small instances. *)
EXTENDS ConnectorPump
=============================================================================

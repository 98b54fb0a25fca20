----------------------------- MODULE MCService ------------------------------
(* A small instance of Service for TLC. *)
EXTENDS Service

\* A configuration with a knob of every kind.
AllConfigs == {{"limits", "rates", "idle_timeout", "tls_cert", "tls_key"}}
=============================================================================

------------------------ MODULE MCConfigurationApply ------------------------
(* ConfigurationApply on small instances.                                  *)
EXTENDS ConfigurationApply

CONSTANTS v1, v2

\* A server with the core services, storage and functions, SMTP on.
StandardConfig ==
    {"services.gateway", "services.auth", "services.rest", "services.meta", "services.studio",
     "services.storage", "services.functions", "auth.enabled", "auth.smtp",
     "auth.smtpPasswordSet", "functions.valueSet"}
StandardSecret ==
    [k \in Secrets |-> IF k \in {"smtp", "function"} THEN v1 ELSE None]

AllLeaves == Leaves
=============================================================================

--------------------- MODULE MCConfigurationOrchestrator ---------------------
EXTENDS ConfigurationOrchestrator, TLC

CONSTANTS A, n1

OneKind == {1}
MCInitialConfig == (A :> [k \in Kinds |-> n1])
NoSecret == (A :> None)

=============================================================================

------------------------ MODULE MCConfigurationStore ------------------------
(* Small instances of ConfigurationStore.                                   *)
EXTENDS ConfigurationStore, TLC

CONSTANTS A, B, n1, n2

OneKind == {1}
TwoKinds == {1, 2}
\* A starts with port n1 and B with n2 if there is one, for the first kind only.
MCInitialConfig ==
    [p \in Projects |-> [k \in Kinds |->
        IF k # 1 THEN None ELSE IF p = A THEN n1 ELSE IF n2 \in Ports THEN n2 ELSE None]]
NoSecret == [p \in Projects |-> None]

\* Operation identifiers are interchangeable.
OpSymmetry == Permutations(Ops)
=============================================================================

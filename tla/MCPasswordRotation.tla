-------------------------- MODULE MCPasswordRotation --------------------------
EXTENDS PasswordRotation, TLC

CONSTANTS A, pw

OneConfig == (A :> [k \in Kinds |-> None])
Initial == (A :> pw)
=============================================================================

--------------------------- MODULE MCAdminSessions ---------------------------
(* AdminSessions with interchangeable tabs and session tokens.             *)
EXTENDS AdminSessions, TLC

Symmetry == Permutations(Tabs) \cup Permutations(Tokens)
=============================================================================

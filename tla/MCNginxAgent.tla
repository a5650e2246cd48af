---------------------------- MODULE MCNginxAgent ----------------------------
EXTENDS NginxAgent, TLC

CONSTANTS pw

\* Studio behind a password with the installer's certificate, and the API
\* alone with the staged one.
Studio == [studio |-> pw, managed |-> FALSE]
Plain == [studio |-> None, managed |-> TRUE]
TwoRoutes == {Studio, Plain}
=============================================================================

------------------------------ MODULE MCWebClient ------------------------------
EXTENDS WebClient, TLC

CONSTANTS t1, t2, c1

\* A busy tab, and one that is only loaded, signs in and signs out.
MCCalls == (t1 :> {c1, "password"}) @@ (t2 :> {})

=============================================================================

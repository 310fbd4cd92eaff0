--------------------------- MODULE MCAuthService ---------------------------
\* Requests, users and companies are interchangeable.
EXTENDS AuthService, TLC

Symmetry == Permutations(Requests) \cup Permutations(Users) \cup Permutations(Tenants)
=============================================================================

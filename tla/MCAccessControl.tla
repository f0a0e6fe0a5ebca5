-------------------------- MODULE MCAccessControl --------------------------
\* Instances of AccessControl for TLC.
EXTENDS AccessControl, TLC

\* The endpoints that change a table or a key: behind "lock" is what ends a logout.
RacingEndpoints == {"login", "logout", "unlock", "reveal", "create", "update",
                    "delete"}

\* All these sets are interchangeable; used for safety only.
Symmetric == Permutations(Users) \cup Permutations(Jtis)
             \cup Permutations(Devices) \cup Permutations(Creds)
             \cup Permutations(Requests)
=============================================================================

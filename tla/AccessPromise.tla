--------------------------- MODULE AccessPromise ---------------------------
(***************************************************************************)
(* What the gateway promises about sessions and vault keys, without its    *)
(* handlers: a session is opened once, for one user, and once it has ended *)
(* (by logout, by a fingerprint mismatch or by its expiry) it never        *)
(* becomes usable again; a vault key is in memory only for a user who has  *)
(* logged in.                                                              *)
(***************************************************************************)
CONSTANTS Users, Jtis, None

VARIABLES
  status,    \* of each JWT id: unused, active or ended
  holder,    \* the user a session was opened for
  unlocked   \* the users whose vault key is in memory

promiseVars == <<status, holder, unlocked>>

Init == /\ status = [j \in Jtis |-> "unused"]
        /\ holder = [j \in Jtis |-> None]
        /\ unlocked = {}

Open(j, u) == /\ status[j] = "unused"
              /\ status' = [status EXCEPT ![j] = "active"]
              /\ holder' = [holder EXCEPT ![j] = u]
              /\ UNCHANGED unlocked

\* Several sessions may expire at the same instant.
End(S) == /\ \A j \in S : status[j] = "active"
          /\ status' = [j \in Jtis |-> IF j \in S THEN "ended" ELSE status[j]]
          /\ UNCHANGED <<holder, unlocked>>

Unlock(u) == /\ \E j \in Jtis : holder[j] = u
             /\ unlocked' = unlocked \cup {u}
             /\ UNCHANGED <<status, holder>>

Lock(S) == /\ unlocked' = unlocked \ S
           /\ UNCHANGED <<status, holder>>

Next == \/ \E j \in Jtis, u \in Users : Open(j, u)
        \/ \E S \in SUBSET Jtis : End(S)
        \/ \E u \in Users : Unlock(u)
        \/ \E S \in SUBSET Users : Lock(S)

Spec == Init /\ [][Next]_promiseVars
=============================================================================

---------------------------- MODULE MCDashboard ----------------------------
\* An instance of Dashboard for TLC: every sign-in is of another user.
EXTENDS Dashboard, TLC

CONSTANTS u1, u2

Alternating == [s \in Sessions |-> IF s % 2 = 1 THEN u1 ELSE u2]
=============================================================================

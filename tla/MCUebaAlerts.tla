--------------------------- MODULE MCUebaAlerts ---------------------------
\* Instances of UebaAlerts for TLC.
EXTENDS UebaAlerts, TLC

\* No signal; the two heaviest, which score 55; three, which score 60.
BoundarySets == {{}, {"new_host", "volume_spike"},
                 {"off_hours_activity", "repeated_blocks", "high_risk_cluster"}}
TopSet == {{"off_hours_activity", "repeated_blocks", "high_risk_cluster"}}

Symmetric == Permutations(Users) \cup Permutations(Logs)
=============================================================================

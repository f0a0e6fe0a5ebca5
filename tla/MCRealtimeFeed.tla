--------------------------- MODULE MCRealtimeFeed ---------------------------
\* An instance of RealtimeFeed for TLC.
EXTENDS RealtimeFeed

CONSTANTS u1, u2

\* Rows of every kind and owner.
SomeData == {[user |-> u1, kind |-> "traffic"], [user |-> u1, kind |-> "alert"],
             [user |-> u2, kind |-> "alert"], [user |-> None, kind |-> "event"]}

\* The stores overflow.
OneRow == [k \in Stores |-> 1]
=============================================================================

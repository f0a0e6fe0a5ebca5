---------------------------- MODULE RealtimeFeed ----------------------------
(***************************************************************************)
(* The live feed of the dashboard, composed with the gateway that fills    *)
(* it: SocketRealtimeApi keeps one socket while somebody is signed in,     *)
(* RealtimeEffects and NotificationsEffects turn its messages into rows of *)
(* three stores, and each store keeps its newest rows.                     *)
(*                                                                         *)
(* A network may cut the connection until it is stable; the client then    *)
(* reconnects with the cookie of that moment.  A socket that the gateway   *)
(* itself disconnects does not reconnect.                                  *)
(***************************************************************************)
EXTENDS RealtimeGateway, FiniteSets

CONSTANT Limit     \* MAX_TRAFFIC_LOGS, MAX_SECURITY_EVENTS, MAX_NOTIFICATIONS

ASSUME FeedConstants == Limit \in [Stores -> Nat \ {0}]

VARIABLES
  shown,     \* the user the dashboard shows, None when signed out
  socket,    \* "none", "up", "dropped" or "refused"
  store,     \* the rows held
  stable,    \* the network does not fail any more
  got,       \* history: the rows that arrived since the sign-in
  greeted,   \* history: has a status arrived over this connection?
  moved      \* has another tab changed the cookie since the sign-in?

feedVars == <<shown, socket, store, stable, got, greeted, moved>>
vars     == <<gatewayVars, feedVars>>

TypeOK ==
  /\ GatewayTypeOK
  /\ shown \in Users \cup {None}
  /\ socket \in {"none", "up", "dropped", "refused"}
  /\ store \in [Stores -> SUBSET Rows]
  /\ got \in [Stores -> SUBSET Rows]
  /\ {stable, greeted, moved} \subseteq BOOLEAN

Empty == [k \in Stores |-> {}]

Init ==
  /\ GatewayInit
  /\ shown = None
  /\ socket = "none"
  /\ store = Empty
  /\ stable = FALSE
  /\ got = Empty
  /\ greeted = FALSE
  /\ moved = FALSE

-----------------------------------------------------------------------------
\* The session as the feed sees it.

\* A new socket, opened with the cookie of now, which names u.
Connect(u) ==
  /\ conn' = [NoConn EXCEPT !.step = "token", !.user = u]
  /\ wire' = <<>>
  /\ socket' = "up"
  /\ greeted' = FALSE

\* loginSuccess or loadProfileSuccess: the streams are subscribed to as well.
Start ==
  /\ shown = None
  /\ \E u \in Users : shown' = u /\ Connect(u)
  /\ moved' = FALSE
  /\ UNCHANGED <<row, store, stable, got, statusVars>>

\* logoutSuccess or sessionExpired: listeners, socket, streams and rows go.
End ==
  /\ shown # None /\ shown' = None
  /\ conn' = NoConn /\ wire' = <<>> /\ socket' = "none" /\ greeted' = FALSE
  /\ store' = Empty /\ got' = Empty
  /\ UNCHANGED <<row, stable, moved, statusVars>>

\* Another tab signs in or out: this one goes on as before.
OtherTab ==
  /\ shown # None
  /\ moved' = TRUE
  /\ UNCHANGED <<row, conn, wire, shown, socket, store, stable, got, greeted, statusVars>>

\* Whom the cookie may name by now.
CookieUsers == IF moved THEN Users \cup {None} ELSE {shown}

-----------------------------------------------------------------------------
\* The socket.

Cut(how) ==
  /\ conn' = NoConn /\ wire' = <<>> /\ socket' = how /\ greeted' = FALSE
  /\ UNCHANGED <<row, shown, store, stable, got, moved, statusVars>>

\* The connection fails; what was on the wire is lost.
LoseConnection == socket = "up" /\ ~stable /\ Cut("dropped")

\* authenticateSocket throws: no cookie, no live session, a fingerprint, or the
\* database.  handleConnection disconnects, and the client stays disconnected.
RefuseSocket == conn.step \in {"token", "user"} /\ Cut("refused")

\* Mutant of Reconnect: reconnection is not configured.
StayDown == FALSE /\ UNCHANGED vars

Reconnect ==
  /\ socket = "dropped"
  /\ \E u \in CookieUsers : Connect(u)
  /\ UNCHANGED <<row, shown, store, stable, got, moved, statusVars>>

NetworkSettles ==
  /\ stable' = TRUE
  /\ UNCHANGED <<gatewayVars, shown, socket, store, got, greeted, moved>>

-----------------------------------------------------------------------------
\* The stores.

Newest(S, n) == {r \in S : Cardinality({q \in S : q > r}) < n}

\* Mutant of Insert: a full store takes nothing more.
InsertIfRoom(k, r) ==
  IF Cardinality(store[k]) < Limit[k] THEN store[k] \cup {r} ELSE store[k]

\* insertLog, insertEvent and upsertNotification, with trimExcess.
Insert(k, r) == Newest(store[k] \cup {r}, Limit[k])

\* A message arrives in order and reaches its reducer.
Receive ==
  /\ wire # <<>>
  /\ wire' = Tail(wire)
  /\ LET m == Head(wire) IN
       \/ /\ m = Status /\ greeted' = TRUE
          /\ UNCHANGED <<store, got>>
       \/ /\ m # Status
          /\ store' = [store EXCEPT ![m.store] = Insert(m.store, m.row)]
          /\ got' = [got EXCEPT ![m.store] = @ \cup {m.row}]
          /\ UNCHANGED greeted
  /\ UNCHANGED <<row, conn, shown, socket, stable, moved, statusVars>>

-----------------------------------------------------------------------------
Handshake == CheckSocket \/ Admit \/ Welcome

GatewayStep ==
  \/ BeginRow \/ AnnounceRow \/ LoseRow
  \/ Handshake \/ Broadcast \/ BeginBroadcast \/ EndBroadcast
  \/ Tick

Next ==
  \/ GatewayStep /\ UNCHANGED feedVars
  \/ Start \/ End \/ OtherTab
  \/ LoseConnection \/ RefuseSocket \/ Reconnect \/ NetworkSettles
  \/ Receive

\* The handlers answer, since database and VirusTotal do or time out; a message
\* on a stable wire arrives; the client retries without limit.
Fairness ==
  /\ WF_vars((CheckSocket /\ UNCHANGED feedVars) \/ RefuseSocket)
  /\ WF_vars((Admit /\ UNCHANGED feedVars) \/ RefuseSocket)
  /\ WF_vars(Welcome /\ UNCHANGED feedVars)
  /\ WF_vars(Reconnect)
  /\ WF_vars(Receive)

Spec == Init /\ [][Next]_vars /\ Fairness

-----------------------------------------------------------------------------
\* Properties.

\* Every row of the feed is of the user the dashboard shows, through cuts,
\* reconnections and other sign-ins, unless another tab changed the cookie a
\* reconnection uses; signed out, the feed holds nothing and stays so
\* (events.gateway.ts:95-138, socket-realtime.api.ts:38-46, realtime.effects.ts:68-78).
FeedIsOwn ==
  /\ ~moved => \A k \in Stores : \A r \in store[k] : row[r].data.user = shown
  /\ shown = None => store = Empty

\* Rows are announced in the order their writes end, not in the order of their
\* timestamps: still each store holds the newest that arrived since the sign-in
\* (traffic.reducer.ts:20-28).
FeedHoldsNewest == \A k \in Stores : store[k] = Newest(got[k], Limit[k])

\* Once a status has arrived over a connection its socket is in the room: from
\* then on no row of its user is announced past it (events.gateway.ts:75-81).
GreetedMissesNothing ==
  [][\A r \in Rows :
       LET told == row'[r] # None /\ row'[r].step = "told" /\ row[r].step = "writing" IN
       told /\ greeted /\ row[r].data.user = conn.user =>
         ToSet(Messages(r)) \subseteq ToSet(wire')]_vars

\* Once the network is stable, a dashboard that stays signed in hears from the
\* gateway, or has been refused by it, and then hears nothing until the next
\* sign-in (events.gateway.ts:82-84, socket-realtime.api.ts:38-46).
FeedComesUp ==
  stable /\ shown # None ~> greeted \/ socket = "refused" \/ shown = None
=============================================================================

-------------------------- MODULE RealtimeGateway --------------------------
(***************************************************************************)
(* The way of a row from the tables of the SIEM to the socket of a browser *)
(* tab: SiemService writes it and announces it, NotificationService picks  *)
(* the rows worth a notification, EventsGateway sends both to the room of  *)
(* the user, in which a socket is once WsAuthService has admitted it.      *)
(*                                                                         *)
(* One tab is modelled, hence one connection at a time; users elsewhere    *)
(* show in the rows only.  A socket is authenticated once, when it         *)
(* connects: that its session ends later changes nothing here.             *)
(***************************************************************************)
EXTENDS SystemStatus, Sequences, SequencesExt

CONSTANTS
  Users,
  MaxRows,     \* bound on the rows ever written
  RowData,     \* the rows SiemService is asked to write: a user and a kind
  Handlers,    \* the callers of getStatus that calls of handleConnection may be
  None

Rows   == 1 .. MaxRows                          \* in the order of their timestamps
Stores == {"traffic", "security", "notifications"}

\* Traffic, a security event, and one that NOTIFIABLE_EVENT_TYPES names; only
\* a security event may belong to nobody.
AnyRowData ==
  {d \in [user: Users \cup {None}, kind: {"traffic", "event", "alert"}] :
     d.user = None => d.kind # "traffic"}

ASSUME GatewayConstants ==
  /\ RowData \subseteq AnyRowData
  /\ MaxRows \in Nat
  /\ None \notin Users \cup Rows \cup Handlers
  /\ None \notin [step: {"writing", "told", "lost"}, data: AnyRowData]
  /\ Handlers \subseteq Callers

VARIABLES
  row,       \* the rows: not begun, being written, announced, or lost
  conn,      \* the connection of the tab
  wire       \* what was sent over it and has not arrived

gatewayVars == <<row, conn, wire, statusVars>>

Message == [store: Stores, row: Rows] \cup {[store |-> "status", row |-> None]}
Status  == [store |-> "status", row |-> None]

\* "token" and "user" are the awaits of authenticateSocket, "joined" is the
\* await of getStatus in the rooms, "open" comes after the status was sent.
Steps   == {"none", "token", "user", "joined", "open"}
InRooms == conn.step \in {"joined", "open"}
NoConn  == [step |-> "none", user |-> None, handler |-> None]

GatewayTypeOK ==
  /\ row \in [Rows -> [step: {"writing", "told", "lost"}, data: RowData] \cup {None}]
  /\ conn \in [step: Steps, user: Users \cup {None}, handler: Handlers \cup {None}]
  /\ wire \in Seq(Message)
  /\ StatusTypeOK

GatewayInit ==
  /\ row = [r \in Rows |-> None]
  /\ conn = NoConn
  /\ wire = <<>>
  /\ StatusInit

-----------------------------------------------------------------------------
\* SiemService and NotificationService.

\* logTraffic or logSecurityEvent is called: the timestamp is taken.
BeginRow ==
  \E r \in Rows, d \in RowData :
    /\ row[r] = None
    /\ \A q \in Rows : q < r => row[q] # None
    /\ row' = [row EXCEPT ![r] = [step |-> "writing", data |-> d]]
    /\ UNCHANGED <<conn, wire, statusVars>>

\* The messages a row makes, in the order of the two events of SiemService;
\* a row of nobody makes none.
Messages(r) ==
  LET d == row[r].data IN
  IF d.user = None THEN <<>>
  ELSE CASE d.kind = "traffic" -> <<[store |-> "traffic", row |-> r]>>
         [] d.kind = "event"   -> <<[store |-> "security", row |-> r]>>
         [] d.kind = "alert"   -> <<[store |-> "security", row |-> r],
                                    [store |-> "notifications", row |-> r]>>

\* Mutant of Hears: a row goes to every socket that was admitted.
HearsAll(r) == InRooms

\* The room of the user.
Hears(r) == InRooms /\ conn.user = row[r].data.user

\* The write is over: the row is announced to whoever is in the room now.
AnnounceRow ==
  \E r \in Rows :
    /\ row[r] # None /\ row[r].step = "writing"
    /\ row' = [row EXCEPT ![r].step = "told"]
    /\ wire' = IF Hears(r) THEN wire \o Messages(r) ELSE wire
    /\ UNCHANGED <<conn, statusVars>>

\* The write fails and is swallowed.
LoseRow ==
  \E r \in Rows :
    /\ row[r] # None /\ row[r].step = "writing"
    /\ row' = [row EXCEPT ![r].step = "lost"]
    /\ UNCHANGED <<conn, wire, statusVars>>

-----------------------------------------------------------------------------
\* EventsGateway.

\* A status still on the way is as good as another one.
Send(m) == wire' = IF Contains(wire, m) THEN wire ELSE Append(wire, m)

\* The cookie of the handshake holds a token of a live session.
CheckSocket ==
  /\ conn.step = "token" /\ conn.user # None
  /\ conn' = [conn EXCEPT !.step = "user"]
  /\ UNCHANGED <<row, wire, statusVars>>

\* Fingerprint, user and last use are done: both rooms are joined, and the
\* status is sent at once or asked for.
Admit ==
  /\ conn.step = "user"
  /\ \/ Cached /\ conn' = [conn EXCEPT !.step = "open"] /\ Send(Status)
        /\ UNCHANGED statusVars
     \/ \E h \in Handlers :
          /\ StartProbe(h)
          /\ conn' = [conn EXCEPT !.step = "joined", !.handler = h]
          /\ UNCHANGED wire
  /\ UNCHANGED row

\* The status for a new socket, unless the socket is gone by now.
Welcome ==
  \E h \in Handlers :
    /\ FinishProbe(h)
    /\ \/ conn.handler = h /\ Send(Status)
          /\ conn' = [conn EXCEPT !.step = "open", !.handler = None]
       \/ conn.handler # h /\ UNCHANGED <<conn, wire>>
    /\ UNCHANGED row

\* Mutant of Tell: every socket is told, admitted or not.
TellAll == IF conn.step # "none" THEN Send(Status) ELSE UNCHANGED wire

\* The room of the admitted sockets.
Tell == IF InRooms THEN Send(Status) ELSE UNCHANGED wire

\* broadcastSystemStatus with an answer in the cache.
Broadcast ==
  /\ Cached /\ Tell
  /\ UNCHANGED <<row, conn, statusVars>>

\* It finds none, or GET /health does, which tells nobody.
BeginBroadcast ==
  \E c \in Callers \ Handlers :
    /\ StartProbe(c)
    /\ UNCHANGED <<row, conn, wire>>

EndBroadcast ==
  \E c \in Callers \ Handlers :
    /\ FinishProbe(c)
    /\ Tell \/ UNCHANGED wire
    /\ UNCHANGED <<row, conn>>

Tick == StatusTick /\ UNCHANGED <<row, conn, wire>>
=============================================================================

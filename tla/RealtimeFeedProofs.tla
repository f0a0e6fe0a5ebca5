------------------------- MODULE RealtimeFeedProofs -------------------------
(***************************************************************************)
(* From the probes of SystemStatus to the stores of the dashboard, for any *)
(* number of users, rows and callers, any limits of the stores and any     *)
(* lifetime of the status: the status service keeps its promise within the *)
(* composed system, the feed is the user's own, and each store holds the   *)
(* newest of what arrived.                                                 *)
(***************************************************************************)
EXTENDS RealtimeFeed, FiniteSetTheorems, SequenceTheorems, TLAPS

-----------------------------------------------------------------------------
\* SystemStatus by itself.

\* Ages stay within Ttl however time passes (the cache entry is used or not, it
\* does not matter how old it is beyond that).
LEMMA OlderIsAnAge ==
  ASSUME NEW t \in 0 .. Ttl
  PROVE  Older(t) \in 0 .. Ttl
BY SystemStatusConstants DEF Older

\* A step of the service keeps the types of its variables.
LEMMA StatusTypeStep == StatusTypeOK /\ [StatusNext]_statusVars => StatusTypeOK'
<1> SUFFICES ASSUME StatusTypeOK, [StatusNext]_statusVars
             PROVE  StatusTypeOK'
  OBVIOUS
<1> USE DEF StatusTypeOK
<1>1. CASE StatusTick
  <2>1. age' \in 0 .. Ttl
    BY <1>1, OlderIsAnAge DEF StatusTick
  <2>2. \A c \in Callers : Older(rested[c]) \in 0 .. Ttl
    BY OlderIsAnAge
  <2>3. rested' \in [Callers -> 0 .. Ttl]
    BY <1>1, <2>2 DEF StatusTick
  <2> QED
    BY <1>1, <2>1, <2>3 DEF StatusTick
<1>2. ASSUME NEW c \in Callers, StartProbe(c)
      PROVE  StatusTypeOK'
  BY <1>2 DEF StartProbe
<1>3. ASSUME NEW c \in Callers, FinishProbe(c)
      PROVE  StatusTypeOK'
  BY <1>3, SystemStatusConstants DEF FinishProbe
<1>4. CASE UNCHANGED statusVars
  BY <1>4 DEF statusVars
<1> QED
  BY <1>1, <1>2, <1>3, <1>4 DEF StatusNext

\* Every variable keeps its type (system-status.service.ts:21-43).
THEOREM StatusTypeCorrect == StatusSpec => []StatusTypeOK
<1>1. StatusInit => StatusTypeOK
  BY SystemStatusConstants DEF StatusInit, StatusTypeOK
<1> QED
  BY <1>1, StatusTypeStep, PTL DEF StatusSpec

\* The cached answer is never older than the rest of any caller: what
\* overlapping probes write can only make the cache younger.
THEOREM CacheIsYoungest == StatusSpec => []CacheYoungest
<1>1. StatusInit => CacheYoungest
  <2> SUFFICES ASSUME StatusInit, NEW d \in Callers
               PROVE  age <= rested[d]
    BY DEF CacheYoungest
  <2>1. age = Ttl /\ rested[d] = Ttl
    BY DEF StatusInit
  <2> QED
    BY <2>1, SystemStatusConstants
<1>2. /\ StatusTypeOK /\ CacheYoungest /\ [StatusNext]_statusVars
      => CacheYoungest'
  <2> SUFFICES ASSUME StatusTypeOK, CacheYoungest, [StatusNext]_statusVars,
                      NEW d \in Callers
               PROVE  age' <= rested'[d]
    BY DEF CacheYoungest
  <2>0. age \in 0 .. Ttl /\ rested[d] \in 0 .. Ttl /\ age <= rested[d]
    BY DEF StatusTypeOK, CacheYoungest
  <2>1. CASE StatusTick
    <3>1. age' = Older(age) /\ rested'[d] = Older(rested[d])
      BY <2>1 DEF StatusTick
    <3> QED
      BY <2>0, <3>1, SystemStatusConstants DEF Older
  <2>2. ASSUME NEW c \in Callers, StartProbe(c)
        PROVE  age' <= rested'[d]
    BY <2>0, <2>2 DEF StartProbe
  <2>3. ASSUME NEW c \in Callers, FinishProbe(c)
        PROVE  age' <= rested'[d]
    BY <2>0, <2>3 DEF FinishProbe, StatusTypeOK
  <2>4. CASE UNCHANGED statusVars
    BY <2>0, <2>4 DEF statusVars
  <2> QED
    BY <2>1, <2>2, <2>3, <2>4 DEF StatusNext
<1> QED
  BY <1>1, <1>2, StatusTypeCorrect, PTL DEF StatusSpec

\* A caller probes VirusTotal again only Ttl after its last probe was answered,
\* whatever the others do meanwhile.
THEOREM ProbesAreSpaced == StatusSpec => ProbesSpaced
<1>1. /\ StatusTypeOK /\ CacheYoungest /\ [StatusNext]_statusVars
      => [\A c \in Callers : c \notin probing /\ c \in probing'
                               => rested[c] = Ttl]_statusVars
  <2> SUFFICES ASSUME StatusTypeOK, CacheYoungest, StatusNext,
                      NEW d \in Callers, d \notin probing, d \in probing'
               PROVE  rested[d] = Ttl
    OBVIOUS
  <2>0. age \in 0 .. Ttl /\ rested[d] \in 0 .. Ttl /\ age <= rested[d]
    BY DEF StatusTypeOK, CacheYoungest
  <2>1. CASE StatusTick
    BY <2>1 DEF StatusTick
  <2>2. ASSUME NEW c \in Callers, StartProbe(c)
        PROVE  rested[d] = Ttl
    BY <2>0, <2>2, SystemStatusConstants DEF StartProbe, Cached
  <2>3. ASSUME NEW c \in Callers, FinishProbe(c)
        PROVE  rested[d] = Ttl
    BY <2>3 DEF FinishProbe
  <2> QED
    BY <2>1, <2>2, <2>3 DEF StatusNext
<1> QED
  BY <1>1, StatusTypeCorrect, CacheIsYoungest, PTL DEF StatusSpec, ProbesSpaced

-----------------------------------------------------------------------------
\* Rows and messages.

\* Any rows have a newest one.
LEMMA NewestExists ==
  ASSUME NEW n \in Nat, NEW S \in SUBSET (1 .. n), S # {}
  PROVE  \E y \in S : \A x \in S : x <= y
<1> DEFINE T == {n - y : y \in S}
<1>1. \A y \in S : n - y \in T /\ n - y \in Nat
  OBVIOUS
<1>2. T \subseteq Nat /\ T # {}
  BY <1>1
<1> DEFINE R == OpToRel(<, Nat)
<1>3. \A i, j \in Nat : i < j => <<i, j>> \in R
  BY DEF OpToRel
<1>4. IsWellFoundedOn(R, Nat)
  BY NatLessThanWellFounded
<1> HIDE DEF R
<1>5. PICK m \in T : \A x \in T : <<x, m>> \notin R
  <2> HIDE DEF T
  <2>1. QED
    BY <1>2, <1>4, WFMin
<1>6. PICK y \in S : m = n - y
  OBVIOUS
<1>7. \A x \in S : ~(n - x < n - y)
  BY <1>1, <1>3, <1>5, <1>6
<1>8. QED
  BY <1>7

\* Inserting into the newest rows gives the newest of all that was inserted: a
\* row that was dropped before never belongs to them again.
LEMMA InsertKeepsNewest ==
  ASSUME NEW n \in Nat, NEW G \in SUBSET (1 .. n), NEW r \in 1 .. n, NEW l \in Nat
  PROVE  Newest(Newest(G, l) \cup {r}, l) = Newest(G \cup {r}, l)
<1> DEFINE N == Newest(G, l)
           Above(S, x) == {q \in S : q > x}
<1>1. \A S \in SUBSET (1 .. n) : IsFiniteSet(S) /\ Cardinality(S) \in Nat
  <2>1. IsFiniteSet(1 .. n)
    BY FS_Interval
  <2>2. QED
    BY <2>1, FS_Subset, FS_CardinalityType
<1>2. \A S, T \in SUBSET (1 .. n) : S \subseteq T => Cardinality(S) <= Cardinality(T)
  BY <1>1, FS_Subset
<1>3. \A S \in SUBSET (1 .. n) : \A x : Above(S, x) \in SUBSET (1 .. n)
  OBVIOUS
<1>4. N \subseteq G /\ \A x \in G : x \in N <=> Cardinality(Above(G, x)) < l
  BY DEF Newest
<1>5. \A S : Newest(S, l) = {x \in S : Cardinality(Above(S, x)) < l}
  BY DEF Newest
<1> HIDE DEF N
<1>6. ASSUME NEW x \in G \cup {r}, Cardinality(Above(G \cup {r}, x)) < l
      PROVE  x \in N \cup {r} /\ Cardinality(Above(N \cup {r}, x)) < l
  <2>1. /\ Above(G, x) \subseteq Above(G \cup {r}, x)
        /\ Above(N \cup {r}, x) \subseteq Above(G \cup {r}, x)
    BY <1>4
  <2>2. /\ Cardinality(Above(G, x)) <= Cardinality(Above(G \cup {r}, x))
        /\ Cardinality(Above(N \cup {r}, x)) <= Cardinality(Above(G \cup {r}, x))
    <3>1. /\ Above(G, x) \in SUBSET (1 .. n) /\ Above(G \cup {r}, x) \in SUBSET (1 .. n)
          /\ Above(N \cup {r}, x) \in SUBSET (1 .. n)
      BY <1>4
    <3> HIDE DEF Above
    <3>2. QED
      BY <1>2, <2>1, <3>1
  <2>3. /\ Cardinality(Above(G, x)) \in Nat /\ Cardinality(Above(G \cup {r}, x)) \in Nat
        /\ Cardinality(Above(N \cup {r}, x)) \in Nat
    <3>1. /\ Above(G, x) \in SUBSET (1 .. n) /\ Above(G \cup {r}, x) \in SUBSET (1 .. n)
          /\ Above(N \cup {r}, x) \in SUBSET (1 .. n)
      BY <1>4
    <3> HIDE DEF Above
    <3>2. QED
      BY <1>1, <3>1
  <2> HIDE DEF Above
  <2>4. QED
    BY <1>4, <1>6, <2>2, <2>3
<1>7. ASSUME NEW x \in N \cup {r}, Cardinality(Above(N \cup {r}, x)) < l
      PROVE  x \in G \cup {r} /\ Cardinality(Above(G \cup {r}, x)) < l
  <2> DEFINE D == Above(G \cup {r}, x) \ Above(N \cup {r}, x)
  <2>1. CASE D = {}
    <3>1. Above(G \cup {r}, x) = Above(N \cup {r}, x)
      BY <1>4, <2>1
    <3> HIDE DEF Above
    <3>2. QED
      BY <1>4, <1>7, <3>1
  <2>2. CASE D # {}
    <3>1. PICK y \in D : \A z \in D : z <= y
      <4>1. D \in SUBSET (1 .. n)
        OBVIOUS
      <4> HIDE DEF D
      <4>2. QED
        BY <2>2, <4>1, NewestExists
    <3>2. y \in G /\ y \notin N /\ y > x /\ y \in 1 .. n /\ x \in 1 .. n
      BY <1>4
    <3>3. Above(G, y) \subseteq Above(N \cup {r}, x)
      <4> SUFFICES ASSUME NEW z \in G, z > y PROVE z \in Above(N \cup {r}, x)
        OBVIOUS
      <4>1. z > x /\ z \notin D
        BY <3>1, <3>2
      <4>2. QED
        BY <4>1
    <3>4. /\ Above(G, y) \in SUBSET (1 .. n) /\ Above(N \cup {r}, x) \in SUBSET (1 .. n)
      BY <1>4
    <3> HIDE DEF Above, D
    <3>5. /\ Cardinality(Above(G, y)) <= Cardinality(Above(N \cup {r}, x))
          /\ Cardinality(Above(G, y)) \in Nat /\ Cardinality(Above(N \cup {r}, x)) \in Nat
      BY <1>1, <1>2, <3>3, <3>4
    <3>6. ~(Cardinality(Above(G, y)) < l)
      BY <1>4, <3>2
    <3>7. QED
      BY <1>7, <3>5, <3>6
  <2>3. QED
    BY <2>1, <2>2
<1>8. QED
  <2> HIDE DEF Above
  <2>1. Newest(N \cup {r}, l) = Newest(G \cup {r}, l)
    BY <1>5, <1>6, <1>7
  <2>2. QED
    BY <2>1 DEF N
-----------------------------------------------------------------------------
\* The inductive invariant.

\* The connection belongs to the user shown while no other tab interfered; the
\* status it was sent was sent in the rooms.
ConnFits ==
  /\ shown = None => conn = NoConn /\ socket = "none"
  /\ ~moved /\ conn.step # "none" => conn.user = shown
  /\ conn.handler # None => conn.step = "joined"
  /\ greeted => InRooms

\* What is on the wire was sent while its reader was in the rooms.
MessageFits(m) ==
  /\ shown # None
  /\ m = Status => InRooms
  /\ m # Status => /\ row[m.row] # None
                   /\ ~moved => row[m.row].data.user = shown

WireFits == \A m \in Message : Contains(wire, m) => MessageFits(m)

\* The stores hold rows that were written.
StoresFit ==
  /\ FeedIsOwn /\ FeedHoldsNewest
  /\ \A k \in Stores : \A r \in store[k] : row[r] # None

IInv == TypeOK /\ ConnFits /\ WireFits /\ StoresFit
-----------------------------------------------------------------------------
\* The wire.

\* What is on a wire to which something was added, or from which it was taken.
LEMMA ContainsLaws ==
  ASSUME NEW s \in Seq(Message)
  PROVE  /\ \A m \in Message : ~Contains(<<>>, m)
         /\ \A e \in Message :
              /\ Append(s, e) \in Seq(Message)
              /\ \A m \in Message : Contains(Append(s, e), m) => Contains(s, m) \/ m = e
         /\ \A t \in Seq(Message) :
              /\ s \o t \in Seq(Message)
              /\ \A m \in Message :
                   Contains(s \o t, m) => Contains(s, m) \/ Contains(t, m)
         /\ s # <<>> =>
              /\ Tail(s) \in Seq(Message)
              /\ Head(s) \in Message /\ Contains(s, Head(s))
              /\ \A m \in Message : Contains(Tail(s), m) => Contains(s, m)
<1>1. \A m \in Message : ~Contains(<<>>, m)
  BY DEF Contains
<1>2. ASSUME NEW e \in Message
      PROVE  /\ Append(s, e) \in Seq(Message)
             /\ \A m \in Message : Contains(Append(s, e), m) => Contains(s, m) \/ m = e
  <2>1. /\ Append(s, e) \in Seq(Message) /\ Len(Append(s, e)) = Len(s) + 1
        /\ \A i \in 1 .. Len(s) : Append(s, e)[i] = s[i]
        /\ Append(s, e)[Len(s) + 1] = e
    BY AppendProperties
  <2>2. \A i \in 1 .. Len(Append(s, e)) : i \in 1 .. Len(s) \/ i = Len(s) + 1
    BY <2>1
  <2>3. QED
    BY <2>1, <2>2 DEF Contains
<1>3. ASSUME NEW t \in Seq(Message)
      PROVE  /\ s \o t \in Seq(Message)
             /\ \A m \in Message :
                  Contains(s \o t, m) => Contains(s, m) \/ Contains(t, m)
  <2>1. /\ s \o t \in Seq(Message) /\ Len(s \o t) = Len(s) + Len(t)
        /\ \A i \in 1 .. Len(s) + Len(t) :
             (s \o t)[i] = IF i <= Len(s) THEN s[i] ELSE t[i - Len(s)]
    BY ConcatProperties
  <2>2. Len(s) \in Nat /\ Len(t) \in Nat
    OBVIOUS
  <2>3. ASSUME NEW m \in Message, NEW i \in 1 .. Len(s \o t), (s \o t)[i] = m
        PROVE  Contains(s, m) \/ Contains(t, m)
    <3>1. CASE i <= Len(s)
      <4>1. i \in 1 .. Len(s) /\ s[i] = m
        BY <2>1, <2>2, <2>3, <3>1
      <4>2. QED
        BY <4>1 DEF Contains
    <3>2. CASE ~(i <= Len(s))
      <4>1. i - Len(s) \in 1 .. Len(t) /\ t[i - Len(s)] = m
        BY <2>1, <2>2, <2>3, <3>2
      <4>2. QED
        BY <4>1 DEF Contains
    <3>3. QED
      BY <3>1, <3>2
  <2>4. QED
    BY <2>1, <2>3 DEF Contains
<1>4. ASSUME s # <<>>
      PROVE  /\ Tail(s) \in Seq(Message)
             /\ Head(s) \in Message /\ Contains(s, Head(s))
             /\ \A m \in Message : Contains(Tail(s), m) => Contains(s, m)
  <2>1. /\ Head(s) \in Message /\ Tail(s) \in Seq(Message)
        /\ Len(Tail(s)) = Len(s) - 1 /\ Len(s) \in Nat
        /\ \A i \in 1 .. Len(Tail(s)) : Tail(s)[i] = s[i + 1]
    BY <1>4, HeadTailProperties
  <2>2. Contains(s, Head(s))
    BY <1>4 DEF Contains
  <2>3. \A i \in 1 .. Len(Tail(s)) : i + 1 \in 1 .. Len(s)
    BY <2>1
  <2>4. QED
    BY <2>1, <2>2, <2>3 DEF Contains
<1>5. QED
  BY <1>1, <1>2, <1>3, <1>4

\* A status is a message that no row makes.
LEMMA StatusIsNoRow ==
  /\ Status \in Message
  /\ \A m \in Message : m # Status => m.store \in Stores /\ m.row \in Rows
  /\ \A k \in Stores, r \in Rows : [store |-> k, row |-> r] # Status
BY DEF Message, Status, Stores

\* The messages of a row are about it.
LEMMA MessagesOfRow ==
  ASSUME NEW r \in Rows, row[r].data \in AnyRowData
  PROVE  /\ Messages(r) \in Seq(Message)
         /\ \A m \in Message : Contains(Messages(r), m) => m # Status /\ m.row = r
         /\ row[r].data.user = None => Messages(r) = <<>>
<1> DEFINE d == row[r].data
           M(k) == [store |-> k, row |-> r]
<1>1. \A k \in Stores : M(k) \in Message /\ M(k) # Status /\ M(k).row = r
  BY StatusIsNoRow DEF Message
<1>2. d.kind \in {"traffic", "event", "alert"}
  BY DEF AnyRowData
<1>3. {"traffic", "security", "notifications"} \subseteq Stores
  BY DEF Stores
<1>4. \/ Messages(r) = <<>>
      \/ d.user # None /\ \E k \in Stores : Messages(r) = <<M(k)>>
      \/ d.user # None /\ Messages(r) = <<M("security"), M("notifications")>>
  <2>1. CASE d.user = None
    BY <2>1 DEF Messages
  <2>2. CASE d.user # None
    BY <1>2, <1>3, <2>2 DEF Messages
  <2>3. QED
    BY <2>1, <2>2
<1> HIDE DEF M, d
<1>5. CASE Messages(r) = <<>>
  BY <1>5 DEF Contains, d
<1>6. CASE d.user # None /\ \E k \in Stores : Messages(r) = <<M(k)>>
  BY <1>1, <1>6 DEF Contains, d
<1>7. CASE d.user # None /\ Messages(r) = <<M("security"), M("notifications")>>
  BY <1>1, <1>3, <1>7 DEF Contains, d
<1>8. QED
  BY <1>4, <1>5, <1>6, <1>7
-----------------------------------------------------------------------------
\* What the steps of the gateway may do to the feed.

\* Rows keep their data.
RowsKeep ==
  \A r \in Rows : row[r] # None => row'[r] # None /\ row'[r].data = row[r].data

\* A socket goes from the rooms only by a cut.
ConnKeeps ==
  /\ conn.step = "none" => conn' = conn
  /\ conn'.step # "none" => conn.step # "none"
  /\ conn'.user = conn.user
  /\ InRooms => InRooms'
  /\ conn'.handler # None => conn'.step = "joined"

RowType == [Rows -> [step: {"writing", "told", "lost"}, data: RowData] \cup {None}]
ConnType == [step: Steps, user: Users \cup {None}, handler: Handlers \cup {None}]

\* Within the composed system the status service takes only its own steps.
LEMMA StatusStep ==
  ASSUME [Next]_vars
  PROVE  [StatusNext]_statusVars
<1>1. StatusTick \/ (\E c \in Callers : StartProbe(c) \/ FinishProbe(c)) => StatusNext
  BY DEF StatusNext
<1>2. CASE GatewayStep
  BY <1>1, <1>2, GatewayConstants
     DEF GatewayStep, BeginRow, AnnounceRow, LoseRow, Handshake, CheckSocket, Admit,
         Welcome, Broadcast, BeginBroadcast, EndBroadcast, Tick
<1>3. CASE Start \/ End \/ OtherTab \/ LoseConnection \/ RefuseSocket \/ Reconnect
             \/ NetworkSettles \/ Receive
  BY <1>3
     DEF Start, End, OtherTab, LoseConnection, RefuseSocket, Reconnect, NetworkSettles,
         Receive, Cut, gatewayVars
<1>4. CASE UNCHANGED vars
  BY <1>4 DEF vars, gatewayVars
<1>5. QED
  BY <1>2, <1>3, <1>4 DEF Next

\* A step of the gateway that keeps rows and socket, and sends only what fits,
\* preserves the invariant.
LEMMA GatewayKeeps ==
  ASSUME IInv, StatusTypeOK', UNCHANGED feedVars, RowsKeep, ConnKeeps,
         row' \in RowType, conn' \in ConnType, wire' \in Seq(Message),
         \A m \in Message : Contains(wire', m) => Contains(wire, m) \/ MessageFits(m)'
  PROVE  IInv'
<1>1. UNCHANGED <<shown, socket, store, stable, got, greeted, moved>>
  BY DEF feedVars
<1>2. TypeOK'
  BY <1>1 DEF IInv, TypeOK, GatewayTypeOK, RowType, ConnType
<1>3. ConnFits'
  <2>1. shown = None => conn' = conn
    BY DEF IInv, ConnFits, ConnKeeps, NoConn
  <2>2. QED
    BY <1>1, <2>1 DEF IInv, ConnFits, ConnKeeps, NoConn
<1>4. WireFits'
  <2>1. ASSUME NEW m \in Message, Contains(wire, m) PROVE MessageFits(m)'
    <3>1. MessageFits(m)
      BY <2>1 DEF IInv, WireFits
    <3>2. m # Status => m.row \in Rows
      BY StatusIsNoRow
    <3>3. Status' = Status
      BY DEF Status
    <3>4. QED
      BY <1>1, <3>1, <3>2, <3>3 DEF MessageFits, RowsKeep, ConnKeeps
  <2>2. Message' = Message
    BY DEF Message, Stores, Rows
  <2>3. QED
    BY <2>1, <2>2 DEF WireFits
<1>5. StoresFit'
  <2>1. \A k \in Stores : store[k] \subseteq Rows
    BY DEF IInv, TypeOK
  <2>2. \A k \in Stores : \A r \in store[k] :
          row'[r] # None /\ row'[r].data = row[r].data
    BY <2>1 DEF IInv, StoresFit, RowsKeep
  <2>3. QED
    BY <1>1, <2>2 DEF IInv, StoresFit, FeedIsOwn, FeedHoldsNewest, Empty
<1>6. QED
  BY <1>2, <1>3, <1>4, <1>5 DEF IInv

\* The rows.
LEMMA RowSteps ==
  ASSUME IInv, StatusTypeOK', UNCHANGED feedVars, BeginRow \/ AnnounceRow \/ LoseRow
  PROVE  IInv'
<1>1. /\ row \in RowType /\ conn \in ConnType /\ wire \in Seq(Message)
      /\ UNCHANGED <<shown, moved>>
  BY DEF IInv, TypeOK, GatewayTypeOK, RowType, ConnType, feedVars
<1>2. UNCHANGED conn
  BY DEF BeginRow, AnnounceRow, LoseRow
<1>3. ConnKeeps
  BY <1>2 DEF ConnKeeps, InRooms, IInv, ConnFits
<1>4. row' \in RowType /\ RowsKeep
  <2>1. CASE BeginRow
    <3>1. PICK r \in Rows, d \in RowData :
            /\ row[r] = None
            /\ row' = [row EXCEPT ![r] = [step |-> "writing", data |-> d]]
      BY <2>1 DEF BeginRow
    <3>2. QED
      BY <1>1, <3>1 DEF RowType, RowsKeep
  <2>2. CASE AnnounceRow \/ LoseRow
    <3>1. PICK r \in Rows, t \in {"told", "lost"} :
            row[r] # None /\ row' = [row EXCEPT ![r].step = t]
      BY <2>2 DEF AnnounceRow, LoseRow
    <3>2. row[r] \in [step: {"writing", "told", "lost"}, data: RowData]
      BY <1>1, <3>1 DEF RowType
    <3>3. /\ [row[r] EXCEPT !.step = t]
               \in [step: {"writing", "told", "lost"}, data: RowData]
          /\ [row[r] EXCEPT !.step = t].data = row[r].data
      BY <3>2
    <3>4. [row[r] EXCEPT !.step = t] # None
      BY <3>3, GatewayConstants
    <3>5. row' = [row EXCEPT ![r] = [row[r] EXCEPT !.step = t]]
      BY <1>1, <3>1 DEF RowType
    <3>6. QED
      BY <1>1, <3>3, <3>4, <3>5 DEF RowType, RowsKeep
  <2>3. QED
    BY <2>1, <2>2
<1>5. CASE AnnounceRow
  <2>1. PICK r \in Rows :
          /\ row[r] # None
          /\ wire' = IF Hears(r) THEN wire \o Messages(r) ELSE wire
    BY <1>5 DEF AnnounceRow
  <2>2. CASE ~Hears(r)
    BY <1>1, <1>3, <1>4, <2>1, <2>2, GatewayKeeps, <1>2
  <2>3. CASE Hears(r)
    <3>1. row[r].data \in AnyRowData
      BY <1>1, <2>1, GatewayConstants DEF RowType
    <3>2. /\ wire' \in Seq(Message)
          /\ \A m \in Message :
               Contains(wire', m) => Contains(wire, m) \/ (m # Status /\ m.row = r)
      BY <1>1, <2>1, <2>3, <3>1, ContainsLaws, MessagesOfRow
    <3>3. shown # None /\ (~moved => row[r].data.user = shown)
      BY <2>3 DEF Hears, InRooms, IInv, ConnFits, NoConn
    <3>4. row'[r] # None /\ row'[r].data = row[r].data
      BY <1>4, <2>1 DEF RowsKeep
    <3>5. Status' = Status
      BY DEF Status
    <3>6. ASSUME NEW m \in Message, m # Status, m.row = r PROVE MessageFits(m)'
      BY <1>1, <3>3, <3>4, <3>5, <3>6 DEF MessageFits
    <3>7. QED
      BY <1>1, <1>2, <1>3, <1>4, <3>2, <3>6, GatewayKeeps
  <2>4. QED
    BY <2>2, <2>3
<1>6. CASE UNCHANGED wire
  BY <1>1, <1>2, <1>3, <1>4, <1>6, GatewayKeeps
<1>7. QED
  BY <1>5, <1>6 DEF BeginRow, LoseRow

\* Sending a status, at most once.
LEMMA SendStatus ==
  ASSUME wire \in Seq(Message), Send(Status) \/ UNCHANGED wire
  PROVE  /\ wire' \in Seq(Message)
         /\ \A m \in Message : Contains(wire', m) =>
              Contains(wire, m) \/ (m = Status /\ Send(Status))
<1>1. CASE Send(Status)
  BY <1>1, ContainsLaws, StatusIsNoRow DEF Send
<1>2. CASE UNCHANGED wire
  BY <1>2
<1>3. QED
  BY <1>1, <1>2

\* The handshake, broadcasts and probes: a status is sent in the rooms only.
LEMMA StatusSteps ==
  ASSUME IInv, StatusTypeOK', UNCHANGED feedVars,
         \/ Handshake \/ Broadcast \/ BeginBroadcast \/ EndBroadcast \/ Tick
  PROVE  IInv'
<1>1. /\ row \in RowType /\ conn \in ConnType /\ wire \in Seq(Message)
      /\ UNCHANGED <<shown, moved>>
  BY DEF IInv, TypeOK, GatewayTypeOK, RowType, ConnType, feedVars
<1>2. UNCHANGED row
  BY DEF Handshake, CheckSocket, Admit, Welcome, Broadcast, BeginBroadcast,
         EndBroadcast, Tick
<1>3. row' \in RowType /\ RowsKeep
  BY <1>1, <1>2 DEF RowsKeep
<1>4. ConnFits
  BY DEF IInv
<1>5. ASSUME ConnKeeps, conn' \in ConnType,
             Send(Status) \/ UNCHANGED wire, Send(Status) => InRooms'
      PROVE  IInv'
  <2>1. ASSUME Send(Status) PROVE MessageFits(Status)'
    <3>1. InRooms'
      BY <1>5, <2>1
    <3>2. conn.step # "none"
      BY <1>5, <3>1 DEF ConnKeeps, InRooms
    <3>3. shown # None
      BY <1>4, <3>2 DEF ConnFits, NoConn
    <3>4. QED
      BY <1>1, <3>1, <3>3 DEF MessageFits, Status
  <2>2. \A m \in Message : Contains(wire', m) =>
          Contains(wire, m) \/ (m = Status /\ Send(Status))
    BY <1>1, <1>5, SendStatus
  <2>3. \A m \in Message : Contains(wire', m) => Contains(wire, m) \/ MessageFits(m)'
    <3> SUFFICES ASSUME NEW m \in Message, m = Status, Send(Status)
                 PROVE  MessageFits(m)'
      BY <2>2
    <3>1. m' = Status'
      BY DEF Status
    <3>2. QED
      BY <2>1, <3>1 DEF MessageFits, Status
  <2>4. wire' \in Seq(Message)
    BY <1>1, <1>5, SendStatus
  <2>5. QED
    BY <1>3, <1>5, <2>3, <2>4, GatewayKeeps
<1>6. CASE CheckSocket
  <2>1. conn' = [conn EXCEPT !.step = "user"] /\ UNCHANGED wire /\ conn.step = "token"
    BY <1>6 DEF CheckSocket
  <2>2. conn' \in ConnType /\ ConnKeeps
    BY <1>1, <1>4, <2>1 DEF ConnType, Steps, ConnKeeps, InRooms, ConnFits
  <2>3. \A m \in Message : Contains(wire', m) => Contains(wire, m)
    BY <2>1
  <2>4. QED
    BY <1>1, <1>3, <2>1, <2>2, <2>3, GatewayKeeps
<1>7. CASE Admit
  <2>1. CASE conn' = [conn EXCEPT !.step = "open"] /\ Send(Status)
    <3>1. conn' \in ConnType /\ ConnKeeps /\ InRooms'
      BY <1>1, <1>4, <1>7, <2>1 DEF Admit, ConnType, Steps, ConnKeeps, InRooms, ConnFits
    <3>2. QED
      BY <1>5, <2>1, <3>1
  <2>2. CASE \E h \in Handlers :
               conn' = [conn EXCEPT !.step = "joined", !.handler = h] /\ UNCHANGED wire
    <3>1. conn' \in ConnType /\ ConnKeeps /\ InRooms'
      BY <1>1, <1>7, <2>2 DEF Admit, ConnType, Steps, ConnKeeps, InRooms
    <3>2. QED
      BY <1>5, <2>2, <3>1
  <2>3. QED
    BY <1>7, <2>1, <2>2 DEF Admit
<1>8. ASSUME UNCHANGED conn PROVE ConnKeeps /\ conn' \in ConnType
  BY <1>1, <1>4, <1>8 DEF ConnKeeps, InRooms, ConnFits
<1>9. CASE Welcome
  <2>1. PICK h \in Handlers :
          \/ conn.handler = h /\ Send(Status)
             /\ conn' = [conn EXCEPT !.step = "open", !.handler = None]
          \/ UNCHANGED <<conn, wire>>
    BY <1>9 DEF Welcome
  <2>2. CASE conn.handler = h /\ Send(Status)
             /\ conn' = [conn EXCEPT !.step = "open", !.handler = None]
    <3>1. conn.step = "joined"
      BY <1>4, <2>2, GatewayConstants DEF ConnFits
    <3>2. conn' \in ConnType /\ ConnKeeps /\ InRooms'
      BY <1>1, <2>2, <3>1 DEF ConnType, Steps, ConnKeeps, InRooms
    <3>3. QED
      BY <1>5, <2>2, <3>2
  <2>3. CASE UNCHANGED <<conn, wire>>
    BY <1>1, <1>3, <1>8, <2>3, GatewayKeeps
  <2>4. QED
    BY <2>1, <2>2, <2>3
<1>10. CASE UNCHANGED conn /\ (Tell \/ UNCHANGED wire)
  <2>1. CASE InRooms /\ Send(Status)
    <3>1. InRooms'
      BY <1>10, <2>1 DEF InRooms
    <3>2. QED
      BY <1>5, <1>8, <1>10, <2>1, <3>1
  <2>2. CASE UNCHANGED wire
    BY <1>1, <1>3, <1>8, <1>10, <2>2, GatewayKeeps
  <2>3. QED
    BY <1>10, <2>1, <2>2 DEF Tell
<1>11. QED
  BY <1>6, <1>7, <1>9, <1>10
     DEF Handshake, Broadcast, BeginBroadcast, EndBroadcast, Tick
-----------------------------------------------------------------------------
\* The steps of the dashboard.

\* A wire that is cut holds nothing.
LEMMA EmptyWire ==
  ASSUME wire' = <<>>
  PROVE  wire' \in Seq(Message) /\ WireFits'
<1>1. Message' = Message
  BY DEF Message, Stores, Rows
<1>2. \A m \in Message : ~Contains(<<>>, m)
  BY DEF Contains
<1>3. QED
  BY <1>1, <1>2 DEF WireFits

\* Nothing is the newest of nothing.
LEMMA NewestOfNone == \A l : Newest({}, l) = {}
BY DEF Newest

\* A new or a lost connection leaves rows and stores as they are.
LEMMA ConnectionSteps ==
  ASSUME IInv, StatusTypeOK',
         Start \/ LoseConnection \/ RefuseSocket \/ Reconnect
  PROVE  IInv'
<1>1. /\ UNCHANGED <<row, store, stable, got>> /\ wire' = <<>> /\ greeted' = FALSE
  BY DEF Start, LoseConnection, RefuseSocket, Reconnect, Connect, Cut
<1>2. /\ NoConn \in ConnType /\ NoConn.step = "none" /\ NoConn.handler = None
      /\ \A u \in Users \cup {None} :
           LET c == [NoConn EXCEPT !.step = "token", !.user = u] IN
           /\ c \in ConnType /\ c.user = u /\ c.step = "token" /\ c.handler = None
  BY DEF NoConn, ConnType, Steps
<1>3. /\ shown' \in Users \cup {None} /\ moved' \in BOOLEAN
      /\ conn' \in ConnType /\ conn'.handler = None
      /\ socket' \in {"none", "up", "dropped", "refused"}
      /\ shown' # None
      /\ ~moved' /\ conn'.step # "none" => conn'.user = shown'
      /\ ~moved' => shown = None \/ (shown' = shown /\ ~moved)
  <2>1. CASE Start
    <3>1. PICK u \in Users : shown' = u /\ Connect(u)
      BY <2>1 DEF Start
    <3>2. u # None
      BY GatewayConstants
    <3>3. /\ conn'.user = u /\ conn' \in ConnType /\ conn'.handler = None
          /\ socket' = "up"
      BY <1>2, <3>1 DEF Connect
    <3>4. QED
      BY <2>1, <3>1, <3>2, <3>3 DEF Start
  <2>2. CASE LoseConnection \/ RefuseSocket
    <3>1. shown # None
      BY <2>2, <1>2 DEF LoseConnection, RefuseSocket, IInv, ConnFits
    <3>2. /\ conn' = NoConn /\ socket' \in {"dropped", "refused"}
          /\ UNCHANGED <<shown, moved>>
      BY <2>2 DEF LoseConnection, RefuseSocket, Cut
    <3>3. moved \in BOOLEAN /\ shown \in Users \cup {None}
      BY DEF IInv, TypeOK
    <3>4. QED
      BY <1>2, <3>1, <3>2, <3>3
  <2>3. CASE Reconnect
    <3>1. shown # None
      BY <2>3 DEF Reconnect, IInv, ConnFits
    <3>2. PICK u \in CookieUsers : Connect(u)
      BY <2>3 DEF Reconnect
    <3>3. u \in Users \cup {None} /\ (~moved => u = shown)
      BY DEF CookieUsers, IInv, TypeOK
    <3>4. /\ conn'.user = u /\ conn' \in ConnType /\ conn'.handler = None
          /\ socket' = "up"
      BY <1>2, <3>2, <3>3 DEF Connect
    <3>5. QED
      BY <2>3, <3>1, <3>3, <3>4 DEF Reconnect, IInv, TypeOK
  <2>4. QED
    BY <2>1, <2>2, <2>3
<1>4. TypeOK'
  <2>1. GatewayTypeOK'
    BY <1>1, <1>3, EmptyWire DEF IInv, TypeOK, GatewayTypeOK, ConnType
  <2>2. QED
    BY <1>1, <1>3, <2>1 DEF IInv, TypeOK
<1>5. ConnFits'
  BY <1>1, <1>3 DEF ConnFits
<1>6. WireFits'
  BY <1>1, EmptyWire
<1>7. StoresFit'
  BY <1>1, <1>3 DEF IInv, StoresFit, FeedIsOwn, FeedHoldsNewest, Empty
<1>8. QED
  BY <1>4, <1>5, <1>6, <1>7 DEF IInv

\* Signing out clears the feed.
LEMMA EndStep ==
  ASSUME IInv, StatusTypeOK', End
  PROVE  IInv'
<1>1. /\ shown' = None /\ conn' = NoConn /\ wire' = <<>> /\ socket' = "none"
      /\ greeted' = FALSE /\ store' = Empty /\ got' = Empty
      /\ UNCHANGED <<row, stable, moved>>
  BY DEF End
<1>2. NoConn \in ConnType /\ NoConn.step = "none" /\ NoConn.handler = None
  BY DEF NoConn, ConnType, Steps
<1>3. TypeOK'
  <2>1. GatewayTypeOK'
    BY <1>1, <1>2, EmptyWire DEF IInv, TypeOK, GatewayTypeOK, ConnType
  <2>2. QED
    BY <1>1, <2>1 DEF IInv, TypeOK, Empty
<1>4. ConnFits' /\ WireFits'
  BY <1>1, <1>2, EmptyWire DEF ConnFits, NoConn
<1>5. StoresFit'
  BY <1>1, NewestOfNone DEF StoresFit, FeedIsOwn, FeedHoldsNewest, Empty
<1>6. QED
  BY <1>3, <1>4, <1>5 DEF IInv

\* Another tab, and the network.
LEMMA OutsideSteps ==
  ASSUME IInv, StatusTypeOK', OtherTab \/ NetworkSettles
  PROVE  IInv'
<1>0. stable \in BOOLEAN /\ moved \in BOOLEAN
  BY DEF IInv, TypeOK
<1>1. /\ UNCHANGED <<row, conn, wire, shown, socket, store, got, greeted>>
      /\ stable' \in BOOLEAN /\ moved' \in BOOLEAN /\ (moved => moved')
  <2>1. CASE OtherTab
    BY <1>0, <2>1 DEF OtherTab
  <2>2. CASE NetworkSettles
    BY <1>0, <2>2 DEF NetworkSettles, gatewayVars
  <2>3. QED
    BY <2>1, <2>2
<1>2. TypeOK' /\ ConnFits' /\ StoresFit'
  BY <1>1 DEF IInv, TypeOK, GatewayTypeOK, ConnFits, InRooms, StoresFit, FeedIsOwn,
              FeedHoldsNewest
<1>3. WireFits'
  BY <1>1 DEF IInv, WireFits, MessageFits, InRooms, Status, Message
<1>4. QED
  BY <1>2, <1>3 DEF IInv

\* A message arrives: what it adds to a store is of the user shown.
LEMMA ReceiveStep ==
  ASSUME IInv, StatusTypeOK', Receive
  PROVE  IInv'
<1> DEFINE m == Head(wire)
<1>1. /\ wire \in Seq(Message) /\ wire # <<>> /\ wire' = Tail(wire)
      /\ UNCHANGED <<row, conn, shown, socket, stable, moved>>
  BY DEF Receive, IInv, TypeOK, GatewayTypeOK
<1>2. /\ wire' \in Seq(Message) /\ m \in Message /\ Contains(wire, m)
      /\ \A x \in Message : Contains(wire', x) => Contains(wire, x)
  BY <1>1, ContainsLaws
<1>3. MessageFits(m)
  BY <1>2 DEF IInv, WireFits
<1>4. \/ m = Status /\ greeted' = TRUE /\ UNCHANGED <<store, got>>
      \/ /\ m # Status /\ UNCHANGED greeted
         /\ store' = [store EXCEPT ![m.store] = Insert(m.store, m.row)]
         /\ got' = [got EXCEPT ![m.store] = got[m.store] \cup {m.row}]
  BY DEF Receive
<1> HIDE DEF m
<1>5. WireFits'
  BY <1>1, <1>2 DEF IInv, WireFits, MessageFits, InRooms, Status, Message
<1>6. ConnFits'
  BY <1>1, <1>3, <1>4 DEF IInv, ConnFits, InRooms, MessageFits
<1>7. CASE m = Status
  <2>1. greeted' = TRUE /\ UNCHANGED <<store, got>>
    BY <1>4, <1>7
  <2>2. TypeOK' /\ StoresFit'
    BY <1>1, <1>2, <2>1 DEF IInv, TypeOK, GatewayTypeOK, StoresFit, FeedIsOwn,
                            FeedHoldsNewest
  <2>3. QED
    BY <1>5, <1>6, <2>2 DEF IInv
<1>8. CASE m # Status
  <2>1. m.store \in Stores /\ m.row \in Rows
    BY <1>2, <1>8, StatusIsNoRow
  <2> DEFINE k == m.store  r == m.row
  <2>2. /\ store \in [Stores -> SUBSET Rows] /\ got \in [Stores -> SUBSET Rows]
        /\ store' = [store EXCEPT ![k] = Newest(store[k] \cup {r}, Limit[k])]
        /\ got' = [got EXCEPT ![k] = got[k] \cup {r}]
        /\ UNCHANGED greeted
    BY <1>4, <1>8 DEF Insert, IInv, TypeOK
  <2>3. /\ shown # None /\ row[r] # None /\ (~moved => row[r].data.user = shown)
    BY <1>3, <1>8 DEF MessageFits
  <2>4. Newest(store[k] \cup {r}, Limit[k]) \subseteq store[k] \cup {r}
    BY DEF Newest
  <2>5. Newest(store[k] \cup {r}, Limit[k]) = Newest(got[k] \cup {r}, Limit[k])
    <3>1. store[k] = Newest(got[k], Limit[k])
      BY <2>1 DEF IInv, StoresFit, FeedHoldsNewest
    <3>2. Limit[k] \in Nat /\ got[k] \in SUBSET (1 .. MaxRows) /\ r \in 1 .. MaxRows
      BY <2>1, <2>2, FeedConstants DEF Rows
    <3>3. MaxRows \in Nat
      BY GatewayConstants
    <3> HIDE DEF k, r
    <3>4. Newest(Newest(got[k], Limit[k]) \cup {r}, Limit[k])
            = Newest(got[k] \cup {r}, Limit[k])
      BY <3>2, <3>3, InsertKeepsNewest
    <3>5. QED
      BY <3>1, <3>4
  <2> HIDE DEF k, r
  <2>6. k \in Stores /\ r \in Rows
    BY <2>1 DEF k, r
  <2>7. /\ store' \in [Stores -> SUBSET Rows] /\ got' \in [Stores -> SUBSET Rows]
        /\ \A j \in Stores : \A q \in store'[j] : q \in store[j] \/ q = r
        /\ \A j \in Stores : store'[j] = Newest(got'[j], Limit[j])
    <3>1. \A j \in Stores : store[j] = Newest(got[j], Limit[j])
      BY DEF IInv, StoresFit, FeedHoldsNewest
    <3>2. QED
      BY <2>2, <2>4, <2>5, <2>6, <3>1
  <2>8. TypeOK'
    BY <1>1, <1>2, <2>2, <2>7 DEF IInv, TypeOK, GatewayTypeOK
  <2>9. StoresFit'
    BY <1>1, <2>3, <2>7 DEF IInv, StoresFit, FeedIsOwn, FeedHoldsNewest
  <2>10. QED
    BY <1>5, <1>6, <2>8, <2>9 DEF IInv
<1>9. QED
  BY <1>7, <1>8
-----------------------------------------------------------------------------
\* The theorems.

\* The invariant holds when the dashboard is opened.
LEMMA Initially == Init => IInv
<1> SUFFICES ASSUME Init PROVE IInv
  OBVIOUS
<1>1. /\ NoConn \in ConnType /\ NoConn.step = "none" /\ NoConn.handler = None
      /\ \A m \in Message : ~Contains(<<>>, m)
  BY DEF NoConn, ConnType, Steps, Contains
<1>2. GatewayTypeOK
  BY <1>1, SystemStatusConstants
     DEF Init, GatewayInit, GatewayTypeOK, ConnType, StatusInit, StatusTypeOK
<1>3. TypeOK
  BY <1>2 DEF Init, TypeOK, Empty
<1>4. ConnFits /\ WireFits
  BY <1>1 DEF Init, GatewayInit, ConnFits, WireFits
<1>5. StoresFit
  BY NewestOfNone DEF Init, StoresFit, FeedIsOwn, FeedHoldsNewest, Empty
<1>6. QED
  BY <1>3, <1>4, <1>5 DEF IInv

\* Every step preserves the invariant.
LEMMA Invariance == IInv /\ [Next]_vars => IInv'
<1> SUFFICES ASSUME IInv, [Next]_vars PROVE IInv'
  OBVIOUS
<1>1. StatusTypeOK'
  BY StatusStep, StatusTypeStep DEF IInv, TypeOK, GatewayTypeOK
<1>2. CASE GatewayStep /\ UNCHANGED feedVars
  BY <1>1, <1>2, RowSteps, StatusSteps DEF GatewayStep
<1>3. CASE UNCHANGED vars
  <2>1. UNCHANGED <<row, conn, wire, feedVars>>
    BY <1>3 DEF vars, gatewayVars
  <2>2. /\ row' \in RowType /\ conn' \in ConnType /\ wire' \in Seq(Message)
        /\ RowsKeep /\ ConnKeeps
    BY <2>1 DEF IInv, TypeOK, GatewayTypeOK, RowType, ConnType, RowsKeep, ConnKeeps,
                InRooms, ConnFits
  <2>3. QED
    BY <1>1, <2>1, <2>2, GatewayKeeps
<1>4. QED
  BY <1>1, <1>2, <1>3, ConnectionSteps, EndStep, OutsideSteps, ReceiveStep DEF Next

\* The invariant holds throughout.
LEMMA Inductive == Spec => []IInv
BY Initially, Invariance, PTL DEF Spec

\* Gateway, socket, wire and stores keep their types.
THEOREM TypeCorrect == Spec => []TypeOK
BY Inductive, PTL DEF IInv

\* No row of another user is ever in the feed, except after another tab changed
\* the cookie; signed out, the feed is empty.
THEOREM FeedIsUsersOwn == Spec => []FeedIsOwn
BY Inductive, PTL DEF IInv, StoresFit

\* In whatever order rows arrive, each store holds the newest of them.
THEOREM StoresHoldNewest == Spec => []FeedHoldsNewest
BY Inductive, PTL DEF IInv, StoresFit

\* After the first status no row of the socket's user is announced past it.
THEOREM NothingMissed == Spec => GreetedMissesNothing
<1> DEFINE Told(r) ==
      row'[r] # None /\ row'[r].step = "told" /\ row[r].step = "writing"
           Heard ==
      \A r \in Rows :
        Told(r) /\ greeted /\ row[r].data.user = conn.user =>
          ToSet(Messages(r)) \subseteq ToSet(wire')
<1>1. IInv /\ [Next]_vars => [Heard]_vars
  <2> SUFFICES ASSUME IInv, Next, NEW r \in Rows, Told(r), greeted,
                      row[r].data.user = conn.user
               PROVE  ToSet(Messages(r)) \subseteq ToSet(wire')
    OBVIOUS
  <2>1. row' # row
    OBVIOUS
  <2>2. GatewayStep
    BY <2>1 DEF Next, Start, End, OtherTab, LoseConnection, RefuseSocket, Reconnect,
                Cut, NetworkSettles, gatewayVars, Receive
  <2>3. BeginRow \/ AnnounceRow \/ LoseRow
    BY <2>1, <2>2 DEF GatewayStep, Handshake, CheckSocket, Admit, Welcome, Broadcast,
                      BeginBroadcast, EndBroadcast, Tick
  <2>4. row \in RowType /\ wire \in Seq(Message)
    BY DEF IInv, TypeOK, GatewayTypeOK, RowType
  <2>5. /\ AnnounceRow /\ row[r] # None
        /\ wire' = IF Hears(r) THEN wire \o Messages(r) ELSE wire
    <3>1. ASSUME BeginRow PROVE FALSE
      <4>1. PICK q \in Rows, d \in RowData :
              row' = [row EXCEPT ![q] = [step |-> "writing", data |-> d]]
        BY <3>1 DEF BeginRow
      <4>2. row'[r].step = "writing" \/ row'[r] = row[r]
        BY <2>4, <4>1 DEF RowType
      <4>3. QED
        BY <4>2
    <3>2. ASSUME NEW q \in Rows, NEW t \in {"told", "lost"}, row[q] # None,
                 row' = [row EXCEPT ![q].step = t]
          PROVE  q = r /\ t = "told"
      <4>1. row[q] \in [step: {"writing", "told", "lost"}, data: RowData]
        BY <2>4, <3>2 DEF RowType
      <4>2. row'[q].step = t /\ \A x \in Rows \ {q} : row'[x] = row[x]
        BY <2>4, <3>2, <4>1 DEF RowType
      <4>3. QED
        BY <4>2
    <3>3. ASSUME LoseRow PROVE FALSE
      BY <3>2, <3>3 DEF LoseRow
    <3>4. QED
      BY <2>3, <3>1, <3>2, <3>3 DEF AnnounceRow
  <2>6. Hears(r)
    BY DEF Hears, IInv, ConnFits
  <2>7. Messages(r) \in Seq(Message)
    <3>1. row[r].data \in AnyRowData
      BY <2>4, <2>5, GatewayConstants DEF RowType
    <3>2. QED
      BY <3>1, MessagesOfRow
  <2>8. wire' = wire \o Messages(r)
    BY <2>5, <2>6
  <2>9. QED
    <3> DEFINE t == Messages(r)
    <3>1. /\ Len(wire) \in Nat /\ Len(t) \in Nat
          /\ Len(wire') = Len(wire) + Len(t) /\ wire' \in Seq(Message)
          /\ \A i \in 1 .. Len(wire) + Len(t) :
               wire'[i] = IF i <= Len(wire) THEN wire[i] ELSE t[i - Len(wire)]
      BY <2>4, <2>7, <2>8, ConcatProperties
    <3> HIDE DEF t
    <3>2. ASSUME NEW i \in 1 .. Len(t)
          PROVE  /\ i + Len(wire) \in 1 .. Len(wire')
                 /\ wire'[i + Len(wire)] = t[i]
      BY <3>1
    <3>3. DOMAIN t = 1 .. Len(t) /\ DOMAIN wire' = 1 .. Len(wire')
      BY <2>7, <3>1 DEF t
    <3>4. QED
      BY <3>2, <3>3 DEF ToSet, t
<1>2. QED
  BY <1>1, Inductive, PTL DEF Spec, GreetedMissesNothing

\* The status service within the composed system is the one by itself: gateway,
\* broadcast and health checks are its callers.
THEOREM ImplementsStatus == Spec => StatusSpec
<1>1. Init => StatusInit
  BY DEF Init, GatewayInit
<1>2. QED
  BY <1>1, StatusStep, PTL DEF Spec, StatusSpec

\* So its probes are spaced, whoever connects and whoever broadcasts.
THEOREM FeedProbesAreSpaced == Spec => ProbesSpaced
BY ImplementsStatus, ProbesAreSpaced, PTL
=============================================================================

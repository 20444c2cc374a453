--------------------------- MODULE RelayApiProofs ---------------------------
(***************************************************************************)
(* Proofs about RoomStore and RelayApi.                                    *)
(*                                                                         *)
(* The rooms, for any ids, sockets, ages and bounds, when a generated id   *)
(* is never one in use (FRESH).  The inductive invariant is IInv.  What it *)
(* adds to the properties is where a room's identity is kept: whoever is   *)
(* in a room still carries its id and its serial (RoomOK), a row has the   *)
(* birth date of its room and the two agree on whose they are (RowsOK),    *)
(* and as long as a room is young it has a row (YoungKept).                *)
(*                                                                         *)
(* What holds of the rooms holds of them behind the limiters and the       *)
(* requests.  Every step of RelayApi is a step of RoomStore, or leaves the *)
(* rooms alone, with one exception: a socket the limiter of new sockets    *)
(* turns away is closed before it had a room.  So RoomsHold is by          *)
(* RoomStore's invariant, and not by refinement.                           *)
(*                                                                         *)
(* The known release never goes back, however requests, answers and        *)
(* failures overlap.  CheckerInv says why: at most one answer is under     *)
(* way, as long as the flag is set, and it is no older than what is known  *)
(* and no newer than what has been published.                              *)
(*                                                                         *)
(* The limiters need no more than types: what is left of a list after a    *)
(* call, a sweep or the passing of time is the same, whatever was shifted  *)
(* out of it before (SinceLater, SinceAppend).                             *)
(***************************************************************************)
EXTENDS RelayApi, FiniteSetTheorems, SequenceTheorems, WellFoundedInduction, TLAPS

-----------------------------------------------------------------------------
(* The room store. *)

\* What is true of a room r in memory under an id.
RoomOK(id, r) ==
    /\ r.serial \in DOMAIN created
    /\ r.createdAt = created[r.serial]
    /\ gcDue - r.createdAt <= maxAgeMs + GC_INTERVAL
    /\ r.recent \subseteq {r.serial}
    /\ \A s \in r.sockets : conn[s] \in {"open", "closing"} /\ at[s] = id /\ joined[s] = r.serial

RoomsOK == \A id \in RoomIds : rooms[id] # None => RoomOK(id, rooms[id])

RowOK(row) ==
    /\ row.serial \in DOMAIN created
    /\ row.createdAt = created[row.serial]
    /\ row.expiresAt = row.createdAt + maxAgeMs

RowsOK ==
    \A id \in RoomIds : db[id] # None =>
        RowOK(db[id]) /\ (rooms[id] # None => rooms[id].serial = db[id].serial)

HasRow(n) == \E id \in RoomIds : db[id] # None /\ db[id].serial = n

YoungKept == \A n \in DOMAIN created : now - created[n] < maxAgeMs => HasRow(n)

ClockOK == now <= gcDue /\ gcDue - now <= GC_INTERVAL

Placed == \A s \in Sockets : conn[s] \in {"open", "closing"} => at[s] \in RoomIds

Membership == Placed /\ MembersReachable /\ RoomsIsolated /\ CountsTold

IInv == TypeOK /\ ClockOK /\ RoomsOK /\ RowsOK /\ YoungKept /\ Membership

-----------------------------------------------------------------------------
(* The clock. *)

\* A room found by a row that has not expired is closed by the collector in time.
LEMMA RowInTime ==
    ASSUME NEW n \in Int, NEW due \in Int, NEW c \in Int, NEW e \in Int,
           NEW a \in Int, NEW g \in Int,
           due - n <= g, e = c + a, ~(e <= n)
    PROVE  due - c <= a + g
  OBVIOUS

\* A row that has expired belongs to no young room.
LEMMA ExpiredIsOld ==
    ASSUME NEW n \in Int, NEW c \in Int, NEW e \in Int, NEW a \in Int,
           e = c + a, e <= n
    PROVE  ~(n - c < a)
  OBVIOUS

\* A room that the collector leaves is left for one more round at most.
LEMMA LeftForARound ==
    ASSUME NEW n \in Int, NEW c \in Int, NEW a \in Int, NEW g \in Int,
           ~(n - c > a)
    PROVE  (n + g) - c <= a + g
  OBVIOUS

\* As long as the collector is not due, a room is within its ceiling.
LEMMA WithinCeiling ==
    ASSUME NEW n \in Int, NEW due \in Int, NEW c \in Int, NEW k \in Int,
           n <= due, due - c <= k
    PROVE  n - c <= k
  OBVIOUS

\* Whoever is young after a tick was young before it.
LEMMA TickAges ==
    ASSUME NEW n \in Int, NEW due \in Int, NEW c \in Int, NEW a \in Int, NEW g \in Int
    PROVE  /\ (n + 1) - c < a => n - c < a
           /\ n < due /\ due - n <= g => n + 1 <= due /\ due - (n + 1) <= g
  OBVIOUS

\* A young room has not aged.
LEMMA YoungNotAged ==
    ASSUME NEW n \in Int, NEW c \in Int, NEW a \in Int, n - c < a
    PROVE  ~(n - c > a)
  OBVIOUS

-----------------------------------------------------------------------------
(* get. *)

\* The room that get finds is of the right type and has the identity of its id.
LEMMA GetFinds ==
    ASSUME StoreAssumption, IInv, NEW id \in RoomIds, Found(id)
    PROVE  RoomAt(id) \in Room /\ RoomOK(id, RoomAt(id))
<1>1. CASE rooms[id] # None
  BY <1>1 DEF IInv, TypeOK, RoomsOK, RoomAt
<1>2. CASE rooms[id] = None
  <2>1. db[id] # None /\ ~Expired(db[id]) /\ RoomAt(id) = Rehydrated(db[id])
    BY <1>2 DEF Found, RoomAt
  <2>2. db[id] \in Row /\ RowOK(db[id])
    BY <2>1 DEF IInv, TypeOK, RowsOK
  <2>3. now \in Times /\ now \in Int /\ gcDue \in Int /\ maxAgeMs \in Int /\ GC_INTERVAL \in Int
    BY DEF IInv, TypeOK, StoreAssumption, Times
  <2>4. RoomAt(id) \in Room
    BY <2>1, <2>2, <2>3 DEF Rehydrated, Room, Row
  <2>5. gcDue - db[id].createdAt <= maxAgeMs + GC_INTERVAL
    <3>1. db[id].createdAt \in Int /\ db[id].expiresAt \in Int
      BY <2>2 DEF Row, Times
    <3>2. gcDue - now <= GC_INTERVAL /\ ~(db[id].expiresAt <= now)
          /\ db[id].expiresAt = db[id].createdAt + maxAgeMs
      BY <2>1, <2>2 DEF IInv, ClockOK, Expired, RowOK
    <3> QED BY <2>3, <3>1, <3>2, RowInTime
  <2>6. RoomOK(id, Rehydrated(db[id]))
    BY <2>2, <2>5 DEF RoomOK, RowOK, Rehydrated
  <2> QED BY <2>1, <2>4, <2>6
<1> QED BY <1>1, <1>2

\* The database after a get: a row goes only if it has expired, and only if its
\* room is not in memory.
LEMMA GetDrops ==
    ASSUME IInv, NEW id \in RoomIds
    PROVE  /\ DbAfterGet(id) \in [RoomIds -> Row \cup {None}]
           /\ \A k \in RoomIds : DbAfterGet(id)[k] # db[k] =>
                 /\ k = id /\ rooms[k] = None /\ DbAfterGet(id)[k] = None
                 /\ db[k] # None /\ Expired(db[k])
           /\ ~Found(id) => DbAfterGet(id)[id] = None
  BY DEF IInv, TypeOK, DbAfterGet, Found

\* A handler that finds its room, and leaves one with the same serial in its place,
\* or finds none and leaves the rooms alone, keeps rows and rooms in step.
LEMMA VisitKeepsRows ==
    ASSUME StoreAssumption, IInv, NEW id \in RoomIds, NEW r,
           db' = DbAfterGet(id), UNCHANGED <<now, gcDue, created>>,
           \/ Found(id) /\ r.serial = RoomAt(id).serial /\ rooms' = [rooms EXCEPT ![id] = r]
           \/ ~Found(id) /\ UNCHANGED rooms
    PROVE  RowsOK' /\ YoungKept' /\ ClockOK'
<1>t. /\ rooms \in [RoomIds -> Room \cup {None}]
      /\ db \in [RoomIds -> Row \cup {None}]
      /\ now \in Int /\ maxAgeMs \in Int
  BY DEF IInv, TypeOK, Times, StoreAssumption
<1>1. ClockOK'
  BY DEF IInv, ClockOK
<1>2. \A k \in RoomIds : db'[k] # None => db'[k] = db[k]
  BY GetDrops
<1>3. RowsOK'
  <2> SUFFICES ASSUME NEW k \in RoomIds, db'[k] # None
               PROVE  RowOK(db[k])' /\ (rooms'[k] # None => rooms'[k].serial = db[k].serial)
    BY <1>2 DEF RowsOK, RowOK
  <2>1. RowOK(db[k])'
    BY <1>2 DEF IInv, RowsOK, RowOK
  <2>2. CASE k = id /\ Found(id)
    <3>1. RoomAt(id).serial = db[id].serial
      BY <1>2, <2>2 DEF IInv, RowsOK, RoomAt, Rehydrated
    <3> QED BY <1>t, <2>1, <2>2, <3>1
  <2>3. CASE ~(k = id /\ Found(id))
    <3>1. rooms'[k] = rooms[k]
      BY <1>t, <2>3
    <3> QED BY <1>2, <2>1, <3>1 DEF IInv, RowsOK
  <2> QED BY <2>2, <2>3
<1>4. YoungKept'
  <2> SUFFICES ASSUME NEW n \in DOMAIN created, now - created[n] < maxAgeMs
               PROVE  HasRow(n)'
    BY DEF YoungKept
  <2>1. PICK k \in RoomIds : db[k] # None /\ db[k].serial = n
    BY DEF IInv, YoungKept, HasRow
  <2>2. RowOK(db[k]) /\ db[k] \in Row
    BY <1>t, <2>1 DEF IInv, RowsOK
  <2>3. ~Expired(db[k])
    <3>1. db[k].expiresAt = created[n] + maxAgeMs /\ db[k].expiresAt \in Int /\ created[n] \in Int
      BY <2>1, <2>2 DEF RowOK, Row, Times
    <3>2. ~(db[k].expiresAt <= now)
      BY <1>t, <3>1, ExpiredIsOld
    <3> QED BY <3>2 DEF Expired
  <2>4. db'[k] = db[k]
    BY <2>3, GetDrops
  <2> QED BY <2>1, <2>4 DEF HasRow
<1> QED BY <1>1, <1>3, <1>4

\* A count of sockets is one the counts range over.
LEMMA SetSize ==
    ASSUME StoreAssumption, NEW S \in SUBSET Sockets
    PROVE  Cardinality(S) \in 0 .. Cardinality(Sockets)
  BY FS_Subset, FS_CardinalityType DEF StoreAssumption

-----------------------------------------------------------------------------
(* The handlers of a socket. *)

LEMMA OpenStep ==
    ASSUME StoreAssumption, IInv, NEW s \in Sockets, NEW id \in RoomIds, OnOpen(s, id)
    PROVE  IInv'
<1>t. TypeOK
  BY DEF IInv
<1>d. db' = DbAfterGet(id) /\ db' \in [RoomIds -> Row \cup {None}]
  BY GetDrops DEF OnOpen
<1>1. CASE Found(id)
  <2> DEFINE r == RoomAt(id)
             members == r.sockets \cup {s}
             new == [r EXCEPT !.sockets = members, !.lastActivityAt = now]
  <2>r. r \in Room /\ RoomOK(id, r)
    BY <1>1, GetFinds
  <2>a. /\ rooms' = [rooms EXCEPT ![id] = new]
        /\ conn' = [conn EXCEPT ![s] = "open"]
        /\ at' = [at EXCEPT ![s] = id]
        /\ joined' = [joined EXCEPT ![s] = r.serial]
        /\ got' = [got EXCEPT ![s] = r.recent]
        /\ told' = [e \in Sockets |-> IF e \in members THEN Cardinality(members) ELSE told[e]]
        /\ conn[s] = "new" /\ UNCHANGED <<now, gcDue, restarts, created>>
    BY <1>1 DEF OnOpen, Tell
  <2>n. new \in Room /\ new.serial = r.serial /\ new.createdAt = r.createdAt
        /\ new.sockets = members /\ new.recent = r.recent
    BY <1>t, <2>r DEF Room, TypeOK
  <2> HIDE DEF new
  <2>m. members \in SUBSET Sockets /\ Cardinality(members) \in 0 .. Cardinality(Sockets)
    BY <2>r, SetSize DEF Room
  <2>1. RowsOK' /\ YoungKept' /\ ClockOK'
    BY <1>1, <1>d, <2>a, <2>n, VisitKeepsRows
  <2>2. TypeOK'
    <3>1. rooms' \in [RoomIds -> Room \cup {None}]
      BY <1>t, <2>a, <2>n DEF TypeOK
    <3>2. joined' \in [Sockets -> 0 .. MaxRooms] /\ got' \in [Sockets -> SUBSET Serials]
      BY <1>t, <2>a, <2>r DEF TypeOK, Room, Serials, StoreAssumption
    <3>3. told' \in [Sockets -> 0 .. Cardinality(Sockets)]
      BY <1>t, <2>a, <2>m DEF TypeOK
    <3>4. conn' \in [Sockets -> {"new", "open", "closing", "closed"}]
          /\ at' \in [Sockets -> RoomIds \cup {None}]
      BY <1>t, <2>a DEF TypeOK
    <3> QED BY <1>t, <1>d, <2>a, <3>1, <3>2, <3>3, <3>4 DEF TypeOK
  <2>3. RoomsOK'
    <3> SUFFICES ASSUME NEW k \in RoomIds, rooms'[k] # None
                 PROVE  RoomOK(k, rooms[k])'
      BY DEF RoomsOK
    <3>1. CASE k = id
      BY <1>t, <2>a, <2>n, <2>r, <3>1 DEF RoomOK, TypeOK, Room
    <3>2. CASE k # id
      <4>1. rooms'[k] = rooms[k] /\ RoomOK(k, rooms[k]) /\ rooms[k] \in Room
        BY <1>t, <2>a, <3>2 DEF IInv, RoomsOK, TypeOK
      <4>2. s \notin rooms[k].sockets
        BY <2>a, <4>1 DEF RoomOK
      <4> QED BY <1>t, <2>a, <4>1, <4>2 DEF RoomOK, TypeOK, Room
    <3> QED BY <3>1, <3>2
  <2>4. Membership'
    <3>1. Placed'
      BY <1>t, <2>a DEF IInv, Membership, Placed, TypeOK
    <3>2. ASSUME NEW e \in Sockets, conn'[e] = "open", e # s, at'[e] = id
          PROVE  conn[e] = "open" /\ at[e] = id /\ joined'[e] = joined[e]
                 /\ e \in r.sockets /\ r.serial = joined[e]
      <4>1. conn[e] = "open" /\ at[e] = id /\ joined'[e] = joined[e]
        BY <1>t, <2>a, <3>2 DEF TypeOK
      <4>2. rooms[id] # None /\ e \in rooms[id].sockets /\ rooms[id].serial = joined[e]
        BY <4>1 DEF IInv, Membership, MembersReachable
      <4> QED BY <4>1, <4>2 DEF RoomAt
    <3>3. ASSUME NEW e \in Sockets, conn'[e] = "open", at'[e] # id
          PROVE  /\ e # s /\ conn[e] = "open" /\ at'[e] = at[e] /\ joined'[e] = joined[e]
                 /\ at[e] \in RoomIds /\ rooms'[at[e]] = rooms[at[e]] /\ rooms[at[e]] # None
                 /\ e \in rooms[at[e]].sockets /\ rooms[at[e]].serial = joined[e]
      <4>1. e # s /\ conn[e] = "open" /\ at'[e] = at[e] /\ joined'[e] = joined[e]
        BY <1>t, <2>a, <3>3 DEF TypeOK
      <4>2. at[e] \in RoomIds
        BY <4>1 DEF IInv, Membership, Placed
      <4> QED BY <1>t, <2>a, <3>3, <4>1, <4>2 DEF IInv, Membership, MembersReachable, TypeOK
    <3>i. rooms'[id] = new /\ new # None
      BY <1>t, <2>a, <2>n DEF TypeOK, Room, StoreAssumption
    <3>4. MembersReachable'
      <4> SUFFICES ASSUME NEW e \in Sockets, conn'[e] = "open"
                   PROVE  /\ rooms'[at'[e]] # None /\ e \in rooms'[at'[e]].sockets
                          /\ rooms'[at'[e]].serial = joined'[e]
        BY DEF MembersReachable
      <4>1. CASE e = s
        BY <1>t, <2>a, <2>n, <3>i, <4>1 DEF TypeOK
      <4>2. CASE e # s /\ at'[e] = id
        BY <2>n, <3>i, <3>2, <4>2
      <4>3. CASE at'[e] # id
        BY <3>3, <4>3
      <4> QED BY <4>1, <4>2, <4>3
    <3>5. RoomsIsolated'
      BY <1>t, <2>a, <2>r DEF IInv, Membership, RoomsIsolated, TypeOK, RoomOK
    <3>6. CountsTold'
      <4> SUFFICES ASSUME NEW e \in Sockets, conn'[e] = "open"
                   PROVE  told'[e] = Cardinality(rooms'[at'[e]].sockets)
        BY DEF CountsTold
      <4>1. CASE at'[e] = id
        <5>1. e \in members
          BY <3>2, <4>1
        <5> QED BY <2>a, <2>n, <3>i, <4>1, <5>1
      <4>2. CASE at'[e] # id
        <5>1. e \notin members
          <6>1. e \in r.sockets => at[e] = id
            BY <2>r DEF RoomOK
          <6> QED BY <3>3, <4>2, <6>1
        <5> QED BY <2>a, <3>3, <4>2, <5>1 DEF IInv, Membership, CountsTold
      <4> QED BY <4>1, <4>2
    <3> QED BY <3>1, <3>4, <3>5, <3>6 DEF Membership
  <2> QED BY <2>1, <2>2, <2>3, <2>4 DEF IInv
<1>2. CASE ~Found(id)
  <2>a. /\ conn' = [conn EXCEPT ![s] = "closed"]
        /\ UNCHANGED <<rooms, at, joined, got, told, now, gcDue, restarts, created>>
        /\ conn[s] = "new"
    BY <1>2 DEF OnOpen
  <2>1. RowsOK' /\ YoungKept' /\ ClockOK'
    BY <1>2, <1>d, <2>a, VisitKeepsRows
  <2>2. TypeOK'
    BY <1>t, <1>d, <2>a DEF TypeOK
  <2>3. RoomsOK'
    <3> SUFFICES ASSUME NEW k \in RoomIds, rooms[k] # None
                 PROVE  RoomOK(k, rooms[k])'
      BY <2>a DEF RoomsOK
    <3>1. RoomOK(k, rooms[k]) /\ rooms[k] \in Room
      BY <1>t DEF IInv, RoomsOK, TypeOK
    <3>2. s \notin rooms[k].sockets
      BY <2>a, <3>1 DEF RoomOK
    <3> QED BY <1>t, <2>a, <3>1, <3>2 DEF RoomOK, TypeOK, Room
  <2>4. Membership'
    BY <1>t, <2>a DEF IInv, Membership, Placed, MembersReachable, RoomsIsolated, CountsTold, TypeOK
  <2> QED BY <2>1, <2>2, <2>3, <2>4 DEF IInv
<1> QED BY <1>1, <1>2

\* The room of an open socket is in memory, and it is the one that get finds.
LEMMA OpenFinds ==
    ASSUME IInv, NEW s \in Sockets, conn[s] = "open"
    PROVE  /\ at[s] \in RoomIds /\ Found(at[s]) /\ RoomAt(at[s]) = rooms[at[s]]
           /\ rooms[at[s]] # None /\ s \in rooms[at[s]].sockets
           /\ rooms[at[s]].serial = joined[s]
  BY DEF IInv, Membership, Placed, MembersReachable, Found, RoomAt

LEMMA MessageStep ==
    ASSUME StoreAssumption, IInv, NEW s \in Sockets, OnMessage(s)
    PROVE  IInv'
<1> DEFINE id == at[s]
           r == rooms[id]
           new == [r EXCEPT !.recent = @ \cup {joined[s]}, !.lastActivityAt = now]
<1>t. TypeOK
  BY DEF IInv
<1>f. id \in RoomIds /\ Found(id) /\ RoomAt(id) = r /\ r # None
      /\ s \in r.sockets /\ r.serial = joined[s]
  BY OpenFinds DEF OnMessage
<1>d. db' = DbAfterGet(id) /\ db' \in [RoomIds -> Row \cup {None}]
  BY <1>f, GetDrops DEF OnMessage
<1>a. /\ rooms' = [rooms EXCEPT ![id] = new]
      /\ got' = [e \in Sockets |-> IF e \in r.sockets \ {s}
                                   THEN got[e] \cup {joined[s]} ELSE got[e]]
      /\ UNCHANGED <<now, gcDue, conn, at, restarts, created, joined, told>>
  BY <1>f DEF OnMessage
<1>r. r \in Room /\ RoomOK(id, r)
  BY <1>f, GetFinds
<1>n. new \in Room /\ new.serial = r.serial /\ new.createdAt = r.createdAt
      /\ new.sockets = r.sockets /\ new.recent \subseteq {r.serial}
  <2>1. joined[s] = r.serial /\ r.serial \in Serials /\ now \in Times
    BY <1>t, <1>f, <1>r DEF Room, TypeOK
  <2>2. new \in Room /\ new.serial = r.serial /\ new.createdAt = r.createdAt
        /\ new.sockets = r.sockets /\ new.recent = r.recent \cup {r.serial}
    BY <1>r, <2>1 DEF Room
  <2> QED BY <1>r, <2>2 DEF RoomOK
<1> HIDE DEF new
<1>i. rooms'[id] = new /\ new # None /\ \A k \in RoomIds : k # id => rooms'[k] = rooms[k]
  BY <1>t, <1>a, <1>f, <1>n DEF TypeOK, StoreAssumption
<1>1. RowsOK' /\ YoungKept' /\ ClockOK'
  BY <1>a, <1>d, <1>f, <1>n, VisitKeepsRows
<1>2. TypeOK'
  <2>1. rooms' \in [RoomIds -> Room \cup {None}]
    BY <1>t, <1>a, <1>n DEF TypeOK
  <2>2. got' \in [Sockets -> SUBSET Serials]
    BY <1>t, <1>a, <1>f, <1>r DEF TypeOK, Room
  <2> QED BY <1>t, <1>a, <1>d, <2>1, <2>2 DEF TypeOK
<1>3. RoomsOK'
  <2> SUFFICES ASSUME NEW k \in RoomIds, rooms'[k] # None
               PROVE  RoomOK(k, rooms[k])'
    BY DEF RoomsOK
  <2>1. CASE k = id
    BY <1>a, <1>i, <1>n, <1>r, <2>1 DEF RoomOK
  <2>2. CASE k # id
    BY <1>a, <1>i, <2>2 DEF IInv, RoomsOK, RoomOK
  <2> QED BY <2>1, <2>2
<1>4. Membership'
  <2>1. \A k \in RoomIds : rooms[k] # None =>
           rooms'[k] # None /\ rooms'[k].sockets = rooms[k].sockets
           /\ rooms'[k].serial = rooms[k].serial
    BY <1>i, <1>n
  <2>2. Placed' /\ MembersReachable' /\ CountsTold'
    <3>1. Placed'
      BY <1>a DEF IInv, Membership, Placed
    <3>2. MembersReachable'
      BY <1>a, <2>1 DEF IInv, Membership, Placed, MembersReachable
    <3>3. CountsTold'
      <4> SUFFICES ASSUME NEW e \in Sockets, conn[e] = "open"
                   PROVE  told[e] = Cardinality(rooms'[at[e]].sockets)
        BY <1>a DEF CountsTold
      <4> QED BY <2>1, OpenFinds DEF IInv, Membership, CountsTold
    <3> QED BY <3>1, <3>2, <3>3
  <2>3. RoomsIsolated'
    BY <1>a, <1>f, <1>r DEF IInv, Membership, RoomsIsolated, RoomOK
  <2> QED BY <2>2, <2>3 DEF Membership
<1> QED BY <1>1, <1>2, <1>3, <1>4 DEF IInv

LEMMA RejectStep ==
    ASSUME StoreAssumption, IInv, NEW s \in Sockets, Reject(s)
    PROVE  IInv'
<1>t. TypeOK
  BY DEF IInv
<1>f. at[s] \in RoomIds /\ Found(at[s]) /\ RoomAt(at[s]) = rooms[at[s]]
  BY OpenFinds DEF Reject
<1>d. db' = DbAfterGet(at[s]) /\ db' \in [RoomIds -> Row \cup {None}]
  BY <1>f, GetDrops DEF Reject
<1>a. /\ rooms' = rooms /\ rooms' = [rooms EXCEPT ![at[s]] = RoomAt(at[s])]
      /\ conn' = [conn EXCEPT ![s] = "closing"] /\ conn[s] = "open"
      /\ UNCHANGED <<now, gcDue, at, restarts, created, joined, got, told>>
  BY <1>t, <1>f DEF Reject, TypeOK
<1>1. RowsOK' /\ YoungKept' /\ ClockOK'
  BY <1>a, <1>d, <1>f, VisitKeepsRows
<1>2. TypeOK'
  BY <1>t, <1>a, <1>d DEF TypeOK
<1>3. RoomsOK'
  <2> SUFFICES ASSUME NEW k \in RoomIds, rooms[k] # None
               PROVE  RoomOK(k, rooms[k])'
    BY <1>a DEF RoomsOK
  <2>1. RoomOK(k, rooms[k]) /\ rooms[k] \in Room
    BY <1>t DEF IInv, RoomsOK, TypeOK
  <2> QED BY <1>t, <1>a, <2>1 DEF RoomOK, TypeOK, Room
<1>4. Membership'
  BY <1>t, <1>a DEF IInv, Membership, Placed, MembersReachable, RoomsIsolated, CountsTold, TypeOK
<1> QED BY <1>1, <1>2, <1>3, <1>4 DEF IInv

LEMMA CloseStep ==
    ASSUME StoreAssumption, IInv, NEW s \in Sockets, OnClose(s)
    PROVE  IInv'
<1> DEFINE id == at[s]
<1>t. TypeOK
  BY DEF IInv
<1>f. id \in RoomIds
  BY DEF IInv, Membership, Placed, OnClose
<1>d. db' = DbAfterGet(id) /\ db' \in [RoomIds -> Row \cup {None}]
  BY <1>f, GetDrops DEF OnClose
<1>a. /\ conn' = [conn EXCEPT ![s] = "closed"]
      /\ UNCHANGED <<now, gcDue, at, restarts, created, joined, got>>
  BY DEF OnClose
<1>1. CASE Found(id)
  <2> DEFINE r == RoomAt(id)
             rest == r.sockets \ {s}
             new == [r EXCEPT !.sockets = @ \ {s}, !.lastActivityAt = now,
                              !.recent = IF rest = {} THEN {} ELSE @]
  <2>r. r \in Room /\ RoomOK(id, r)
    BY <1>1, <1>f, GetFinds
  <2>a. /\ rooms' = [rooms EXCEPT ![id] = new]
        /\ told' = [e \in Sockets |-> IF e \in rest THEN Cardinality(rest) ELSE told[e]]
    BY <1>1 DEF OnClose, Left, Tell
  <2>n. new \in Room /\ new.serial = r.serial /\ new.createdAt = r.createdAt
        /\ new.sockets = rest /\ new.recent \subseteq r.recent
    BY <1>t, <2>r DEF Room, TypeOK
  <2> HIDE DEF new
  <2>m. rest \in SUBSET Sockets /\ Cardinality(rest) \in 0 .. Cardinality(Sockets)
    BY <2>r, SetSize DEF Room
  <2>i. rooms'[id] = new /\ new # None /\ \A k \in RoomIds : k # id => rooms'[k] = rooms[k]
    BY <1>t, <1>f, <2>a, <2>n DEF TypeOK, StoreAssumption
  <2>1. RowsOK' /\ YoungKept' /\ ClockOK'
    BY <1>1, <1>a, <1>d, <1>f, <2>a, <2>n, VisitKeepsRows
  <2>2. TypeOK'
    <3>1. rooms' \in [RoomIds -> Room \cup {None}]
      BY <1>t, <2>a, <2>n DEF TypeOK
    <3>2. told' \in [Sockets -> 0 .. Cardinality(Sockets)]
      BY <1>t, <2>a, <2>m DEF TypeOK
    <3> QED BY <1>t, <1>a, <1>d, <3>1, <3>2 DEF TypeOK
  <2>3. RoomsOK'
    <3> SUFFICES ASSUME NEW k \in RoomIds, rooms'[k] # None
                 PROVE  RoomOK(k, rooms[k])'
      BY DEF RoomsOK
    <3>1. CASE k = id
      BY <1>t, <1>a, <2>i, <2>n, <2>r, <3>1 DEF RoomOK, TypeOK, Room
    <3>2. CASE k # id
      <4>1. rooms'[k] = rooms[k] /\ RoomOK(k, rooms[k]) /\ rooms[k] \in Room
        BY <1>t, <2>i, <3>2 DEF IInv, RoomsOK, TypeOK
      <4>2. s \notin rooms[k].sockets
        BY <3>2, <4>1 DEF RoomOK
      <4> QED BY <1>t, <1>a, <4>1, <4>2 DEF RoomOK, TypeOK, Room
    <3> QED BY <3>1, <3>2
  <2>4. Membership'
    <3>1. Placed' /\ RoomsIsolated'
      BY <1>t, <1>a DEF IInv, Membership, Placed, RoomsIsolated, TypeOK
    <3>2. ASSUME NEW e \in Sockets, conn'[e] = "open"
          PROVE  /\ e # s /\ conn[e] = "open" /\ at[e] \in RoomIds /\ rooms[at[e]] # None
                 /\ e \in rooms[at[e]].sockets /\ rooms[at[e]].serial = joined[e]
      BY <1>t, <1>a, <3>2, OpenFinds DEF TypeOK
    <3>3. ASSUME NEW e \in Sockets, conn'[e] = "open", at[e] = id
          PROVE  rooms[id] = r /\ e \in rest /\ r.serial = joined[e]
      BY <3>2, <3>3 DEF RoomAt
    <3>4. MembersReachable'
      <4> SUFFICES ASSUME NEW e \in Sockets, conn'[e] = "open"
                   PROVE  /\ rooms'[at[e]] # None /\ e \in rooms'[at[e]].sockets
                          /\ rooms'[at[e]].serial = joined[e]
        BY <1>a DEF MembersReachable
      <4>1. CASE at[e] = id
        BY <2>i, <2>n, <3>3, <4>1
      <4>2. CASE at[e] # id
        BY <2>i, <3>2, <4>2
      <4> QED BY <4>1, <4>2
    <3>5. CountsTold'
      <4> SUFFICES ASSUME NEW e \in Sockets, conn'[e] = "open"
                   PROVE  told'[e] = Cardinality(rooms'[at[e]].sockets)
        BY <1>a DEF CountsTold
      <4>1. CASE at[e] = id
        BY <2>a, <2>i, <2>n, <3>3, <4>1
      <4>2. CASE at[e] # id
        <5>1. e \notin rest
          BY <2>r, <4>2 DEF RoomOK
        <5> QED BY <2>a, <2>i, <3>2, <4>2, <5>1 DEF IInv, Membership, CountsTold
      <4> QED BY <4>1, <4>2
    <3> QED BY <3>1, <3>4, <3>5 DEF Membership
  <2> QED BY <2>1, <2>2, <2>3, <2>4 DEF IInv
<1>2. CASE ~Found(id)
  <2>a. UNCHANGED <<rooms, told>>
    BY <1>2 DEF OnClose
  <2>1. RowsOK' /\ YoungKept' /\ ClockOK'
    BY <1>2, <1>a, <1>d, <1>f, <2>a, VisitKeepsRows
  <2>2. TypeOK'
    BY <1>t, <1>a, <1>d, <2>a DEF TypeOK
  <2>3. RoomsOK'
    <3> SUFFICES ASSUME NEW k \in RoomIds, rooms[k] # None
                 PROVE  RoomOK(k, rooms[k])'
      BY <2>a DEF RoomsOK
    <3>1. RoomOK(k, rooms[k]) /\ rooms[k] \in Room /\ k # id
      BY <1>2, <1>t DEF IInv, RoomsOK, TypeOK, Found
    <3>2. s \notin rooms[k].sockets
      BY <3>1 DEF RoomOK
    <3> QED BY <1>t, <1>a, <2>a, <3>1, <3>2 DEF RoomOK, TypeOK, Room
  <2>4. Membership'
    BY <1>t, <1>a, <2>a DEF IInv, Membership, Placed, MembersReachable, RoomsIsolated, CountsTold, TypeOK
  <2> QED BY <2>1, <2>2, <2>3, <2>4 DEF IInv
<1> QED BY <1>1, <1>2

-----------------------------------------------------------------------------
(* Creation, the collector, the clock and restarts. *)

\* A creation adds the next serial and its birth date.
LEMMA CreatedGrows ==
    ASSUME StoreAssumption, TypeOK, NEW id \in RoomIds, NEW custom \in BOOLEAN,
           Create(id, custom)
    PROVE  LET n == Cardinality(DOMAIN created) + 1 IN
           /\ n \in Serials /\ n \notin DOMAIN created
           /\ DOMAIN created' = DOMAIN created \cup {n}
           /\ created'[n] = now
           /\ \A k \in DOMAIN created : created'[k] = created[k]
           /\ \E m \in 0 .. MaxRooms : created' \in [1 .. m -> Times]
<1>1. PICK m \in 0 .. MaxRooms : created \in [1 .. m -> Times]
  BY DEF TypeOK
<1>2. m \in Nat /\ DOMAIN created = 1 .. m /\ Cardinality(DOMAIN created) = m
  BY <1>1, FS_Interval DEF StoreAssumption
<1> DEFINE n == Cardinality(DOMAIN created) + 1
<1>3. n = m + 1 /\ n \in Serials /\ n \in 0 .. MaxRooms
  BY <1>2 DEF Create, Serials, StoreAssumption
<1>4. 1 .. n = (1 .. m) \cup {n} /\ n \notin 1 .. m
  BY <1>2, <1>3
<1>5. created' = [k \in 1 .. n |-> IF k = n THEN now ELSE created[k]]
  BY DEF Create
<1>6. now \in Times
  BY DEF TypeOK
<1>7. created' \in [1 .. n -> Times]
  BY <1>1, <1>4, <1>5, <1>6
<1> QED BY <1>2, <1>3, <1>4, <1>5, <1>7

LEMMA CreateStep ==
    ASSUME StoreAssumption, FRESH = TRUE, IInv,
           NEW id \in RoomIds, NEW custom \in BOOLEAN, Create(id, custom)
    PROVE  IInv'
<1> DEFINE n == Cardinality(DOMAIN created) + 1
           room == [serial |-> n, createdAt |-> now, lastActivityAt |-> now,
                    sockets |-> {}, recent |-> {}]
           row == [serial |-> n, createdAt |-> now, expiresAt |-> now + maxAgeMs]
<1>t. TypeOK
  BY DEF IInv
<1>g. /\ n \in Serials /\ n \notin DOMAIN created
      /\ DOMAIN created' = DOMAIN created \cup {n}
      /\ created'[n] = now
      /\ \A k \in DOMAIN created : created'[k] = created[k]
      /\ \E m \in 0 .. MaxRooms : created' \in [1 .. m -> Times]
  BY <1>t, CreatedGrows
<1>a. /\ rooms[id] = None /\ db[id] = None
      /\ rooms' = [rooms EXCEPT ![id] = room] /\ db' = [db EXCEPT ![id] = row]
      /\ UNCHANGED <<now, gcDue, conn, at, restarts, joined, got, told>>
  BY DEF Create, Taken
<1>n. room \in Room /\ row \in Row
  BY <1>t, <1>g DEF Room, Row, TypeOK, Times, StoreAssumption
<1>s. /\ room.serial = n /\ room.createdAt = now /\ room.sockets = {} /\ room.recent = {}
      /\ row.serial = n /\ row.createdAt = now /\ row.expiresAt = now + maxAgeMs
  OBVIOUS
<1> HIDE DEF n, room, row
<1>i. /\ rooms'[id] = room /\ db'[id] = row
      /\ \A k \in RoomIds : k # id => rooms'[k] = rooms[k] /\ db'[k] = db[k]
  BY <1>t, <1>a DEF TypeOK
<1>1. TypeOK'
  BY <1>t, <1>a, <1>g, <1>n DEF TypeOK
<1>2. ClockOK'
  BY <1>a DEF IInv, ClockOK
<1>3. RoomsOK'
  <2> SUFFICES ASSUME NEW k \in RoomIds, rooms'[k] # None
               PROVE  RoomOK(k, rooms[k])'
    BY DEF RoomsOK
  <2>1. CASE k = id
    <3>1. gcDue - now <= maxAgeMs + GC_INTERVAL
      <4>1. now \in Int /\ gcDue \in Int /\ maxAgeMs \in Nat /\ GC_INTERVAL \in Int
            /\ gcDue - now <= GC_INTERVAL
        BY <1>t DEF IInv, ClockOK, TypeOK, Times, StoreAssumption
      <4> QED BY <4>1
    <3> QED BY <1>a, <1>g, <1>i, <1>s, <2>1, <3>1 DEF RoomOK
  <2>2. CASE k # id
    <3>1. rooms'[k] = rooms[k] /\ RoomOK(k, rooms[k])
      BY <1>i, <2>2 DEF IInv, RoomsOK
    <3> QED BY <1>a, <1>g, <3>1 DEF RoomOK
  <2> QED BY <2>1, <2>2
<1>4. RowsOK'
  <2> SUFFICES ASSUME NEW k \in RoomIds, db'[k] # None
               PROVE  RowOK(db[k])' /\ (rooms'[k] # None => rooms'[k].serial = db'[k].serial)
    BY DEF RowsOK
  <2>1. CASE k = id
    BY <1>g, <1>i, <1>s, <2>1 DEF RowOK
  <2>2. CASE k # id
    BY <1>g, <1>i, <2>2 DEF IInv, RowsOK, RowOK
  <2> QED BY <2>1, <2>2
<1>5. YoungKept'
  <2> SUFFICES ASSUME NEW j \in DOMAIN created', now' - created'[j] < maxAgeMs
               PROVE  HasRow(j)'
    BY DEF YoungKept
  <2>1. CASE j = n
    <3>1. db'[id] # None /\ db'[id].serial = j
      BY <1>i, <1>n, <1>s, <2>1 DEF StoreAssumption
    <3> QED BY <3>1 DEF HasRow
  <2>2. CASE j # n
    <3>1. j \in DOMAIN created /\ now - created[j] < maxAgeMs
      BY <1>a, <1>g, <2>2
    <3>2. PICK k \in RoomIds : db[k] # None /\ db[k].serial = j
      BY <3>1 DEF IInv, YoungKept, HasRow
    <3>3. db'[k] = db[k]
      BY <1>a, <1>i, <3>2
    <3> QED BY <3>2, <3>3 DEF HasRow
  <2> QED BY <2>1, <2>2
<1>6. Membership'
  <2>1. ASSUME NEW s \in Sockets, conn[s] = "open"
        PROVE  /\ at[s] \in RoomIds /\ rooms'[at[s]] = rooms[at[s]] /\ rooms[at[s]] # None
               /\ s \in rooms[at[s]].sockets /\ rooms[at[s]].serial = joined[s]
               /\ told[s] = Cardinality(rooms[at[s]].sockets)
    BY <1>a, <1>i, <2>1, OpenFinds DEF IInv, Membership, CountsTold
  <2>2. Placed' /\ RoomsIsolated'
    BY <1>a DEF IInv, Membership, Placed, RoomsIsolated
  <2>3. MembersReachable' /\ CountsTold'
    BY <1>a, <2>1 DEF MembersReachable, CountsTold
  <2> QED BY <2>2, <2>3 DEF Membership
<1> QED BY <1>1, <1>2, <1>3, <1>4, <1>5, <1>6 DEF IInv

LEMMA GcStep ==
    ASSUME StoreAssumption, IInv, Gc
    PROVE  IInv'
<1> DEFINE live == {id \in RoomIds : rooms[id] # None}
           aged == {id \in live : Aged(rooms[id])}
           idle == {id \in live : Idle(rooms[id])}
           gone == Closed(aged)
<1>t. TypeOK
  BY DEF IInv
<1>a. /\ now = gcDue /\ gcDue' = now + GC_INTERVAL
      /\ conn' = [s \in Sockets |-> IF s \in gone THEN "closing" ELSE conn[s]]
      /\ rooms' = [id \in RoomIds |-> IF id \in aged \cup idle THEN None ELSE rooms[id]]
      /\ db' = [id \in RoomIds |-> IF id \in aged \/ (db[id] # None /\ Expired(db[id]))
                                   THEN None ELSE db[id]]
      /\ UNCHANGED <<now, at, restarts, created, joined, got, told>>
  BY DEF Gc
<1>m. now \in Int /\ maxAgeMs \in Int /\ GC_INTERVAL \in Nat
  BY <1>t DEF TypeOK, Times, StoreAssumption
<1>c. \A s \in Sockets : s \in gone => conn[s] = "open"
  BY DEF Closed
<1> HIDE DEF gone
<1>1. TypeOK'
  <2>1. conn' \in [Sockets -> {"new", "open", "closing", "closed"}]
    BY <1>t, <1>a DEF TypeOK
  <2>2. rooms' \in [RoomIds -> Room \cup {None}] /\ db' \in [RoomIds -> Row \cup {None}]
    BY <1>t, <1>a DEF TypeOK
  <2>3. gcDue' \in Nat
    <3>1. now \in Nat
      BY <1>t DEF TypeOK, Times
    <3> QED BY <1>a, <1>m, <3>1
  <2> QED BY <1>t, <1>a, <2>1, <2>2, <2>3 DEF TypeOK
<1>2. ClockOK'
  BY <1>a, <1>m DEF ClockOK
<1>3. RoomsOK'
  <2> SUFFICES ASSUME NEW k \in RoomIds, rooms'[k] # None
               PROVE  RoomOK(k, rooms[k])'
    BY DEF RoomsOK
  <2>1. rooms'[k] = rooms[k] /\ RoomOK(k, rooms[k]) /\ rooms[k] \in Room /\ ~Aged(rooms[k])
    BY <1>t, <1>a DEF IInv, RoomsOK, TypeOK
  <2>2. gcDue' - rooms[k].createdAt <= maxAgeMs + GC_INTERVAL
    <3>1. rooms[k].createdAt \in Int /\ ~(now - rooms[k].createdAt > maxAgeMs)
      BY <2>1 DEF Room, Times, Aged
    <3> QED BY <1>a, <1>m, <3>1, LeftForARound
  <2>3. \A s \in rooms[k].sockets : conn'[s] \in {"open", "closing"}
    BY <1>a, <2>1 DEF RoomOK, Room
  <2> QED BY <1>a, <2>1, <2>2, <2>3 DEF RoomOK
<1>4. RowsOK'
  <2> SUFFICES ASSUME NEW k \in RoomIds, db'[k] # None
               PROVE  RowOK(db[k])' /\ (rooms'[k] # None => rooms'[k].serial = db'[k].serial)
    BY DEF RowsOK
  <2>1. db'[k] = db[k] /\ (rooms'[k] # None => rooms'[k] = rooms[k])
    BY <1>a
  <2> QED BY <1>a, <2>1 DEF IInv, RowsOK, RowOK
<1>5. YoungKept'
  <2> SUFFICES ASSUME NEW n \in DOMAIN created, now - created[n] < maxAgeMs
               PROVE  HasRow(n)'
    BY <1>a DEF YoungKept
  <2>1. PICK k \in RoomIds : db[k] # None /\ db[k].serial = n
    BY DEF IInv, YoungKept, HasRow
  <2>2. RowOK(db[k]) /\ db[k] \in Row /\ (rooms[k] # None => rooms[k].serial = n)
    BY <1>t, <2>1 DEF IInv, RowsOK, TypeOK
  <2>3. db[k].expiresAt = created[n] + maxAgeMs /\ db[k].expiresAt \in Int /\ created[n] \in Int
    BY <2>1, <2>2 DEF RowOK, Row, Times
  <2>4. ~Expired(db[k])
    <3>1. ~(db[k].expiresAt <= now)
      BY <1>m, <2>3, ExpiredIsOld
    <3> QED BY <3>1 DEF Expired
  <2>5. k \notin aged
    <3>1. rooms[k] # None => rooms[k].createdAt = created[n]
      BY <2>2 DEF IInv, RoomsOK, RoomOK
    <3>2. ~(now - created[n] > maxAgeMs)
      BY <1>m, <2>3, YoungNotAged
    <3> QED BY <3>1, <3>2 DEF Aged
  <2>6. db'[k] = db[k]
    BY <1>a, <2>4, <2>5
  <2> QED BY <2>1, <2>6 DEF HasRow
<1>6. Membership'
  <2>1. ASSUME NEW s \in Sockets, conn'[s] = "open"
        PROVE  /\ conn[s] = "open" /\ at[s] \in RoomIds /\ rooms'[at[s]] = rooms[at[s]]
               /\ rooms[at[s]] # None /\ s \in rooms[at[s]].sockets
               /\ rooms[at[s]].serial = joined[s]
               /\ told[s] = Cardinality(rooms[at[s]].sockets)
    <3>1. conn[s] = "open" /\ s \notin gone
      BY <1>a, <2>1
    <3>2. /\ at[s] \in RoomIds /\ rooms[at[s]] # None /\ s \in rooms[at[s]].sockets
          /\ rooms[at[s]].serial = joined[s]
      BY <3>1, OpenFinds
    <3>3. at[s] \notin aged
      BY <3>1, <3>2 DEF Closed, gone
    <3>4. at[s] \notin idle
      BY <3>2 DEF Idle
    <3> QED BY <1>a, <3>1, <3>2, <3>3, <3>4 DEF IInv, Membership, CountsTold
  <2>2. Placed'
    BY <1>a, <1>c DEF IInv, Membership, Placed
  <2>3. RoomsIsolated'
    BY <1>a DEF IInv, Membership, RoomsIsolated
  <2>4. MembersReachable' /\ CountsTold'
    BY <1>a, <2>1 DEF MembersReachable, CountsTold
  <2> QED BY <2>2, <2>3, <2>4 DEF Membership
<1> QED BY <1>1, <1>2, <1>3, <1>4, <1>5, <1>6 DEF IInv

LEMMA TickStep ==
    ASSUME StoreAssumption, IInv, Tick
    PROVE  IInv'
<1>t. TypeOK
  BY DEF IInv
<1>a. /\ now < MaxTime /\ now < gcDue /\ now' = now + 1
      /\ UNCHANGED <<rooms, db, gcDue, conn, at, restarts, created, joined, got, told>>
  BY DEF Tick
<1>m. now \in Nat /\ gcDue \in Int /\ maxAgeMs \in Int /\ GC_INTERVAL \in Int /\ MaxTime \in Nat
  BY <1>t DEF TypeOK, Times, StoreAssumption
<1>1. TypeOK'
  <2>1. now' \in Times
    BY <1>a, <1>m DEF Times
  <2> QED BY <1>t, <1>a, <2>1 DEF TypeOK
<1>2. ClockOK'
  <2>1. PICK n \in Int : n = now
    BY <1>m
  <2> QED BY <1>a, <1>m, <2>1, TickAges DEF IInv, ClockOK
<1>3. RoomsOK' /\ RowsOK' /\ Membership'
  <2>1. RoomsOK'
    BY <1>a DEF IInv, RoomsOK, RoomOK
  <2>2. RowsOK'
    BY <1>a DEF IInv, RowsOK, RowOK
  <2>3. Membership'
    BY <1>a DEF IInv, Membership, Placed, MembersReachable, RoomsIsolated, CountsTold
  <2> QED BY <2>1, <2>2, <2>3
<1>4. YoungKept'
  <2> SUFFICES ASSUME NEW n \in DOMAIN created, (now + 1) - created[n] < maxAgeMs
               PROVE  HasRow(n)
    BY <1>a DEF YoungKept, HasRow
  <2>1. created[n] \in Int
    BY <1>t DEF TypeOK, Times
  <2>2. now - created[n] < maxAgeMs
    BY <1>m, <2>1, TickAges
  <2> QED BY <2>2 DEF IInv, YoungKept
<1> QED BY <1>1, <1>2, <1>3, <1>4 DEF IInv

LEMMA RestartStep ==
    ASSUME StoreAssumption, IInv, Restart
    PROVE  IInv'
<1>t. TypeOK
  BY DEF IInv
<1>a. /\ restarts < MaxRestarts /\ restarts' = restarts + 1
      /\ rooms' = [id \in RoomIds |-> None]
      /\ conn' = [s \in Sockets |-> IF conn[s] = "new" THEN "new" ELSE "closed"]
      /\ gcDue' = now + GC_INTERVAL
      /\ UNCHANGED <<db, now, at, created, joined, got, told>>
  BY DEF Restart
<1>m. now \in Nat /\ GC_INTERVAL \in Nat
  BY <1>t DEF TypeOK, Times, StoreAssumption
<1>1. TypeOK'
  <2>1. gcDue' \in Nat
    BY <1>a, <1>m
  <2>2. restarts' \in 0 .. MaxRestarts
    BY <1>t, <1>a DEF TypeOK, StoreAssumption
  <2>3. conn' \in [Sockets -> {"new", "open", "closing", "closed"}]
        /\ rooms' \in [RoomIds -> Room \cup {None}]
    BY <1>a
  <2> QED BY <1>t, <1>a, <2>1, <2>2, <2>3 DEF TypeOK
<1>2. ClockOK'
  BY <1>a, <1>m DEF ClockOK
<1>3. RoomsOK' /\ RowsOK'
  BY <1>a DEF IInv, RoomsOK, RowsOK, RowOK
<1>4. YoungKept'
  BY <1>a DEF IInv, YoungKept, HasRow
<1>5. Membership'
  BY <1>a DEF IInv, Membership, Placed, MembersReachable, RoomsIsolated, CountsTold
<1> QED BY <1>1, <1>2, <1>3, <1>4, <1>5 DEF IInv

-----------------------------------------------------------------------------
(* The theorems. *)

LEMMA InitOK == ASSUME StoreAssumption PROVE Init => IInv
<1> SUFFICES ASSUME Init PROVE IInv
  OBVIOUS
<1>1. TypeOK
  <2>1. Cardinality(Sockets) \in Nat
    BY FS_CardinalityType DEF StoreAssumption
  <2>2. created \in [1 .. 0 -> Times] /\ 0 \in 0 .. MaxRooms
    BY DEF Init, StoreAssumption
  <2>3. gcDue \in Nat /\ now \in Times /\ restarts \in 0 .. MaxRestarts
    BY DEF Init, StoreAssumption, Times
  <2> QED BY <2>1, <2>2, <2>3 DEF Init, TypeOK, StoreAssumption
<1>2. ClockOK
  BY DEF Init, ClockOK, StoreAssumption
<1>3. RoomsOK /\ RowsOK /\ Membership
  BY DEF Init, RoomsOK, RowsOK, Membership, Placed, MembersReachable, RoomsIsolated, CountsTold
<1>4. YoungKept
  <2>1. DOMAIN created = {}
    BY DEF Init
  <2> QED BY <2>1 DEF YoungKept
<1> QED BY <1>1, <1>2, <1>3, <1>4 DEF IInv

LEMMA NextOK ==
    ASSUME StoreAssumption, FRESH = TRUE
    PROVE  IInv /\ [Next]_vars => IInv'
<1> SUFFICES ASSUME IInv, [Next]_vars PROVE IInv'
  OBVIOUS
<1>1. ASSUME NEW id \in RoomIds, NEW custom \in BOOLEAN, Create(id, custom) PROVE IInv'
  BY <1>1, CreateStep
<1>2. ASSUME NEW s \in Sockets, SocketStep(s) PROVE IInv'
  BY <1>2, OpenStep, MessageStep, RejectStep, CloseStep DEF SocketStep
<1>3. CASE Gc
  BY <1>3, GcStep
<1>4. CASE Tick
  BY <1>4, TickStep
<1>5. CASE Restart
  BY <1>5, RestartStep
<1>6. CASE UNCHANGED vars
  <2> USE <1>6 DEF vars
  <2>1. TypeOK' /\ ClockOK'
    BY DEF IInv, TypeOK, ClockOK
  <2>2. RoomsOK'
    BY DEF IInv, RoomsOK, RoomOK
  <2>3. RowsOK' /\ YoungKept'
    BY DEF IInv, RowsOK, RowOK, YoungKept, HasRow
  <2>4. Membership'
    BY DEF IInv, Membership, Placed, MembersReachable, RoomsIsolated, CountsTold
  <2> QED BY <2>1, <2>2, <2>3, <2>4 DEF IInv
<1> QED BY <1>1, <1>2, <1>3, <1>4, <1>5, <1>6 DEF Next

\* The invariant the others follow from: the bookkeeping of rooms.ts, room-db.ts and
\* ws-handlers.ts stays in step, whatever the collector, restarts and re-creation do.
THEOREM Inductive ==
    ASSUME FRESH = TRUE
    PROVE  Spec => []IInv
  BY InitOK, NextOK, StoreAssumption, PTL DEF Spec

\* The variables of the relay's rooms keep their types.
THEOREM TypeCorrect ==
    ASSUME FRESH = TRUE
    PROVE  Spec => []TypeOK
<1>1. IInv => TypeOK
  BY DEF IInv
<1> QED BY <1>1, Inductive, PTL

\* No orphans: while a socket is open, getting its room by id finds the very room it
\* joined, with the socket in it (the lookups of ws-handlers.ts).
THEOREM NoOrphans ==
    ASSUME FRESH = TRUE
    PROVE  Spec => []MembersReachable
<1>1. IInv => MembersReachable
  BY DEF IInv, Membership
<1> QED BY <1>1, Inductive, PTL

\* Rooms do not mix, not even those that have the same id one after another: a socket
\* is sent clips of its own room only, by broadcast and by backfill.
THEOREM Isolation ==
    ASSUME FRESH = TRUE
    PROVE  Spec => []RoomsIsolated
<1>1. IInv => RoomsIsolated
  BY DEF IInv, Membership
<1> QED BY <1>1, Inductive, PTL

\* The peer count an open socket was last told is that of its room.
THEOREM CountsHold ==
    ASSUME FRESH = TRUE
    PROVE  Spec => []CountsTold
<1>1. IInv => CountsTold
  BY DEF IInv, Membership
<1> QED BY <1>1, Inductive, PTL

LEMMA RowsGiveUrls == IInv => UrlLasts
<1> SUFFICES ASSUME IInv, NEW n \in DOMAIN created, now - created[n] < maxAgeMs
             PROVE  \E id \in RoomIds : Found(id) /\ RoomAt(id).serial = n
  BY DEF UrlLasts
<1>1. PICK id \in RoomIds : db[id] # None /\ db[id].serial = n
  BY DEF IInv, YoungKept, HasRow
<1>2. RowOK(db[id]) /\ db[id] \in Row /\ (rooms[id] # None => rooms[id].serial = n)
  BY <1>1 DEF IInv, RowsOK, TypeOK
<1>3. db[id].expiresAt = created[n] + maxAgeMs /\ db[id].expiresAt \in Int
      /\ created[n] \in Int /\ now \in Int /\ maxAgeMs \in Int
  BY <1>1, <1>2, StoreAssumption DEF IInv, TypeOK, RowOK, Row, Times, StoreAssumption
<1>4. ~(db[id].expiresAt <= now)
  BY <1>3, ExpiredIsOld
<1>5. Found(id) /\ RoomAt(id).serial = n
  BY <1>1, <1>2, <1>4 DEF Found, Expired, RoomAt, Rehydrated
<1> QED BY <1>5

LEMMA FoundIsYoung == IInv => HardCeiling
<1> SUFFICES ASSUME IInv, NEW id \in RoomIds, Found(id)
             PROVE  now - created[RoomAt(id).serial] <= maxAgeMs + GC_INTERVAL
  BY DEF HardCeiling
<1> DEFINE c == created[RoomAt(id).serial]
<1>1. RoomAt(id) \in Room /\ RoomOK(id, RoomAt(id))
  BY GetFinds, StoreAssumption
<1>2. c \in Int /\ gcDue - c <= maxAgeMs + GC_INTERVAL
  BY <1>1 DEF RoomOK, Room, Times
<1>3. now \in Int /\ gcDue \in Int /\ maxAgeMs + GC_INTERVAL \in Int /\ now <= gcDue
  BY StoreAssumption DEF IInv, ClockOK, TypeOK, Times, StoreAssumption
<1> QED BY <1>2, <1>3, WithinCeiling

\* A room can be found under its id for maxAgeMs, through eviction and restarts.
THEOREM UrlsLast ==
    ASSUME FRESH = TRUE
    PROVE  Spec => []UrlLasts
  BY RowsGiveUrls, Inductive, PTL

\* Nobody is in a room, or can enter one, that is older than maxAgeMs by more than a
\* round of the collector.
THEOREM Ceiling ==
    ASSUME FRESH = TRUE
    PROVE  Spec => []HardCeiling
  BY FoundIsYoung, Inductive, PTL

-----------------------------------------------------------------------------
(* The rooms behind the limiters. *)

\* onOpen of a socket over the limit.
TurnedAway(s) ==
    /\ conn[s] = "new"
    /\ conn' = [conn EXCEPT ![s] = "closed"]
    /\ UNCHANGED <<rooms, db, now, gcDue, at, restarts, created, joined, got, told>>

LEMMA ApiSteps ==
    [ApiNext]_apiVars => Next \/ UNCHANGED vars \/ \E s \in Sockets : TurnedAway(s)
<1> SUFFICES ASSUME [ApiNext]_apiVars
             PROVE  Next \/ UNCHANGED vars \/ \E s \in Sockets : TurnedAway(s)
  OBVIOUS
<1>1. CASE \E ip \in Ips : PostLimited(ip) \/ PostRefused(ip)
  BY <1>1 DEF PostLimited, PostRefused
<1>2. CASE \E ip \in Ips, id \in RoomIds, custom \in BOOLEAN : PostCreates(ip, id, custom)
  BY <1>2 DEF PostCreates, Next
<1>3. CASE \E ip \in Ips, s \in Sockets, id \in RoomIds : Connect(s, ip, id)
  <2>1. PICK ip \in Ips, s \in Sockets, id \in RoomIds : Connect(s, ip, id)
    BY <1>3
  <2>2. OnOpen(s, id) \/ TurnedAway(s)
    BY <2>1 DEF Connect, TurnedAway
  <2> QED BY <2>2 DEF Next, SocketStep
<1>4. CASE \E s \in Sockets : Handle(s)
  BY <1>4 DEF Handle, Next, SocketStep
<1>5. CASE Snapshot \/ GetsStale \/ Publish \/ \E tag \in 1 .. MaxReleases : Refreshed(tag)
  BY <1>5 DEF Snapshot, GetsStale, Publish, Refreshed
<1>6. CASE Timers \/ ApiTick \/ ApiRestart
  BY <1>6 DEF Timers, ApiTick, ApiRestart, Next
<1>7. CASE UNCHANGED apiVars
  BY <1>7 DEF apiVars
<1> QED BY <1>1, <1>2, <1>3, <1>4, <1>5, <1>6, <1>7 DEF ApiNext

\* A closed socket is in no room, neither before nor after.
LEMMA TurnedAwayStep ==
    ASSUME StoreAssumption, IInv, NEW s \in Sockets, TurnedAway(s) PROVE IInv'
<1> USE DEF TurnedAway
<1>1. TypeOK'
  BY DEF IInv, TypeOK
<1>2. ClockOK' /\ RowsOK' /\ YoungKept'
  BY DEF IInv, ClockOK, RowsOK, RowOK, YoungKept, HasRow
<1>3. \A e \in Sockets : conn[e] # "new" => conn'[e] = conn[e]
  BY DEF IInv, TypeOK
<1>4. \A e \in Sockets : conn'[e] \in {"open", "closing"} => conn'[e] = conn[e]
  BY DEF IInv, TypeOK
<1>5. Membership'
  BY <1>4 DEF IInv, Membership, Placed, MembersReachable, RoomsIsolated, CountsTold
<1>6. RoomsOK'
  BY <1>3, <1>4 DEF IInv, RoomsOK, RoomOK, TypeOK, Room
<1> QED BY <1>1, <1>2, <1>5, <1>6 DEF IInv

\* The rooms behind limiters and requests (app.ts, ws-handlers.ts onOpen): an open
\* socket's id leads to its room, rooms do not mix, and a room lasts its time and
\* no longer.
THEOREM RoomsHold ==
    ASSUME FRESH = TRUE
    PROVE  ApiSpec => [](TypeOK /\ MembersReachable /\ RoomsIsolated /\ UrlLasts /\ HardCeiling)
<1> DEFINE Promises == TypeOK /\ MembersReachable /\ RoomsIsolated /\ UrlLasts /\ HardCeiling
<1>1. ApiInit => IInv
  BY InitOK, StoreAssumption DEF ApiInit
<1>2. IInv /\ [ApiNext]_apiVars => IInv'
  BY ApiSteps, NextOK, TurnedAwayStep, StoreAssumption
<1>3. IInv => Promises
  BY RowsGiveUrls, FoundIsYoung DEF IInv, Membership
<1> HIDE DEF Promises
<1>4. ApiSpec => []Promises
  BY <1>1, <1>2, <1>3, PTL DEF ApiSpec
<1> QED BY <1>4 DEF Promises

-----------------------------------------------------------------------------
(* The UpdateChecker. *)

ReleasesTyped == restarts \in Nat /\ published \in Nat /\ latest \in Nat /\ fetches \subseteq Nat

OneFetch ==
    /\ fetches # {} => refreshing = TRUE
    /\ \A f, g \in fetches : f = g

InOrder == latest <= published /\ \A f \in fetches : latest <= f /\ f <= published

CheckerInv == ReleasesTyped /\ OneFetch /\ InOrder

LEMMA CheckerInitOK == ApiInit => CheckerInv
  BY DEF ApiInit, Init, CheckerInv, ReleasesTyped, OneFetch, InOrder

LEMMA SnapshotKeeps == ASSUME CheckerInv, Snapshot PROVE CheckerInv' /\ latest' >= latest
<1>1. /\ refreshing' = TRUE /\ fetches' = fetches \cup {published}
      /\ UNCHANGED <<restarts, published, latest>>
  BY DEF Snapshot, vars
<1>2. fetches = {}
  BY DEF Snapshot, MayRefresh, CheckerInv, OneFetch
<1> QED BY <1>1, <1>2 DEF CheckerInv, ReleasesTyped, OneFetch, InOrder

LEMMA RefreshedKeeps ==
    ASSUME CheckerInv, NEW tag, Refreshed(tag) PROVE CheckerInv' /\ latest' >= latest
<1>1. /\ tag \in fetches /\ fetches' = fetches \ {tag}
      /\ latest' = tag \/ latest' = latest
      /\ published' = published /\ restarts' = restarts
  BY DEF Refreshed, Known, vars
<1>2. fetches' = {}
  BY <1>1 DEF CheckerInv, OneFetch
<1>3. tag \in Nat /\ latest \in Nat /\ published \in Nat /\ latest <= tag /\ tag <= published
  BY <1>1 DEF CheckerInv, ReleasesTyped, InOrder
<1>4. OneFetch'
  BY <1>2 DEF OneFetch
<1>5. latest' \in Nat /\ latest' <= published' /\ latest' >= latest
  BY <1>1, <1>3
<1>6. ReleasesTyped' /\ InOrder'
  BY <1>1, <1>2, <1>5 DEF CheckerInv, ReleasesTyped, InOrder
<1> QED BY <1>4, <1>5, <1>6 DEF CheckerInv

LEMMA PublishKeeps == ASSUME CheckerInv, Publish PROVE CheckerInv' /\ latest' >= latest
  BY DEF Publish, vars, CheckerInv, ReleasesTyped, OneFetch, InOrder

\* A step of the rooms, the sockets or the limiters.
LEMMA OthersKeep ==
    ASSUME CheckerInv, UNCHANGED <<restarts, published, latest, refreshing, fetches>>
    PROVE  CheckerInv' /\ latest' >= latest
  BY DEF CheckerInv, ReleasesTyped, OneFetch, InOrder

LEMMA RestartKeeps == ASSUME CheckerInv, ApiRestart PROVE CheckerInv' /\ restarts' # restarts
<1>1. /\ restarts' = restarts + 1 /\ published' = published
      /\ latest' = 0 /\ fetches' = {}
  BY DEF ApiRestart, Restart
<1> QED BY <1>1 DEF CheckerInv, ReleasesTyped, OneFetch, InOrder

LEMMA CheckerNextOK ==
    ASSUME CheckerInv, [ApiNext]_apiVars
    PROVE  CheckerInv' /\ (latest' >= latest \/ restarts' # restarts)
<1>1. CASE Snapshot
  BY <1>1, SnapshotKeeps
<1>2. CASE \E tag \in 1 .. MaxReleases : Refreshed(tag)
  BY <1>2, RefreshedKeeps
<1>3. CASE Publish
  BY <1>3, PublishKeeps
<1>4. CASE ApiRestart
  BY <1>4, RestartKeeps
<1>5. CASE GetsStale \/ Timers \/ ApiTick \/ UNCHANGED apiVars
  BY <1>5, OthersKeep DEF GetsStale, Timers, ApiTick, Gc, Tick, apiVars, vars, checker
<1>6. CASE \E ip \in Ips :
             \/ PostLimited(ip) \/ PostRefused(ip)
             \/ \E id \in RoomIds, custom \in BOOLEAN : PostCreates(ip, id, custom)
  BY <1>6, OthersKeep DEF PostLimited, PostRefused, PostCreates, Create, vars, checker
<1>7. CASE \E ip \in Ips, s \in Sockets, id \in RoomIds : Connect(s, ip, id)
  BY <1>7, OthersKeep DEF Connect, OnOpen, checker
<1>8. CASE \E s \in Sockets : Handle(s)
  BY <1>8, OthersKeep DEF Handle, OnMessage, Reject, OnClose, checker
<1> QED BY <1>1, <1>2, <1>3, <1>4, <1>5, <1>6, <1>7, <1>8 DEF ApiNext

\* CheckerInv holds in every state of the relay.
THEOREM CheckerInductive == ApiSpec => []CheckerInv
<1>1. CheckerInv /\ [ApiNext]_apiVars => CheckerInv'
  BY CheckerNextOK
<1> QED BY <1>1, CheckerInitOK, PTL DEF ApiSpec

\* While the relay runs, what it tells of the newest release never becomes older
\* (version.ts snapshot, refresh).
THEOREM ReleaseNeverOlder == ApiSpec => ReleaseKept
<1>1. CheckerInv /\ [ApiNext]_apiVars => [latest' >= latest \/ restarts' # restarts]_apiVars
  BY CheckerNextOK
<1> QED BY <1>1, CheckerInductive, PTL DEF ApiSpec, ReleaseKept
-----------------------------------------------------------------------------
(* The lists of the limiters. *)

Less == {p \in Nat \X Nat : p[1] < p[2]}

LEMMA LessWF == IsWellFoundedOn(Less, Nat)
  BY NatLessThanWellFounded DEF OpToRel, Less

\* What is shifted out ends somewhere.
LEMMA FirstKeptIs ==
    ASSUME NEW T, NEW s \in Seq(T), NEW old \in SUBSET DOMAIN s
    PROVE  LET k == FirstKept(s, old) IN k \in 1 .. Len(s) + 1 /\ k \notin old /\ 1 .. k - 1 \subseteq old
<1>1. Len(s) \in Nat /\ DOMAIN s = 1 .. Len(s)
  BY LenProperties
<1> DEFINE Kept == (1 .. Len(s) + 1) \ old
<1>2. Kept \subseteq Nat /\ Kept # {}
  <2>1. Len(s) + 1 \in 1 .. Len(s) + 1 /\ Len(s) + 1 \notin 1 .. Len(s)
    BY <1>1
  <2> QED BY <1>1, <2>1
<1>3. PICK k \in Kept : \A j \in Kept : ~(<<j, k>> \in Less)
  <2> HIDE DEF Kept, Less
  <2> QED BY <1>2, LessWF, WFMin
<1>4. \A j \in Kept : j >= k
  <2> SUFFICES ASSUME NEW j \in Kept, ~(j >= k) PROVE FALSE
    OBVIOUS
  <2>1. j \in Nat /\ k \in Nat /\ j < k
    BY <1>1
  <2>2. <<j, k>> \in Less
    BY <2>1 DEF Less
  <2> QED BY <1>3, <2>2
<1>5. k \in 1 .. Len(s) + 1 /\ k \notin old /\ 1 .. k - 1 \subseteq old
  BY <1>1, <1>4
<1> QED BY <1>5 DEF FirstKept

LEMMA FirstKeptUnique ==
    ASSUME NEW T, NEW s \in Seq(T), NEW old \in SUBSET DOMAIN s,
           NEW k \in 1 .. Len(s) + 1, k \notin old, 1 .. k - 1 \subseteq old
    PROVE  FirstKept(s, old) = k
<1> DEFINE f == FirstKept(s, old)
<1>1. f \in 1 .. Len(s) + 1 /\ f \notin old /\ 1 .. f - 1 \subseteq old
  BY FirstKeptIs
<1>2. Len(s) \in Nat
  BY LenProperties
<1> HIDE DEF f
<1>3. ~(f < k) /\ ~(k < f)
  BY <1>1, <1>2
<1>4. f = k
  BY <1>1, <1>2, <1>3
<1> QED BY <1>4 DEF f

TimeList(s) == s \in Seq(Int)

\* Since, without CHOOSE: the k-th time is the first that is recent.
Cut(s, first, k) ==
    /\ k \in 1 .. Len(s) + 1
    /\ \A j \in 1 .. k - 1 : s[j] < first
    /\ k <= Len(s) => s[k] >= first

LEMMA SinceCut ==
    ASSUME NEW s, TimeList(s), NEW first \in Int
    PROVE  \E k \in 1 .. Len(s) + 1 : Cut(s, first, k)
<1> DEFINE old == {j \in DOMAIN s : s[j] < first}
<1>1. s \in Seq(Int) /\ old \in SUBSET DOMAIN s /\ Len(s) \in Nat /\ DOMAIN s = 1 .. Len(s)
      /\ \A j \in 1 .. Len(s) : s[j] \in Int
  BY LenProperties DEF TimeList
<1>2. PICK k : k \in 1 .. Len(s) + 1 /\ k \notin old /\ 1 .. k - 1 \subseteq old
  <2> HIDE DEF old
  <2> QED BY <1>1, FirstKeptIs
<1> QED BY <1>1, <1>2 DEF Cut

LEMMA CutSince ==
    ASSUME NEW s, TimeList(s), NEW first \in Int, NEW k, Cut(s, first, k)
    PROVE  Since(s, first) = SubSeq(s, k, Len(s))
<1> DEFINE old == {j \in DOMAIN s : s[j] < first}
<1>1. s \in Seq(Int) /\ old \in SUBSET DOMAIN s /\ Len(s) \in Nat /\ DOMAIN s = 1 .. Len(s)
      /\ \A j \in 1 .. Len(s) : s[j] \in Int
  BY LenProperties DEF TimeList
<1>2. k \in 1 .. Len(s) + 1 /\ k \notin old /\ 1 .. k - 1 \subseteq old
  BY <1>1 DEF Cut
<1>3. FirstKept(s, old) = k
  <2> HIDE DEF old
  <2> QED BY <1>1, <1>2, FirstKeptUnique
<1> QED BY <1>3 DEF Since, ShiftWhile

LEMMA SuffixIs ==
    ASSUME NEW s, TimeList(s), NEW k \in 1 .. Len(s) + 1, NEW r, r = SubSeq(s, k, Len(s))
    PROVE  /\ TimeList(r) /\ Len(r) = Len(s) + 1 - k
           /\ \A i \in 1 .. Len(r) : r[i] = s[k + i - 1]
<1>1. s \in Seq(Int) /\ Len(s) \in Nat /\ \A j \in 1 .. Len(s) : s[j] \in Int
  BY LenProperties DEF TimeList
<1>2. \A j \in k .. Len(s) : s[j] \in Int
  BY <1>1
<1>3. /\ r \in Seq(Int) /\ Len(r) = IF k <= Len(s) THEN Len(s) - k + 1 ELSE 0
      /\ \A i \in 1 .. Len(s) - k + 1 : r[i] = s[k + i - 1]
  BY <1>1, <1>2, SubSeqProperties
<1>4. Len(r) = Len(s) + 1 - k
  BY <1>1, <1>3
<1> QED BY <1>1, <1>3, <1>4 DEF TimeList

LEMMA SinceTyped ==
    ASSUME NEW s, TimeList(s), NEW first \in Int PROVE TimeList(Since(s, first))
<1>1. PICK k \in 1 .. Len(s) + 1 : Cut(s, first, k)
  BY SinceCut
<1> QED BY <1>1, CutSince, SuffixIs

\* Whatever was shifted out before, what is left later is the same.
LEMMA SinceLater ==
    ASSUME NEW s, TimeList(s), NEW first \in Int, NEW later \in Int, first <= later
    PROVE  Since(Since(s, first), later) = Since(s, later)
<1>1. PICK k \in 1 .. Len(s) + 1 : Cut(s, first, k)
  BY SinceCut
<1>2. PICK r :
      /\ Since(s, first) = r
      /\ TimeList(r) /\ Len(r) = Len(s) + 1 - k
      /\ \A i \in 1 .. Len(r) : r[i] = s[k + i - 1]
  <2>1. Since(s, first) = SubSeq(s, k, Len(s))
    BY <1>1, CutSince
  <2> QED BY <2>1, SuffixIs
<1>3. Len(s) \in Nat /\ \A j \in 1 .. Len(s) : s[j] \in Int
  BY LenProperties DEF TimeList
<1>4. PICK m \in 1 .. Len(r) + 1 : Cut(r, later, m)
  BY <1>2, SinceCut
<1> DEFINE n == k + m - 1
<1>5. n \in 1 .. Len(s) + 1 /\ Len(r) \in Nat
  BY <1>2, <1>3
<1>6. \A j \in 1 .. n - 1 : s[j] < later
  <2> SUFFICES ASSUME NEW j \in 1 .. n - 1 PROVE s[j] < later
    OBVIOUS
  <2>1. CASE j < k
    BY <2>1, <1>1, <1>3 DEF Cut
  <2>2. CASE j >= k
    <3>1. j - k + 1 \in 1 .. m - 1 /\ j - k + 1 \in 1 .. Len(r) /\ k + (j - k + 1) - 1 = j
      BY <2>2, <1>2, <1>3, <1>5
    <3> QED BY <3>1, <1>2, <1>4 DEF Cut
  <2> QED BY <2>1, <2>2, <1>3
<1>7. n <= Len(s) => s[n] >= later
  <2> SUFFICES ASSUME n <= Len(s) PROVE s[n] >= later
    OBVIOUS
  <2>1. m \in 1 .. Len(r)
    BY <1>2, <1>3, <1>5
  <2>2. r[m] = s[k + m - 1] /\ r[m] >= later
    BY <2>1, <1>2, <1>4 DEF Cut
  <2> QED BY <2>2
<1>8. Cut(s, later, n)
  BY <1>5, <1>6, <1>7 DEF Cut
<1>9. Since(s, later) = SubSeq(s, n, Len(s)) /\ Since(r, later) = SubSeq(r, m, Len(r))
  <2> HIDE DEF n
  <2> QED BY <1>2, <1>4, <1>8, CutSince
<1>x. PICK x : x = SubSeq(s, n, Len(s))
  OBVIOUS
<1>y. PICK y : y = SubSeq(r, m, Len(r))
  OBVIOUS
<1>10. /\ TimeList(x) /\ Len(x) = Len(s) + 1 - n
       /\ \A i \in 1 .. Len(x) : x[i] = s[n + i - 1]
  <2> HIDE DEF n
  <2> QED BY <1>5, <1>x, SuffixIs DEF TimeList
<1>11. /\ TimeList(y) /\ Len(y) = Len(r) + 1 - m
       /\ \A i \in 1 .. Len(y) : y[i] = r[m + i - 1]
  <2>1. m \in 1 .. Len(r) + 1 /\ TimeList(r)
    BY <1>2, <1>4
  <2> QED BY <2>1, <1>y, SuffixIs DEF TimeList
<1>12. Len(x) = Len(y)
  BY <1>2, <1>3, <1>10, <1>11
<1>13. \A i \in 1 .. Len(x) : x[i] = y[i]
  <2> SUFFICES ASSUME NEW i \in 1 .. Len(x) PROVE x[i] = y[i]
    OBVIOUS
  <2>0. Len(x) \in Nat
    BY <1>10, LenProperties DEF TimeList
  <2>1. m + i - 1 \in 1 .. Len(r) /\ k + (m + i - 1) - 1 = n + i - 1
    BY <2>0, <1>2, <1>3, <1>5, <1>11, <1>12
  <2>2. y[i] = r[m + i - 1] /\ r[m + i - 1] = s[k + (m + i - 1) - 1]
    BY <2>1, <1>2, <1>11, <1>12
  <2> QED BY <2>1, <2>2, <1>10
<1>14. x = y
  BY <1>10, <1>11, <1>12, <1>13, SeqEqual DEF TimeList
<1> QED BY <1>2, <1>9, <1>14, <1>x, <1>y

\* A new time is not shifted out with the old ones.
LEMMA SinceAppend ==
    ASSUME NEW s, TimeList(s), NEW first \in Int, NEW t \in Int, first <= t
    PROVE  Since(Append(s, t), first) = Append(Since(s, first), t)
<1>1. PICK k \in 1 .. Len(s) + 1 : Cut(s, first, k)
  BY SinceCut
<1>a. PICK a : a = Append(s, t)
  OBVIOUS
<1>2. PICK r :
      /\ Since(s, first) = r
      /\ TimeList(r) /\ Len(r) = Len(s) + 1 - k
      /\ \A i \in 1 .. Len(r) : r[i] = s[k + i - 1]
  <2>1. Since(s, first) = SubSeq(s, k, Len(s))
    BY <1>1, CutSince
  <2> QED BY <2>1, SuffixIs
<1>3. /\ Len(s) \in Nat /\ TimeList(a) /\ Len(a) = Len(s) + 1
      /\ a[Len(s) + 1] = t /\ \A i \in 1 .. Len(s) : a[i] = s[i]
  BY <1>a, LenProperties, AppendProperties DEF TimeList
<1>4. Cut(a, first, k)
  BY <1>1, <1>3 DEF Cut
<1>b. PICK b : b = SubSeq(a, k, Len(a))
  OBVIOUS
<1>c. PICK c : c = Append(r, t)
  OBVIOUS
<1>5. /\ Since(a, first) = b /\ k \in 1 .. Len(a) + 1
  <2>1. Since(a, first) = SubSeq(a, k, Len(a))
    BY <1>3, <1>4, CutSince
  <2> QED BY <1>1, <1>3, <1>b, <2>1
<1>6. /\ TimeList(b) /\ Len(b) = Len(a) + 1 - k
      /\ \A i \in 1 .. Len(b) : b[i] = a[k + i - 1]
  BY <1>3, <1>5, <1>b, SuffixIs DEF TimeList
<1>7. /\ Len(r) \in Nat /\ TimeList(c) /\ Len(c) = Len(r) + 1
      /\ c[Len(r) + 1] = t /\ \A i \in 1 .. Len(r) : c[i] = r[i]
  BY <1>2, <1>c, LenProperties, AppendProperties DEF TimeList
<1>8. Len(b) = Len(c)
  BY <1>2, <1>3, <1>6, <1>7
<1>9. \A i \in 1 .. Len(b) : b[i] = c[i]
  <2> SUFFICES ASSUME NEW i \in 1 .. Len(b) PROVE b[i] = c[i]
    OBVIOUS
  <2>1. CASE i = Len(r) + 1
    <3>1. k + i - 1 = Len(s) + 1
      BY <2>1, <1>2, <1>3
    <3> QED BY <2>1, <3>1, <1>3, <1>6, <1>7
  <2>2. CASE i \in 1 .. Len(r)
    <3>1. k + i - 1 \in 1 .. Len(s)
      BY <2>2, <1>2, <1>3
    <3> QED BY <2>2, <3>1, <1>2, <1>3, <1>6, <1>7
  <2> QED BY <1>7, <1>8, <2>1, <2>2
<1>10. b = c
  BY <1>6, <1>7, <1>8, <1>9, SeqEqual DEF TimeList
<1> QED BY <1>2, <1>5, <1>10, <1>a, <1>c

LEMMA SinceNothing == ASSUME NEW first \in Int PROVE Since(<<>>, first) = <<>>
<1> DEFINE e == <<>>
<1>1. e \in Seq(Int) /\ Len(e) = 0 /\ TimeList(e)
  BY EmptySeq DEF TimeList
<1>2. PICK k \in 1 .. Len(e) + 1 : Cut(e, first, k)
  BY <1>1, SinceCut
<1>3. Since(e, first) = SubSeq(e, k, Len(e)) /\ Len(e) < k
  BY <1>1, <1>2, CutSince
<1> QED BY <1>1, <1>2, <1>3, SubSeqEmpty

\* A limiter at time t: what it goes by are the calls granted in the window, and they
\* are not too many.
Exact(t, hits, grants, limit, window) ==
    /\ TimeList(hits) /\ TimeList(grants)
    /\ Len(grants) <= limit
    /\ Since(hits, t - window) = grants

LEMMA ExactStays ==
    ASSUME NEW t \in Int, NEW hits, NEW grants, NEW limit \in Nat, NEW window \in Nat,
           Exact(t, hits, grants, limit, window)
    PROVE  Exact(t, grants, grants, limit, window)
  BY SinceLater DEF Exact

\* allow of one key.
LEMMA HitExact ==
    ASSUME now \in Int, NEW limit \in Nat, NEW window \in Nat, NEW hits, NEW grants,
           Exact(now, hits, grants, limit, window)
    PROVE  Exact(now, Hit(hits, limit, window),
                 IF Allowed(hits, limit, window) THEN Append(grants, now) ELSE grants,
                 limit, window)
<1> DEFINE first == now - window
<1>1. first \in Int /\ first <= now
  OBVIOUS
<1>2. TimeList(grants) /\ Fresh(hits, window) = grants /\ Len(grants) <= limit
  BY DEF Exact, Fresh
<1>3. Since(grants, first) = grants
  <2>1. Exact(now, grants, grants, limit, window)
    BY ExactStays
  <2> QED BY <2>1 DEF Exact
<1>4. CASE Allowed(hits, limit, window)
  <2> DEFINE longer == Append(grants, now)
  <2>1. Hit(hits, limit, window) = longer
    BY <1>2, <1>4 DEF Hit
  <2>2. Len(grants) < limit /\ Len(grants) \in Nat
    BY <1>2, <1>4, LenProperties DEF Allowed, TimeList
  <2>3. TimeList(longer) /\ Len(longer) = Len(grants) + 1
    BY <1>2, AppendProperties DEF TimeList
  <2>4. Since(longer, first) = longer
    BY <1>1, <1>2, <1>3, SinceAppend
  <2> HIDE DEF longer
  <2>5. Exact(now, longer, longer, limit, window)
    BY <2>2, <2>3, <2>4 DEF Exact
  <2> QED BY <1>4, <2>1, <2>5 DEF longer
<1>5. CASE ~Allowed(hits, limit, window)
  BY <1>2, <1>5, ExactStays DEF Hit
<1> QED BY <1>4, <1>5

\* The window moves on; the history with it.
LEMMA LaterExact ==
    ASSUME NEW t \in Int, NEW u \in Int, t <= u, NEW limit \in Nat, NEW window \in Nat,
           NEW hits, NEW grants, Exact(t, hits, grants, limit, window)
    PROVE  Exact(u, hits, Since(grants, u - window), limit, window)
<1> DEFINE later == u - window
           left  == Since(grants, later)
<1>1. t - window \in Int /\ later \in Int /\ t - window <= later
  OBVIOUS
<1>2. TimeList(hits) /\ TimeList(grants) /\ Since(hits, t - window) = grants /\ Len(grants) <= limit
  BY DEF Exact
<1>3. Len(grants) \in Nat
  BY <1>2, LenProperties DEF TimeList
<1> HIDE DEF later
<1>4. TimeList(left) /\ Since(hits, later) = left
  BY <1>1, <1>2, SinceTyped, SinceLater
<1>5. PICK k \in 1 .. Len(grants) + 1 : Cut(grants, later, k)
  BY <1>1, <1>2, SinceCut
<1>6. left = SubSeq(grants, k, Len(grants))
  BY <1>1, <1>2, <1>5, CutSince
<1> HIDE DEF left
<1>7. Len(left) = Len(grants) + 1 - k
  BY <1>2, <1>5, <1>6, SuffixIs
<1>8. Len(left) <= limit
  BY <1>2, <1>3, <1>5, <1>7
<1>9. Exact(u, hits, left, limit, window)
  BY <1>2, <1>4, <1>8 DEF Exact, later
<1> QED BY <1>9 DEF left, later

\* sweep of one key.
LEMMA SweepExact ==
    ASSUME now \in Int, NEW limit \in Nat, NEW window \in Nat,
           NEW hits, NEW grants, Exact(now, hits, grants, limit, window)
    PROVE  Exact(now, Swept(hits, window), grants, limit, window)
<1>1. Exact(now, grants, grants, limit, window)
  BY ExactStays
<1> QED BY <1>1 DEF Swept, Fresh, Exact

LEMMA NoneExact ==
    ASSUME NEW t \in Int, NEW limit \in Nat, NEW window \in Nat
    PROVE  Exact(t, <<>>, <<>>, limit, window)
<1>1. TimeList(<<>>) /\ Len(<<>>) = 0
  BY EmptySeq DEF TimeList
<1>2. Since(<<>>, t - window) = <<>>
  BY SinceNothing
<1> QED BY <1>1, <1>2 DEF Exact

-----------------------------------------------------------------------------
(* The limiters, under all that happens. *)

Lists == [Ips -> Seq(Int)]

RoomsExact ==
    /\ roomHits \in Lists /\ roomGrants \in Lists
    /\ \A ip \in Ips : Exact(now, roomHits[ip], roomGrants[ip], ROOM_IP_LIMIT, ROOM_WINDOW)

WsExact ==
    /\ wsHits \in Lists /\ wsGrants \in Lists
    /\ \A ip \in Ips : Exact(now, wsHits[ip], wsGrants[ip], WS_CONNECT_IP_LIMIT, WS_WINDOW)

LimitInv == now \in Int /\ RoomsExact /\ WsExact

LEMMA Limits ==
    /\ ROOM_IP_LIMIT \in Nat /\ ROOM_WINDOW \in Nat
    /\ WS_CONNECT_IP_LIMIT \in Nat /\ WS_WINDOW \in Nat
  BY ApiAssumption DEF ApiAssumption

LEMMA RoomAllowKeeps ==
    ASSUME LimitInv, now' = now, NEW ip \in Ips, RoomAllow(ip) PROVE LimitInv'
<1> DEFINE h == Hit(roomHits[ip], ROOM_IP_LIMIT, ROOM_WINDOW)
           g == IF Allowed(roomHits[ip], ROOM_IP_LIMIT, ROOM_WINDOW)
                THEN Append(roomGrants[ip], now) ELSE roomGrants[ip]
<1>1. roomHits \in Lists /\ roomGrants \in Lists /\ now \in Int
  BY DEF LimitInv, RoomsExact
<1>2. Exact(now, h, g, ROOM_IP_LIMIT, ROOM_WINDOW)
  BY Limits, HitExact DEF LimitInv, RoomsExact
<1>3. h \in Seq(Int) /\ g \in Seq(Int)
  BY <1>2 DEF Exact, TimeList
<1>4. roomHits' = [roomHits EXCEPT ![ip] = h] /\ roomGrants' = [roomGrants EXCEPT ![ip] = g]
  BY <1>1 DEF RoomAllow
<1> HIDE DEF h, g
<1>5. roomHits' \in Lists /\ roomGrants' \in Lists
  BY <1>1, <1>3, <1>4 DEF Lists
<1>6. ASSUME NEW x \in Ips
      PROVE  Exact(now, roomHits'[x], roomGrants'[x], ROOM_IP_LIMIT, ROOM_WINDOW)
  <2>1. CASE x = ip
    BY <1>1, <1>2, <1>4, <2>1 DEF Lists
  <2>2. CASE x # ip
    <3>1. roomHits'[x] = roomHits[x] /\ roomGrants'[x] = roomGrants[x]
      BY <1>1, <1>4, <2>2 DEF Lists
    <3> QED BY <3>1 DEF LimitInv, RoomsExact
  <2> QED BY <2>1, <2>2
<1>7. RoomsExact'
  BY <1>5, <1>6 DEF RoomsExact
<1>8. WsExact'
  BY DEF RoomAllow, LimitInv, WsExact
<1> QED BY <1>1, <1>7, <1>8 DEF LimitInv

LEMMA WsAllowKeeps ==
    ASSUME LimitInv, now' = now, NEW ip \in Ips, WsAllow(ip) PROVE LimitInv'
<1> DEFINE h == Hit(wsHits[ip], WS_CONNECT_IP_LIMIT, WS_WINDOW)
           g == IF Allowed(wsHits[ip], WS_CONNECT_IP_LIMIT, WS_WINDOW)
                THEN Append(wsGrants[ip], now) ELSE wsGrants[ip]
<1>1. wsHits \in Lists /\ wsGrants \in Lists /\ now \in Int
  BY DEF LimitInv, WsExact
<1>2. Exact(now, h, g, WS_CONNECT_IP_LIMIT, WS_WINDOW)
  BY Limits, HitExact DEF LimitInv, WsExact
<1>3. h \in Seq(Int) /\ g \in Seq(Int)
  BY <1>2 DEF Exact, TimeList
<1>4. wsHits' = [wsHits EXCEPT ![ip] = h] /\ wsGrants' = [wsGrants EXCEPT ![ip] = g]
  BY <1>1 DEF WsAllow
<1> HIDE DEF h, g
<1>5. wsHits' \in Lists /\ wsGrants' \in Lists
  BY <1>1, <1>3, <1>4 DEF Lists
<1>6. ASSUME NEW x \in Ips
      PROVE  Exact(now, wsHits'[x], wsGrants'[x], WS_CONNECT_IP_LIMIT, WS_WINDOW)
  <2>1. CASE x = ip
    BY <1>1, <1>2, <1>4, <2>1 DEF Lists
  <2>2. CASE x # ip
    <3>1. wsHits'[x] = wsHits[x] /\ wsGrants'[x] = wsGrants[x]
      BY <1>1, <1>4, <2>2 DEF Lists
    <3> QED BY <3>1 DEF LimitInv, WsExact
  <2> QED BY <2>1, <2>2
<1>7. WsExact'
  BY <1>5, <1>6 DEF WsExact
<1>8. RoomsExact'
  BY DEF WsAllow, LimitInv, RoomsExact
<1> QED BY <1>1, <1>7, <1>8 DEF LimitInv

\* The sweeps.
LEMMA TimersKeep == ASSUME LimitInv, Timers PROVE LimitInv'
<1>1. /\ now' = now /\ now \in Int
      /\ roomHits' = [ip \in Ips |-> Swept(roomHits[ip], ROOM_WINDOW)]
      /\ wsHits' = [ip \in Ips |-> Swept(wsHits[ip], WS_WINDOW)]
      /\ roomGrants' = roomGrants /\ wsGrants' = wsGrants
  BY DEF Timers, Gc, LimitInv
<1>2. ASSUME NEW ip \in Ips
      PROVE  /\ Exact(now, roomHits'[ip], roomGrants'[ip], ROOM_IP_LIMIT, ROOM_WINDOW)
             /\ Exact(now, wsHits'[ip], wsGrants'[ip], WS_CONNECT_IP_LIMIT, WS_WINDOW)
  BY <1>1, Limits, SweepExact DEF LimitInv, RoomsExact, WsExact
<1>3. \A ip \in Ips : roomHits'[ip] \in Seq(Int) /\ wsHits'[ip] \in Seq(Int)
  BY <1>2 DEF Exact, TimeList
<1>4. roomHits' \in Lists /\ wsHits' \in Lists
  BY <1>1, <1>3 DEF Lists
<1> QED BY <1>1, <1>2, <1>4 DEF LimitInv, RoomsExact, WsExact

LEMMA ApiTickKeeps == ASSUME LimitInv, ApiTick PROVE LimitInv'
<1>1. /\ now' = now + 1 /\ now \in Int
      /\ roomHits' = roomHits /\ wsHits' = wsHits
      /\ roomGrants' = [ip \in Ips |-> Since(roomGrants[ip], now' - ROOM_WINDOW)]
      /\ wsGrants' = [ip \in Ips |-> Since(wsGrants[ip], now' - WS_WINDOW)]
  BY DEF ApiTick, Tick, LimitInv
<1>2. now' \in Int /\ now <= now'
  BY <1>1
<1>3. ASSUME NEW ip \in Ips
      PROVE  /\ Exact(now', roomHits'[ip], roomGrants'[ip], ROOM_IP_LIMIT, ROOM_WINDOW)
             /\ Exact(now', wsHits'[ip], wsGrants'[ip], WS_CONNECT_IP_LIMIT, WS_WINDOW)
  <2>1. /\ roomGrants'[ip] = Since(roomGrants[ip], now' - ROOM_WINDOW)
        /\ wsGrants'[ip] = Since(wsGrants[ip], now' - WS_WINDOW)
    BY <1>1
  <2>2. /\ Exact(now, roomHits[ip], roomGrants[ip], ROOM_IP_LIMIT, ROOM_WINDOW)
        /\ Exact(now, wsHits[ip], wsGrants[ip], WS_CONNECT_IP_LIMIT, WS_WINDOW)
    BY DEF LimitInv, RoomsExact, WsExact
  <2>3. /\ Exact(now', roomHits[ip], Since(roomGrants[ip], now' - ROOM_WINDOW),
                 ROOM_IP_LIMIT, ROOM_WINDOW)
        /\ Exact(now', wsHits[ip], Since(wsGrants[ip], now' - WS_WINDOW),
                 WS_CONNECT_IP_LIMIT, WS_WINDOW)
    BY <1>1, <1>2, <2>2, Limits, LaterExact
  <2> QED BY <1>1, <2>1, <2>3
<1>4. \A ip \in Ips : roomGrants'[ip] \in Seq(Int) /\ wsGrants'[ip] \in Seq(Int)
  BY <1>3 DEF Exact, TimeList
<1>5. roomGrants' \in Lists /\ wsGrants' \in Lists
  BY <1>1, <1>4 DEF Lists
<1> QED BY <1>1, <1>2, <1>3, <1>5 DEF LimitInv, RoomsExact, WsExact

LEMMA NoCallsExact ==
    ASSUME NEW t \in Int
    PROVE  /\ NoCalls \in Lists
           /\ \A ip \in Ips : /\ Exact(t, NoCalls[ip], NoCalls[ip], ROOM_IP_LIMIT, ROOM_WINDOW)
                              /\ Exact(t, NoCalls[ip], NoCalls[ip], WS_CONNECT_IP_LIMIT, WS_WINDOW)
<1>1. NoCalls \in Lists /\ \A ip \in Ips : NoCalls[ip] = <<>>
  BY EmptySeq DEF NoCalls, Lists
<1>2. /\ Exact(t, <<>>, <<>>, ROOM_IP_LIMIT, ROOM_WINDOW)
      /\ Exact(t, <<>>, <<>>, WS_CONNECT_IP_LIMIT, WS_WINDOW)
  BY Limits, NoneExact
<1> QED BY <1>1, <1>2

LEMMA QuietLimits ==
    ASSUME LimitInv, now' = now, UNCHANGED limits PROVE LimitInv'
  BY DEF LimitInv, RoomsExact, WsExact, limits

LEMMA LimitNextOK == ASSUME LimitInv, [ApiNext]_apiVars PROVE LimitInv'
<1>1. CASE \E ip \in Ips :
             \/ PostLimited(ip) \/ PostRefused(ip)
             \/ \E id \in RoomIds, custom \in BOOLEAN : PostCreates(ip, id, custom)
  <2>1. \E ip \in Ips : RoomAllow(ip) /\ now' = now
    BY <1>1 DEF PostLimited, PostRefused, PostCreates, Create, vars
  <2> QED BY <2>1, RoomAllowKeeps
<1>2. CASE \E ip \in Ips, s \in Sockets, id \in RoomIds : Connect(s, ip, id)
  <2>1. \E ip \in Ips : WsAllow(ip) /\ now' = now
    BY <1>2 DEF Connect, OnOpen
  <2> QED BY <2>1, WsAllowKeeps
<1>3. CASE \E s \in Sockets : Handle(s)
  BY <1>3, QuietLimits DEF Handle, OnMessage, Reject, OnClose
<1>4. CASE Snapshot \/ GetsStale \/ Publish \/ \E tag \in 1 .. MaxReleases : Refreshed(tag)
  BY <1>4, QuietLimits DEF Snapshot, GetsStale, Publish, Refreshed, vars
<1>5. CASE Timers
  BY <1>5, TimersKeep
<1>6. CASE ApiTick
  BY <1>6, ApiTickKeeps
<1>7. CASE ApiRestart
  <2>1. now' = now /\ now \in Int
    BY <1>7 DEF ApiRestart, Restart, LimitInv
  <2>2. /\ roomHits' = NoCalls /\ wsHits' = NoCalls
        /\ roomGrants' = NoCalls /\ wsGrants' = NoCalls
    BY <1>7 DEF ApiRestart
  <2> QED BY <2>1, <2>2, NoCallsExact DEF LimitInv, RoomsExact, WsExact
<1>8. CASE UNCHANGED apiVars
  BY <1>8, QuietLimits DEF apiVars, vars
<1> QED BY <1>1, <1>2, <1>3, <1>4, <1>5, <1>6, <1>7, <1>8 DEF ApiNext

\* LimitInv holds in every state of the relay.
THEOREM LimitsInductive == ApiSpec => []LimitInv
<1>1. ApiInit => LimitInv
  <2> SUFFICES ASSUME ApiInit PROVE LimitInv
    OBVIOUS
  <2>1. now \in Int
    BY DEF ApiInit, Init
  <2> QED BY <2>1, NoCallsExact DEF ApiInit, LimitInv, RoomsExact, WsExact
<1>2. LimitInv /\ [ApiNext]_apiVars => LimitInv'
  BY LimitNextOK
<1> QED BY <1>1, <1>2, PTL DEF ApiSpec

\* An address is granted no call too many in any window, and is never refused over
\* a call that was refused, or one from before the window, whenever the sweeps come
\* (rate-limit.ts allow, sweep).
THEOREM LimitersExact == ApiSpec => []ExactlyTheLimit
<1>1. LimitInv => ExactlyTheLimit
  BY DEF LimitInv, RoomsExact, WsExact, Exact, ExactlyTheLimit, Fresh
<1> QED BY <1>1, LimitsInductive, PTL
=============================================================================

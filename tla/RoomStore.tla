----------------------------- MODULE RoomStore -----------------------------
(***************************************************************************)
(* The relay's rooms: RoomStore (apps/relay/src/rooms.ts) over its durable *)
(* table RoomDb (room-db.ts), the sockets that live in them (onOpen,       *)
(* onMessage and onClose of ws-handlers.ts), and the collector that        *)
(* server.ts runs on a timer.                                              *)
(*                                                                         *)
(* A room is in memory, in the database, or in both: an idle one is        *)
(* evicted from memory and comes back from its row; a restart empties the  *)
(* memory; age ends it in both.  Handlers find their room by its id each   *)
(* time, and an id can be used again.  So every room ever created has a    *)
(* serial number here, and the question is whether a socket, the frames it *)
(* sends and the room it joined stay together.                             *)
(*                                                                         *)
(* A clip is reduced to the serial of the room its sender joined.  Every   *)
(* room buffers recent clips.  A socket is used once, and no send to it is *)
(* skipped or fails.  Time is a counter that cannot pass the moment the    *)
(* collector is due.                                                       *)
(***************************************************************************)
EXTENDS Integers, FiniteSets

CONSTANTS
    RoomIds,        \* codes and generated ids
    Sockets,
    None,
    maxAgeMs,
    idleTimeoutMs,
    GC_INTERVAL,    \* the timer of server.ts
    FRESH,          \* a generated id is never one in use
    MaxRooms,       \* bound on the rooms created
    MaxTime,        \* bound on the clock
    MaxRestarts     \* bound on the restarts of the relay

Serials == 1 .. MaxRooms
Times   == 0 .. MaxTime

Room == [serial : Serials, createdAt : Times, lastActivityAt : Times,
         sockets : SUBSET Sockets, recent : SUBSET Serials]
Row  == [serial : Serials, createdAt : Times, expiresAt : Nat]

ASSUME StoreAssumption ==
    /\ None \notin RoomIds /\ None \notin Room /\ None \notin Row
    /\ maxAgeMs \in Nat /\ idleTimeoutMs \in Nat /\ GC_INTERVAL \in Nat \ {0}
    /\ FRESH \in BOOLEAN
    /\ MaxRooms \in Nat /\ MaxTime \in Nat /\ MaxRestarts \in Nat
    /\ IsFiniteSet(Sockets)

VARIABLES
    rooms,     \* the Map: the room with this id in memory, or None
    db,        \* the table: the row with this id, or None
    now,
    gcDue,     \* when the collector runs next
    conn,      \* a socket is "new", "open", "closing" (by the relay) or "closed"
    at,        \* the id an open socket carries (raw.data.roomId)
    restarts,  \* restarts so far
    (* what has happened *)
    created,   \* when room n was created, for the serials used so far
    joined,    \* the serial of the room the socket joined, or 0
    got,       \* the serials of the clips sent to the socket
    told       \* the last peerCount sent to it

vars == <<rooms, db, now, gcDue, conn, at, restarts, created, joined, got, told>>

-----------------------------------------------------------------------------
(* get: the room in memory, or one made from its row unless that has       *)
(* expired, in which case the row goes.                                    *)

Expired(row) == row.expiresAt <= now

\* Mutants: the clock of its age restarts with that of its idleness; two columns
\* of its row are mixed up.
Rehydrated_Young(row) ==
    [serial |-> row.serial, createdAt |-> now, lastActivityAt |-> now,
     sockets |-> {}, recent |-> {}]
Rehydrated_Swapped(row) ==
    [serial |-> row.serial, createdAt |-> row.expiresAt, lastActivityAt |-> now,
     sockets |-> {}, recent |-> {}]

Rehydrated(row) ==
    [serial |-> row.serial, createdAt |-> row.createdAt, lastActivityAt |-> now,
     sockets |-> {}, recent |-> {}]

Found(id) == rooms[id] # None \/ (db[id] # None /\ ~Expired(db[id]))
RoomAt(id) == IF rooms[id] # None THEN rooms[id] ELSE Rehydrated(db[id])
DbAfterGet(id) ==
    IF rooms[id] = None /\ db[id] # None /\ Expired(db[id])
    THEN [db EXCEPT ![id] = None] ELSE db

-----------------------------------------------------------------------------
\* Mutant: rooms that have been evicted from memory are not looked for.
Taken_InMemory(id) == rooms[id] # None

Taken(id) == rooms[id] # None \/ db[id] # None

\* A custom code is refused if it is taken.  A generated id is not looked up.
Create(id, custom) ==
    LET n == Cardinality(DOMAIN created) + 1 IN
    /\ n \in Serials
    /\ custom \/ FRESH => ~Taken(id)
    /\ rooms' = [rooms EXCEPT ![id] = [serial |-> n, createdAt |-> now, lastActivityAt |-> now,
                                       sockets |-> {}, recent |-> {}]]
    /\ db' = [db EXCEPT ![id] = [serial |-> n, createdAt |-> now, expiresAt |-> now + maxAgeMs]]
    /\ created' = [k \in 1 .. n |-> IF k = n THEN now ELSE created[k]]
    /\ UNCHANGED <<now, gcDue, conn, at, restarts, joined, got, told>>

\* A frame with the number of sockets goes to S.
Tell(S, n) == told' = [s \in Sockets |-> IF s \in S THEN n ELSE told[s]]

\* onOpen: the socket joins the room, or is closed with ROOM_NOT_FOUND.
OnOpen(s, id) ==
    /\ conn[s] = "new"
    /\ db' = DbAfterGet(id)
    /\ IF Found(id)
       THEN LET r == RoomAt(id)
                members == r.sockets \cup {s} IN
            /\ rooms' = [rooms EXCEPT ![id] = [r EXCEPT !.sockets = members,
                                                        !.lastActivityAt = now]]
            /\ conn' = [conn EXCEPT ![s] = "open"]
            /\ at' = [at EXCEPT ![s] = id]
            /\ joined' = [joined EXCEPT ![s] = r.serial]
            /\ got' = [got EXCEPT ![s] = r.recent]
            /\ Tell(members, Cardinality(members))
       ELSE /\ conn' = [conn EXCEPT ![s] = "closed"]
            /\ UNCHANGED <<rooms, at, joined, got, told>>
    /\ UNCHANGED <<now, gcDue, restarts, created>>

\* onMessage with a clip: to everybody else in the room, and into its ring.
OnMessage(s) ==
    /\ conn[s] = "open"
    /\ db' = DbAfterGet(at[s])
    /\ IF Found(at[s])
       THEN LET r == RoomAt(at[s]) IN
            /\ rooms' = [rooms EXCEPT ![at[s]] = [r EXCEPT !.recent = @ \cup {joined[s]},
                                                           !.lastActivityAt = now]]
            /\ got' = [e \in Sockets |-> IF e \in r.sockets \ {s}
                                         THEN got[e] \cup {joined[s]} ELSE got[e]]
       ELSE UNCHANGED <<rooms, got>>
    /\ UNCHANGED <<now, gcDue, conn, at, restarts, created, joined, told>>

\* onMessage with a frame too large or one too many: the relay closes the socket.
Reject(s) ==
    /\ conn[s] = "open"
    /\ Found(at[s])
    /\ db' = DbAfterGet(at[s])
    /\ rooms' = [rooms EXCEPT ![at[s]] = RoomAt(at[s])]
    /\ conn' = [conn EXCEPT ![s] = "closing"]
    /\ UNCHANGED <<now, gcDue, at, restarts, created, joined, got, told>>

\* peer-left.
Left(r, s) == Tell(r.sockets \ {s}, Cardinality(r.sockets \ {s}))

\* onClose: the socket leaves the room that has its id now, if there is one, and
\* the history goes with the last one.
OnClose(s) ==
    /\ conn[s] \in {"open", "closing"}
    /\ conn' = [conn EXCEPT ![s] = "closed"]
    /\ db' = DbAfterGet(at[s])
    /\ IF Found(at[s])
       THEN LET r == RoomAt(at[s]) IN
            /\ rooms' = [rooms EXCEPT ![at[s]] =
                            [r EXCEPT !.sockets = @ \ {s}, !.lastActivityAt = now,
                                      !.recent = IF r.sockets \ {s} = {} THEN {} ELSE @]]
            /\ Left(r, s)
       ELSE UNCHANGED <<rooms, told>>
    /\ UNCHANGED <<now, gcDue, at, restarts, created, joined, got>>

-----------------------------------------------------------------------------
Aged(r) == now - r.createdAt > maxAgeMs

\* Mutant: whoever is still in the room does not matter.
Idle_Occupied(r) == now - r.lastActivityAt > idleTimeoutMs

Idle(r) == r.sockets = {} /\ now - r.lastActivityAt > idleTimeoutMs

\* Mutant: an aged room is forgotten with its sockets left open.
Closed_Nobody(gone) == {}

\* The sockets of the rooms of `gone` that the relay closes.
Closed(gone) == {s \in UNION {rooms[id].sockets : id \in gone} : conn[s] = "open"}

\* gc.
Gc ==
    /\ now = gcDue
    /\ gcDue' = now + GC_INTERVAL
    /\ LET live == {id \in RoomIds : rooms[id] # None}
           aged == {id \in live : Aged(rooms[id])}
           idle == {id \in live : Idle(rooms[id])} IN
       /\ conn' = [s \in Sockets |-> IF s \in Closed(aged) THEN "closing" ELSE conn[s]]
       /\ rooms' = [id \in RoomIds |-> IF id \in aged \cup idle THEN None ELSE rooms[id]]
       /\ db' = [id \in RoomIds |-> IF id \in aged \/ (db[id] # None /\ Expired(db[id]))
                                    THEN None ELSE db[id]]
    /\ UNCHANGED <<now, at, restarts, created, joined, got, told>>

Tick ==
    /\ now < MaxTime /\ now < gcDue
    /\ now' = now + 1
    /\ UNCHANGED <<rooms, db, gcDue, conn, at, restarts, created, joined, got, told>>

\* The relay restarts over the same database file.
Restart ==
    /\ restarts < MaxRestarts
    /\ restarts' = restarts + 1
    /\ rooms' = [id \in RoomIds |-> None]
    /\ conn' = [s \in Sockets |-> IF conn[s] = "new" THEN "new" ELSE "closed"]
    /\ gcDue' = now + GC_INTERVAL
    /\ UNCHANGED <<db, now, at, created, joined, got, told>>

-----------------------------------------------------------------------------
Init ==
    /\ rooms = [id \in RoomIds |-> None]
    /\ db = [id \in RoomIds |-> None]
    /\ now = 0 /\ gcDue = GC_INTERVAL
    /\ conn = [s \in Sockets |-> "new"]
    /\ at = [s \in Sockets |-> None]
    /\ restarts = 0
    /\ created = [k \in 1 .. 0 |-> 0]
    /\ joined = [s \in Sockets |-> 0]
    /\ got = [s \in Sockets |-> {}]
    /\ told = [s \in Sockets |-> 0]

SocketStep(s) ==
    \/ \E id \in RoomIds : OnOpen(s, id)
    \/ OnMessage(s) \/ Reject(s) \/ OnClose(s)

Next ==
    \/ \E id \in RoomIds, custom \in BOOLEAN : Create(id, custom)
    \/ \E s \in Sockets : SocketStep(s)
    \/ Gc \/ Tick \/ Restart

Spec == Init /\ [][Next]_vars

-----------------------------------------------------------------------------
(* What should hold. *)

\* The values the variables range over.
TypeOK ==
    /\ rooms \in [RoomIds -> Room \cup {None}]
    /\ db \in [RoomIds -> Row \cup {None}]
    /\ now \in Times /\ gcDue \in Nat
    /\ conn \in [Sockets -> {"new", "open", "closing", "closed"}]
    /\ at \in [Sockets -> RoomIds \cup {None}]
    /\ restarts \in 0 .. MaxRestarts
    /\ \E n \in 0 .. MaxRooms : created \in [1 .. n -> Times]
    /\ joined \in [Sockets -> 0 .. MaxRooms]
    /\ got \in [Sockets -> SUBSET Serials]
    /\ told \in [Sockets -> 0 .. Cardinality(Sockets)]

\* No orphans: as long as a socket is open, looking its room up by id gives the
\* very room it joined, with the socket in it, whatever was evicted, expired,
\* restarted or created meanwhile.
MembersReachable ==
    \A s \in Sockets : conn[s] = "open" =>
        LET r == rooms[at[s]] IN
        r # None /\ s \in r.sockets /\ r.serial = joined[s]

\* Rooms do not mix: no clip reaches a socket, live or by backfill, that was sent
\* in another room, an earlier one with the same id included.
RoomsIsolated == \A s \in Sockets : got[s] \subseteq {joined[s]}

\* A room's URL works for maxAgeMs: through idle eviction and restarts the room can
\* be found under its id, so that nobody is told ROOM_NOT_FOUND, which is final.
UrlLasts ==
    \A n \in DOMAIN created : now - created[n] < maxAgeMs =>
        \E id \in RoomIds : Found(id) /\ RoomAt(id).serial = n

\* And not much longer: nobody is in a room, or can enter it, that is older than
\* maxAgeMs by more than one round of the collector, however it went in and out of
\* memory.
HardCeiling ==
    \A id \in RoomIds : Found(id) =>
        now - created[RoomAt(id).serial] <= maxAgeMs + GC_INTERVAL

\* What an open socket was last told is the number of sockets in its room.
CountsTold ==
    \A s \in Sockets : conn[s] = "open" => told[s] = Cardinality(rooms[at[s]].sockets)
====

------------------------------ MODULE ClipSync ------------------------------
(***************************************************************************)
(* The shared list of clips of one room: UniclipClient                     *)
(* (packages/client-core/src/client.ts) with the list a page keeps of what *)
(* it emits (apps/web/src/routes/room.svelte), and the relay's side of the *)
(* room (apps/relay/src/ws-handlers.ts, rooms.ts): fan-out, the ring of    *)
(* recent clips replayed to newcomers, the tombstones of deleted ones.     *)
(*                                                                         *)
(* A clip is a number, in the order of composition; `author` says whose it *)
(* is.  A frame is its type and its clip.  Frames travel in queues: `up`   *)
(* to the relay, `wire` from it, `chan` over a WebRTC data channel, which  *)
(* the relay does not see.  A connection breaks before anybody notices:    *)
(* its two ends close in steps of their own, and a device may be back on a *)
(* new socket while the relay still has the old one.  What was in flight   *)
(* on a broken connection is lost.                                         *)
(*                                                                         *)
(* Three constants say what the environment may do; they are the           *)
(* assumptions under which deletes work.  README.md says what happens      *)
(* without each of them.                                                   *)
(***************************************************************************)
EXTENDS Integers, SequencesExt

CONSTANTS
    Devices,
    NoDevice,
    MaxClips,       \* bound on the clips composed
    MaxDeletes,     \* bound on the clips a user deletes
    MAX_QUEUE,      \* frames a device queues while offline
    REPLAY_CAP,     \* msgIds a device remembers having admitted
    RECENT_CAP,     \* clips the relay replays to newcomers
    TOMBSTONE_CAP,  \* deletes the relay replays to newcomers
    FRAME_LIMIT,    \* clip and delete frames a socket may send per window
    BACKFILL,       \* the room keeps recent clips: mode A, not ephemeral
    P2P,            \* data channels open
    EARLY,          \* a frame may leave between a socket's open and its hello
    PROMPT,         \* a clip is decrypted before the next frame is handled
    FaultKinds,     \* the faults that happen: "net", "reload", "restart", "channel"
    MaxFaults       \* and how many

ASSUME ClipAssumption ==
    /\ NoDevice \notin Devices
    /\ MaxClips \in Nat /\ MaxDeletes \in Nat
    /\ MAX_QUEUE \in Nat \ {0} /\ REPLAY_CAP \in Nat \ {0}
    /\ RECENT_CAP \in Nat \ {0} /\ TOMBSTONE_CAP \in Nat \ {0}
    /\ FRAME_LIMIT \in Nat \ {0}
    /\ {BACKFILL, P2P, EARLY, PROMPT} \subseteq BOOLEAN
    /\ FaultKinds \subseteq {"net", "reload", "restart", "channel"} /\ MaxFaults \in Nat

Clips == 1 .. MaxClips

Frame == [type : {"hello", "clip", "delete"}, m : 0 .. MaxClips]

Hello     == [type |-> "hello", m |-> 0]
Clip(m)   == [type |-> "clip", m |-> m]
Delete(m) == [type |-> "delete", m |-> m]

VARIABLES
    author,       \* author[m] composed clip m
    (* each device *)
    items,        \* the clips its list shows
    pending,      \* those of them marked as not sent yet
    queue,        \* frames to send after the next hello
    replay,       \* the msgIds of its ReplaySet, oldest first
    decrypting,   \* how often clip m is being decrypted
    removing,     \* deletes on their way through the local store
    ws,           \* its socket: "down", "open", or "greeted" by a hello
    peer,         \* the device its data channel leads to, or NoDevice
    (* the connections *)
    net,          \* the path of its socket still works
    up, wire, chan,
    (* the relay *)
    sockets,      \* devices whose current socket is in the room
    ghosts,       \* devices that also have an earlier socket in it
    recent, tombstones,
    used,         \* frames of the device's socket in the limiter's window
    faults,       \* faults so far
    (* what has happened *)
    asked,        \* <<d, m>>: the user of d deleted m
    deleted,      \* clips the relay has handled a delete of
    forgotten,    \* deletes whose tombstone is gone
    shown,        \* clips emitted on d since its page was loaded
    again         \* <<d, m>>: emitted more than once

deviceVars  == <<items, pending, queue, replay, decrypting, removing, ws, peer>>
pathVars    == <<net, up, wire, chan>>
relayVars   == <<sockets, ghosts, recent, tombstones, used>>
historyVars == <<asked, deleted, forgotten, shown, again>>
vars == <<author, deviceVars, pathVars, relayVars, faults, historyVars>>

-----------------------------------------------------------------------------
Ids(s) == {s[k] : k \in DOMAIN s}

\* Mutant: it keeps one too many.
KeepLast_OneMore(s, cap) == IF Len(s) > cap THEN SubSeq(s, Len(s) - cap, Len(s)) ELSE s

\* A bounded FIFO keeps its newest entries.
KeepLast(s, cap) == IF Len(s) > cap THEN SubSeq(s, Len(s) - cap + 1, Len(s)) ELSE s

(* Sending: the data channel if it is open, else the socket, else nothing.   *)
(* A socket whose path is broken swallows the frame.                         *)

Linked(d) == peer[d] # NoDevice

CanSend(d) == Linked(d) \/ ws[d] # "down"

SendFrame(d, f) ==
    /\ chan' = IF Linked(d) THEN [chan EXCEPT ![peer[d]] = Append(@, f)] ELSE chan
    /\ up' = IF ~Linked(d) /\ net[d] THEN [up EXCEPT ![d] = Append(@, f)] ELSE up

Enqueue(d, f) == queue' = [queue EXCEPT ![d] = KeepLast(Append(@, f), MAX_QUEUE)]

\* The user, or a delete on its way, may send now.
MaySend(d) == EARLY \/ ws[d] # "open"

-----------------------------------------------------------------------------
(* The user of d. *)

\* send and addItem: the clip leaves or is queued, and is shown either way.
Compose(d) ==
    LET m == Len(author) + 1 IN
    /\ m \in Clips
    /\ MaySend(d)
    /\ author' = Append(author, d)
    /\ items' = [items EXCEPT ![d] = @ \cup {m}]
    /\ IF CanSend(d)
       THEN SendFrame(d, Clip(m)) /\ UNCHANGED <<queue, pending>>
       ELSE /\ Enqueue(d, Clip(m))
            /\ pending' = [pending EXCEPT ![d] = @ \cup {m}]
            /\ UNCHANGED <<up, chan>>
    /\ UNCHANGED <<replay, decrypting, removing, ws, peer, net, wire, relayVars, faults,
                   historyVars>>

\* onDelete up to its await: the clip leaves the list; the store is being written.
OnDelete(d, m) ==
    /\ m \in items[d]
    /\ Cardinality(asked \cup {<<d, m>>}) <= MaxDeletes
    /\ items' = [items EXCEPT ![d] = @ \ {m}]
    /\ pending' = [pending EXCEPT ![d] = @ \ {m}]
    /\ removing' = [removing EXCEPT ![d] = @ \cup {m}]
    /\ asked' = asked \cup {<<d, m>>}
    /\ UNCHANGED <<author, queue, replay, decrypting, ws, peer, pathVars, relayVars, faults,
                   deleted, forgotten, shown, again>>

\* Then client.delete: the delete leaves, or takes the clip out of the queue, or
\* is queued itself.
DeleteStored(d, m) ==
    /\ m \in removing[d]
    /\ MaySend(d)
    /\ removing' = [removing EXCEPT ![d] = @ \ {m}]
    /\ IF CanSend(d)
       THEN SendFrame(d, Delete(m)) /\ UNCHANGED queue
       ELSE /\ IF Clip(m) \in Ids(queue[d])
               THEN queue' = [queue EXCEPT ![d] = RemoveFirst(@, Clip(m))]
               ELSE Enqueue(d, Delete(m))
            /\ UNCHANGED <<up, chan>>
    /\ UNCHANGED <<author, items, pending, replay, decrypting, ws, peer, net, wire, relayVars,
                   faults, historyVars>>

-----------------------------------------------------------------------------
(* Frames reaching d. *)

Paths == {"ws", "p2p"}

\* The next frame to reach d over `via` is of type t.
Arrives(d, via, t) ==
    /\ PROMPT => \A m \in Clips : decrypting[d][m] = 0
    /\ LET q == IF via = "ws" THEN wire[d] ELSE chan[d] IN q # <<>> /\ Head(q).type = t

Arg(d, via) == IF via = "ws" THEN Head(wire[d]).m ELSE Head(chan[d]).m

Consume(d, via) ==
    /\ wire' = IF via = "ws" THEN [wire EXCEPT ![d] = Tail(@)] ELSE wire
    /\ chan' = IF via = "ws" THEN chan ELSE [chan EXCEPT ![d] = Tail(@)]

\* The clips of the frames of q are sent.
MarkSent(d, q) == pending' = [pending EXCEPT ![d] = {m \in @ : Clip(m) \notin Ids(q)}]

First(q) == IF q = <<>> THEN <<>> ELSE <<Head(q)>>

\* Mutant: only the first frame leaves, the rest is dropped.
FlushQueue_Dropping(d) ==
    /\ up' = IF net[d] THEN [up EXCEPT ![d] = @ \o First(queue[d])] ELSE up
    /\ queue' = [queue EXCEPT ![d] = <<>>]
    /\ MarkSent(d, queue[d])

\* flushQueue: everything goes into the socket, which is open for all it knows.
FlushQueue(d) ==
    /\ up' = IF net[d] THEN [up EXCEPT ![d] = @ \o queue[d]] ELSE up
    /\ queue' = [queue EXCEPT ![d] = <<>>]
    /\ MarkSent(d, queue[d])

OnHello(d) ==
    /\ Arrives(d, "ws", "hello")
    /\ Consume(d, "ws")
    /\ ws' = [ws EXCEPT ![d] = "greeted"]
    /\ FlushQueue(d)
    /\ UNCHANGED <<author, items, replay, decrypting, removing, peer, net, relayVars, faults,
                   historyVars>>

\* A clip not admitted before goes to decryption.
OnClip(d, via) ==
    /\ Arrives(d, via, "clip")
    /\ Consume(d, via)
    /\ LET m == Arg(d, via) IN
       IF m \in Ids(replay[d])
       THEN UNCHANGED <<replay, decrypting>>
       ELSE /\ replay' = [replay EXCEPT ![d] = KeepLast(Append(@, m), REPLAY_CAP)]
            /\ decrypting' = [decrypting EXCEPT ![d][m] = @ + 1]
    /\ UNCHANGED <<author, items, pending, queue, removing, ws, peer, net, up, relayVars, faults,
                   historyVars>>

\* It is emitted, and the list takes it unless it has it.
ClipDecrypted(d, m) ==
    /\ decrypting[d][m] > 0
    /\ decrypting' = [decrypting EXCEPT ![d][m] = @ - 1]
    /\ items' = [items EXCEPT ![d] = @ \cup {m}]
    /\ shown' = [shown EXCEPT ![d] = @ \cup {m}]
    /\ again' = IF m \in shown[d] THEN again \cup {<<d, m>>} ELSE again
    /\ UNCHANGED <<author, pending, queue, replay, removing, ws, peer, pathVars, relayVars, faults,
                   asked, deleted, forgotten>>

OnDeleteFrame(d, via) ==
    /\ Arrives(d, via, "delete")
    /\ Consume(d, via)
    /\ items' = [items EXCEPT ![d] = @ \ {Arg(d, via)}]
    /\ pending' = [pending EXCEPT ![d] = @ \ {Arg(d, via)}]
    /\ UNCHANGED <<author, queue, replay, decrypting, removing, ws, peer, net, up, relayVars,
                   faults, historyVars>>

-----------------------------------------------------------------------------
(* The relay. *)

Broadcast(d, f) ==
    wire' = [e \in Devices |-> IF e # d /\ e \in sockets /\ net[e]
                               THEN Append(wire[e], f) ELSE wire[e]]

\* pushRecent.
PushRecent(m) == recent' = IF BACKFILL THEN KeepLast(Append(recent, m), RECENT_CAP) ELSE recent

\* Mutant: the tombstone is thought to be enough.
RemoveRecent_Not(m) == m \in Clips /\ UNCHANGED recent

\* removeRecent.
RemoveRecent(m) == recent' = RemoveFirst(recent, m)

\* Mutant: only a clip that was in the ring gets a tombstone.
AddTombstone_InRing(m) ==
    /\ tombstones' = IF m \in Ids(tombstones) \/ m \notin Ids(recent) THEN tombstones
                     ELSE KeepLast(Append(tombstones, m), TOMBSTONE_CAP)
    /\ forgotten' = (forgotten \cup Ids(tombstones)) \ Ids(tombstones')

\* addTombstone.
AddTombstone(m) ==
    /\ tombstones' = IF m \in Ids(tombstones) THEN tombstones
                     ELSE KeepLast(Append(tombstones, m), TOMBSTONE_CAP)
    /\ forgotten' = (forgotten \cup Ids(tombstones)) \ Ids(tombstones')

\* onMessage: a frame within the rate is passed on and remembered; the first
\* beyond it costs the socket, and what follows it is never read.
OnMessage(d) ==
    /\ up[d] # <<>>
    /\ IF used[d] < FRAME_LIMIT
       THEN LET f == Head(up[d]) IN
            /\ used' = [used EXCEPT ![d] = @ + 1]
            /\ up' = [up EXCEPT ![d] = Tail(@)]
            /\ Broadcast(d, f)
            /\ IF f.type = "clip"
               THEN /\ PushRecent(f.m)
                    /\ UNCHANGED <<tombstones, deleted, forgotten>>
               ELSE /\ RemoveRecent(f.m)
                    /\ AddTombstone(f.m)
                    /\ deleted' = deleted \cup {f.m}
            /\ UNCHANGED net
       ELSE /\ net' = [net EXCEPT ![d] = FALSE]
            /\ up' = [up EXCEPT ![d] = <<>>]
            /\ UNCHANGED <<used, wire, recent, tombstones, deleted, forgotten>>
    /\ UNCHANGED <<author, deviceVars, chan, sockets, ghosts, faults, asked, shown, again>>

\* Hits leave the limiter's window, which matters once it is full.
WindowSlides(d) ==
    /\ used[d] = FRAME_LIMIT
    /\ \E k \in 0 .. used[d] - 1 : used' = [used EXCEPT ![d] = k]
    /\ UNCHANGED <<author, deviceVars, pathVars, sockets, ghosts, recent, tombstones, faults,
                   historyVars>>

\* Mutant: the newest clip is left out.
Greeting_NotLast ==
    <<Hello>> \o [k \in 1 .. Len(recent) - 1 |-> Clip(recent[k])]
              \o [k \in DOMAIN tombstones |-> Delete(tombstones[k])]

\* What a newcomer is sent.
Greeting ==
    <<Hello>> \o [k \in DOMAIN recent |-> Clip(recent[k])]
              \o [k \in DOMAIN tombstones |-> Delete(tombstones[k])]

\* d opens a socket and the relay takes it into the room.
Connect(d) ==
    /\ ws[d] = "down"
    /\ d \in sockets => d \notin ghosts
    /\ ws' = [ws EXCEPT ![d] = "open"]
    /\ net' = [net EXCEPT ![d] = TRUE]
    /\ wire' = [wire EXCEPT ![d] = Greeting]
    /\ sockets' = sockets \cup {d}
    /\ ghosts' = IF d \in sockets THEN ghosts \cup {d} ELSE ghosts
    /\ used' = [used EXCEPT ![d] = 0]
    /\ UNCHANGED <<author, items, pending, queue, replay, decrypting, removing, peer, up, chan,
                   recent, tombstones, faults, historyVars>>

\* History is dropped when the last socket has left.
ForgetIfEmpty(left) ==
    IF left = {}
    THEN recent' = <<>> /\ tombstones' = <<>> /\ forgotten' = forgotten \cup Ids(tombstones)
    ELSE UNCHANGED <<recent, tombstones, forgotten>>

\* onClose.
RelayCloses(d) ==
    /\ \/ d \in ghosts /\ ghosts' = ghosts \ {d} /\ UNCHANGED sockets
       \/ d \in sockets /\ ~net[d] /\ sockets' = sockets \ {d} /\ UNCHANGED ghosts
    /\ ForgetIfEmpty(sockets' \cup ghosts')
    /\ UNCHANGED <<author, deviceVars, pathVars, used, faults, asked, deleted, shown, again>>

-----------------------------------------------------------------------------
(* Connections. *)

\* The link of d, if it has one, goes with what is in flight on it.
CutLink(d) ==
    LET cut == IF Linked(d) THEN {d, peer[d]} ELSE {} IN
    /\ peer' = [e \in Devices |-> IF e \in cut THEN NoDevice ELSE peer[e]]
    /\ chan' = [e \in Devices |-> IF e \in cut THEN <<>> ELSE chan[e]]

Fault(kind) == kind \in FaultKinds /\ faults < MaxFaults /\ faults' = faults + 1

NetFails(d) ==
    /\ net[d]
    /\ Fault("net")
    /\ net' = [net EXCEPT ![d] = FALSE]
    /\ up' = [up EXCEPT ![d] = <<>>]
    /\ wire' = [wire EXCEPT ![d] = <<>>]
    /\ UNCHANGED <<author, deviceVars, chan, relayVars, historyVars>>

\* Mutants: the ReplaySet is the socket's; a socket that closes before its hello is
\* not replaced.
ClientCloses_Anew(d) ==
    /\ ws[d] # "down" /\ ~net[d]
    /\ ws' = [ws EXCEPT ![d] = "down"]
    /\ wire' = [wire EXCEPT ![d] = <<>>]
    /\ replay' = [replay EXCEPT ![d] = <<>>]
    /\ CutLink(d)
    /\ UNCHANGED <<author, items, pending, queue, decrypting, removing, net, up, relayVars, faults,
                   historyVars>>
ClientCloses_Greeted(d) ==
    /\ ws[d] = "greeted" /\ ~net[d]
    /\ ws' = [ws EXCEPT ![d] = "down"]
    /\ wire' = [wire EXCEPT ![d] = <<>>]
    /\ CutLink(d)
    /\ UNCHANGED <<author, items, pending, queue, replay, decrypting, removing, net, up, relayVars,
                   faults, historyVars>>

\* handleClose.
ClientCloses(d) ==
    /\ ws[d] # "down" /\ ~net[d]
    /\ ws' = [ws EXCEPT ![d] = "down"]
    /\ wire' = [wire EXCEPT ![d] = <<>>]
    /\ CutLink(d)
    /\ UNCHANGED <<author, items, pending, queue, replay, decrypting, removing, net, up, relayVars,
                   faults, historyVars>>

\* The page is reloaded: of the client only the persisted list survives.
Reload(d) ==
    /\ Fault("reload")
    /\ pending' = [pending EXCEPT ![d] = {}]
    /\ queue' = [queue EXCEPT ![d] = <<>>]
    /\ replay' = [replay EXCEPT ![d] = <<>>]
    /\ decrypting' = [decrypting EXCEPT ![d] = [m \in Clips |-> 0]]
    /\ removing' = [removing EXCEPT ![d] = {}]
    /\ ws' = [ws EXCEPT ![d] = "down"]
    /\ net' = [net EXCEPT ![d] = FALSE]
    /\ up' = [up EXCEPT ![d] = <<>>]
    /\ wire' = [wire EXCEPT ![d] = <<>>]
    /\ CutLink(d)
    /\ shown' = [shown EXCEPT ![d] = {}]
    /\ UNCHANGED <<author, items, relayVars, asked, deleted, forgotten, again>>

\* The relay restarts: rooms come back from the database, without their history.
RelayRestarts ==
    /\ Fault("restart")
    /\ sockets' = {} /\ ghosts' = {} /\ recent' = <<>> /\ tombstones' = <<>>
    /\ forgotten' = forgotten \cup Ids(tombstones)
    /\ net' = [d \in Devices |-> FALSE]
    /\ up' = [d \in Devices |-> <<>>]
    /\ wire' = [d \in Devices |-> <<>>]
    /\ UNCHANGED <<author, deviceVars, chan, used, asked, deleted, shown, again>>

\* Two devices that have been greeted open a data channel.
OpenLink(d, e) ==
    /\ P2P /\ d # e
    /\ ws[d] = "greeted" /\ ws[e] = "greeted"
    /\ ~Linked(d) /\ ~Linked(e)
    /\ peer' = [peer EXCEPT ![d] = e, ![e] = d]
    /\ UNCHANGED <<author, items, pending, queue, replay, decrypting, removing, ws, pathVars,
                   relayVars, faults, historyVars>>

CloseLink(d) ==
    /\ Linked(d)
    /\ Fault("channel")
    /\ CutLink(d)
    /\ UNCHANGED <<author, items, pending, queue, replay, decrypting, removing, ws, net, up, wire,
                   relayVars, historyVars>>

-----------------------------------------------------------------------------
Init ==
    /\ author = <<>>
    /\ items = [d \in Devices |-> {}]
    /\ pending = [d \in Devices |-> {}]
    /\ queue = [d \in Devices |-> <<>>]
    /\ replay = [d \in Devices |-> <<>>]
    /\ decrypting = [d \in Devices |-> [m \in Clips |-> 0]]
    /\ removing = [d \in Devices |-> {}]
    /\ ws = [d \in Devices |-> "down"]
    /\ peer = [d \in Devices |-> NoDevice]
    /\ net = [d \in Devices |-> FALSE]
    /\ up = [d \in Devices |-> <<>>]
    /\ wire = [d \in Devices |-> <<>>]
    /\ chan = [d \in Devices |-> <<>>]
    /\ sockets = {} /\ ghosts = {}
    /\ recent = <<>> /\ tombstones = <<>>
    /\ used = [d \in Devices |-> 0]
    /\ faults = 0
    /\ asked = {} /\ deleted = {} /\ forgotten = {}
    /\ shown = [d \in Devices |-> {}]
    /\ again = {}

FrameStep(d, via) == OnClip(d, via) \/ OnDeleteFrame(d, via)

ClientStep(d) ==
    \/ Compose(d) \/ OnHello(d)
    \/ \E m \in Clips : OnDelete(d, m) \/ DeleteStored(d, m) \/ ClipDecrypted(d, m)
    \/ \E via \in Paths : FrameStep(d, via)

RelayStep(d) == OnMessage(d) \/ WindowSlides(d) \/ RelayCloses(d)

ConnectionStep(d) ==
    \/ Connect(d) \/ NetFails(d) \/ ClientCloses(d) \/ Reload(d) \/ CloseLink(d)
    \/ \E e \in Devices : OpenLink(d, e)

Next ==
    \/ \E d \in Devices : ClientStep(d) \/ RelayStep(d) \/ ConnectionStep(d)
    \/ RelayRestarts

Spec == Init /\ [][Next]_vars

\* Frames and crypto make progress, closed sockets are noticed, and the
\* reconnect timer fires; users and faults owe nothing.
Fairness ==
    \A d \in Devices :
        /\ WF_vars(OnHello(d)) /\ WF_vars(OnMessage(d))
        /\ \A via \in Paths : WF_vars(FrameStep(d, via))
        /\ \A m \in Clips : WF_vars(ClipDecrypted(d, m)) /\ WF_vars(DeleteStored(d, m))
        /\ WF_vars(Connect(d)) /\ WF_vars(ClientCloses(d)) /\ WF_vars(RelayCloses(d))

FairSpec == Spec /\ Fairness

-----------------------------------------------------------------------------
(* What should hold. *)

\* The values the variables range over, the capacities included.
TypeOK ==
    /\ author \in Seq(Devices) /\ Len(author) <= MaxClips
    /\ items \in [Devices -> SUBSET Clips]
    /\ pending \in [Devices -> SUBSET Clips]
    /\ queue \in [Devices -> Seq(Frame)]
    /\ replay \in [Devices -> Seq(Clips)]
    /\ \A d \in Devices : Len(queue[d]) <= MAX_QUEUE /\ Len(replay[d]) <= REPLAY_CAP
    /\ decrypting \in [Devices -> [Clips -> Nat]]
    /\ removing \in [Devices -> SUBSET Clips]
    /\ ws \in [Devices -> {"down", "open", "greeted"}]
    /\ peer \in [Devices -> Devices \cup {NoDevice}]
    /\ net \in [Devices -> BOOLEAN]
    /\ up \in [Devices -> Seq(Frame)]
    /\ wire \in [Devices -> Seq(Frame)]
    /\ chan \in [Devices -> Seq(Frame)]
    /\ sockets \subseteq Devices /\ ghosts \subseteq Devices
    /\ recent \in Seq(Clips) /\ Len(recent) <= RECENT_CAP
    /\ tombstones \in Seq(Clips) /\ Len(tombstones) <= TOMBSTONE_CAP
    /\ used \in [Devices -> 0 .. FRAME_LIMIT]
    /\ faults \in 0 .. MaxFaults
    /\ asked \subseteq Devices \X Clips /\ again \subseteq Devices \X Clips
    /\ deleted \subseteq Clips /\ forgotten \subseteq Clips
    /\ shown \in [Devices -> SUBSET Clips]

\* d has a working connection and nothing is on its way to it.
Settled(d) ==
    /\ ws[d] = "greeted" /\ net[d] /\ wire[d] = <<>>
    /\ \A m \in Clips : decrypting[d][m] = 0

\* Backfill is complete: whatever the ring holds is in the list of every settled
\* device, wherever it was when the clip was sent, unless somebody deleted it.
RingShown ==
    \A d \in Devices : Settled(d) =>
        \A m \in Ids(recent) : m \in items[d] \/ \E e \in Devices : <<e, m>> \in asked

\* The ring never holds a clip whose delete the relay has handled.
RingClean == Ids(recent) \cap deleted = {}

\* A clip of another device is emitted once, however often live fan-out and
\* backfill bring it, if the ReplaySet holds twice the ring: a device's own clips
\* come back to it and take places too.  (256 places for a ring of 50; deletes and
\* data channels, which leave old clips in the ring, are outside this property.)
ForeignClipOnce == \A d \in Devices : \A m \in Clips : <<d, m>> \in again => author[m] = d

\* A delete reaches the others: a clip whose delete the relay has handled is in no
\* other settled device's list, though the device was offline when it was deleted.
\* The relay may have forgotten the tombstone.  The deleting device itself is left
\* out: if it was offline, backfill gives it back its own clip, which its ReplaySet
\* does not know, before its queued delete is flushed, and a delete is not echoed.
DeleteReachesAll ==
    \A d \in Devices : Settled(d) => \A m \in items[d] \cap deleted :
        m \in forgotten \/ <<d, m>> \in asked

\* Everybody has every clip: if no connection ever failed and the ring holds all that
\* were composed, once all are settled and nothing is queued or in flight, a clip
\* nobody deleted is in every list, whoever was not there yet when it was sent.
\* (What is in flight on a path that breaks is lost, though its author sees it as
\* sent.)
AllHaveAll ==
    /\ faults = 0 /\ Len(author) <= RECENT_CAP
    /\ \A d \in Devices : Settled(d) /\ up[d] = <<>> /\ chan[d] = <<>>
    =>
        \A m \in 1 .. Len(author) :
            \/ \E e \in Devices : <<e, m>> \in asked
            \/ \A d \in Devices : m \in items[d]

\* What is queued is sent: an offline device gets rid of its queue.
QueueDrains == \A d \in Devices : queue[d] # <<>> ~> queue[d] = <<>>

\* The devices are alike.
Symmetric == Permutations(Devices)
====

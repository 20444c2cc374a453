------------------------------ MODULE PeerLink ------------------------------
(***************************************************************************)
(* The connections of a client: its socket to the relay, with reconnects,  *)
(* terminal closes and disconnect() (packages/client-core/src/client.ts),  *)
(* and the WebRTC link two clients negotiate over it                       *)
(* (packages/client-core/src/peer-link.ts).  The relay                     *)
(* (apps/relay/src/ws-handlers.ts) counts sockets and forwards signals.    *)
(*                                                                         *)
(* A socket is <<d, k>>, the k-th that device d has dialled.  Its path     *)
(* breaks before anybody notices; the two ends close in steps of their     *)
(* own.  What was in flight on a broken path is lost, and the relay        *)
(* forwards a signal in the step that sends it.  ICE candidates are left   *)
(* out: two links that hold each other's descriptions can open a channel.  *)
(***************************************************************************)
EXTENDS Integers, Sequences, FiniteSets

CONSTANTS
    Devices,
    Froms,      \* identities of links, a bound on how many are in use at once
    NoLink,
    MaxFaults   \* bound on broken paths and broken links

VARIABLES
    (* each client *)
    ended,      \* "no", "disposed" by disconnect(), "terminated" by a close code
    timer,      \* a call of openSocket is scheduled
    link,       \* its PeerLink, or NoLink
    transport,  \* what it tells its user
    (* its socket *)
    dials,      \* how many it has dialled
    path,       \* of the last one: "none", "up", "cut", or "expired" by the relay
    wire,       \* the frames on it
    (* the relay *)
    room,       \* the room exists
    sockets,    \* its members
    faults

vars == <<ended, timer, link, transport, dials, path, wire, room, sockets, faults>>

(* step: what the link's negotiation waits for.  dead: its network path is   *)
(* gone.  closed: onClose has been called.  late (a history variable): the   *)
(* channel has opened after that.                                            *)
Links == [from : Froms, peerFrom : Froms \cup {0}, remote : Froms \cup {0},
          step : {"idle", "needed", "making", "offered", "answering", "done"},
          chan : {"none", "made", "open", "closed"},
          dead : BOOLEAN, closed : BOOLEAN, late : BOOLEAN]

ASSUME PeerAssumption ==
    /\ Froms \subseteq Nat \ {0} /\ NoLink \notin Links
    /\ MaxFaults \in Nat

Fresh(f) == [from |-> f, peerFrom |-> 0, remote |-> 0, step |-> "idle",
             chan |-> "none", dead |-> FALSE, closed |-> FALSE, late |-> FALSE]

Presence == {"hello", "peer-joined", "peer-left"}
Signals  == {"rtc-hello", "offer", "answer"}
Frames   == [type : Presence, n : Nat] \cup [type : Signals, from : Froms]

Last(d) == <<d, dials[d]>>
HasLink(d) == link[d] # NoLink

-----------------------------------------------------------------------------
(* The relay's side of sending.                                              *)

\* The devices the relay's frames reach through other sockets than s.
Reached(s) == {e \in Devices : path[e] = "up" /\ Last(e) \in sockets \ {s}}

\* Broadcast(w, s, f): the wires w after the relay has sent f to the others.
Broadcast(w, s, f) ==
    [e \in Devices |-> IF e \in Reached(s) THEN Append(w[e], f) ELSE w[e]]

\* The client signals over its socket, and only over it.
Signal(w, d, f) ==
    IF path[d] = "up" /\ Last(d) \in sockets THEN Broadcast(w, Last(d), f) ELSE w

-----------------------------------------------------------------------------
(* Links begin and end.                                                      *)

Known(l) == IF l = NoLink THEN {} ELSE {l.from, l.peerFrom, l.remote}
Told(w) == {w[k].from : k \in {j \in DOMAIN w : w[j].type \in Signals}}

\* The identities something refers to; the others count as unused.
InUse == UNION {Known(link[d]) \cup Told(wire[d]) : d \in Devices}

\* close(): onClose takes the transport back to the relay, the first time.
Closed(d) == IF HasLink(d) /\ ~link[d].closed THEN "relay" ELSE transport[d]

\* armPeer: a new link announces its identity; an earlier one is closed.
Arm(d, w) ==
    \E f \in Froms \ InUse :
        /\ link' = [link EXCEPT ![d] = Fresh(f)]
        /\ transport' = [transport EXCEPT ![d] = Closed(d)]
        /\ wire' = Signal(w, d, [type |-> "rtc-hello", from |-> f])

\* teardownPeer.
Teardown(d) ==
    /\ link' = [link EXCEPT ![d] = NoLink]
    /\ transport' = [transport EXCEPT ![d] = "relay"]

\* fireClose of d's link, which becomes l.
FireClose(d, l) ==
    /\ link' = [link EXCEPT ![d] = [l EXCEPT !.closed = TRUE]]
    /\ transport' = [transport EXCEPT ![d] = Closed(d)]

-----------------------------------------------------------------------------
(* The socket.                                                               *)

\* Mutant: a timer that outlives the client opens a socket.
OpenSocket_Anyway(d) ==
    /\ timer[d]
    /\ timer' = [timer EXCEPT ![d] = FALSE]
    /\ dials' = [dials EXCEPT ![d] = @ + 1]
    /\ path' = [path EXCEPT ![d] = "up"]
    /\ UNCHANGED <<ended, link, transport, wire, room, sockets, faults>>

\* The timer of connect() or handleClose fires.
OpenSocket(d) ==
    /\ timer[d]
    /\ timer' = [timer EXCEPT ![d] = FALSE]
    /\ IF ended[d] = "no"
         THEN /\ dials' = [dials EXCEPT ![d] = @ + 1]
              /\ path' = [path EXCEPT ![d] = "up"]
         ELSE UNCHANGED <<dials, path>>
    /\ UNCHANGED <<ended, link, transport, wire, room, sockets, faults>>

\* onOpen at the relay; without a room it closes the socket for good.
Join(d) ==
    /\ path[d] = "up" /\ Last(d) \notin sockets
    /\ IF room
         THEN LET n == Cardinality(sockets) + 1 IN
              /\ sockets' = sockets \cup {Last(d)}
              /\ wire' = [Broadcast(wire, Last(d), [type |-> "peer-joined", n |-> n])
                            EXCEPT ![d] = <<[type |-> "hello", n |-> n]>>]
              /\ UNCHANGED path
         ELSE /\ path' = [path EXCEPT ![d] = "expired"]
              /\ UNCHANGED <<sockets, wire>>
    /\ UNCHANGED <<ended, timer, link, transport, dials, room, faults>>

\* onClose at the relay, for a socket whose path is broken.
RelayCloses(d, k) ==
    /\ <<d, k>> \in sockets
    /\ k = dials[d] => path[d] # "up"
    /\ sockets' = sockets \ {<<d, k>>}
    /\ wire' = Broadcast(wire, <<d, k>>, [type |-> "peer-left", n |-> Cardinality(sockets) - 1])
    /\ UNCHANGED <<ended, timer, link, transport, dials, path, room, faults>>

\* The path of d's socket breaks, before or after the relay has seen it.
Cut(d) ==
    /\ faults < MaxFaults
    /\ path[d] = "up"
    /\ path' = [path EXCEPT ![d] = "cut"]
    /\ wire' = [wire EXCEPT ![d] = <<>>]
    /\ faults' = faults + 1
    /\ UNCHANGED <<ended, timer, link, transport, dials, room, sockets>>

\* The relay expires the room: it closes every socket with a terminal code.
RoomExpires ==
    /\ room /\ room' = FALSE
    /\ sockets' = {}
    /\ path' = [d \in Devices |->
                  IF path[d] = "up" /\ Last(d) \in sockets THEN "expired" ELSE path[d]]
    /\ UNCHANGED <<ended, timer, link, transport, dials, wire, faults>>

\* Mutant: no close code is terminal.
HandleClose_Retries(d) ==
    /\ path[d] \in {"cut", "expired"} /\ wire[d] = <<>>
    /\ path' = [path EXCEPT ![d] = "none"]
    /\ Teardown(d)
    /\ timer' = [timer EXCEPT ![d] = ended[d] = "no"]
    /\ UNCHANGED <<ended, dials, wire, room, sockets, faults>>

\* handleClose: after a terminal code or disconnect() no other socket follows.
HandleClose(d) ==
    /\ path[d] \in {"cut", "expired"} /\ wire[d] = <<>>
    /\ path' = [path EXCEPT ![d] = "none"]
    /\ Teardown(d)
    /\ ended' = [ended EXCEPT ![d] = IF @ = "no" /\ path[d] = "expired" THEN "terminated" ELSE @]
    /\ timer' = [timer EXCEPT ![d] = ended'[d] = "no"]
    /\ UNCHANGED <<dials, wire, room, sockets, faults>>

\* disconnect(): its socket's close event is still to come, or a timer to fire.
Disconnect(d) ==
    /\ ended[d] = "no"
    /\ ended' = [ended EXCEPT ![d] = "disposed"]
    /\ link' = [link EXCEPT ![d] = NoLink]
    /\ transport' = [transport EXCEPT ![d] = Closed(d)]
    /\ path' = [path EXCEPT ![d] = IF @ = "up" THEN "cut" ELSE @]
    /\ wire' = [wire EXCEPT ![d] = <<>>]
    /\ UNCHANGED <<timer, dials, room, sockets, faults>>

-----------------------------------------------------------------------------
(* handleFrame.  A frame that finds no link, or a description that does not  *)
(* fit the state of the connection, changes nothing.                         *)

Arrives(d, t) == wire[d] # <<>> /\ Head(wire[d]).type = t
Rest(d) == [wire EXCEPT ![d] = Tail(@)]

OnHello(d) ==
    /\ Arrives(d, "hello")
    /\ IF Head(wire[d]).n >= 2
         THEN Arm(d, Rest(d))
         ELSE wire' = Rest(d) /\ UNCHANGED <<link, transport>>
    /\ UNCHANGED <<ended, timer, dials, path, room, sockets, faults>>

OnPeerJoined(d) ==
    /\ Arrives(d, "peer-joined")
    /\ IF Head(wire[d]).n >= 2 /\ ~HasLink(d)
         THEN Arm(d, Rest(d))
         ELSE wire' = Rest(d) /\ UNCHANGED <<link, transport>>
    /\ UNCHANGED <<ended, timer, dials, path, room, sockets, faults>>

\* Mutant: the count still includes the socket that has left.
OnPeerLeft_Counted(d) ==
    /\ Arrives(d, "peer-left")
    /\ IF Head(wire[d]).n + 1 < 2 THEN Teardown(d) ELSE UNCHANGED <<link, transport>>
    /\ wire' = Rest(d)
    /\ UNCHANGED <<ended, timer, dials, path, room, sockets, faults>>

OnPeerLeft(d) ==
    /\ Arrives(d, "peer-left")
    /\ IF Head(wire[d]).n < 2 THEN Teardown(d) ELSE UNCHANGED <<link, transport>>
    /\ wire' = Rest(d)
    /\ UNCHANGED <<ended, timer, dials, path, room, sockets, faults>>

Sender(d) == Head(wire[d]).from

\* A signal for d: if it has a link, that becomes l.
OnSignal(d, t, l) ==
    /\ Arrives(d, t)
    /\ link' = [link EXCEPT ![d] = IF @ = NoLink THEN @ ELSE l]
    /\ wire' = Rest(d)
    /\ UNCHANGED <<ended, timer, transport, dials, path, room, sockets, faults>>

\* The first rtc-hello settles the role: the larger identity makes the channel.
HelloHandled(l, f) ==
    IF l.peerFrom # 0 THEN l
    ELSE IF l.from > f
           THEN [l EXCEPT !.peerFrom = f, !.chan = "made", !.step = "needed"]
           ELSE [l EXCEPT !.peerFrom = f]

Polite(l) == l.peerFrom = 0 \/ l.from < l.peerFrom
Collides(l) == l.step \in {"making", "offered", "answering"}

OfferHandled(l, f) ==
    IF ~Polite(l) /\ Collides(l) THEN l
    ELSE [l EXCEPT !.remote = f, !.step = "answering"]

\* Mutant: an impolite link ignores answers as well while it waits for one.
AnswerHandled_Ignored(l, f) ==
    IF l.step # "offered" \/ ~Polite(l) THEN l ELSE [l EXCEPT !.remote = f, !.step = "done"]

AnswerHandled(l, f) ==
    IF l.step # "offered" THEN l ELSE [l EXCEPT !.remote = f, !.step = "done"]

OnRtcHello(d) == OnSignal(d, "rtc-hello", HelloHandled(link[d], Sender(d)))
OnOffer(d)    == OnSignal(d, "offer", OfferHandled(link[d], Sender(d)))
OnAnswer(d)   == OnSignal(d, "answer", AnswerHandled(link[d], Sender(d)))

-----------------------------------------------------------------------------
(* The RTCPeerConnection: its promises and events.                           *)

Steps(d, from, to, w) ==
    /\ HasLink(d) /\ link[d].step = from
    /\ link' = [link EXCEPT ![d].step = to]
    /\ wire' = w
    /\ UNCHANGED <<ended, timer, transport, dials, path, room, sockets, faults>>

NegotiationNeeded(d) == Steps(d, "needed", "making", wire)
OfferMade(d)  == HasLink(d) /\ Steps(d, "making", "offered",
                   Signal(wire, d, [type |-> "offer", from |-> link[d].from]))
AnswerMade(d) == HasLink(d) /\ Steps(d, "answering", "done",
                   Signal(wire, d, [type |-> "answer", from |-> link[d].from]))

\* Each of d and e holds the description of the other's present link.
Paired(d, e) ==
    /\ d # e /\ HasLink(d) /\ HasLink(e)
    /\ link[d].remote = link[e].from /\ link[e].remote = link[d].from
    /\ link[d].step = "done" /\ link[e].step = "done"

\* onopen, on the channel d has made or on the one that e has made.
ChannelOpens(d) ==
    /\ \E e \in Devices :
          /\ Paired(d, e)
          /\ \/ link[d].chan = "made"
             \/ link[d].chan = "none" /\ link[e].chan \in {"made", "open"}
    /\ ~link[d].dead
    /\ link' = [link EXCEPT ![d].chan = "open", ![d].late = link[d].closed]
    /\ transport' = [transport EXCEPT ![d] = "p2p"]
    /\ UNCHANGED <<ended, timer, dials, path, wire, room, sockets, faults>>

\* The network path between two links breaks.
LinkBreaks(d, e) ==
    /\ faults < MaxFaults
    /\ Paired(d, e) /\ ~link[d].dead
    /\ link' = [link EXCEPT ![d].dead = TRUE, ![e].dead = TRUE]
    /\ faults' = faults + 1
    /\ UNCHANGED <<ended, timer, transport, dials, path, wire, room, sockets>>

\* There is nothing at the other end.
Severed(d) ==
    /\ HasLink(d) /\ link[d].remote # 0
    /\ link[d].dead \/ \A e \in Devices : HasLink(e) => link[e].from # link[d].remote

\* Mutant: the end of a link is noted, and nobody is told.
PcFails_Quiet(d) ==
    /\ Severed(d) /\ ~link[d].closed
    /\ link' = [link EXCEPT ![d].closed = TRUE]
    /\ UNCHANGED <<ended, timer, transport, dials, path, wire, room, sockets, faults>>

\* connectionState is "disconnected" or "failed"; the channel may look open.
PcFails(d) ==
    /\ Severed(d) /\ ~link[d].closed
    /\ FireClose(d, link[d])
    /\ UNCHANGED <<ended, timer, dials, path, wire, room, sockets, faults>>

\* connectionState is "disconnected" for a moment, which closes the link all the
\* same; its channel is open, or opens afterwards.
PcFlickers(d) ==
    /\ faults < MaxFaults
    /\ HasLink(d) /\ link[d].remote # 0 /\ ~Severed(d) /\ ~link[d].closed
    /\ FireClose(d, link[d])
    /\ faults' = faults + 1
    /\ UNCHANGED <<ended, timer, dials, path, wire, room, sockets>>

\* onclose of the channel.
ChannelCloses(d) ==
    /\ Severed(d) /\ link[d].chan = "open"
    /\ FireClose(d, [link[d] EXCEPT !.chan = "closed"])
    /\ UNCHANGED <<ended, timer, dials, path, wire, room, sockets, faults>>

-----------------------------------------------------------------------------
Init ==
    /\ ended = [d \in Devices |-> "no"]
    /\ timer = [d \in Devices |-> TRUE]
    /\ link = [d \in Devices |-> NoLink]
    /\ transport = [d \in Devices |-> "relay"]
    /\ dials = [d \in Devices |-> 0]
    /\ path = [d \in Devices |-> "none"]
    /\ wire = [d \in Devices |-> <<>>]
    /\ room = TRUE
    /\ sockets = {}
    /\ faults = 0

HandleFrame(d) ==
    \/ OnHello(d) \/ OnPeerJoined(d) \/ OnPeerLeft(d)
    \/ OnRtcHello(d) \/ OnOffer(d) \/ OnAnswer(d)

Socket(d) ==
    \/ OpenSocket(d) \/ Join(d) \/ HandleClose(d)
    \/ \E k \in 1 .. dials[d] : RelayCloses(d, k)

Connection(d) ==
    \/ NegotiationNeeded(d) \/ OfferMade(d) \/ AnswerMade(d)
    \/ ChannelOpens(d) \/ PcFails(d) \/ ChannelCloses(d)

Next ==
    \/ \E d \in Devices : HandleFrame(d) \/ Socket(d) \/ Connection(d)
    \/ \E d \in Devices : Cut(d) \/ PcFlickers(d) \/ Disconnect(d)
    \/ \E d, e \in Devices : LinkBreaks(d, e)
    \/ RoomExpires

Spec == Init /\ [][Next]_vars

\* Timers fire, frames and promises arrive, broken paths are noticed, and two
\* links that can open a channel do.  Nobody has to leave, break or expire.
FairSpec ==
    Spec /\ \A d \in Devices :
        /\ WF_vars(HandleFrame(d))
        /\ WF_vars(OpenSocket(d)) /\ WF_vars(Join(d)) /\ WF_vars(HandleClose(d))
        /\ WF_vars(\E k \in 1 .. dials[d] : RelayCloses(d, k))
        /\ WF_vars(Connection(d))

-----------------------------------------------------------------------------
TypeOK ==
    /\ ended \in [Devices -> {"no", "disposed", "terminated"}]
    /\ timer \in [Devices -> BOOLEAN]
    /\ link \in [Devices -> Links \cup {NoLink}]
    /\ transport \in [Devices -> {"p2p", "relay"}]
    /\ dials \in [Devices -> 0 .. MaxFaults + 1]
    /\ path \in [Devices -> {"none", "up", "cut", "expired"}]
    /\ \A d \in Devices : \A k \in DOMAIN wire[d] : wire[d][k] \in Frames
    /\ room \in BOOLEAN
    /\ sockets \subseteq Devices \X (1 .. MaxFaults + 1)
    /\ faults \in 0 .. MaxFaults

\* What the client shows of its link: while it goes on, a user is told of a direct
\* connection only if the channel is open, or about to be replaced by a second one,
\* and onClose is still to come; the exception is a channel that opened after
\* onClose (peer-link.ts:157 `if (this.closed) return`), whose end nobody is told
\* of.  No link outlives its socket.
DirectMeansOpen ==
    \A d \in Devices :
        /\ transport[d] = "p2p" /\ ended[d] = "no" =>
              /\ HasLink(d)
              /\ IF link[d].closed THEN link[d].late ELSE link[d].chan \in {"made", "open"}
        /\ HasLink(d) => path[d] # "none"

\* After disconnect() or a terminal close code there is no link and no socket
\* again, whatever timer, close event or frame was still to come
\* (client.ts:164 "A stray call ... must not restart the loop").
EndedStaysDown ==
    \A d \in Devices : ended[d] # "no" => ~HasLink(d) /\ path[d] # "up"

Present(d) == path[d] = "up" /\ Last(d) \in sockets

\* However joins, departures and hellos cross, over ghosts and redials: a device
\* that has handled all it was sent has a link exactly if the relay counts another
\* socket in the room (client.ts:288, :293, :298).
LinkIffCompany ==
    \A d \in Devices :
        Present(d) /\ wire[d] = <<>> => (HasLink(d) <=> Cardinality(sockets) >= 2)

\* Two devices whose sockets and links never break are linked in the end if both
\* stay, and say so, whoever joined first and however their rtc-hellos cross.
LinksForm ==
    <>[] \A d, e \in Devices :
            faults = 0 /\ d # e /\ Present(d) /\ Present(e) =>
                Paired(d, e) /\ transport[d] = "p2p"

\* The design of the identity handshake: two devices that stay in the room in the
\* end hold each other's descriptions again, whatever broke before
\* (docs/superpowers/specs/2026-06-23-uniclip-webrtc-reconnect-hardening-design.md:10
\* "the connection self-heals on any reconnect, single- or double-, in any order").
SelfHeals ==
    <>[] \A d, e \in Devices : d # e /\ Present(d) /\ Present(e) => Paired(d, e)
=============================================================================

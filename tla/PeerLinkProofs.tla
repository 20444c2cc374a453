--------------------------- MODULE PeerLinkProofs ---------------------------
(***************************************************************************)
(* Proofs about PeerLink.                                                  *)
(***************************************************************************)
EXTENDS PeerLink, SequenceTheorems, FiniteSetTheorems, TLAPS

-----------------------------------------------------------------------------
(* Any number of devices: types, and that who is down stays down.           *)

\* A device has dialled once, and once more for each path that broke under it;
\* the next dial is due when the timer is armed, or when a broken path of a client
\* that goes on is noticed.
Due(d) ==
    (IF timer[d] THEN 1 ELSE 0) + (IF path[d] = "cut" /\ ended[d] = "no" THEN 1 ELSE 0)

Dialled == \A d \in Devices : dials[d] + Due(d) <= faults + 1

Typed ==
    /\ ended \in [Devices -> {"no", "disposed", "terminated"}]
    /\ timer \in [Devices -> BOOLEAN]
    /\ link \in [Devices -> Links \cup {NoLink}]
    /\ transport \in [Devices -> {"p2p", "relay"}]
    /\ dials \in [Devices -> Nat]
    /\ path \in [Devices -> {"none", "up", "cut", "expired"}]
    /\ wire \in [Devices -> Seq(Frames)]
    /\ room \in BOOLEAN
    /\ faults \in 0 .. MaxFaults

\* The relay has only sockets that were dialled, and they can be counted.
SocketsOK ==
    /\ sockets \subseteq Devices \X (1 .. MaxFaults + 1)
    /\ IsFiniteSet(sockets)
    /\ \A s \in sockets : s[2] <= dials[s[1]]
    /\ \A d \in Devices : path[d] # "none" => dials[d] >= 1

\* Whoever is down has no link, no working socket and nothing to handle; a frame
\* finds its way only over a socket that works.
Down == \A d \in Devices :
    /\ ended[d] # "no" => ~HasLink(d) /\ path[d] # "up"
    /\ ended[d] # "no" \/ path[d] \in {"none", "cut"} => wire[d] = <<>>

LInv == Typed /\ SocketsOK /\ Dialled /\ Down

LEMMA InitOK == Init => LInv
<1> SUFFICES ASSUME Init PROVE LInv
  OBVIOUS
<1>1. Typed
  BY PeerAssumption DEF Init, Typed
<1>2. SocketsOK
  BY FS_EmptySet DEF Init, SocketsOK
<1>3. Dialled
  BY DEF Init, Dialled, Due
<1>4. Down
  BY DEF Init, Down, HasLink
<1> QED BY <1>1, <1>2, <1>3, <1>4 DEF LInv

(* What a frame that is sent does to the wires. *)

Wires == [Devices -> Seq(Frames)]

LEMMA BroadcastTyped ==
    ASSUME NEW w \in Wires, NEW s, NEW f \in Frames
    PROVE  /\ Broadcast(w, s, f) \in Wires
           /\ \A e \in Devices :
                  Broadcast(w, s, f)[e] = IF e \in Reached(s) THEN Append(w[e], f) ELSE w[e]
  BY AppendProperties DEF Wires, Broadcast

LEMMA SignalTyped ==
    ASSUME NEW w \in Wires, NEW d \in Devices, NEW f \in Frames
    PROVE  /\ Signal(w, d, f) \in Wires
           /\ \A e \in Devices : path[e] # "up" => Signal(w, d, f)[e] = w[e]
  BY BroadcastTyped DEF Signal, Reached

LEMMA SignalsAreFrames ==
    ASSUME NEW t \in Signals, NEW f \in Froms PROVE [type |-> t, from |-> f] \in Frames
  BY DEF Frames

LEMMA FreshTyped == ASSUME NEW f \in Froms PROVE Fresh(f) \in Links
  BY DEF Fresh, Links

LEMMA HandledTyped ==
    ASSUME NEW l \in Links, NEW f \in Froms
    PROVE  /\ HelloHandled(l, f) \in Links
           /\ OfferHandled(l, f) \in Links
           /\ AnswerHandled(l, f) \in Links
<1>1. HelloHandled(l, f) \in Links
  BY DEF HelloHandled, Links
<1>2. OfferHandled(l, f) \in Links
  BY DEF OfferHandled, Links
<1>3. AnswerHandled(l, f) \in Links
  BY DEF AnswerHandled, Links
<1> QED BY <1>1, <1>2, <1>3

LEMMA RestTyped ==
    ASSUME Typed, NEW d \in Devices, wire[d] # <<>>
    PROVE  /\ Rest(d) \in Wires
           /\ \A e \in Devices : Rest(d)[e] = IF e = d THEN Tail(wire[d]) ELSE wire[e]
           /\ Head(wire[d]) \in Frames
  BY HeadTailProperties DEF Typed, Rest, Wires

\* A step of frames and links: sockets, timers and paths stay as they are, no
\* device that is down gets a link, and none whose path does not work a frame.
Quietly ==
    /\ UNCHANGED <<ended, timer, dials, path, room, sockets>>
    /\ faults' \in faults .. MaxFaults
    /\ link' \in [Devices -> Links \cup {NoLink}]
    /\ transport' \in [Devices -> {"p2p", "relay"}]
    /\ wire' \in Wires
    /\ \A e \in Devices : link'[e] # NoLink => link[e] # NoLink \/ ended[e] = "no"
    /\ \A e \in Devices : wire[e] = <<>> /\ path[e] # "up" => wire'[e] = <<>>

LEMMA QuietlyKeeps == ASSUME LInv, Quietly PROVE LInv'
<1> USE DEF LInv, Quietly
<1>1. faults \in 0 .. MaxFaults /\ faults' \in 0 .. MaxFaults /\ faults <= faults'
  BY PeerAssumption DEF Typed
<1>2. Typed'
  BY <1>1 DEF Typed, Wires
<1>3. SocketsOK'
  BY DEF SocketsOK
<1>4. Dialled'
  <2> SUFFICES ASSUME NEW d \in Devices PROVE dials[d] + Due(d) <= faults' + 1
    BY DEF Dialled, Due
  <2>1. dials[d] \in Nat /\ Due(d) \in Int
    BY DEF Typed, Due
  <2> QED BY <1>1, <2>1 DEF Dialled
<1>5. Down'
  BY DEF Down, HasLink
<1> QED BY <1>2, <1>3, <1>4, <1>5

LEMMA ArmKeeps ==
    ASSUME LInv, NEW d \in Devices, ended[d] = "no", NEW w \in Wires, Arm(d, w),
           \A e \in Devices : wire[e] = <<>> /\ path[e] # "up" => w[e] = <<>>,
           UNCHANGED <<ended, timer, dials, path, room, sockets, faults>>
    PROVE  Quietly
<1>1. PICK f \in Froms :
          /\ link' = [link EXCEPT ![d] = Fresh(f)]
          /\ transport' = [transport EXCEPT ![d] = Closed(d)]
          /\ wire' = Signal(w, d, [type |-> "rtc-hello", from |-> f])
  BY DEF Arm
<1>2. wire' \in Wires /\ \A e \in Devices : path[e] # "up" => wire'[e] = w[e]
  BY <1>1, SignalsAreFrames, SignalTyped DEF Signals
<1>3. faults' \in faults .. MaxFaults
  BY PeerAssumption DEF LInv, Typed
<1> QED BY <1>1, <1>2, <1>3, FreshTyped DEF Closed, Quietly, LInv, Typed

LEMMA FrameKeeps == ASSUME LInv, NEW d \in Devices, HandleFrame(d) PROVE Quietly
<1>1. wire[d] # <<>>
  BY DEF HandleFrame, OnHello, OnPeerJoined, OnPeerLeft, OnRtcHello, OnOffer, OnAnswer,
         OnSignal, Arrives
<1>2. /\ ended[d] = "no"
      /\ UNCHANGED <<ended, timer, dials, path, room, sockets, faults>>
  BY <1>1 DEF LInv, Down, HandleFrame, OnHello, OnPeerJoined, OnPeerLeft, OnRtcHello, OnOffer,
              OnAnswer, OnSignal
<1>3. /\ Rest(d) \in Wires
      /\ \A e \in Devices : wire[e] = <<>> => Rest(d)[e] = <<>>
      /\ Head(wire[d]) \in Frames
  BY <1>1, RestTyped DEF LInv
<1>4. faults' \in faults .. MaxFaults
  BY <1>2, PeerAssumption DEF LInv, Typed
<1>5. CASE Arm(d, Rest(d))
  BY <1>2, <1>3, <1>5, ArmKeeps
<1>6. CASE wire' = Rest(d) /\ (Teardown(d) \/ UNCHANGED <<link, transport>>)
  BY <1>2, <1>3, <1>4, <1>6 DEF Quietly, Teardown, LInv, Typed
<1>7. ASSUME NEW t \in Signals, NEW l, OnSignal(d, t, l), link[d] # NoLink => l \in Links
      PROVE  Quietly
  <2>1. link' \in [Devices -> Links \cup {NoLink}]
    BY <1>7 DEF OnSignal, LInv, Typed
  <2> QED BY <1>2, <1>3, <1>4, <1>7, <2>1 DEF Quietly, OnSignal, LInv, Typed
<1>8. ASSUME NEW t \in Signals, Arrives(d, t) PROVE Sender(d) \in Froms
  BY <1>3, <1>8 DEF Arrives, Sender, Frames, Signals, Presence
<1>9. CASE OnRtcHello(d)
  <2>1. link[d] # NoLink => HelloHandled(link[d], Sender(d)) \in Links
    BY <1>8, <1>9, HandledTyped DEF OnRtcHello, OnSignal, LInv, Typed, Signals
  <2> QED BY <1>7, <1>9, <2>1 DEF OnRtcHello, Signals
<1>10. CASE OnOffer(d)
  <2>1. link[d] # NoLink => OfferHandled(link[d], Sender(d)) \in Links
    BY <1>8, <1>10, HandledTyped DEF OnOffer, OnSignal, LInv, Typed, Signals
  <2> QED BY <1>7, <1>10, <2>1 DEF OnOffer, Signals
<1>11. CASE OnAnswer(d)
  <2>1. link[d] # NoLink => AnswerHandled(link[d], Sender(d)) \in Links
    BY <1>8, <1>11, HandledTyped DEF OnAnswer, OnSignal, LInv, Typed, Signals
  <2> QED BY <1>7, <1>11, <2>1 DEF OnAnswer, Signals
<1> QED BY <1>5, <1>6, <1>9, <1>10, <1>11 DEF HandleFrame, OnHello, OnPeerJoined, OnPeerLeft

LEMMA ConnectionKeeps == ASSUME LInv, NEW d \in Devices, Connection(d) PROVE Quietly
<1>1. /\ HasLink(d)
      /\ UNCHANGED <<ended, timer, dials, path, room, sockets, faults>>
  BY DEF Connection, NegotiationNeeded, OfferMade, AnswerMade, Steps, ChannelOpens, Paired,
         PcFails, ChannelCloses, Severed
<1>2. faults' \in faults .. MaxFaults /\ link[d] \in Links /\ link[d].from \in Froms
  BY <1>1, PeerAssumption DEF LInv, Typed, HasLink, Links
<1>3. ASSUME NEW to \in {"making", "offered", "done"}, NEW w \in Wires,
             \A e \in Devices : path[e] # "up" => w[e] = wire[e],
             link' = [link EXCEPT ![d].step = to], wire' = w, UNCHANGED transport
      PROVE  Quietly
  BY <1>1, <1>2, <1>3 DEF Quietly, LInv, Typed, HasLink, Links
<1>4. wire \in Wires
  BY DEF LInv, Typed, Wires
<1>5. ASSUME NEW t \in Signals
      PROVE  LET w == Signal(wire, d, [type |-> t, from |-> link[d].from]) IN
             w \in Wires /\ \A e \in Devices : path[e] # "up" => w[e] = wire[e]
  BY <1>2, <1>4, SignalsAreFrames, SignalTyped
<1>6. CASE NegotiationNeeded(d)
  BY <1>3, <1>4, <1>6 DEF NegotiationNeeded, Steps
<1>7. CASE OfferMade(d)
  BY <1>3, <1>5, <1>7 DEF OfferMade, Steps, Signals
<1>8. CASE AnswerMade(d)
  BY <1>3, <1>5, <1>8 DEF AnswerMade, Steps, Signals
<1>9. CASE ChannelOpens(d)
  BY <1>1, <1>2, <1>4, <1>9 DEF ChannelOpens, Quietly, LInv, Typed, HasLink, Links
<1>10. CASE PcFails(d)
  BY <1>1, <1>2, <1>4, <1>10 DEF PcFails, FireClose, Closed, Quietly, LInv, Typed, HasLink, Links
<1>11. CASE ChannelCloses(d)
  BY <1>1, <1>2, <1>4, <1>11 DEF ChannelCloses, FireClose, Closed, Quietly, LInv, Typed, HasLink, Links
<1> QED BY <1>6, <1>7, <1>8, <1>9, <1>10, <1>11 DEF Connection

LEMMA LinkBreaksKeeps ==
    ASSUME LInv, NEW d \in Devices, NEW e \in Devices, LinkBreaks(d, e) PROVE Quietly
<1>1. HasLink(d) /\ HasLink(e)
  BY DEF LinkBreaks, Paired
<1>2. faults' \in faults .. MaxFaults
  BY PeerAssumption DEF LinkBreaks, LInv, Typed
<1>3. link' \in [Devices -> Links \cup {NoLink}]
  <2>1. link[d] \in Links /\ link[e] \in Links /\ d # e
    BY <1>1 DEF LinkBreaks, Paired, LInv, Typed, HasLink
  <2>2. [link[d] EXCEPT !.dead = TRUE] \in Links /\ [link[e] EXCEPT !.dead = TRUE] \in Links
    BY <2>1 DEF Links
  <2>3. link' = [link EXCEPT ![d] = [link[d] EXCEPT !.dead = TRUE],
                             ![e] = [link[e] EXCEPT !.dead = TRUE]]
    BY <2>1 DEF LinkBreaks, LInv, Typed
  <2> HIDE DEF Links
  <2> QED BY <2>2, <2>3 DEF LInv, Typed
<1>4. \A x \in Devices : link'[x] # NoLink => link[x] # NoLink
  BY <1>1 DEF LinkBreaks, HasLink, LInv, Typed
<1> QED BY <1>2, <1>3, <1>4 DEF LinkBreaks, Quietly, LInv, Typed, Wires

LEMMA PcFlickersKeeps == ASSUME LInv, NEW d \in Devices, PcFlickers(d) PROVE Quietly
<1>1. HasLink(d) /\ link[d] \in Links
  BY DEF PcFlickers, LInv, Typed, HasLink
<1>2. faults' \in faults .. MaxFaults
  BY PeerAssumption DEF PcFlickers, LInv, Typed
<1>3. link' = [link EXCEPT ![d] = [link[d] EXCEPT !.closed = TRUE]] /\ transport' \in [Devices -> {"p2p", "relay"}]
  BY DEF PcFlickers, FireClose, Closed, LInv, Typed
<1>4. [link[d] EXCEPT !.closed = TRUE] \in Links
  BY <1>1 DEF Links
<1>5. link' \in [Devices -> Links \cup {NoLink}] /\ \A e \in Devices : link'[e] # NoLink => link[e] # NoLink
  BY <1>1, <1>3, <1>4 DEF LInv, Typed, HasLink
<1> QED BY <1>2, <1>3, <1>5 DEF PcFlickers, Quietly, LInv, Typed, Wires

(* The steps of the socket. *)

LEMMA OpenKeeps == ASSUME LInv, NEW d \in Devices, OpenSocket(d) PROVE LInv'
<1> USE DEF LInv, OpenSocket
<1>0. dials' \in [Devices -> Nat] /\ path' \in [Devices -> {"none", "up", "cut", "expired"}]
  <2>1. dials \in [Devices -> Nat] /\ path \in [Devices -> {"none", "up", "cut", "expired"}]
    BY DEF Typed
  <2>2. CASE ended[d] = "no"
    <3>1. dials' = [dials EXCEPT ![d] = dials[d] + 1] /\ path' = [path EXCEPT ![d] = "up"]
      BY <2>2
    <3> QED BY ONLY <2>1, <3>1, d \in Devices
  <2>3. CASE ended[d] # "no"
    BY <2>1, <2>3
  <2> QED BY <2>2, <2>3
<1>1. Typed'
  BY <1>0 DEF Typed
<1>2. SocketsOK'
  <2>0. \A e \in Devices : dials[e] \in Nat
    BY DEF Typed
  <2>1. CASE ended[d] = "no"
    <3>1. /\ dials' = [dials EXCEPT ![d] = dials[d] + 1] /\ path' = [path EXCEPT ![d] = "up"]
          /\ sockets' = sockets
      BY <2>1
    <3>2. \A e \in Devices : dials'[e] = IF e = d THEN dials[d] + 1 ELSE dials[e]
      BY <3>1 DEF Typed
    <3>3. \A s \in sockets : s[1] \in Devices /\ s[2] \in Nat
      BY PeerAssumption DEF SocketsOK
    <3>4. \A s \in sockets' : s[2] <= dials'[s[1]]
      BY <2>0, <3>1, <3>2, <3>3 DEF SocketsOK
    <3>5. \A e \in Devices : path'[e] # "none" => dials'[e] >= 1
      BY <2>0, <3>1, <3>2 DEF SocketsOK, Typed
    <3> QED BY <3>1, <3>4, <3>5 DEF SocketsOK
  <2>2. CASE ended[d] # "no"
    BY <2>2 DEF SocketsOK, Typed
  <2> QED BY <2>1, <2>2
<1>3. Dialled'
  <2> SUFFICES ASSUME NEW e \in Devices PROVE dials'[e] + Due(e)' <= faults + 1
    BY DEF Dialled
  <2>1. dials[e] \in Nat /\ dials[e] + Due(e) <= faults + 1 /\ faults \in Int
    BY DEF Typed, Dialled
  <2>2. CASE e = d
    BY <2>1, <2>2 DEF Due, Typed
  <2>3. CASE e # d
    BY <2>1, <2>3 DEF Due, Typed
  <2> QED BY <2>2, <2>3
<1>4. Down'
  BY DEF Down, HasLink, Typed
<1> QED BY <1>1, <1>2, <1>3, <1>4

LEMMA JoinKeeps == ASSUME LInv, NEW d \in Devices, Join(d) PROVE LInv'
<1> USE DEF LInv
<1>1. path[d] = "up" /\ ended[d] = "no" /\ UNCHANGED <<ended, timer, link, transport, dials, room, faults>>
  BY DEF Join, Down
<1>2. CASE room
  <2> DEFINE n == Cardinality(sockets) + 1
             f == [type |-> "peer-joined", n |-> n]
             g == [type |-> "hello", n |-> n]
  <2>1. n \in Nat
    BY FS_CardinalityType DEF SocketsOK
  <2>2. f \in Frames /\ g \in Frames
    BY <2>1 DEF Frames, Presence
  <2>3. /\ sockets' = sockets \cup {Last(d)}
        /\ wire' = [Broadcast(wire, Last(d), f) EXCEPT ![d] = <<g>>]
        /\ path' = path
    BY <1>2 DEF Join
  <2> HIDE DEF f, g, n
  <2>4. /\ Broadcast(wire, Last(d), f) \in Wires
        /\ \A e \in Devices : path[e] # "up" => Broadcast(wire, Last(d), f)[e] = wire[e]
    <3>1. wire \in Wires
      BY DEF Typed, Wires
    <3>2. \A e \in Devices : path[e] # "up" => e \notin Reached(Last(d))
      BY DEF Reached
    <3> QED BY <2>2, <3>1, <3>2, BroadcastTyped
  <2>5. wire' \in Wires
    BY <2>2, <2>3, <2>4 DEF Wires
  <2>6. \A e \in Devices : path[e] # "up" => wire'[e] = wire[e]
    BY <1>1, <2>3, <2>4 DEF Wires
  <2>7. Typed'
    BY <1>1, <2>3, <2>5 DEF Typed, Wires
  <2>8. SocketsOK'
    <3>1. dials[d] \in 1 .. MaxFaults + 1
      <4>1. dials[d] >= 1 /\ dials[d] \in Nat /\ dials[d] + Due(d) <= faults + 1
        BY <1>1 DEF SocketsOK, Dialled, Typed
      <4> QED BY <4>1, PeerAssumption DEF Due, Typed
    <3>2. sockets' \subseteq Devices \X (1 .. MaxFaults + 1)
      BY <2>3, <3>1 DEF SocketsOK, Last
    <3>3. IsFiniteSet(sockets')
      BY <2>3, FS_AddElement DEF SocketsOK
    <3>4. \A s \in sockets' : s[2] <= dials[s[1]]
      BY <2>3, <3>1 DEF SocketsOK, Last
    <3> QED BY <1>1, <2>3, <3>2, <3>3, <3>4 DEF SocketsOK
  <2>9. Dialled'
    BY <1>1, <2>3 DEF Dialled, Due
  <2>10. Down'
    BY <1>1, <2>3, <2>6 DEF Down, HasLink
  <2> QED BY <2>7, <2>8, <2>9, <2>10
<1>3. CASE ~room
  <2>1. path' = [path EXCEPT ![d] = "expired"] /\ sockets' = sockets /\ wire' = wire
    BY <1>3 DEF Join
  <2> QED BY <1>1, <2>1 DEF Typed, SocketsOK, Dialled, Due, Down, HasLink
<1> QED BY <1>2, <1>3

LEMMA CloseKeeps == ASSUME LInv, NEW d \in Devices, HandleClose(d) PROVE LInv'
<1> USE DEF LInv, HandleClose, Teardown
<1>1. Typed'
  BY DEF Typed
<1>2. SocketsOK'
  BY DEF SocketsOK, Typed
<1>3. Dialled'
  <2> SUFFICES ASSUME NEW e \in Devices PROVE dials'[e] + Due(e)' <= faults + 1
    BY DEF Dialled
  <2>1. dials[e] \in Nat /\ dials[e] + Due(e) <= faults + 1 /\ faults \in Int
    BY DEF Typed, Dialled
  <2>2. CASE e = d
    BY <2>1, <2>2 DEF Due, Typed
  <2>3. CASE e # d
    BY <2>1, <2>3 DEF Due, Typed
  <2> QED BY <2>2, <2>3
<1>4. Down'
  BY DEF Down, HasLink, Typed
<1> QED BY <1>1, <1>2, <1>3, <1>4

LEMMA RelayClosesKeeps ==
    ASSUME LInv, NEW d \in Devices, NEW k \in Nat, RelayCloses(d, k) PROVE LInv'
<1> USE DEF LInv
<1> DEFINE f == [type |-> "peer-left", n |-> Cardinality(sockets) - 1]
<1>1. /\ <<d, k>> \in sockets /\ sockets' = sockets \ {<<d, k>>}
      /\ wire' = Broadcast(wire, <<d, k>>, f)
      /\ UNCHANGED <<ended, timer, link, transport, dials, path, room, faults>>
  BY DEF RelayCloses
<1>2. f \in Frames
  <2>1. Cardinality(sockets \ {<<d, k>>}) = Cardinality(sockets) - 1
        /\ IsFiniteSet(sockets \ {<<d, k>>})
    BY <1>1, FS_RemoveElement DEF SocketsOK
  <2>2. Cardinality(sockets) - 1 \in Nat
    BY <2>1, FS_CardinalityType
  <2> QED BY <2>2 DEF Frames, Presence
<1> HIDE DEF f
<1>3. /\ wire' \in Wires
      /\ \A e \in Devices : path[e] # "up" => wire'[e] = wire[e]
  <2>1. wire \in Wires
    BY DEF Typed, Wires
  <2>2. \A e \in Devices : path[e] # "up" => e \notin Reached(<<d, k>>)
    BY DEF Reached
  <2> QED BY <1>1, <1>2, <2>1, <2>2, BroadcastTyped
<1>4. Typed' /\ Dialled'
  BY <1>1, <1>3 DEF Typed, Wires, Dialled, Due
<1>5. SocketsOK'
  BY <1>1, FS_RemoveElement DEF SocketsOK
<1>6. Down'
  BY <1>1, <1>3 DEF Down, HasLink
<1> QED BY <1>4, <1>5, <1>6

LEMMA CutKeeps == ASSUME LInv, NEW d \in Devices, Cut(d) PROVE LInv'
<1> USE DEF LInv, Cut
<1>1. Typed'
  BY EmptySeq, PeerAssumption DEF Typed
<1>2. SocketsOK'
  BY DEF SocketsOK, Typed
<1>3. Dialled'
  <2> SUFFICES ASSUME NEW e \in Devices PROVE dials'[e] + Due(e)' <= faults' + 1
    BY DEF Dialled
  <2>1. dials[e] \in Nat /\ dials[e] + Due(e) <= faults + 1 /\ faults \in Int
    BY DEF Typed, Dialled
  <2>2. CASE e = d
    BY <2>1, <2>2 DEF Due, Typed
  <2>3. CASE e # d
    BY <2>1, <2>3 DEF Due, Typed
  <2> QED BY <2>2, <2>3
<1>4. Down'
  BY DEF Down, HasLink, Typed
<1> QED BY <1>1, <1>2, <1>3, <1>4

LEMMA DisconnectKeeps == ASSUME LInv, NEW d \in Devices, Disconnect(d) PROVE LInv'
<1> USE DEF LInv, Disconnect, Closed
<1>1. Typed'
  BY EmptySeq DEF Typed
<1>2. SocketsOK'
  BY DEF SocketsOK, Typed
<1>3. Dialled'
  <2> SUFFICES ASSUME NEW e \in Devices PROVE dials'[e] + Due(e)' <= faults + 1
    BY DEF Dialled
  <2>1. dials[e] \in Nat /\ dials[e] + Due(e) <= faults + 1 /\ faults \in Int
    BY DEF Typed, Dialled
  <2>2. CASE e = d
    BY <2>1, <2>2 DEF Due, Typed
  <2>3. CASE e # d
    BY <2>1, <2>3 DEF Due, Typed
  <2> QED BY <2>2, <2>3
<1>4. Down'
  BY DEF Down, HasLink, Typed
<1> QED BY <1>1, <1>2, <1>3, <1>4

LEMMA ExpiresKeeps == ASSUME LInv, RoomExpires PROVE LInv'
<1> USE DEF LInv, RoomExpires
<1>1. Typed'
  BY DEF Typed
<1>2. SocketsOK'
  BY FS_EmptySet DEF SocketsOK, Typed
<1>3. Dialled'
  BY DEF Dialled, Due, Typed
<1>4. Down'
  BY DEF Down, HasLink, Typed
<1> QED BY <1>1, <1>2, <1>3, <1>4

LEMMA NextKeeps == ASSUME LInv, [Next]_vars PROVE LInv'
<1>1. CASE \E d \in Devices : HandleFrame(d) \/ Connection(d)
  BY <1>1, FrameKeeps, ConnectionKeeps, QuietlyKeeps
<1>2. CASE \E d, e \in Devices : LinkBreaks(d, e)
  BY <1>2, LinkBreaksKeeps, QuietlyKeeps
<1>3. CASE \E d \in Devices : Socket(d)
  <2>1. PICK d \in Devices : Socket(d)
    BY <1>3
  <2>2. \A k \in 1 .. dials[d] : k \in Nat
    BY DEF LInv, Typed
  <2> QED BY <2>1, <2>2, OpenKeeps, JoinKeeps, CloseKeeps, RelayClosesKeeps DEF Socket
<1>4. CASE \E d \in Devices : Cut(d) \/ PcFlickers(d) \/ Disconnect(d)
  BY <1>4, CutKeeps, PcFlickersKeeps, QuietlyKeeps, DisconnectKeeps
<1>5. CASE RoomExpires
  BY <1>5, ExpiresKeeps
<1>6. CASE UNCHANGED vars
  BY <1>6 DEF vars, LInv, Typed, SocketsOK, Dialled, Due, Down, HasLink
<1> QED BY <1>1, <1>2, <1>3, <1>4, <1>5, <1>6 DEF Next

THEOREM LinksInductive == Spec => []LInv
<1>1. LInv /\ [Next]_vars => LInv'
  BY NextKeeps
<1> QED BY <1>1, InitOK, PTL DEF Spec

\* Types, for any number of devices, identities and faults: no device dials more
\* often than paths break (client.ts openSocket, handleClose).
THEOREM TypeCorrect == Spec => []TypeOK
<1>1. LInv => TypeOK
  <2> SUFFICES ASSUME LInv PROVE TypeOK
    OBVIOUS
  <2>1. \A d \in Devices : dials[d] \in 0 .. MaxFaults + 1
    <3> SUFFICES ASSUME NEW d \in Devices PROVE dials[d] \in 0 .. MaxFaults + 1
      OBVIOUS
    <3>1. dials[d] \in Nat /\ dials[d] + Due(d) <= faults + 1 /\ faults <= MaxFaults /\ faults \in Nat
      BY PeerAssumption DEF LInv, Typed, Dialled
    <3> QED BY <3>1, PeerAssumption DEF Due
  <2>2. \A d \in Devices : \A k \in DOMAIN wire[d] : wire[d][k] \in Frames
    BY ElementOfSeq, LenProperties DEF LInv, Typed
  <2>3. dials \in [Devices -> 0 .. MaxFaults + 1]
    BY <2>1 DEF LInv, Typed
  <2> QED BY <2>2, <2>3 DEF LInv, Typed, SocketsOK, TypeOK
<1> QED BY <1>1, LinksInductive, PTL

\* disconnect() and a terminal close code are final for any number of devices,
\* whatever timers, frames and close events are still to come (client.ts
\* openSocket, handleClose, disconnect).
THEOREM EndIsFinal == Spec => []EndedStaysDown
<1>1. LInv => EndedStaysDown
  BY DEF LInv, Down, EndedStaysDown
<1> QED BY <1>1, LinksInductive, PTL

-----------------------------------------------------------------------------
(* Any number of devices: what the relay's counts make of a device's link.   *)
(* N is the number of sockets, h whether the device has a link, and w the    *)
(* frames on the way to it.                                                  *)

Linking(f) == f.type \in {"hello", "peer-joined"} /\ f.n >= 2
Alone(f) == f.type = "peer-left" /\ f.n < 2

\* The last frame that settles whether there is to be a link agrees with N; if
\* none is on the way, the device does.
Settled(w, h, N) ==
    /\ \A j \in DOMAIN w :
          (\A i \in DOMAIN w : i > j => ~Linking(w[i]) /\ ~Alone(w[i])) =>
              (Linking(w[j]) => N >= 2) /\ (Alone(w[j]) => N < 2)
    /\ (\A j \in DOMAIN w : ~Linking(w[j]) /\ ~Alone(w[j])) => (h <=> N >= 2)

\* A hello comes first, and finds no link.
Greeted(w, h) == \A j \in DOMAIN w : w[j].type = "hello" => j = 1 /\ ~h

Counts(d) ==
    /\ timer[d] => path[d] = "none"
    /\ path[d] = "none" => ~HasLink(d)
    /\ path[d] = "up" /\ ~Present(d) => ~HasLink(d) /\ wire[d] = <<>>
    /\ Greeted(wire[d], HasLink(d))
    /\ Present(d) => Settled(wire[d], HasLink(d), Cardinality(sockets))

\* What a user is told of a link.
Shown(d) ==
    transport[d] = "p2p" /\ ended[d] = "no" =>
        /\ HasLink(d)
        /\ IF link[d].closed THEN link[d].late ELSE link[d].chan \in {"made", "open"}

Company == \A d \in Devices : Counts(d) /\ Shown(d)

LEMMA Appended ==
    ASSUME NEW w \in Seq(Frames), NEW f \in Frames
    PROVE  /\ Len(w) \in Nat /\ DOMAIN w = 1 .. Len(w)
           /\ DOMAIN Append(w, f) = 1 .. Len(w) + 1
           /\ Append(w, f)[Len(w) + 1] = f
           /\ \A j \in DOMAIN w : Append(w, f)[j] = w[j]
  BY AppendProperties, LenProperties

\* A frame that settles nothing, while N stays on its side of two.
LEMMA SettledPass ==
    ASSUME NEW w \in Seq(Frames), NEW f \in Frames, NEW h \in BOOLEAN, NEW N \in Nat, NEW M \in Nat,
           ~Linking(f), ~Alone(f), Settled(w, h, N), N >= 2 <=> M >= 2
    PROVE  Settled(Append(w, f), h, M)
<1> DEFINE v == Append(w, f)
<1>1. /\ Len(w) \in Nat /\ DOMAIN w = 1 .. Len(w) /\ DOMAIN v = 1 .. Len(w) + 1
      /\ v[Len(w) + 1] = f /\ \A j \in DOMAIN w : v[j] = w[j]
  BY Appended
<1> HIDE DEF v
<1>2. ASSUME NEW j \in DOMAIN v, \A i \in DOMAIN v : i > j => ~Linking(v[i]) /\ ~Alone(v[i])
      PROVE  (Linking(v[j]) => M >= 2) /\ (Alone(v[j]) => M < 2)
  <2>1. CASE j = Len(w) + 1
    BY <1>1, <2>1
  <2>2. CASE j # Len(w) + 1
    <3>1. j \in DOMAIN w
      BY <1>1, <2>2
    <3>2. \A i \in DOMAIN w : i > j => ~Linking(w[i]) /\ ~Alone(w[i])
      BY <1>1, <1>2
    <3>3. (Linking(w[j]) => N >= 2) /\ (Alone(w[j]) => N < 2)
      BY <3>1, <3>2 DEF Settled
    <3> QED BY <1>1, <3>1, <3>3
  <2> QED BY <2>1, <2>2
<1>3. ASSUME \A j \in DOMAIN v : ~Linking(v[j]) /\ ~Alone(v[j]) PROVE h <=> M >= 2
  <2>1. \A j \in DOMAIN w : ~Linking(w[j]) /\ ~Alone(w[j])
    BY <1>1, <1>3
  <2> QED BY <2>1 DEF Settled
<1> QED BY <1>2, <1>3 DEF Settled, v

\* A frame that settles it.
LEMMA SettledSays ==
    ASSUME NEW w \in Seq(Frames), NEW f \in Frames, NEW h \in BOOLEAN, NEW N \in Nat,
           Linking(f) \/ Alone(f), Linking(f) => N >= 2, Alone(f) => N < 2
    PROVE  Settled(Append(w, f), h, N)
<1> DEFINE v == Append(w, f)
<1>1. /\ Len(w) \in Nat /\ DOMAIN v = 1 .. Len(w) + 1 /\ v[Len(w) + 1] = f
  BY Appended
<1> HIDE DEF v
<1>2. Len(w) + 1 \in DOMAIN v
  BY <1>1
<1>3. ASSUME NEW j \in DOMAIN v, \A i \in DOMAIN v : i > j => ~Linking(v[i]) /\ ~Alone(v[i])
      PROVE  j = Len(w) + 1
  <2>1. CASE j < Len(w) + 1
    BY <1>1, <1>2, <1>3, <2>1
  <2> QED BY <1>1, <2>1
<1> QED BY <1>1, <1>2, <1>3 DEF Settled, v

\* The first frame is handled, and the device has a link or not as it says.
LEMMA SettledTail ==
    ASSUME NEW w \in Seq(Frames), w # <<>>, NEW h \in BOOLEAN, NEW g \in BOOLEAN, NEW N \in Nat,
           Settled(w, h, N),
           Linking(Head(w)) => g, Alone(Head(w)) => ~g,
           ~Linking(Head(w)) /\ ~Alone(Head(w)) => (g <=> h)
    PROVE  Settled(Tail(w), g, N)
<1> DEFINE v == Tail(w)
<1>1. /\ Len(w) \in Nat \ {0} /\ DOMAIN w = 1 .. Len(w) /\ DOMAIN v = 1 .. Len(w) - 1
      /\ w[1] = Head(w) /\ \A j \in DOMAIN v : v[j] = w[j + 1]
  BY HeadTailProperties, LenProperties, EmptySeq
<1> HIDE DEF v
<1>2. \A j \in DOMAIN v : j + 1 \in DOMAIN w /\ v[j] = w[j + 1]
  BY <1>1
<1>3. \A i \in DOMAIN w : i > 1 => i - 1 \in DOMAIN v /\ v[i - 1] = w[i]
  BY <1>1
<1>4. ASSUME NEW j \in DOMAIN v, \A i \in DOMAIN v : i > j => ~Linking(v[i]) /\ ~Alone(v[i])
      PROVE  (Linking(v[j]) => N >= 2) /\ (Alone(v[j]) => N < 2)
  <2>1. \A i \in DOMAIN w : i > j + 1 => ~Linking(w[i]) /\ ~Alone(w[i])
    <3> SUFFICES ASSUME NEW i \in DOMAIN w, i > j + 1 PROVE ~Linking(w[i]) /\ ~Alone(w[i])
      OBVIOUS
    <3>1. i \in Nat /\ j \in Nat /\ i > 1 /\ i - 1 > j
      BY <1>1
    <3> QED BY <1>3, <1>4, <3>1
  <2> QED BY <1>2, <2>1 DEF Settled
<1>5. ASSUME \A j \in DOMAIN v : ~Linking(v[j]) /\ ~Alone(v[j]) PROVE g <=> N >= 2
  <2>1. \A i \in DOMAIN w : i > 1 => ~Linking(w[i]) /\ ~Alone(w[i])
    BY <1>3, <1>5
  <2>2. 1 \in DOMAIN w
    BY <1>1
  <2>3. (Linking(w[1]) => N >= 2) /\ (Alone(w[1]) => N < 2)
    BY <2>1, <2>2 DEF Settled
  <2>4. CASE Linking(w[1]) \/ Alone(w[1])
    BY <1>1, <2>3, <2>4
  <2>5. CASE ~Linking(w[1]) /\ ~Alone(w[1])
    <3>1. \A j \in DOMAIN w : ~Linking(w[j]) /\ ~Alone(w[j])
      BY <1>1, <2>1, <2>5
    <3> QED BY <1>1, <2>5, <3>1 DEF Settled
  <2> QED BY <2>4, <2>5
<1> QED BY <1>4, <1>5 DEF Settled, v

LEMMA GreetedAppend ==
    ASSUME NEW w \in Seq(Frames), NEW f \in Frames, NEW h \in BOOLEAN,
           Greeted(w, h), f.type # "hello"
    PROVE  Greeted(Append(w, f), h)
<1>1. /\ DOMAIN Append(w, f) = 1 .. Len(w) + 1 /\ DOMAIN w = 1 .. Len(w) /\ Len(w) \in Nat
      /\ Append(w, f)[Len(w) + 1] = f /\ \A j \in DOMAIN w : Append(w, f)[j] = w[j]
  BY Appended
<1> QED BY <1>1 DEF Greeted

\* What is left once a hello could have come has none.
LEMMA GreetedTail ==
    ASSUME NEW w \in Seq(Frames), w # <<>>, NEW h \in BOOLEAN, Greeted(w, h)
    PROVE  \A g \in BOOLEAN : Greeted(Tail(w), g)
<1>1. /\ Len(w) \in Nat \ {0} /\ DOMAIN w = 1 .. Len(w) /\ DOMAIN Tail(w) = 1 .. Len(w) - 1
      /\ \A j \in DOMAIN Tail(w) : Tail(w)[j] = w[j + 1]
  BY HeadTailProperties, LenProperties, EmptySeq
<1>2. ASSUME NEW j \in DOMAIN Tail(w) PROVE Tail(w)[j].type # "hello"
  <2>1. j + 1 \in DOMAIN w /\ j + 1 # 1 /\ Tail(w)[j] = w[j + 1]
    BY <1>1
  <2> QED BY <2>1 DEF Greeted
<1> QED BY <1>2 DEF Greeted

(* A step in which the room stays as it is. *)

Still == UNCHANGED <<timer, dials, path, sockets>>

LEMMA Counted == LInv => Cardinality(sockets) \in Nat
  BY FS_CardinalityType DEF LInv, SocketsOK

LEMMA LinksAreLinks == ASSUME NEW l \in Links PROVE l # NoLink
  BY PeerAssumption

\* e is at most sent a signal.
Overhears(e) ==
    \/ wire'[e] = wire[e]
    \/ Present(e) /\ \E f \in Frames : f.type \in Signals /\ wire'[e] = Append(wire[e], f)

LEMMA OthersCount ==
    ASSUME LInv, NEW e \in Devices, Counts(e), Still, HasLink(e)' <=> HasLink(e), Overhears(e)
    PROVE  Counts(e)'
<1>1. Present(e)' <=> Present(e)
  BY DEF Still, Present, Last
<1>2. HasLink(e) = HasLink(e)'
  BY DEF HasLink
<1>3. CASE wire'[e] = wire[e]
  <2>1. Greeted(wire'[e], HasLink(e)')
    BY <1>2, <1>3 DEF Counts
  <2>2. Present(e) => Settled(wire'[e], HasLink(e)', Cardinality(sockets))
    BY <1>2, <1>3 DEF Counts
  <2> QED BY <1>2, <1>1, <1>3, <2>1, <2>2 DEF Counts, Still
<1>4. CASE wire'[e] # wire[e]
  <2>1. PICK f \in Frames : f.type \in Signals /\ wire'[e] = Append(wire[e], f)
    BY <1>4 DEF Overhears
  <2>2. Present(e) /\ wire[e] \in Seq(Frames) /\ HasLink(e) \in BOOLEAN
    BY <1>4 DEF Overhears, LInv, Typed, HasLink
  <2>3. f.type # "hello" /\ ~Linking(f) /\ ~Alone(f)
    BY <2>1 DEF Signals, Linking, Alone
  <2>4. Greeted(wire'[e], HasLink(e)')
    BY <1>2, <2>1, <2>2, <2>3, GreetedAppend DEF Counts
  <2>5. Settled(wire'[e], HasLink(e)', Cardinality(sockets))
    <3>1. Settled(wire[e], HasLink(e), Cardinality(sockets))
      BY <2>2 DEF Counts
    <3>2. \A N \in Nat : N >= 2 <=> N >= 2
      OBVIOUS
    <3>3. Settled(Append(wire[e], f), HasLink(e), Cardinality(sockets))
      BY <2>1, <2>2, <2>3, <3>1, <3>2, Counted, SettledPass
    <3> QED BY <1>2, <2>1, <3>3
  <2> QED BY <1>1, <2>2, <2>4, <2>5 DEF Counts, Still, Present
<1> QED BY <1>3, <1>4

LEMMA HandlerCounts ==
    ASSUME LInv, NEW d \in Devices, Counts(d), Still, wire[d] # <<>>, wire'[d] = Tail(wire[d]),
           Linking(Head(wire[d])) => HasLink(d)', Alone(Head(wire[d])) => ~HasLink(d)',
           ~Linking(Head(wire[d])) /\ ~Alone(Head(wire[d])) => (HasLink(d)' <=> HasLink(d))
    PROVE  Counts(d)'
<1>1. wire[d] \in Seq(Frames) /\ HasLink(d) \in BOOLEAN /\ HasLink(d)' \in BOOLEAN
  BY DEF LInv, Typed, HasLink
<1>2. (Present(d)' <=> Present(d)) /\ path[d] # "none" /\ (path[d] = "up" => Present(d))
  BY DEF Still, Present, Last, LInv, Down, Counts
<1>3. Greeted(wire'[d], HasLink(d)')
  BY <1>1, GreetedTail DEF Counts
<1>4. Present(d) => Settled(wire'[d], HasLink(d)', Cardinality(sockets))
  <2> SUFFICES ASSUME Present(d) PROVE Settled(wire'[d], HasLink(d)', Cardinality(sockets))
    OBVIOUS
  <2>1. Settled(wire[d], HasLink(d), Cardinality(sockets))
    BY DEF Counts
  <2> QED BY <1>1, <2>1, Counted, SettledTail
<1> QED BY <1>2, <1>3, <1>4 DEF Counts, Still

\* A signal reaches only devices in the room, and not the one that sends it.
LEMMA SignalHeard ==
    ASSUME LInv, NEW d \in Devices, NEW w \in Wires, NEW t \in Signals, NEW f \in Froms
    PROVE  LET v == Signal(w, d, [type |-> t, from |-> f]) IN
           /\ v[d] = w[d]
           /\ \A e \in Devices :
                 \/ v[e] = w[e]
                 \/ Present(e) /\ \E g \in Frames : g.type \in Signals /\ v[e] = Append(w[e], g)
<1> DEFINE g == [type |-> t, from |-> f]
<1>1. g \in Frames /\ g.type \in Signals
  BY SignalsAreFrames
<1> HIDE DEF g
<1>2. \A e \in Devices : Signal(w, d, g)[e] = w[e] \/ (e \in Reached(Last(d)) /\ Signal(w, d, g)[e] = Append(w[e], g))
  BY <1>1, BroadcastTyped DEF Signal
<1>3. d \notin Reached(Last(d)) /\ \A e \in Reached(Last(d)) : Present(e)
  BY DEF Reached, Present
<1> QED BY <1>1, <1>2, <1>3 DEF g

LEMMA ArmSteps ==
    ASSUME LInv, NEW d \in Devices, wire[d] # <<>>, Arm(d, Rest(d))
    PROVE  /\ HasLink(d)' /\ wire'[d] = Tail(wire[d]) /\ transport'[d] = Closed(d)
           /\ \A e \in Devices : e # d => link'[e] = link[e] /\ transport'[e] = transport[e] /\ Overhears(e)
<1>1. PICK f \in Froms :
          /\ link' = [link EXCEPT ![d] = Fresh(f)]
          /\ transport' = [transport EXCEPT ![d] = Closed(d)]
          /\ wire' = Signal(Rest(d), d, [type |-> "rtc-hello", from |-> f])
  BY DEF Arm
<1>2. Rest(d) \in Wires /\ \A e \in Devices : Rest(d)[e] = IF e = d THEN Tail(wire[d]) ELSE wire[e]
  BY RestTyped DEF LInv
<1>3. HasLink(d)'
  BY <1>1, FreshTyped, LinksAreLinks DEF HasLink, LInv, Typed
<1>4. /\ wire'[d] = Rest(d)[d]
      /\ \A e \in Devices :
            \/ wire'[e] = Rest(d)[e]
            \/ Present(e) /\ \E g \in Frames : g.type \in Signals /\ wire'[e] = Append(Rest(d)[e], g)
  BY <1>1, <1>2, SignalHeard DEF Signals
<1>5. \A e \in Devices : e # d => Overhears(e)
  BY <1>2, <1>4 DEF Overhears
<1> QED BY <1>1, <1>2, <1>3, <1>4, <1>5 DEF LInv, Typed

LEMMA FrameCounts == ASSUME LInv, Company, NEW d \in Devices, HandleFrame(d) PROVE Company'
<1>1. wire[d] # <<>> /\ Head(wire[d]) \in Frames /\ Still /\ UNCHANGED ended
  BY RestTyped DEF HandleFrame, OnHello, OnPeerJoined, OnPeerLeft, OnRtcHello, OnOffer, OnAnswer,
                   OnSignal, Arrives, Still, LInv
<1>2. /\ wire[d] \in Seq(Frames) /\ DOMAIN wire[d] = 1 .. Len(wire[d]) /\ Len(wire[d]) >= 1
      /\ Head(wire[d]) = wire[d][1] /\ Len(wire[d]) \in Nat
  BY <1>1, HeadTailProperties, LenProperties, EmptySeq DEF LInv, Typed
<1>3. \A e \in Devices : Counts(e) /\ Shown(e)
  BY DEF Company
<1>4. \A e \in Devices : Rest(d)[e] = IF e = d THEN Tail(wire[d]) ELSE wire[e]
  BY <1>1, RestTyped DEF LInv
<1>5. ASSUME \A e \in Devices : e # d => link'[e] = link[e] /\ transport'[e] = transport[e] /\ Overhears(e),
             wire'[d] = Tail(wire[d]), Shown(d)',
             Linking(Head(wire[d])) => HasLink(d)', Alone(Head(wire[d])) => ~HasLink(d)',
             ~Linking(Head(wire[d])) /\ ~Alone(Head(wire[d])) => (HasLink(d)' <=> HasLink(d))
      PROVE  Company'
  <2>1. ASSUME NEW e \in Devices, e # d PROVE Counts(e)' /\ Shown(e)'
    <3>1. HasLink(e)' <=> HasLink(e)
      BY <1>5, <2>1 DEF HasLink
    <3>2. Counts(e)'
      BY <1>1, <1>3, <1>5, <2>1, <3>1, OthersCount
    <3>3. Shown(e)'
      BY <1>1, <1>3, <1>5, <2>1, <3>1 DEF Shown
    <3> QED BY <3>2, <3>3
  <2>2. Counts(d)'
    BY <1>1, <1>3, <1>5, HandlerCounts
  <2> QED BY <1>5, <2>1, <2>2 DEF Company
<1>6. ASSUME Arm(d, Rest(d)), ~HasLink(d), Linking(Head(wire[d])) PROVE Company'
  <2>1. /\ HasLink(d)' /\ wire'[d] = Tail(wire[d]) /\ transport'[d] = Closed(d)
        /\ \A e \in Devices : e # d => link'[e] = link[e] /\ transport'[e] = transport[e] /\ Overhears(e)
    BY <1>1, <1>6, ArmSteps
  <2>2. Shown(d)'
    BY <1>1, <1>3, <1>6, <2>1 DEF Shown, Closed
  <2>3. ~Alone(Head(wire[d]))
    BY <1>6 DEF Linking, Alone
  <2> QED BY <1>5, <1>6, <2>1, <2>2, <2>3
<1>7. ASSUME wire' = Rest(d), UNCHANGED <<link, transport>>,
             Linking(Head(wire[d])) => HasLink(d), Alone(Head(wire[d])) => ~HasLink(d)
      PROVE  Company'
  <2>1. wire'[d] = Tail(wire[d]) /\ \A e \in Devices : e # d => Overhears(e)
    BY <1>4, <1>7 DEF Overhears
  <2>2. (HasLink(d)' <=> HasLink(d)) /\ Shown(d)'
    BY <1>1, <1>3, <1>7 DEF HasLink, Shown
  <2> QED BY <1>5, <1>7, <2>1, <2>2
<1>8. CASE OnHello(d)
  <2>1. Head(wire[d]).type = "hello"
    BY <1>8 DEF OnHello, Arrives
  <2>2. ~HasLink(d)
    BY <1>2, <1>3, <2>1 DEF Counts, Greeted
  <2>3. ~Alone(Head(wire[d])) /\ (Linking(Head(wire[d])) <=> Head(wire[d]).n >= 2)
    BY <2>1 DEF Alone, Linking
  <2> QED BY <1>6, <1>7, <1>8, <2>2, <2>3 DEF OnHello
<1>9. CASE OnPeerJoined(d)
  <2>1. Head(wire[d]).type = "peer-joined"
    BY <1>9 DEF OnPeerJoined, Arrives
  <2>2. ~Alone(Head(wire[d])) /\ (Linking(Head(wire[d])) <=> Head(wire[d]).n >= 2)
    BY <2>1 DEF Alone, Linking
  <2> QED BY <1>6, <1>7, <1>9, <2>2 DEF OnPeerJoined
<1>10. CASE OnPeerLeft(d)
  <2>1. Head(wire[d]).type = "peer-left"
    BY <1>10 DEF OnPeerLeft, Arrives
  <2>2. ~Linking(Head(wire[d])) /\ (Alone(Head(wire[d])) <=> Head(wire[d]).n < 2)
    BY <2>1 DEF Alone, Linking
  <2>3. CASE Head(wire[d]).n < 2
    <3>1. wire' = Rest(d) /\ Teardown(d)
      BY <1>10, <2>3 DEF OnPeerLeft
    <3>2. /\ ~HasLink(d)' /\ transport'[d] = "relay"
          /\ \A e \in Devices : e # d => link'[e] = link[e] /\ transport'[e] = transport[e]
      BY <3>1 DEF Teardown, HasLink, LInv, Typed
    <3>3. wire'[d] = Tail(wire[d]) /\ \A e \in Devices : e # d => Overhears(e)
      BY <1>4, <3>1 DEF Overhears
    <3>4. Shown(d)'
      BY <3>2 DEF Shown
    <3> QED BY <1>5, <2>2, <2>3, <3>2, <3>3, <3>4
  <2>4. CASE ~(Head(wire[d]).n < 2)
    BY <1>7, <1>10, <2>2, <2>4 DEF OnPeerLeft
  <2> QED BY <2>3, <2>4
<1>11. CASE OnRtcHello(d) \/ OnOffer(d) \/ OnAnswer(d)
  <2>1. PICK t \in Signals :
            \/ OnSignal(d, t, HelloHandled(link[d], Sender(d)))
            \/ OnSignal(d, t, OfferHandled(link[d], Sender(d)))
            \/ OnSignal(d, t, AnswerHandled(link[d], Sender(d)))
    BY <1>11 DEF OnRtcHello, OnOffer, OnAnswer, Signals
  <2>2. Head(wire[d]).type \in Signals /\ Sender(d) \in Froms
    BY <1>1, <2>1 DEF OnSignal, Arrives, Sender, Frames, Signals, Presence
  <2>3. ~Linking(Head(wire[d])) /\ ~Alone(Head(wire[d]))
    BY <2>2 DEF Signals, Linking, Alone
  <2>4. CASE ~HasLink(d)
    <3>1. UNCHANGED <<link, transport>> /\ wire' = Rest(d)
      BY <2>1, <2>4 DEF OnSignal, HasLink, LInv, Typed
    <3> QED BY <1>7, <2>3, <3>1
  <2>5. CASE HasLink(d)
    <3>1. link[d] \in Links
      BY <2>5 DEF LInv, Typed, HasLink
    <3>2. PICK k \in Links :
              /\ k \in {HelloHandled(link[d], Sender(d)), OfferHandled(link[d], Sender(d)),
                        AnswerHandled(link[d], Sender(d))}
              /\ OnSignal(d, t, k)
      BY <2>1, <2>2, <3>1, HandledTyped
    <3>3. k.closed = link[d].closed /\ k.late = link[d].late /\ k.chan \in {link[d].chan, "made"}
      BY <3>1, <3>2 DEF HelloHandled, OfferHandled, AnswerHandled, Links
    <3>4. /\ wire' = Rest(d) /\ transport' = transport /\ link'[d] = k
          /\ \A e \in Devices : e # d => link'[e] = link[e]
      BY <2>5, <3>2 DEF OnSignal, HasLink, LInv, Typed
    <3>5. HasLink(d)' /\ wire'[d] = Tail(wire[d]) /\ \A e \in Devices : e # d => Overhears(e)
      BY <1>4, <3>2, <3>4, LinksAreLinks DEF Overhears, HasLink
    <3>6. Shown(d)'
      BY <1>1, <1>3, <3>3, <3>4, <3>5 DEF Shown
    <3> QED BY <1>5, <2>3, <2>5, <3>4, <3>5, <3>6
  <2> QED BY <2>4, <2>5
<1> QED BY <1>8, <1>9, <1>10, <1>11 DEF HandleFrame

\* A step of the connection of d, which tells at most the others.
LEMMA ConnectionCounts == ASSUME LInv, Company, NEW d \in Devices, Connection(d) PROVE Company'
<1>1. HasLink(d) /\ Still /\ UNCHANGED ended
  BY DEF Connection, NegotiationNeeded, OfferMade, AnswerMade, Steps, ChannelOpens, Paired,
         PcFails, ChannelCloses, Severed, Still
<1>2. link[d] \in Links /\ link[d].from \in Froms /\ wire \in Wires
  BY <1>1 DEF LInv, Typed, HasLink, Links, Wires
<1>3. \A e \in Devices : Counts(e) /\ Shown(e)
  BY DEF Company
<1>4. ASSUME NEW k \in Links, link' = [link EXCEPT ![d] = k],
             \A e \in Devices : e # d => transport'[e] = transport[e],
             \A e \in Devices : Overhears(e),
             transport'[d] = "p2p" /\ ended[d] = "no" =>
                 IF k.closed THEN k.late ELSE k.chan \in {"made", "open"}
      PROVE  Company'
  <2>1. link'[d] = k /\ HasLink(d)' /\ \A e \in Devices : e # d => link'[e] = link[e]
    BY <1>4, LinksAreLinks DEF HasLink, LInv, Typed
  <2>2. \A e \in Devices : HasLink(e)' <=> HasLink(e)
    BY <1>1, <2>1 DEF HasLink
  <2>3. \A e \in Devices : Counts(e)'
    BY <1>1, <1>3, <1>4, <2>2, OthersCount
  <2>4. \A e \in Devices : Shown(e)'
    BY <1>1, <1>3, <1>4, <2>1, <2>2 DEF Shown
  <2> QED BY <2>3, <2>4 DEF Company
<1>5. ASSUME NEW t \in Signals, wire' = Signal(wire, d, [type |-> t, from |-> link[d].from])
      PROVE  \A e \in Devices : Overhears(e)
  BY <1>2, <1>5, SignalHeard DEF Overhears
<1>6. wire' = wire => \A e \in Devices : Overhears(e)
  BY DEF Overhears
<1>7. CASE NegotiationNeeded(d) \/ OfferMade(d) \/ AnswerMade(d)
  <2>1. PICK to \in {"making", "offered", "done"} :
            link' = [link EXCEPT ![d].step = to] /\ transport' = transport
    BY <1>7 DEF NegotiationNeeded, OfferMade, AnswerMade, Steps
  <2>2. \A e \in Devices : Overhears(e)
    BY <1>5, <1>6, <1>7 DEF NegotiationNeeded, OfferMade, AnswerMade, Steps, Signals
  <2> PICK k : k = [link[d] EXCEPT !.step = to]
    OBVIOUS
  <2>3. k \in Links /\ k.closed = link[d].closed /\ k.late = link[d].late /\ k.chan = link[d].chan
    BY <1>2 DEF Links
  <2>4. link' = [link EXCEPT ![d] = k]
    BY <2>1 DEF LInv, Typed
  <2> QED BY <1>3, <1>4, <2>1, <2>2, <2>3, <2>4 DEF Shown
<1>8. CASE ChannelOpens(d)
  <2> PICK k : k = [link[d] EXCEPT !.chan = "open", !.late = link[d].closed]
    OBVIOUS
  <2>1. k \in Links /\ k.closed = link[d].closed /\ k.late = link[d].closed /\ k.chan = "open"
    BY <1>2 DEF Links
  <2>2. link' = [link EXCEPT ![d] = k]
    BY <1>8 DEF ChannelOpens, LInv, Typed
  <2>3. wire' = wire /\ \A e \in Devices : e # d => transport'[e] = transport[e]
    BY <1>8 DEF ChannelOpens, LInv, Typed
  <2> QED BY <1>4, <1>6, <2>1, <2>2, <2>3
<1>9. CASE PcFails(d)
  <2> PICK k : k = [link[d] EXCEPT !.closed = TRUE]
    OBVIOUS
  <2>1. k \in Links
    BY <1>2 DEF Links
  <2>2. link' = [link EXCEPT ![d] = k] /\ wire' = wire
    BY <1>9 DEF PcFails, FireClose
  <2>3. transport'[d] = "relay" /\ \A e \in Devices : e # d => transport'[e] = transport[e]
    BY <1>1, <1>9 DEF PcFails, FireClose, Closed, LInv, Typed
  <2> QED BY <1>4, <1>6, <2>1, <2>2, <2>3
<1>10. CASE ChannelCloses(d)
  <2> PICK k : k = [[link[d] EXCEPT !.chan = "closed"] EXCEPT !.closed = TRUE]
    OBVIOUS
  <2>1. k \in Links /\ k.closed /\ k.late = link[d].late
    BY <1>2 DEF Links
  <2>2. link' = [link EXCEPT ![d] = k] /\ wire' = wire
    BY <1>10 DEF ChannelCloses, FireClose
  <2>3. transport'[d] = Closed(d) /\ \A e \in Devices : e # d => transport'[e] = transport[e]
    BY <1>10 DEF ChannelCloses, FireClose, LInv, Typed
  <2>4. transport'[d] = "p2p" /\ ended[d] = "no" => k.late
    BY <1>1, <1>3, <2>1, <2>3 DEF Closed, Shown
  <2> QED BY <1>4, <1>6, <2>1, <2>2, <2>3, <2>4
<1> QED BY <1>7, <1>8, <1>9, <1>10 DEF Connection

LEMMA FlickersCounts == ASSUME LInv, Company, NEW d \in Devices, PcFlickers(d) PROVE Company'
<1>1. HasLink(d) /\ link[d] \in Links /\ Still /\ UNCHANGED <<ended, wire>>
  BY DEF PcFlickers, Still, LInv, Typed, HasLink
<1> PICK k : k = [link[d] EXCEPT !.closed = TRUE]
  OBVIOUS
<1>2. k \in Links
  BY <1>1 DEF Links
<1>3. /\ link'[d] = k /\ transport'[d] = "relay"
      /\ \A e \in Devices : e # d => link'[e] = link[e] /\ transport'[e] = transport[e]
  BY <1>1 DEF PcFlickers, FireClose, Closed, LInv, Typed
<1>4. \A e \in Devices : (HasLink(e)' <=> HasLink(e)) /\ Overhears(e)
  BY <1>1, <1>2, <1>3, LinksAreLinks DEF HasLink, Overhears
<1>5. \A e \in Devices : Counts(e)'
  BY <1>1, <1>4, OthersCount DEF Company
<1>6. \A e \in Devices : Shown(e)'
  BY <1>1, <1>3, <1>4 DEF Shown, Company
<1> QED BY <1>5, <1>6 DEF Company

LEMMA BreakCounts ==
    ASSUME LInv, Company, NEW d \in Devices, NEW e \in Devices, LinkBreaks(d, e) PROVE Company'
<1>1. Still /\ UNCHANGED <<ended, wire, transport>> /\ d # e /\ HasLink(d) /\ HasLink(e)
  BY DEF LinkBreaks, Still, Paired
<1>2. link[d] \in Links /\ link[e] \in Links
  BY <1>1 DEF LInv, Typed, HasLink
<1> PICK k, l : k = [link[d] EXCEPT !.dead = TRUE] /\ l = [link[e] EXCEPT !.dead = TRUE]
  OBVIOUS
<1>3. /\ k \in Links /\ k.closed = link[d].closed /\ k.late = link[d].late /\ k.chan = link[d].chan
      /\ l \in Links /\ l.closed = link[e].closed /\ l.late = link[e].late /\ l.chan = link[e].chan
  BY <1>2 DEF Links
<1>4. link'[d] = k /\ link'[e] = l /\ \A x \in Devices : x # d /\ x # e => link'[x] = link[x]
  BY <1>1 DEF LinkBreaks, LInv, Typed
<1>5. \A x \in Devices : (HasLink(x)' <=> HasLink(x)) /\ Overhears(x)
  BY <1>1, <1>3, <1>4, LinksAreLinks DEF HasLink, Overhears
<1>6. \A x \in Devices : Counts(x)'
  BY <1>1, <1>5, OthersCount DEF Company
<1>7. \A x \in Devices : Shown(x)'
  <2> SUFFICES ASSUME NEW x \in Devices PROVE Shown(x)'
    OBVIOUS
  <2>1. Shown(x)
    BY DEF Company
  <2>2. CASE x = d
    BY <1>1, <1>3, <1>4, <1>5, <2>1, <2>2 DEF Shown
  <2>3. CASE x = e
    BY <1>1, <1>3, <1>4, <1>5, <2>1, <2>3 DEF Shown
  <2>4. CASE x # d /\ x # e
    BY <1>1, <1>4, <1>5, <2>1, <2>4 DEF Shown
  <2> QED BY <2>2, <2>3, <2>4
<1> QED BY <1>6, <1>7 DEF Company

(* A step in which the room or a socket changes. *)

\* A device whose socket, link and frames stay as they are, beside sockets that come
\* and go without being heard of.
LEMMA AbsentCounts ==
    ASSUME LInv, NEW e \in Devices, Counts(e), ~Present(e), ~Present(e)',
           timer'[e] = timer[e], path'[e] = path[e], link'[e] = link[e], wire'[e] = wire[e]
    PROVE  Counts(e)'
  BY DEF Counts, HasLink

\* A device that leaves, or is not yet back.
LEMMA GoneCounts ==
    ASSUME NEW e \in Devices, ~Present(e)', ~HasLink(e)', wire'[e] = <<>>,
           timer'[e] => path'[e] = "none"
    PROVE  Counts(e)'
<1>1. DOMAIN wire'[e] = {}
  BY LenProperties, EmptySeq
<1> QED BY <1>1 DEF Counts, Greeted

\* Everybody else, while the room stays as it is.
LEMMA ElseCounts ==
    ASSUME LInv, NEW e \in Devices, Counts(e), timer'[e] = timer[e], path'[e] = path[e],
           link'[e] = link[e], wire'[e] = wire[e], dials'[e] = dials[e], sockets' = sockets
    PROVE  Counts(e)'
<1>1. Present(e)' = Present(e)
  BY DEF Present, Last
<1> QED BY <1>1 DEF Counts, HasLink

LEMMA OpenCounts == ASSUME LInv, Company, NEW d \in Devices, OpenSocket(d) PROVE Company'
<1>1. timer[d] /\ path[d] = "none" /\ ~HasLink(d) /\ wire[d] = <<>>
  BY DEF OpenSocket, Company, Counts, LInv, Down
<1>2. /\ UNCHANGED <<ended, link, transport, wire, sockets>>
      /\ ~timer'[d]
      /\ \A e \in Devices : e # d => timer'[e] = timer[e] /\ path'[e] = path[e] /\ dials'[e] = dials[e]
  BY DEF OpenSocket, LInv, Typed
<1>3. ~Present(d)'
  <2>1. CASE ended[d] = "no"
    <3>1. dials'[d] = dials[d] + 1 /\ dials[d] \in Nat
      BY <2>1 DEF OpenSocket, LInv, Typed
    <3>2. <<d, dials[d] + 1>> \notin sockets
      <4> SUFFICES ASSUME <<d, dials[d] + 1>> \in sockets PROVE FALSE
        OBVIOUS
      <4> PICK s : s = <<d, dials[d] + 1>> /\ s[1] = d /\ s[2] = dials[d] + 1
        OBVIOUS
      <4>1. s[2] <= dials[s[1]]
        BY DEF LInv, SocketsOK
      <4> QED BY <3>1, <4>1
    <3> QED BY <1>2, <3>1, <3>2 DEF Present, Last
  <2>2. CASE ended[d] # "no"
    BY <1>1, <2>2 DEF OpenSocket, Present
  <2> QED BY <2>1, <2>2
<1>4. Counts(d)'
  BY <1>1, <1>2, <1>3, GoneCounts DEF HasLink
<1>5. \A e \in Devices : e # d => Counts(e)'
  BY <1>2, ElseCounts DEF Company
<1>6. \A e \in Devices : Shown(e)'
  BY <1>2 DEF Company, Shown, HasLink
<1> QED BY <1>4, <1>5, <1>6 DEF Company

LEMMA JoinCounts == ASSUME LInv, Company, NEW d \in Devices, Join(d) PROVE Company'
<1>1. /\ path[d] = "up" /\ Last(d) \notin sockets /\ ~Present(d)
      /\ UNCHANGED <<ended, timer, link, transport, dials>>
  BY DEF Join, Present
<1>2. ~HasLink(d) /\ wire[d] = <<>> /\ ~timer[d]
  BY <1>1 DEF Company, Counts
<1>3. \A e \in Devices : Shown(e)'
  BY <1>1 DEF Company, Shown, HasLink
<1>4. CASE ~room
  <2>1. /\ sockets' = sockets /\ wire' = wire /\ path'[d] = "expired"
        /\ \A e \in Devices : e # d => path'[e] = path[e]
    BY <1>4 DEF Join, LInv, Typed
  <2>2. Counts(d)'
    BY <1>1, <1>2, <2>1, GoneCounts DEF Present, HasLink
  <2>3. \A e \in Devices : e # d => Counts(e)'
    BY <1>1, <2>1, ElseCounts DEF Company
  <2> QED BY <1>3, <2>2, <2>3 DEF Company
<1>5. CASE room
  <2> PICK n : n = Cardinality(sockets) + 1
    OBVIOUS
  <2> PICK f, g : f = [type |-> "peer-joined", n |-> n] /\ g = [type |-> "hello", n |-> n]
    OBVIOUS
  <2>1. n \in Nat /\ n >= 1 /\ f \in Frames /\ g \in Frames
    BY Counted DEF Frames, Presence
  <2>2. /\ sockets' = sockets \cup {Last(d)} /\ path' = path
        /\ wire' = [Broadcast(wire, Last(d), f) EXCEPT ![d] = <<g>>]
    BY <1>5 DEF Join
  <2>3. Cardinality(sockets') = n
    BY <1>1, <2>2, FS_AddElement DEF LInv, SocketsOK
  <2>4. wire \in Wires
    BY DEF LInv, Typed, Wires
  <2>5. /\ wire'[d] = <<g>>
        /\ \A e \in Devices : e # d =>
              wire'[e] = IF e \in Reached(Last(d)) THEN Append(wire[e], f) ELSE wire[e]
    BY <2>1, <2>2, <2>4, BroadcastTyped DEF Wires
  <2>6. Counts(d)'
    <3>1. DOMAIN <<g>> = {1} /\ <<g>>[1] = g
      OBVIOUS
    <3>2. Greeted(<<g>>, FALSE)
      BY <3>1 DEF Greeted
    <3>3. (Linking(g) <=> n >= 2) /\ ~Alone(g)
      BY <2>1 DEF Linking, Alone
    <3>4. Settled(<<g>>, FALSE, n)
      BY <3>1, <3>3 DEF Settled
    <3>5. HasLink(d)' = FALSE
      BY <1>1, <1>2 DEF HasLink
    <3>6. Present(d)' /\ path'[d] = "up" /\ ~timer'[d]
      BY <1>1, <1>2, <2>2 DEF Present, Last
    <3> QED BY <2>3, <2>5, <3>2, <3>4, <3>5, <3>6 DEF Counts
  <2>7. ASSUME NEW e \in Devices, e # d PROVE Counts(e)'
    <3>1. /\ Last(e) # Last(d) /\ (Present(e)' <=> Present(e))
          /\ e \in Reached(Last(d)) <=> Present(e)
      BY <1>1, <2>2, <2>7 DEF Present, Last, Reached
    <3>2. CASE ~Present(e)
      BY <1>1, <2>2, <2>5, <2>7, <3>1, <3>2, AbsentCounts DEF Company
    <3>3. CASE Present(e)
      <4>1. wire'[e] = Append(wire[e], f) /\ wire[e] \in Seq(Frames)
        BY <2>5, <2>7, <3>1, <3>3 DEF LInv, Typed
      <4>2. n >= 2
        <5>1. sockets # {} /\ IsFiniteSet(sockets)
          BY <3>3 DEF Present, LInv, SocketsOK
        <5>2. Cardinality(sockets) # 0 /\ Cardinality(sockets) \in Nat
          BY <5>1, FS_EmptySet, FS_CardinalityType
        <5> QED BY <5>2
      <4>3. Linking(f) /\ ~Alone(f) /\ f.type # "hello"
        BY <4>2 DEF Linking, Alone
      <4>4. HasLink(e)' = HasLink(e) /\ HasLink(e) \in BOOLEAN
        BY <1>1 DEF HasLink
      <4>5. Settled(wire'[e], HasLink(e)', n)
        BY <2>1, <4>1, <4>2, <4>3, <4>4, SettledSays
      <4>6. Greeted(wire'[e], HasLink(e)')
        BY <2>1, <4>1, <4>3, <4>4, GreetedAppend DEF Company, Counts
      <4> QED BY <1>1, <2>2, <2>3, <3>1, <3>3, <4>4, <4>5, <4>6 DEF Company, Counts, Present
    <3> QED BY <3>2, <3>3
  <2> QED BY <1>3, <2>6, <2>7 DEF Company
<1> QED BY <1>4, <1>5

LEMMA RelayClosesCounts ==
    ASSUME LInv, Company, NEW d \in Devices, NEW k \in Nat, RelayCloses(d, k) PROVE Company'
<1> PICK s : s = <<d, k>>
  OBVIOUS
<1> PICK n : n = Cardinality(sockets) - 1
  OBVIOUS
<1> PICK f : f = [type |-> "peer-left", n |-> n]
  OBVIOUS
<1>1. /\ s \in sockets /\ sockets' = sockets \ {s} /\ wire' = Broadcast(wire, s, f)
      /\ UNCHANGED <<ended, timer, link, transport, dials, path>>
  BY DEF RelayCloses
<1>2. n \in Nat /\ n = Cardinality(sockets') /\ Cardinality(sockets) = n + 1
  <2>1. IsFiniteSet(sockets) /\ IsFiniteSet(sockets')
    BY <1>1, FS_RemoveElement DEF LInv, SocketsOK
  <2>2. Cardinality(sockets') = Cardinality(sockets) - 1
    BY <1>1, <2>1, FS_RemoveElement
  <2> QED BY <2>1, <2>2, FS_CardinalityType
<1>3. f \in Frames /\ wire \in Wires
  BY <1>2 DEF Frames, Presence, LInv, Typed, Wires
<1>4. \A e \in Devices : wire'[e] = IF e \in Reached(s) THEN Append(wire[e], f) ELSE wire[e]
  BY <1>1, <1>3, BroadcastTyped
<1>5. \A e \in Devices : Shown(e)'
  BY <1>1 DEF Company, Shown, HasLink
<1>6. ASSUME NEW e \in Devices PROVE Counts(e)'
  <2>1. Present(e) => Last(e) # s
    BY DEF Present, Last, RelayCloses
  <2>2. (Present(e)' <=> Present(e)) /\ (e \in Reached(s) <=> Present(e))
    BY <1>1, <2>1 DEF Present, Last, Reached
  <2>3. CASE ~Present(e)
    BY <1>1, <1>4, <2>2, <2>3, AbsentCounts DEF Company
  <2>4. CASE Present(e)
    <3>1. wire'[e] = Append(wire[e], f) /\ wire[e] \in Seq(Frames)
      BY <1>4, <2>2, <2>4 DEF LInv, Typed
    <3>2. HasLink(e)' = HasLink(e) /\ HasLink(e) \in BOOLEAN
      BY <1>1 DEF HasLink
    <3>3. ~Linking(f) /\ (Alone(f) <=> n < 2) /\ f.type # "hello"
      BY DEF Linking, Alone
    <3>4. Settled(wire'[e], HasLink(e)', n)
      <4>1. CASE n < 2
        BY <1>2, <1>3, <3>1, <3>2, <3>3, <4>1, SettledSays
      <4>2. CASE ~(n < 2)
        <5>1. n >= 2 /\ n + 1 >= 2 /\ n + 1 \in Nat
          BY <1>2, <4>2
        <5>2. Settled(wire[e], HasLink(e), n + 1)
          BY <1>2, <2>4 DEF Company, Counts
        <5> QED BY <1>2, <1>3, <3>1, <3>2, <3>3, <4>2, <5>1, <5>2, SettledPass
      <4> QED BY <4>1, <4>2
    <3>5. Greeted(wire'[e], HasLink(e)')
      BY <1>3, <3>1, <3>2, <3>3, GreetedAppend DEF Company, Counts
    <3> QED BY <1>1, <1>2, <2>2, <2>4, <3>2, <3>4, <3>5 DEF Company, Counts, Present
  <2> QED BY <2>3, <2>4
<1> QED BY <1>5, <1>6 DEF Company

\* The client's end of a socket closes, or breaks, or is closed by disconnect().
LEMMA LeavesCounts ==
    ASSUME LInv, Company, NEW d \in Devices, HandleClose(d) \/ Cut(d) \/ Disconnect(d)
    PROVE  Company'
<1>1. /\ sockets' = sockets /\ dials' = dials /\ wire'[d] = <<>> /\ path'[d] # "up"
      /\ \A e \in Devices : e # d =>
            /\ timer'[e] = timer[e] /\ path'[e] = path[e] /\ link'[e] = link[e] /\ wire'[e] = wire[e]
            /\ ended'[e] = ended[e] /\ transport'[e] = transport[e]
  BY DEF HandleClose, Cut, Disconnect, Teardown, LInv, Typed
<1>2. ~Present(d)'
  BY <1>1 DEF Present
<1>3. Counts(d)'
  <2>1. DOMAIN wire'[d] = {}
    BY <1>1, LenProperties, EmptySeq
  <2>2. timer'[d] => path'[d] = "none"
    BY DEF HandleClose, Cut, Disconnect, LInv, Typed, Company, Counts
  <2>3. path'[d] = "none" => ~HasLink(d)'
    BY DEF HandleClose, Cut, Disconnect, Teardown, HasLink, LInv, Typed
  <2> QED BY <1>1, <1>2, <2>1, <2>2, <2>3 DEF Counts, Greeted
<1>4. Shown(d)'
  <2>1. CASE HandleClose(d)
    BY <2>1 DEF HandleClose, Teardown, Shown, LInv, Typed
  <2>2. CASE Cut(d)
    BY <2>2 DEF Cut, Shown, HasLink, Company
  <2>3. CASE Disconnect(d)
    BY <2>3 DEF Disconnect, Shown, LInv, Typed
  <2> QED BY <2>1, <2>2, <2>3
<1>5. ASSUME NEW e \in Devices, e # d PROVE Counts(e)' /\ Shown(e)'
  <2>1. Counts(e)'
    BY <1>1, <1>5, ElseCounts DEF Company
  <2> QED BY <1>1, <1>5, <2>1 DEF Company, Shown, HasLink
<1> QED BY <1>3, <1>4, <1>5 DEF Company

LEMMA ExpiresCounts == ASSUME LInv, Company, RoomExpires PROVE Company'
<1>1. /\ sockets' = {} /\ UNCHANGED <<ended, timer, link, transport, dials, wire>>
      /\ \A e \in Devices : path'[e] = IF Present(e) THEN "expired" ELSE path[e]
  BY DEF RoomExpires, Present
<1>2. ASSUME NEW e \in Devices PROVE Counts(e)'
  <2>1. ~Present(e)' /\ HasLink(e)' = HasLink(e)
    BY <1>1 DEF Present, HasLink
  <2>2. Present(e) => path[e] = "up"
    BY DEF Present
  <2> QED BY <1>1, <2>1, <2>2 DEF Company, Counts
<1>3. \A e \in Devices : Shown(e)'
  BY <1>1 DEF Company, Shown, HasLink
<1> QED BY <1>2, <1>3 DEF Company

LEMMA CompanyInit == Init => Company
<1> SUFFICES ASSUME Init, NEW d \in Devices PROVE Counts(d) /\ Shown(d)
  BY DEF Company
<1>1. timer[d] /\ ~HasLink(d) /\ path[d] = "none" /\ wire[d] = <<>> /\ transport[d] = "relay"
  BY DEF Init, HasLink
<1>2. DOMAIN wire[d] = {}
  BY <1>1, LenProperties, EmptySeq
<1> QED BY <1>1, <1>2 DEF Counts, Greeted, Present, Shown

LEMMA CompanyStep == ASSUME LInv, Company, [Next]_vars PROVE Company'
<1>1. CASE \E d \in Devices : HandleFrame(d) \/ Connection(d)
  BY <1>1, FrameCounts, ConnectionCounts
<1>2. CASE \E d \in Devices : Socket(d)
  <2>1. \A d \in Devices : \A k \in 1 .. dials[d] : k \in Nat
    BY DEF LInv, Typed
  <2> QED BY <1>2, <2>1, OpenCounts, JoinCounts, LeavesCounts, RelayClosesCounts DEF Socket
<1>3. CASE \E d \in Devices : Cut(d) \/ PcFlickers(d) \/ Disconnect(d)
  BY <1>3, LeavesCounts, FlickersCounts
<1>4. CASE \E d, e \in Devices : LinkBreaks(d, e)
  BY <1>4, BreakCounts
<1>5. CASE RoomExpires
  BY <1>5, ExpiresCounts
<1>6. CASE UNCHANGED vars
  <2>1. \A e \in Devices : Counts(e)' /\ Shown(e)'
    BY <1>6, ElseCounts DEF Company, vars, Shown, HasLink
  <2> QED BY <2>1 DEF Company
<1> QED BY <1>1, <1>2, <1>3, <1>4, <1>5, <1>6 DEF Next

THEOREM CompanyInductive == Spec => []Company
<1>1. LInv /\ Company /\ [Next]_vars => Company'
  BY CompanyStep
<1> QED BY <1>1, CompanyInit, LinksInductive, PTL DEF Spec

\* For any number of devices and faults, redials beside ghosts among them: a device
\* that has handled all it was sent has a link exactly if the relay counts another
\* socket (client.ts handleFrame hello, peer-joined and peer-left; ws-handlers.ts
\* onOpen and onClose).
THEOREM LinkedIffCounted == Spec => []LinkIffCompany
<1>1. Company => LinkIffCompany
  <2> SUFFICES ASSUME Company, NEW d \in Devices, Present(d), wire[d] = <<>>
               PROVE  HasLink(d) <=> Cardinality(sockets) >= 2
    BY DEF LinkIffCompany
  <2>1. DOMAIN wire[d] = {}
    BY LenProperties, EmptySeq
  <2>2. Settled(wire[d], HasLink(d), Cardinality(sockets))
    BY DEF Company, Counts
  <2> QED BY <2>1, <2>2 DEF Settled
<1> QED BY <1>1, CompanyInductive, PTL

\* For any number of devices and faults, moments of "disconnected" among them: who
\* goes on shows a direct connection only with an open channel whose onClose is
\* still to come, unless the channel opened after onClose; and no link outlives its
\* socket (client.ts setTransport, armPeer and teardownPeer; peer-link.ts fireClose).
THEOREM DirectIsOpen == Spec => []DirectMeansOpen
<1>1. Company => DirectMeansOpen
  BY DEF Company, Counts, Shown, DirectMeansOpen
<1> QED BY <1>1, CompanyInductive, PTL
=============================================================================

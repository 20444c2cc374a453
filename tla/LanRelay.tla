------------------------------ MODULE LanRelay ------------------------------
(***************************************************************************)
(* A room on a local network: the relay embedded in a host's command line  *)
(* client (startLanRelay, apps/cli/src/lan-relay.ts), the sockets of the   *)
(* devices, and the PresenceManager of each, driven as client.ts drives    *)
(* it.  This relay keeps no history; it limits the sockets, and the frames *)
(* of a socket in a sliding window, beyond which it drops them silently.   *)
(*                                                                         *)
(* A frame is its type and the device it is about.  The relay forwards in  *)
(* the step that sends; `wire` is on the way to a device.  A path breaks   *)
(* before anybody notices, and a device may be back while the relay still  *)
(* has its earlier socket (a ghost).  Other frames than announcements only *)
(* use up the window.  Files have a window of their own, which they cannot *)
(* share with anything here.  Time is in units in which everything that    *)
(* can be handled is handled; noticing a broken path may take any time.    *)
(***************************************************************************)
EXTENDS Presence, Window

CONSTANTS
    maxPeers, frameLimit, frameWindowMs,
    MaxEvents       \* bound on the paths that break and the frames of users:
                    \* clips, deletes, renaming

ASSUME RelayAssumption ==
    /\ maxPeers \in Nat \ {0} /\ frameLimit \in Nat \ {0} /\ frameWindowMs \in Nat
    /\ MaxEvents \in Nat

Frame == [type : {"hello", "peer-joined", "peer-left", "presence"}, of : Devices]

VARIABLES
    ws,         \* the device has a socket that is open for all it knows
    net,        \* the path of that socket works
    ended,      \* disconnect() was called
    wire,
    sockets,    \* devices whose current socket is in the Set
    ghosts,     \* devices that also have an earlier one there
    typeHits,   \* ages of the frames of a device's socket in the window
    events,     \* so far
    lossy       \* an announcement has been dropped

socketVars == <<ws, net, ended>>
relayVars  == <<wire, sockets, ghosts, typeHits>>
countVars  == <<events, lossy>>
vars == <<presenceVars, socketVars, relayVars, countVars>>

Event == events < MaxEvents /\ events' = events + 1

-----------------------------------------------------------------------------
(* startLanRelay. *)

Full == Cardinality(sockets) + Cardinality(ghosts) >= maxPeers

Broadcast(S, f) == [e \in Devices |-> IF e \in S /\ net[e] THEN Append(wire[e], f) ELSE wire[e]]

\* Mutant: the frame that fills the window is let through.
Admitted_OneMore(d) == Len(typeHits[d]) <= frameLimit

\* admit.
Admitted(d) == Len(typeHits[d]) < frameLimit
Admit(d) == typeHits' = [typeHits EXCEPT ![d] = Append(@, 0)]

\* The socket of d is in, greeted, and the others are told.
OnConnection(d) ==
    /\ sockets' = sockets \cup {d}
    /\ ghosts' = IF d \in sockets THEN ghosts \cup {d} ELSE ghosts
    /\ typeHits' = [typeHits EXCEPT ![d] = <<>>]
    /\ wire' = [Broadcast(sockets \ {d}, [type |-> "peer-joined", of |-> d]) EXCEPT
                   ![d] = <<[type |-> "hello", of |-> d]>>]

RelayCloses(d) ==
    /\ \/ d \in ghosts /\ ghosts' = ghosts \ {d} /\ UNCHANGED sockets
       \/ d \in sockets /\ ~net[d] /\ sockets' = sockets \ {d} /\ UNCHANGED ghosts
    /\ wire' = Broadcast(sockets', [type |-> "peer-left", of |-> d])
    /\ UNCHANGED <<presenceVars, socketVars, typeHits, countVars>>

-----------------------------------------------------------------------------
(* The client. *)

\* openSocket, if the relay has room; the earlier socket may still be there.
Connect(d) ==
    /\ ~ws[d] /\ ~ended[d]
    /\ ~Full /\ (d \in sockets => d \notin ghosts)
    /\ ws' = [ws EXCEPT ![d] = TRUE]
    /\ net' = [net EXCEPT ![d] = TRUE]
    /\ OnConnection(d)
    /\ UNCHANGED <<presenceVars, ended, countVars>>

\* The relay is full or cannot be reached: handleClose, and another try later.
ConnectFails(d) ==
    /\ ~ws[d] /\ ~ended[d]
    /\ Stop(d)
    /\ UNCHANGED <<socketVars, relayVars, countVars>>

\* handleClose.
ClientCloses(d) ==
    /\ ws[d] /\ ~net[d]
    /\ ws' = [ws EXCEPT ![d] = FALSE]
    /\ Stop(d)
    /\ UNCHANGED <<net, ended, relayVars, countVars>>

Disconnect(d) ==
    /\ ~ended[d]
    /\ ended' = [ended EXCEPT ![d] = TRUE]
    /\ ws' = [ws EXCEPT ![d] = FALSE]
    /\ net' = [net EXCEPT ![d] = FALSE]
    /\ wire' = [wire EXCEPT ![d] = <<>>]
    /\ Stop(d)
    /\ UNCHANGED <<sockets, ghosts, typeHits, countVars>>

NetFails(d) ==
    /\ net[d]
    /\ Event
    /\ net' = [net EXCEPT ![d] = FALSE]
    /\ wire' = [wire EXCEPT ![d] = <<>>]
    /\ UNCHANGED <<presenceVars, ws, ended, sockets, ghosts, typeHits, lossy>>

\* handleFrame.
HandleFrame(d) ==
    /\ wire[d] # <<>>
    /\ wire' = [wire EXCEPT ![d] = Tail(@)]
    /\ LET f == Head(wire[d]) IN
       \/ f.type = "hello" /\ Start(d)
       \/ f.type = "peer-joined" /\ OnPeerChange(d, FALSE)
       \/ f.type = "peer-left" /\ OnPeerChange(d, TRUE)
       \/ f.type = "presence" /\ HandlePresence(d, f.of)
    /\ UNCHANGED <<socketVars, sockets, ghosts, typeHits, countVars>>

\* announce after its await: into the socket, if there is one, and through the
\* relay, if it is within the window.
Announced(d) ==
    /\ announcing[d] > 0
    /\ announcing' = [announcing EXCEPT ![d] = @ - 1]
    /\ IF ~(ws[d] /\ net[d])
       THEN UNCHANGED <<wire, typeHits, lossy>>
       ELSE IF Admitted(d)
       THEN /\ Admit(d)
            /\ wire' = Broadcast(sockets \ {d}, [type |-> "presence", of |-> d])
            /\ UNCHANGED lossy
       ELSE lossy' = TRUE /\ UNCHANGED <<wire, typeHits>>
    /\ UNCHANGED <<age, stale, heartbeat, sweep, prune, decrypting, socketVars, sockets, ghosts,
                   events>>

PresenceDecrypted(d, e) ==
    /\ Decrypted(d, e)
    /\ UNCHANGED <<socketVars, relayVars, countVars>>

TimerFires(d) ==
    /\ Heartbeat(d) \/ Sweep(d) \/ Prune(d)
    /\ UNCHANGED <<socketVars, relayVars, countVars>>

\* The user sends something else.
Chat(d) ==
    /\ ws[d] /\ net[d]
    /\ Event
    /\ IF Admitted(d) THEN Admit(d) ELSE UNCHANGED typeHits
    /\ UNCHANGED <<presenceVars, socketVars, wire, sockets, ghosts, lossy>>

\* setDeviceName.
Rename(d) ==
    /\ Event
    /\ Announce(d)
    /\ UNCHANGED <<age, stale, heartbeat, sweep, prune, decrypting, socketVars, relayVars, lossy>>

\* Everything that is under way has been handled.
Calm == \A d \in Devices :
    wire[d] = <<>> /\ announcing[d] = 0 /\ \A e \in Devices : decrypting[d][e] = 0

Older(hits) == [k \in DOMAIN hits |-> hits[k] + 1]

\* The hits that the next unit takes out of the window.
Leaving(hits) == {k \in DOMAIN hits : hits[k] >= frameWindowMs}

\* Hits leave the window with time.
Tick ==
    /\ Calm
    /\ Elapse
    /\ typeHits' = [d \in Devices |-> Older(ShiftWhile(typeHits[d], Leaving(typeHits[d])))]
    /\ UNCHANGED <<socketVars, wire, sockets, ghosts, countVars>>

-----------------------------------------------------------------------------
Init ==
    /\ PresenceInit
    /\ ws = [d \in Devices |-> FALSE]
    /\ net = [d \in Devices |-> FALSE]
    /\ ended = [d \in Devices |-> FALSE]
    /\ wire = [d \in Devices |-> <<>>]
    /\ sockets = {} /\ ghosts = {}
    /\ typeHits = [d \in Devices |-> <<>>]
    /\ events = 0 /\ lossy = FALSE

Connection(d) ==
    \/ Connect(d) \/ ConnectFails(d) \/ ClientCloses(d) \/ Disconnect(d)
    \/ NetFails(d) \/ RelayCloses(d)

Client(d) ==
    \/ HandleFrame(d) \/ Announced(d) \/ TimerFires(d) \/ Chat(d) \/ Rename(d)
    \/ \E e \in Devices : PresenceDecrypted(d, e)

Next == Tick \/ \E d \in Devices : Connection(d) \/ Client(d)

Spec == Init /\ [][Next]_vars

\* Time passes, timers fire, crypto and frames make progress, closed sockets are
\* noticed and clients try again.  Users and faults owe nothing.
Fairness ==
    /\ WF_vars(Tick)
    /\ \A d \in Devices :
        /\ WF_vars(Connect(d)) /\ WF_vars(ClientCloses(d)) /\ WF_vars(RelayCloses(d))
        /\ WF_vars(HandleFrame(d)) /\ WF_vars(Announced(d)) /\ WF_vars(TimerFires(d))
        /\ \A e \in Devices : WF_vars(PresenceDecrypted(d, e))

FairSpec == Spec /\ Fairness

-----------------------------------------------------------------------------
(* What should hold. *)

\* The values the variables range over, and the limits of lan-relay.ts.
TypeOK ==
    /\ PresenceTypeOK
    /\ ws \in [Devices -> BOOLEAN] /\ net \in [Devices -> BOOLEAN] /\ ended \in [Devices -> BOOLEAN]
    /\ wire \in [Devices -> Seq(Frame)]
    /\ sockets \subseteq Devices /\ ghosts \subseteq Devices
    /\ Cardinality(sockets) + Cardinality(ghosts) <= maxPeers
    /\ typeHits \in [Devices -> Seq(0 .. frameWindowMs)]
    /\ \A d \in Devices : Len(typeHits[d]) <= frameLimit
    /\ events \in 0 .. MaxEvents /\ lossy \in BOOLEAN

\* d has been greeted on a socket that works.
Here(d) == heartbeat[d] # Off /\ net[d] /\ d \in sockets

\* Nobody is missing: when nothing is under way, any two devices in the room list
\* each other, in whatever order they came, went and came back, and whatever timers
\* fired meanwhile; only an announcement that exceeds the window can change that.
NobodyMissing ==
    Calm /\ ~lossy => \A d, e \in Devices : d # e /\ Here(d) /\ Here(e) => e \in Roster(d)

\* The roster corrects itself: in the end a device lists exactly those that have
\* not left, though announcements were dropped and departures went unnoticed.
RosterSettles ==
    \A d, e \in Devices : d # e => <>[](~ended[d] => (e \in Roster(d) <=> ~ended[e]))
=============================================================================

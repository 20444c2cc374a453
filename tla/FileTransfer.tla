---------------------------- MODULE FileTransfer ----------------------------
(***************************************************************************)
(* One file going from one device to the others in its room:               *)
(* FileTransferManager (packages/client-core/src/file-transfer.ts), the    *)
(* part of UniclipClient that carries its frames (sendFrame, handleClose), *)
(* and the relay's fan-out (broadcast in apps/relay/src/ws-handlers.ts).   *)
(*                                                                         *)
(* A device is a JavaScript program: a handler runs alone up to its next   *)
(* await.  Every await of WebCrypto is therefore a pair of actions, and    *)
(* what waits in between is state here: an offer being encrypted or        *)
(* decrypted, chunks being encrypted or decrypted, a digest being          *)
(* computed.  Frames are not awaited one after another, so the decryptions *)
(* of two chunks may finish in either order.                               *)
(*                                                                         *)
(* Transfers of different files share nothing but the connection, so one   *)
(* file is modelled; its id is a fresh ULID, so it is offered once.  A     *)
(* frame's payload is reduced to its type and its index.  The relay        *)
(* handles a frame the moment it is sent: all delay is in the queues       *)
(* towards the recipients.                                                 *)
(***************************************************************************)
EXTENDS Integers, Sequences, FiniteSets

CONSTANTS
    Receivers,            \* the devices the file is sent to
    Sender,               \* the device that sends it
    NoLink,               \* no WebRTC data channel is open
    ChunkCount,           \* chunks in the file
    ACK_INTERVAL,         \* a receiver acknowledges every so many chunks
    CREDIT_WINDOW,        \* chunks the sender may be ahead of the acknowledgements
    BUFFERED_AMOUNT_MAX,  \* chunks a socket buffers before the relay skips it
    INLINE,               \* a small image, accepted without asking
    PATIENT,              \* STALL_TIMEOUT_MS outlasts every delivery and decryption
    P2P,                  \* the network lets a data channel open
    MaxFaults             \* bound on connection drops and corrupted frames

ASSUME TransferAssumption ==
    /\ Sender \notin Receivers
    /\ NoLink \notin Receivers \cup {Sender}
    /\ ChunkCount \in Nat \ {0}
    /\ ACK_INTERVAL \in Nat \ {0}
    /\ CREDIT_WINDOW \in Nat \ {0}
    /\ BUFFERED_AMOUNT_MAX \in Nat
    /\ INLINE \in BOOLEAN
    /\ PATIENT \in BOOLEAN
    /\ P2P \in BOOLEAN
    /\ MaxFaults \in Nat

Chunks  == 0 .. ChunkCount - 1
Devices == Receivers \cup {Sender}

Frame == [type : {"offer", "accept", "decline", "chunk", "ack", "complete", "cancel"},
          n    : Nat]

Plain(t) == [type |-> t, n |-> 0]
Chunk(i) == [type |-> "chunk", n |-> i]

\* Mutant: an acknowledgement counts chunks instead of naming the last one.
Ack_Counts(u) == [type |-> "ack", n |-> u + 1]

Ack(u) == [type |-> "ack", n |-> u]

VARIABLES
    (* the sender's Outgoing entry and its crypto *)
    offering,     \* "idle", "encrypting" (the offer) or "sent"
    outgoing,     \* the entry is in the map
    nextChunk, ackedUpTo, started, pumping,
    stall,        \* the stall timer is armed
    encrypting,   \* how often chunk i is being encrypted
    sOutcome,     \* how the transfer ended for the sender: the terminal events
    (* each receiver's Incoming entry and its crypto *)
    reserving,    \* its offer is being decrypted
    incoming,     \* the entry is in the map
    accepted, buf, received, upTo,
    decrypting,   \* how often chunk i is being decrypted
    hashing,      \* the assembled file is being hashed
    rOutcome,     \* the terminal events, in order
    (* the connections *)
    online,       \* the device's WebSocket is open
    wire,         \* frames the relay has sent to the device, not yet handled
    link,         \* the receiver the sender has a data channel to, or NoLink
    chan,         \* frames on the data channel towards the device
    faults        \* faults so far

senderVars   == <<offering, outgoing, nextChunk, ackedUpTo, started, pumping,
                  stall, encrypting, sOutcome>>
receiverVars == <<reserving, incoming, accepted, buf, received, upTo,
                  decrypting, hashing, rOutcome>>
netVars      == <<wire, chan>>
connVars     == <<online, link, faults>>
vars         == <<senderVars, receiverVars, netVars, connVars>>

-----------------------------------------------------------------------------
(* Frames: sendFrame, and the relay's broadcast. *)

Linked(d) == link # NoLink /\ d \in {Sender, link}
CanSend(d) == Linked(d) \/ online[d]
LinkPeer(d) == IF d = Sender THEN link ELSE Sender

\* The frames of a transfer that the other role has a handler for.  The rest
\* (a receiver's accept seen by another receiver) find no entry and do nothing.
Handles(e, f) ==
    IF e = Sender THEN f.type \in {"accept", "decline", "ack", "cancel"}
                  ELSE f.type \in {"offer", "chunk", "complete", "cancel"}

Backlogged(q) == Len(SelectSeq(q, LAMBDA f : f.type = "chunk")) > BUFFERED_AMOUNT_MAX

\* The relay hands the frame to every other open socket it can buffer for.
Broadcast(d, f, w) ==
    [e \in Devices |->
        IF e # d /\ online[e] /\ Handles(e, f) /\ ~Backlogged(w[e])
        THEN Append(w[e], f) ELSE w[e]]

\* The queues w and c once d has sent f: on the data channel if it is open,
\* else through the relay, else nowhere.
SentWire(d, f, w) == IF ~Linked(d) /\ online[d] THEN Broadcast(d, f, w) ELSE w
SentChan(d, f, c) == IF Linked(d) THEN [c EXCEPT ![LinkPeer(d)] = Append(@, f)] ELSE c
Transmit(d, f, w, c) == wire' = SentWire(d, f, w) /\ chan' = SentChan(d, f, c)

\* The next frame to reach d over `via`, and the queues without it.
Inbox(d, via) == IF via = "ws" THEN wire[d] ELSE chan[d]
Arrives(d, via, t) == Inbox(d, via) # <<>> /\ Head(Inbox(d, via)).type = t
Arg(d, via) == Head(Inbox(d, via)).n
WireAfter(d, via) == IF via = "ws" THEN [wire EXCEPT ![d] = Tail(@)] ELSE wire
ChanAfter(d, via) == IF via = "ws" THEN chan ELSE [chan EXCEPT ![d] = Tail(@)]
Consume(d, via) == wire' = WireAfter(d, via) /\ chan' = ChanAfter(d, via)

Paths == {"ws", "p2p"}

-----------------------------------------------------------------------------
(* The sender. *)

\* Mutant: the window is one chunk too wide.
WindowOpen_OneMore(next, acked) == next < ChunkCount /\ next - acked - 1 <= CREDIT_WINDOW

WindowOpen(next, acked) == next < ChunkCount /\ next - acked - 1 < CREDIT_WINDOW
Acknowledged(next, acked) == next >= ChunkCount /\ acked >= ChunkCount - 1

\* Mutants: the pump does not look whether it runs already; it is not woken once
\* the last chunk has left, when only the file-complete is to be sent.
MayPump_Again == outgoing /\ started
MayPump_Sending == outgoing /\ started /\ ~pumping /\ nextChunk < ChunkCount

\* pump goes on past its first line.
MayPump == outgoing /\ started /\ ~pumping

\* Mutants: the timer outlives the entry; the entry outlives the transfer.
EndSender_TimerLeft(why) ==
    outgoing' = FALSE /\ sOutcome' = Append(sOutcome, why) /\ UNCHANGED stall
EndSender_EntryLeft(why) ==
    stall' = FALSE /\ sOutcome' = Append(sOutcome, why) /\ UNCHANGED outgoing

\* The outgoing entry goes, with its timer, and the user is told why.
EndSender(why) ==
    /\ outgoing' = FALSE
    /\ stall' = FALSE
    /\ sOutcome' = Append(sOutcome, why)

\* sendFile up to the encryption of the offer.
SendFile ==
    /\ offering = "idle"
    /\ offering' = "encrypting"
    /\ outgoing' = TRUE
    /\ UNCHANGED <<nextChunk, ackedUpTo, started, pumping, stall, encrypting, sOutcome,
                   receiverVars, netVars, connVars>>

\* The rest of sendFile.  Nothing here looks whether the entry is still there.
OfferEncrypted ==
    /\ offering = "encrypting"
    /\ offering' = "sent"
    /\ Transmit(Sender, Plain("offer"), wire, chan)
    /\ IF CanSend(Sender)
       THEN UNCHANGED <<outgoing, stall, sOutcome>>
       ELSE EndSender("error")
    /\ UNCHANGED <<nextChunk, ackedUpTo, started, pumping, encrypting,
                   receiverVars, connVars>>

\* pump from the head of its loop to its next await or its end: the window is at
\* (next, acked), enc is being encrypted already, the timer is armed or not, w and
\* c are the queues.  Encrypt one more chunk, or stop; and stop for good, with a
\* file-complete, once every chunk is acknowledged.
PumpFrom(next, acked, enc, armed, w, c) ==
    IF WindowOpen(next, acked)
    THEN /\ pumping' = TRUE
         /\ encrypting' = [enc EXCEPT ![next] = @ + 1]
         /\ stall' = armed
         /\ wire' = w /\ chan' = c
         /\ UNCHANGED <<outgoing, sOutcome>>
    ELSE /\ pumping' = FALSE
         /\ encrypting' = enc
         /\ IF Acknowledged(next, acked)
            THEN /\ Transmit(Sender, Plain("complete"), w, c)
                 /\ EndSender("complete")
            ELSE /\ wire' = w /\ chan' = c
                 /\ stall' = armed
                 /\ UNCHANGED <<outgoing, sOutcome>>

\* Only the first accept of a live entry starts the stream, and its timer.
OnAccept(via) ==
    /\ Arrives(Sender, via, "accept")
    /\ IF outgoing /\ ~started
       THEN /\ started' = TRUE
            /\ PumpFrom(nextChunk, ackedUpTo, encrypting, TRUE,
                        WireAfter(Sender, via), ChanAfter(Sender, via))
       ELSE /\ Consume(Sender, via)
            /\ UNCHANGED <<started, pumping, encrypting, stall, outgoing, sOutcome>>
    /\ UNCHANGED <<offering, nextChunk, ackedUpTo, receiverVars, connVars>>

\* The window follows the fastest acknowledger; any ack restarts the timer.
\* A pump that is waiting for its encryption will see the new window itself.
OnAck(via) ==
    /\ Arrives(Sender, via, "ack")
    /\ ackedUpTo' = IF outgoing /\ Arg(Sender, via) > ackedUpTo
                    THEN Arg(Sender, via) ELSE ackedUpTo
    /\ IF MayPump
       THEN PumpFrom(nextChunk, ackedUpTo', encrypting, TRUE,
                     WireAfter(Sender, via), ChanAfter(Sender, via))
       ELSE /\ Consume(Sender, via)
            /\ stall' = (stall \/ outgoing)
            /\ UNCHANGED <<pumping, encrypting, outgoing, sOutcome>>
    /\ UNCHANGED <<offering, nextChunk, started, receiverVars, connVars>>

\* A chunk has been encrypted.  If the entry went away meanwhile the pump stops;
\* if nothing can be sent the transfer fails; else the chunk leaves and the loop
\* goes on with the window as it is now.
EncryptDone(i) ==
    /\ encrypting[i] > 0
    /\ LET rest == [encrypting EXCEPT ![i] = @ - 1] IN
       IF outgoing /\ CanSend(Sender)
       THEN /\ nextChunk' = nextChunk + 1
            /\ PumpFrom(nextChunk + 1, ackedUpTo, rest, stall,
                        SentWire(Sender, Chunk(i), wire), SentChan(Sender, Chunk(i), chan))
       ELSE /\ encrypting' = rest
            /\ pumping' = FALSE
            /\ IF outgoing THEN EndSender("error") ELSE UNCHANGED <<outgoing, stall, sOutcome>>
            /\ UNCHANGED <<nextChunk, netVars>>
    /\ UNCHANGED <<offering, ackedUpTo, started, receiverVars, connVars>>

\* The user cancels: possible once sendFile has returned the id.
CancelFile ==
    /\ offering = "sent" /\ outgoing
    /\ EndSender("cancelled")
    /\ Transmit(Sender, Plain("cancel"), wire, chan)
    /\ UNCHANGED <<offering, nextChunk, ackedUpTo, started, pumping, encrypting,
                   receiverVars, connVars>>

\* A receiver cancelled: auth_failed.
OnCancelSender(via) ==
    /\ Arrives(Sender, via, "cancel")
    /\ Consume(Sender, via)
    /\ IF outgoing THEN EndSender("peer_cancel") ELSE UNCHANGED <<outgoing, stall, sOutcome>>
    /\ UNCHANGED <<offering, nextChunk, ackedUpTo, started, pumping, encrypting,
                   receiverVars, connVars>>

\* A decline is ignored: another device may still accept.
OnDecline(via) ==
    /\ Arrives(Sender, via, "decline")
    /\ Consume(Sender, via)
    /\ UNCHANGED <<senderVars, receiverVars, connVars>>

\* Nothing is on its way and no crypto is pending.
Quiet ==
    /\ \A d \in Devices : wire[d] = <<>> /\ chan[d] = <<>>
    /\ \A i \in Chunks : encrypting[i] = 0 /\ \A r \in Receivers : decrypting[r][i] = 0
    /\ \A r \in Receivers : ~reserving[r] /\ ~hashing[r]

\* Mutant: the timer only watches a transfer that still has chunks to send.
Stalled_Sending == stall /\ nextChunk < ChunkCount /\ (PATIENT => Quiet)

\* STALL_TIMEOUT_MS have passed since the last ack.
Stalled == stall /\ (PATIENT => Quiet)

StallFires ==
    /\ Stalled
    /\ Transmit(Sender, Plain("cancel"), wire, chan)
    /\ EndSender("stalled")
    /\ UNCHANGED <<offering, nextChunk, ackedUpTo, started, pumping, encrypting,
                   receiverVars, connVars>>

-----------------------------------------------------------------------------
(* A receiver. *)

EndReceiver(r, why) ==
    /\ incoming' = [incoming EXCEPT ![r] = FALSE]
    /\ rOutcome' = [rOutcome EXCEPT ![r] = Append(@, why)]

\* A second offer of a file already known, or being decrypted, is dropped.
OnOffer(r, via) ==
    /\ Arrives(r, via, "offer")
    /\ Consume(r, via)
    /\ reserving' = IF incoming[r] THEN reserving ELSE [reserving EXCEPT ![r] = TRUE]
    /\ UNCHANGED <<incoming, accepted, buf, received, upTo, decrypting, hashing, rOutcome,
                   senderVars, connVars>>

\* The metadata is readable: a new entry, accepted at once if the file is inline.
OfferDecrypted(r) ==
    /\ reserving[r]
    /\ reserving' = [reserving EXCEPT ![r] = FALSE]
    /\ incoming' = [incoming EXCEPT ![r] = TRUE]
    /\ accepted' = [accepted EXCEPT ![r] = INLINE]
    /\ buf' = [buf EXCEPT ![r] = {}]
    /\ received' = [received EXCEPT ![r] = 0]
    /\ upTo' = [upTo EXCEPT ![r] = -1]
    /\ IF INLINE THEN Transmit(r, Plain("accept"), wire, chan) ELSE UNCHANGED netVars
    /\ UNCHANGED <<decrypting, hashing, rOutcome, senderVars, connVars>>

\* It is not: the offer is dropped without a word.
OfferRejected(r) ==
    /\ reserving[r]
    /\ faults < MaxFaults
    /\ faults' = faults + 1
    /\ reserving' = [reserving EXCEPT ![r] = FALSE]
    /\ UNCHANGED <<incoming, accepted, buf, received, upTo, decrypting, hashing, rOutcome,
                   senderVars, netVars, online, link>>

AcceptFile(r) ==
    /\ incoming[r] /\ ~accepted[r]
    /\ accepted' = [accepted EXCEPT ![r] = TRUE]
    /\ Transmit(r, Plain("accept"), wire, chan)
    /\ UNCHANGED <<reserving, incoming, buf, received, upTo, decrypting, hashing, rOutcome,
                   senderVars, connVars>>

\* Declining an offer, or cancelling what is being received.
DeclineFile(r) ==
    /\ incoming[r]
    /\ EndReceiver(r, "declined")
    /\ Transmit(r, Plain("decline"), wire, chan)
    /\ UNCHANGED <<reserving, accepted, buf, received, upTo, decrypting, hashing,
                   senderVars, connVars>>

\* A chunk of an accepted transfer that is not there yet goes to decryption.
OnChunk(r, via) ==
    /\ Arrives(r, via, "chunk")
    /\ Consume(r, via)
    /\ LET i == Arg(r, via) IN
       decrypting' = IF incoming[r] /\ accepted[r] /\ i \in Chunks \ buf[r]
                     THEN [decrypting EXCEPT ![r][i] = @ + 1] ELSE decrypting
    /\ UNCHANGED <<reserving, incoming, accepted, buf, received, upTo, hashing, rOutcome,
                   senderVars, connVars>>

AckDue(n) == n % ACK_INTERVAL = 0 \/ n = ChunkCount

\* Mutant: the highest chunk seen, whatever is missing below it.
Reached_Highest(have, from, u) == u \in have /\ \A j \in have : j <= u

\* From `from`, upTo moves over every chunk that is now contiguous.
Reached(have, from, u) == (from + 1) .. u \subseteq have /\ u + 1 \notin have

\* Chunk i is readable.  The entry is the one looked up when the chunk came in:
\* that it may have left the map since is only seen by assemble.  An acknowledgement of nothing (upTo -1) is
\* refused by every frame schema on its way.
ChunkDecrypted(r, i) ==
    /\ decrypting[r][i] > 0
    /\ decrypting' = [decrypting EXCEPT ![r][i] = @ - 1]
    /\ buf' = [buf EXCEPT ![r] = @ \cup {i}]
    /\ received' = [received EXCEPT ![r] = @ + 1]
    /\ \E u \in upTo[r] .. ChunkCount - 1 :
          /\ Reached(buf'[r], upTo[r], u)
          /\ upTo' = [upTo EXCEPT ![r] = u]
          /\ IF AckDue(received'[r]) /\ u >= 0
             THEN Transmit(r, Ack(u), wire, chan) ELSE UNCHANGED netVars
    /\ hashing' = IF received'[r] = ChunkCount /\ incoming[r]
                  THEN [hashing EXCEPT ![r] = TRUE] ELSE hashing
    /\ UNCHANGED <<reserving, incoming, accepted, rOutcome, senderVars, connVars>>

\* Chunk i fails authentication: this receiver gives up and tells the room.
ChunkRejected(r, i) ==
    /\ decrypting[r][i] > 0
    /\ faults < MaxFaults
    /\ faults' = faults + 1
    /\ decrypting' = [decrypting EXCEPT ![r][i] = @ - 1]
    /\ EndReceiver(r, "error")
    /\ Transmit(r, Plain("cancel"), wire, chan)
    /\ UNCHANGED <<reserving, accepted, buf, received, upTo, hashing,
                   senderVars, online, link>>

\* The digest of the assembled file is known: it is the offered one exactly
\* when every chunk is in its place.
Hashed(r) ==
    /\ hashing[r]
    /\ hashing' = [hashing EXCEPT ![r] = FALSE]
    /\ EndReceiver(r, IF buf[r] = Chunks THEN "received" ELSE "error")
    /\ UNCHANGED <<reserving, accepted, buf, received, upTo, decrypting,
                   senderVars, netVars, connVars>>

OnCancelReceiver(r, via) ==
    /\ Arrives(r, via, "cancel")
    /\ Consume(r, via)
    /\ IF incoming[r] THEN EndReceiver(r, "cancel") ELSE UNCHANGED <<incoming, rOutcome>>
    /\ UNCHANGED <<reserving, accepted, buf, received, upTo, decrypting, hashing,
                   senderVars, connVars>>

\* onComplete does nothing: the receiver completes from its last chunk.
OnComplete(r, via) ==
    /\ Arrives(r, via, "complete")
    /\ Consume(r, via)
    /\ UNCHANGED <<senderVars, receiverVars, connVars>>

-----------------------------------------------------------------------------
(* The connections. *)

\* abortAll for every device of D: each entry still in its map fails.
AbortAll(D) ==
    /\ IF Sender \in D /\ outgoing THEN EndSender("error")
                                   ELSE UNCHANGED <<outgoing, stall, sOutcome>>
    /\ incoming' = [r \in Receivers |-> incoming[r] /\ r \notin D]
    /\ rOutcome' = [r \in Receivers |-> IF incoming[r] /\ r \in D
                                        THEN Append(rOutcome[r], "error") ELSE rOutcome[r]]
    /\ UNCHANGED <<offering, nextChunk, ackedUpTo, started, pumping, encrypting,
                   reserving, accepted, buf, received, upTo, decrypting, hashing>>

Ends(l) == IF l = NoLink THEN {} ELSE {Sender, l}

\* The WebSocket of d closes.  handleClose aborts its transfers and closes its
\* data channel, which aborts them at the other end too.
Disconnect(d) ==
    /\ online[d]
    /\ faults < MaxFaults
    /\ faults' = faults + 1
    /\ online' = [online EXCEPT ![d] = FALSE]
    /\ LET cut == IF Linked(d) THEN Ends(link) ELSE {} IN
       /\ AbortAll({d} \cup cut)
       /\ chan' = [e \in Devices |-> IF e \in cut THEN <<>> ELSE chan[e]]
       /\ link' = IF Linked(d) THEN NoLink ELSE link
    /\ wire' = [wire EXCEPT ![d] = <<>>]

Reconnect(d) ==
    /\ ~online[d]
    /\ online' = [online EXCEPT ![d] = TRUE]
    /\ UNCHANGED <<link, faults, senderVars, receiverVars, netVars>>

\* A data channel opens, in the middle of a transfer if it happens so.
OpenLink(r) ==
    /\ P2P
    /\ link = NoLink
    /\ online[Sender] /\ online[r]
    /\ link' = r
    /\ UNCHANGED <<online, faults, senderVars, receiverVars, netVars>>

\* It closes, with the WebSockets still up.
CloseLink ==
    /\ link # NoLink
    /\ faults < MaxFaults
    /\ faults' = faults + 1
    /\ AbortAll(Ends(link))
    /\ chan' = [e \in Devices |-> IF e \in Ends(link) THEN <<>> ELSE chan[e]]
    /\ link' = NoLink
    /\ UNCHANGED <<wire, online>>

-----------------------------------------------------------------------------
Init ==
    /\ offering = "idle" /\ outgoing = FALSE
    /\ nextChunk = 0 /\ ackedUpTo = -1
    /\ started = FALSE /\ pumping = FALSE /\ stall = FALSE
    /\ encrypting = [i \in Chunks |-> 0]
    /\ sOutcome = <<>>
    /\ reserving = [r \in Receivers |-> FALSE]
    /\ incoming = [r \in Receivers |-> FALSE]
    /\ accepted = [r \in Receivers |-> FALSE]
    /\ buf = [r \in Receivers |-> {}]
    /\ received = [r \in Receivers |-> 0]
    /\ upTo = [r \in Receivers |-> -1]
    /\ decrypting = [r \in Receivers |-> [i \in Chunks |-> 0]]
    /\ hashing = [r \in Receivers |-> FALSE]
    /\ rOutcome = [r \in Receivers |-> <<>>]
    /\ online = [d \in Devices |-> TRUE]
    /\ wire = [d \in Devices |-> <<>>]
    /\ link = NoLink
    /\ chan = [d \in Devices |-> <<>>]
    /\ faults = 0

SenderStep ==
    \/ SendFile \/ OfferEncrypted \/ CancelFile \/ StallFires
    \/ \E i \in Chunks : EncryptDone(i)
    \/ \E via \in Paths : OnAccept(via) \/ OnAck(via) \/ OnCancelSender(via) \/ OnDecline(via)

ReceiverStep(r) ==
    \/ OfferDecrypted(r) \/ OfferRejected(r) \/ AcceptFile(r) \/ DeclineFile(r) \/ Hashed(r)
    \/ \E i \in Chunks : ChunkDecrypted(r, i) \/ ChunkRejected(r, i)
    \/ \E via \in Paths :
          OnOffer(r, via) \/ OnChunk(r, via) \/ OnCancelReceiver(r, via) \/ OnComplete(r, via)

ConnectionStep ==
    \/ \E d \in Devices : Disconnect(d) \/ Reconnect(d)
    \/ \E r \in Receivers : OpenLink(r)
    \/ CloseLink

Next == SenderStep \/ ConnectionStep \/ \E r \in Receivers : ReceiverStep(r)

Spec == Init /\ [][Next]_vars

\* The queues drain, crypto finishes, an armed timer fires.  Users and faults owe nothing.
Fairness ==
    /\ WF_vars(OfferEncrypted) /\ WF_vars(StallFires)
    /\ \A i \in Chunks : WF_vars(EncryptDone(i))
    /\ \A via \in Paths : WF_vars(OnAccept(via) \/ OnAck(via) \/ OnCancelSender(via) \/ OnDecline(via))
    /\ \A r \in Receivers :
          /\ WF_vars(OfferDecrypted(r)) /\ WF_vars(Hashed(r))
          /\ \A i \in Chunks : WF_vars(ChunkDecrypted(r, i))
          /\ \A via \in Paths : WF_vars(\/ OnOffer(r, via) \/ OnChunk(r, via)
                                        \/ OnCancelReceiver(r, via) \/ OnComplete(r, via))

FairSpec == Spec /\ Fairness

-----------------------------------------------------------------------------
(* What should hold. *)

\* The values the variables range over.
TypeOK ==
    /\ offering \in {"idle", "encrypting", "sent"}
    /\ outgoing \in BOOLEAN
    /\ nextChunk \in 0 .. ChunkCount
    /\ ackedUpTo \in -1 .. ChunkCount - 1
    /\ started \in BOOLEAN /\ pumping \in BOOLEAN /\ stall \in BOOLEAN
    /\ encrypting \in [Chunks -> Nat]
    /\ sOutcome \in Seq({"complete", "cancelled", "peer_cancel", "stalled", "error"})
    /\ reserving \in [Receivers -> BOOLEAN]
    /\ incoming \in [Receivers -> BOOLEAN]
    /\ accepted \in [Receivers -> BOOLEAN]
    /\ buf \in [Receivers -> SUBSET Chunks]
    /\ received \in [Receivers -> Nat]
    /\ upTo \in [Receivers -> -1 .. ChunkCount - 1]
    /\ decrypting \in [Receivers -> [Chunks -> Nat]]
    /\ hashing \in [Receivers -> BOOLEAN]
    /\ rOutcome \in [Receivers -> Seq({"received", "error", "cancel", "declined"})]
    /\ online \in [Devices -> BOOLEAN]
    /\ wire \in [Devices -> Seq(Frame)]
    /\ link \in Receivers \cup {NoLink}
    /\ chan \in [Devices -> Seq(Frame)]
    /\ faults \in 0 .. MaxFaults

\* Credit: the sender is never more than CREDIT_WINDOW chunks ahead of the best
\* acknowledgement, however acks, cancels and encryptions interleave (pump).
CreditWindow == nextChunk - ackedUpTo - 1 <= CREDIT_WINDOW

\* One pump: whatever wakes it, the `pumping` flag lets one loop run, so one chunk
\* is being encrypted, it is the next one, and it has room in the window.
OnePump ==
    \A i \in Chunks : encrypting[i] > 0 =>
        /\ encrypting[i] = 1 /\ i = nextChunk
        /\ pumping /\ WindowOpen(nextChunk, ackedUpTo)

\* No lost wake-up: a started, live transfer with no pump running is one that
\* really waits for an ack; an ack that lands while the pump awaits its
\* encryption, and returns early, is not forgotten.
NoLostWakeup ==
    outgoing /\ started /\ ~pumping =>
        ~WindowOpen(nextChunk, ackedUpTo) /\ ~Acknowledged(nextChunk, ackedUpTo)

\* Acks tell the truth: what the sender believes acknowledged, one receiver has
\* decrypted without a gap, though acks carry no identity and the fastest of
\* several receivers sets the pace.
AckedWasReceived ==
    ackedUpTo >= 0 => \E r \in Receivers : 0 .. ackedUpTo \subseteq buf[r]

\* No chunk counts twice: `received`, which alone decides that the file is whole,
\* is the number of chunks in the buffer, though the guard against a duplicate
\* is checked before the decryption and the count is raised after it.
CountedOnce == \A r \in Receivers : received[r] = Cardinality(buf[r])

\* After the end: once the entry of an offered file is gone, nothing revives the
\* transfer: no timer fires for it, no chunk leaves, no further outcome is
\* reported, whatever was pending when it ended.
EndedStaysEnded ==
    [][offering = "sent" /\ ~outgoing =>
          UNCHANGED <<outgoing, nextChunk, stall, sOutcome>>]_vars

\* The sending half implements WindowedStream.
Outcomes == {sOutcome[k] : k \in DOMAIN sOutcome}
StreamStatus == IF sOutcome = <<>> THEN "open"
                ELSE IF "complete" \in Outcomes THEN "done" ELSE "aborted"
Stream == INSTANCE WindowedStream
             WITH Total <- ChunkCount, Window <- CREDIT_WINDOW,
                  sent <- nextChunk, acked <- ackedUpTo + 1, status <- StreamStatus
\* Seen through its counters the sender is a window over a prefix of the file:
\* in order, never acknowledging what has not left, ended at most once.
StreamSpec == Stream!Spec

\* A started transfer ends: it completes, is cancelled, fails or stalls.
StartedEnds == started ~> ~outgoing

(* What the repository says and the code does not do. *)

\* STALLED means "every receiver has gone silent": when the timer is all that is
\* left to happen, no receiver of the transfer holds every chunk sent so far.
StallMeansSilent ==
    Quiet /\ stall => \A r \in Receivers :
        incoming[r] /\ accepted[r] => buf[r] # 0 .. nextChunk - 1
====

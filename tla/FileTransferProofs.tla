------------------------- MODULE FileTransferProofs -------------------------
(***************************************************************************)
(* Proofs about FileTransfer, for any number of receivers and any values   *)
(* of the constants.                                                       *)
(*                                                                         *)
(* The inductive invariant is IInv.  Its heart is that nothing in the      *)
(* system speaks of a chunk that has not left the sender: not a frame in   *)
(* a queue (NetOK), not a buffer, a counter or a pending decryption of a   *)
(* receiver (ReceiverOK).  Hence no acknowledgement runs ahead of          *)
(* nextChunk, and the arithmetic of the window (SenderOK) closes.          *)
(***************************************************************************)
EXTENDS FileTransfer, FiniteSetTheorems, TLAPS

\* The frames that may travel once the first m chunks have left.
SentFrame(m) == {f \in Frame : f.type \in {"chunk", "ack"} => f.n < m}

Queues(m) == [Devices -> Seq(SentFrame(m))]

SOutcome == {"complete", "cancelled", "peer_cancel", "stalled", "error"}
ROutcome == {"received", "error", "cancel", "declined"}

SenderOK ==
    /\ offering \in {"idle", "encrypting", "sent"}
    /\ outgoing \in BOOLEAN
    /\ nextChunk \in 0 .. ChunkCount
    /\ ackedUpTo \in -1 .. nextChunk - 1
    /\ started \in BOOLEAN /\ pumping \in BOOLEAN /\ stall \in BOOLEAN
    /\ encrypting \in [Chunks -> Nat]
    /\ sOutcome \in Seq(SOutcome)
    /\ OnePump
    /\ NoLostWakeup
    /\ CreditWindow
    /\ pumping => started /\ WindowOpen(nextChunk, ackedUpTo)
    /\ ~started => nextChunk = 0
    /\ offering = "idle" => ~started /\ ~outgoing /\ ~stall
    /\ outgoing \/ offering = "idle" => sOutcome = <<>>

ReceiverOK ==
    /\ reserving \in [Receivers -> BOOLEAN]
    /\ incoming \in [Receivers -> BOOLEAN]
    /\ accepted \in [Receivers -> BOOLEAN]
    /\ buf \in [Receivers -> SUBSET (0 .. nextChunk - 1)]
    /\ received \in [Receivers -> Nat]
    /\ upTo \in [Receivers -> -1 .. nextChunk - 1]
    /\ decrypting \in [Receivers -> [Chunks -> Nat]]
    /\ \A r \in Receivers : \A i \in Chunks : decrypting[r][i] > 0 => i < nextChunk
    /\ hashing \in [Receivers -> BOOLEAN]
    /\ rOutcome \in [Receivers -> Seq(ROutcome)]

NetOK == wire \in Queues(nextChunk) /\ chan \in Queues(nextChunk)

ConnOK ==
    /\ online \in [Devices -> BOOLEAN]
    /\ link \in Receivers \cup {NoLink}
    /\ faults \in 0 .. MaxFaults

IInv == SenderOK /\ ReceiverOK /\ NetOK /\ ConnOK

-----------------------------------------------------------------------------
(* The queues. *)

LEMMA ChunkFacts ==
    /\ ChunkCount \in Nat \ {0}
    /\ CREDIT_WINDOW \in Nat \ {0}
    /\ \A i \in Chunks : i \in Int /\ 0 <= i /\ i < ChunkCount
    /\ \A i \in 0 .. ChunkCount : i < ChunkCount => i \in Chunks
    /\ Sender \in Devices /\ Receivers \subseteq Devices /\ Sender # NoLink
    /\ MaxFaults \in Nat
  BY TransferAssumption DEF Chunks, Devices

\* A later acknowledgement leaves less outstanding.
LEMMA AckNarrows ==
    ASSUME NEW n \in Int, NEW a \in Int, NEW b \in Int, NEW w \in Int, a <= b
    PROVE  /\ n - a - 1 <= w => n - b - 1 <= w
           /\ n - a - 1 < w => n - b - 1 < w
  OBVIOUS

\* One more chunk fits a window that has room.
LEMMA SendFits ==
    ASSUME NEW n \in Int, NEW a \in -1 .. n - 1, NEW w \in Int, NEW m \in Int,
           n - a - 1 < w, m = n + 1
    PROVE  m - a - 1 <= w /\ a \in -1 .. m - 1
  OBVIOUS

\* The window in chunks outstanding, or in chunks sent and acknowledged.
LEMMA SameRoom ==
    ASSUME NEW n \in Int, NEW a \in Int, NEW w \in Int, n - a - 1 < w
    PROVE  n - (a + 1) < w
  OBVIOUS

\* What d sends is added to queues of the same kind.
LEMMA SentTyped ==
    ASSUME NEW m, NEW w \in Queues(m), NEW c \in Queues(m), NEW f \in SentFrame(m),
           NEW d \in Devices, ConnOK
    PROVE  SentWire(d, f, w) \in Queues(m) /\ SentChan(d, f, c) \in Queues(m)
<1>1. \A e \in Devices : Append(w[e], f) \in Seq(SentFrame(m)) /\ w[e] \in Seq(SentFrame(m))
  BY DEF Queues
<1>2. Broadcast(d, f, w) \in Queues(m)
  BY <1>1 DEF Broadcast, Queues
<1>3. SentWire(d, f, w) \in Queues(m)
  BY <1>2 DEF SentWire
<1>4. ASSUME Linked(d) PROVE LinkPeer(d) \in Devices
  BY <1>4 DEF Linked, LinkPeer, Devices, ConnOK
<1>5. SentChan(d, f, c) \in Queues(m)
  <2>1. CASE Linked(d)
    <3>1. c[LinkPeer(d)] \in Seq(SentFrame(m))
      BY <2>1, <1>4 DEF Queues
    <3>2. Append(c[LinkPeer(d)], f) \in Seq(SentFrame(m))
      BY <3>1
    <3> QED BY <3>2, <2>1 DEF SentChan, Queues
  <2>2. CASE ~Linked(d)
    BY <2>2 DEF SentChan
  <2> QED BY <2>1, <2>2
<1> QED BY <1>3, <1>5

\* The frame at the head of d's queue is one of the kind, and so is the rest.
LEMMA ArrivedTyped ==
    ASSUME NEW m, wire \in Queues(m), chan \in Queues(m),
           NEW d \in Devices, NEW via, NEW t, Arrives(d, via, t)
    PROVE  /\ WireAfter(d, via) \in Queues(m) /\ ChanAfter(d, via) \in Queues(m)
           /\ Head(Inbox(d, via)) \in SentFrame(m)
           /\ Head(Inbox(d, via)).type = t
<1>1. wire[d] \in Seq(SentFrame(m)) /\ chan[d] \in Seq(SentFrame(m))
  BY DEF Queues
<1>2. Inbox(d, via) \in Seq(SentFrame(m)) /\ Inbox(d, via) # <<>>
  BY <1>1 DEF Inbox, Arrives
<1>3. Head(Inbox(d, via)) \in SentFrame(m) /\ Tail(Inbox(d, via)) \in Seq(SentFrame(m))
  BY <1>2
<1>4. WireAfter(d, via) \in Queues(m)
  BY <1>3 DEF WireAfter, Queues, Inbox
<1>5. ChanAfter(d, via) \in Queues(m)
  BY <1>3 DEF ChanAfter, Queues, Inbox
<1> QED BY <1>3, <1>4, <1>5 DEF Arrives

\* One more chunk sent only widens the kind.
LEMMA QueuesGrow ==
    ASSUME NEW m \in Nat
    PROVE  /\ SentFrame(m) \subseteq SentFrame(m + 1)
           /\ Queues(m) \subseteq Queues(m + 1)
<1>1. SentFrame(m) \subseteq SentFrame(m + 1)
  BY DEF SentFrame, Frame
<1>2. Seq(SentFrame(m)) \subseteq Seq(SentFrame(m + 1))
  BY <1>1
<1> QED BY <1>1, <1>2 DEF Queues

LEMMA FramesTyped ==
    ASSUME NEW m \in Nat
    PROVE  /\ \A t \in {"offer", "accept", "decline", "complete", "cancel"} : Plain(t) \in SentFrame(m)
           /\ \A i \in Nat : i < m => Chunk(i) \in SentFrame(m) /\ Ack(i) \in SentFrame(m)
  BY DEF Plain, Chunk, Ack, SentFrame, Frame

-----------------------------------------------------------------------------
(* The sender. *)

\* Wherever pump is entered or goes on, with nothing being encrypted and room or
\* not in the window, it stops or awaits in a state that SenderOK describes.
LEMMA PumpKeeps ==
    ASSUME ConnOK, outgoing = TRUE, sOutcome = <<>>,
           NEW next \in 0 .. ChunkCount, NEW acked \in -1 .. next - 1,
           next - acked - 1 <= CREDIT_WINDOW,
           NEW enc \in [Chunks -> Nat], \A i \in Chunks : enc[i] = 0,
           NEW armed \in BOOLEAN, NEW w \in Queues(next), NEW c \in Queues(next),
           PumpFrom(next, acked, enc, armed, w, c),
           nextChunk' = next, ackedUpTo' = acked, started' = TRUE,
           offering \in {"encrypting", "sent"}, offering' = offering
    PROVE  SenderOK' /\ NetOK'
<1>. USE ChunkFacts
<1>0. sOutcome \in Seq(SOutcome)
  OBVIOUS
<1>1. CASE WindowOpen(next, acked)
  <2>1. next \in Chunks
    BY <1>1 DEF WindowOpen
  <2>2. /\ encrypting' = [enc EXCEPT ![next] = enc[next] + 1]
        /\ pumping' = TRUE /\ stall' = armed
        /\ outgoing' = outgoing /\ sOutcome' = sOutcome /\ wire' = w /\ chan' = c
    BY <1>1 DEF PumpFrom
  <2>3. encrypting' \in [Chunks -> Nat] /\ OnePump'
    BY <2>1, <2>2, <1>1 DEF OnePump, WindowOpen
  <2>4. NoLostWakeup' /\ CreditWindow'
    BY <2>2 DEF NoLostWakeup, CreditWindow
  <2>5. WindowOpen(nextChunk', ackedUpTo')
    BY <1>1
  <2> QED BY <1>0, <2>2, <2>3, <2>4, <2>5 DEF SenderOK, NetOK
<1>2. CASE ~WindowOpen(next, acked)
  <2>1. encrypting' = enc /\ pumping' = FALSE
    BY <1>2 DEF PumpFrom
  <2>2. OnePump' /\ CreditWindow'
    BY <2>1 DEF OnePump, CreditWindow
  <2>3. CASE Acknowledged(next, acked)
    <3>1. /\ outgoing' = FALSE /\ stall' = FALSE /\ sOutcome' = Append(sOutcome, "complete")
          /\ wire' = SentWire(Sender, Plain("complete"), w)
          /\ chan' = SentChan(Sender, Plain("complete"), c)
      BY <1>2, <2>3 DEF PumpFrom, EndSender, Transmit
    <3>2. Plain("complete") \in SentFrame(next)
      BY FramesTyped
    <3>3. NetOK'
      BY <3>1, <3>2, SentTyped DEF NetOK
    <3>4. sOutcome' \in Seq(SOutcome)
      BY <3>1 DEF SOutcome
    <3> QED BY <2>1, <2>2, <3>1, <3>3, <3>4 DEF SenderOK, NoLostWakeup
  <2>4. CASE ~Acknowledged(next, acked)
    <3>1. /\ outgoing' = outgoing /\ stall' = armed /\ sOutcome' = sOutcome
          /\ wire' = w /\ chan' = c
      BY <1>2, <2>4 DEF PumpFrom
    <3>2. NoLostWakeup'
      BY <1>2, <2>4 DEF NoLostWakeup
    <3> QED BY <1>0, <2>1, <2>2, <3>1, <3>2 DEF SenderOK, NetOK
  <2> QED BY <2>3, <2>4
<1> QED BY <1>1, <1>2

\* Ending the transfer, with the pump as it was, keeps the sender in order.
LEMMA EndKeeps ==
    ASSUME SenderOK, NEW why \in SOutcome, EndSender(why),
           UNCHANGED <<nextChunk, ackedUpTo, started, pumping, encrypting>>,
           offering' \in {"encrypting", "sent"}
    PROVE  SenderOK'
<1>1. sOutcome' \in Seq(SOutcome) /\ outgoing' = FALSE /\ stall' = FALSE
  BY DEF EndSender, SenderOK
<1>2. OnePump' /\ CreditWindow' /\ NoLostWakeup'
  BY <1>1 DEF SenderOK, OnePump, CreditWindow, NoLostWakeup
<1> QED BY <1>1, <1>2 DEF SenderOK

\* A step that leaves the sender's counters, pump and entry alone.
LEMMA SenderStutters ==
    ASSUME SenderOK, UNCHANGED senderVars
    PROVE  SenderOK'
  BY DEF SenderOK, senderVars, OnePump, CreditWindow, NoLostWakeup

\* A receiver's state stays good while it does not move, as chunks leave.
LEMMA ReceiverStutters ==
    ASSUME ReceiverOK, UNCHANGED receiverVars, nextChunk \in Nat,
           nextChunk' \in {nextChunk, nextChunk + 1}
    PROVE  ReceiverOK'
<1>1. /\ 0 .. nextChunk - 1 \subseteq 0 .. nextChunk' - 1
      /\ -1 .. nextChunk - 1 \subseteq -1 .. nextChunk' - 1
  <2>1. CASE nextChunk' = nextChunk
    BY <2>1
  <2>2. CASE nextChunk' = nextChunk + 1
    BY <2>2
  <2> QED BY <2>1, <2>2
<1>2. /\ buf' = buf /\ upTo' = upTo /\ decrypting' = decrypting /\ received' = received
      /\ reserving' = reserving /\ incoming' = incoming /\ accepted' = accepted
      /\ hashing' = hashing /\ rOutcome' = rOutcome
  BY DEF receiverVars
<1>3. buf' \in [Receivers -> SUBSET (0 .. nextChunk' - 1)]
  BY <1>1, <1>2 DEF ReceiverOK
<1>4. upTo' \in [Receivers -> -1 .. nextChunk' - 1]
  BY <1>1, <1>2 DEF ReceiverOK
<1>5. \A r \in Receivers : \A i \in Chunks : decrypting'[r][i] > 0 => i < nextChunk'
  BY <1>2, ChunkFacts DEF ReceiverOK
<1> QED BY <1>2, <1>3, <1>4, <1>5 DEF ReceiverOK

LEMMA InitIInv == Init => IInv
<1>. SUFFICES ASSUME Init PROVE IInv
  OBVIOUS
<1>. USE ChunkFacts DEF Init
<1>1. SenderOK
  <2>1. CreditWindow /\ OnePump /\ NoLostWakeup
    BY DEF OnePump, NoLostWakeup, CreditWindow
  <2>2. encrypting \in [Chunks -> Nat] /\ sOutcome \in Seq(SOutcome)
    OBVIOUS
  <2>3. nextChunk \in 0 .. ChunkCount /\ ackedUpTo \in -1 .. nextChunk - 1
    OBVIOUS
  <2>4. /\ outgoing \in BOOLEAN /\ started \in BOOLEAN /\ pumping \in BOOLEAN /\ stall \in BOOLEAN
        /\ offering \in {"idle", "encrypting", "sent"}
    OBVIOUS
  <2>5. (pumping => started) /\ ~started /\ ~outgoing /\ ~stall
    OBVIOUS
  <2> QED BY <2>1, <2>2, <2>3, <2>4, <2>5 DEF SenderOK
<1>2. ReceiverOK
  BY DEF ReceiverOK
<1>3. NetOK
  BY DEF NetOK, Queues
<1>4. ConnOK
  BY DEF ConnOK
<1> QED BY <1>1, <1>2, <1>3, <1>4 DEF IInv

\* The steps of the sender: what it sends speaks only of chunks that have left,
\* and every way into the pump leaves it in order.
LEMMA SenderStepKeeps == IInv /\ SenderStep => IInv'
<1>. SUFFICES ASSUME IInv, SenderStep PROVE IInv'
  OBVIOUS
<1>. USE DEF IInv
<1>0. /\ UNCHANGED receiverVars /\ UNCHANGED connVars
      /\ nextChunk \in Nat /\ nextChunk \in 0 .. ChunkCount
      /\ Sender \in Devices /\ wire \in Queues(nextChunk) /\ chan \in Queues(nextChunk)
  <2>1. UNCHANGED receiverVars /\ UNCHANGED connVars
    BY DEF SenderStep, SendFile, OfferEncrypted, CancelFile, StallFires, EncryptDone,
       OnAccept, OnAck, OnCancelSender, OnDecline
  <2>2. nextChunk \in Nat /\ nextChunk \in 0 .. ChunkCount
    BY ChunkFacts DEF SenderOK
  <2> QED BY <2>1, <2>2, ChunkFacts DEF NetOK
<1>1. ConnOK'
  BY <1>0 DEF ConnOK, connVars
<1>2. ASSUME nextChunk' \in {nextChunk, nextChunk + 1} PROVE ReceiverOK'
  BY <1>0, <1>2, ReceiverStutters
<1>3. CASE SendFile
  <2>1. SenderOK'
    BY <1>3 DEF SendFile, SenderOK, OnePump, NoLostWakeup, CreditWindow
  <2>2. NetOK' /\ nextChunk' = nextChunk
    BY <1>3 DEF SendFile, NetOK, netVars
  <2> QED BY <1>1, <1>2, <2>1, <2>2
<1>4. CASE OfferEncrypted
  <2>1. SenderOK'
    <3>1. CASE CanSend(Sender)
      BY <1>4, <3>1 DEF OfferEncrypted, SenderOK, OnePump, NoLostWakeup, CreditWindow
    <3>2. CASE ~CanSend(Sender)
      BY <1>4, <3>2, EndKeeps DEF OfferEncrypted, SOutcome
    <3> QED BY <3>1, <3>2
  <2>2. NetOK' /\ nextChunk' = nextChunk
    BY <1>4, <1>0, FramesTyped, SentTyped DEF OfferEncrypted, NetOK, Transmit
  <2> QED BY <1>1, <1>2, <2>1, <2>2
<1>5. CASE CancelFile
  <2>1. SenderOK'
    BY <1>5, EndKeeps DEF CancelFile, SOutcome
  <2>2. NetOK' /\ nextChunk' = nextChunk
    BY <1>5, <1>0, FramesTyped, SentTyped DEF CancelFile, NetOK, Transmit
  <2> QED BY <1>1, <1>2, <2>1, <2>2
<1>6. CASE StallFires
  <2>1. SenderOK'
    BY <1>6, EndKeeps DEF StallFires, Stalled, SOutcome, SenderOK
  <2>2. NetOK' /\ nextChunk' = nextChunk
    BY <1>6, <1>0, FramesTyped, SentTyped DEF StallFires, Stalled, NetOK, Transmit
  <2> QED BY <1>1, <1>2, <2>1, <2>2
<1>7. ASSUME NEW via \in Paths, OnCancelSender(via) PROVE IInv'
  <2>1. NetOK' /\ nextChunk' = nextChunk
    BY <1>7, <1>0, ArrivedTyped DEF OnCancelSender, Consume, NetOK
  <2>2. SenderOK'
    <3>1. CASE outgoing
      <4>1. offering' \in {"encrypting", "sent"}
        BY <1>7, <3>1 DEF OnCancelSender, SenderOK
      <4> QED BY <1>7, <3>1, <4>1, EndKeeps DEF OnCancelSender, SOutcome
    <3>2. CASE ~outgoing
      BY <1>7, <3>2, SenderStutters DEF OnCancelSender, senderVars
    <3> QED BY <3>1, <3>2
  <2> QED BY <1>1, <1>2, <2>1, <2>2
<1>8. ASSUME NEW via \in Paths, OnDecline(via) PROVE IInv'
  <2>1. NetOK' /\ nextChunk' = nextChunk
    BY <1>8, <1>0, ArrivedTyped DEF OnDecline, Consume, NetOK, senderVars
  <2>2. SenderOK'
    BY <1>8, SenderStutters DEF OnDecline
  <2> QED BY <1>1, <1>2, <2>1, <2>2
<1>9. ASSUME NEW via \in Paths, OnAccept(via) PROVE IInv'
  <2>1. /\ nextChunk' = nextChunk /\ ackedUpTo' = ackedUpTo /\ offering' = offering
        /\ WireAfter(Sender, via) \in Queues(nextChunk)
        /\ ChanAfter(Sender, via) \in Queues(nextChunk)
    BY <1>9, <1>0, ArrivedTyped DEF OnAccept
  <2>2. CASE outgoing /\ ~started
    <3>1. /\ PumpFrom(nextChunk, ackedUpTo, encrypting, TRUE,
                      WireAfter(Sender, via), ChanAfter(Sender, via))
          /\ started' = TRUE
      BY <1>9, <2>2 DEF OnAccept
    <3>2. /\ \A i \in Chunks : encrypting[i] = 0
          /\ encrypting \in [Chunks -> Nat]
          /\ outgoing = TRUE /\ sOutcome = <<>>
          /\ ackedUpTo \in -1 .. nextChunk - 1
          /\ nextChunk - ackedUpTo - 1 <= CREDIT_WINDOW
      BY <2>2 DEF SenderOK, OnePump, CreditWindow
    <3>3. offering \in {"encrypting", "sent"}
      BY <2>2, <1>9 DEF SenderOK, OnAccept
    <3> QED BY <3>1, <3>2, <3>3, <2>1, <1>0, <1>1, <1>2, PumpKeeps
  <2>3. CASE ~(outgoing /\ ~started)
    <3>1. UNCHANGED senderVars /\ NetOK'
      BY <1>9, <2>1, <2>3 DEF OnAccept, Consume, NetOK, senderVars
    <3> QED BY <3>1, <2>1, <1>1, <1>2, SenderStutters
  <2> QED BY <2>2, <2>3
<1>10. ASSUME NEW via \in Paths, OnAck(via) PROVE IInv'
  <2>1. /\ nextChunk' = nextChunk /\ offering' = offering /\ started' = started
        /\ WireAfter(Sender, via) \in Queues(nextChunk)
        /\ ChanAfter(Sender, via) \in Queues(nextChunk)
    BY <1>10, <1>0, ArrivedTyped DEF OnAck, MayPump
  <2>2. Arg(Sender, via) \in Nat /\ Arg(Sender, via) < nextChunk
    BY <1>10, <1>0, ArrivedTyped DEF OnAck, MayPump, Arg, SentFrame, Frame
  <2>3. /\ ackedUpTo' \in -1 .. nextChunk - 1
        /\ ackedUpTo <= ackedUpTo'
    BY <1>10, <2>2 DEF OnAck, MayPump, SenderOK
  <2>4. nextChunk - ackedUpTo' - 1 <= CREDIT_WINDOW
    <3>1. nextChunk - ackedUpTo - 1 <= CREDIT_WINDOW
      BY DEF SenderOK, CreditWindow
    <3>2. nextChunk \in Int /\ ackedUpTo \in Int /\ ackedUpTo' \in Int /\ CREDIT_WINDOW \in Int
      BY <2>3, <1>0, ChunkFacts DEF SenderOK
    <3> QED BY <3>1, <3>2, <2>3, AckNarrows
  <2>5. CASE outgoing /\ started /\ ~pumping
    <3>1. PumpFrom(nextChunk, ackedUpTo', encrypting, TRUE,
                   WireAfter(Sender, via), ChanAfter(Sender, via))
      BY <1>10, <2>5 DEF OnAck, MayPump
    <3>2. /\ \A i \in Chunks : encrypting[i] = 0
          /\ encrypting \in [Chunks -> Nat]
          /\ outgoing = TRUE /\ sOutcome = <<>> /\ started' = TRUE
      BY <2>1, <2>5 DEF SenderOK, OnePump
    <3>3. offering \in {"encrypting", "sent"}
      BY <2>5 DEF SenderOK
    <3> QED BY <3>1, <3>2, <3>3, <2>1, <2>3, <2>4, <1>0, <1>1, <1>2, PumpKeeps
  <2>6. CASE ~(outgoing /\ started /\ ~pumping)
    <3>1. /\ UNCHANGED <<pumping, encrypting, outgoing, sOutcome>>
          /\ stall' \in BOOLEAN /\ NetOK'
          /\ offering = "idle" => ~stall'
      BY <1>10, <2>1, <2>6 DEF OnAck, MayPump, Consume, NetOK, SenderOK
    <3>2. NoLostWakeup' /\ CreditWindow'
      BY <3>1, <2>1, <2>4, <2>6 DEF NoLostWakeup, CreditWindow
    <3>4. OnePump' /\ (pumping' => WindowOpen(nextChunk', ackedUpTo'))
      <4>1. ASSUME WindowOpen(nextChunk, ackedUpTo) PROVE WindowOpen(nextChunk, ackedUpTo')
        <5>1. nextChunk \in Int /\ ackedUpTo \in Int /\ ackedUpTo' \in Int /\ CREDIT_WINDOW \in Int
          BY <2>3, <1>0, ChunkFacts DEF SenderOK
        <5> QED BY <4>1, <5>1, <2>3, AckNarrows DEF WindowOpen
      <4> QED BY <4>1, <3>1, <2>1 DEF SenderOK, OnePump
    <3>3. SenderOK'
      BY <3>1, <3>2, <3>4, <2>1, <2>3 DEF SenderOK
    <3> QED BY <3>1, <3>3, <2>1, <1>1, <1>2
  <2> QED BY <2>5, <2>6
<1>11. ASSUME NEW i \in Chunks, EncryptDone(i) PROVE IInv'
  <2>. DEFINE rest == [encrypting EXCEPT ![i] = @ - 1]
  <2>1. /\ encrypting[i] = 1 /\ i = nextChunk /\ pumping /\ started
        /\ WindowOpen(nextChunk, ackedUpTo)
        /\ offering' = offering /\ ackedUpTo' = ackedUpTo /\ started' = started
        /\ offering \in {"encrypting", "sent"} /\ started = TRUE
    BY <1>11, ChunkFacts DEF EncryptDone, SenderOK, OnePump
  <2>2. rest \in [Chunks -> Nat] /\ \A j \in Chunks : rest[j] = 0
    BY <2>1, ChunkFacts DEF SenderOK, OnePump
  <2>. HIDE DEF rest
  <2>3. CASE outgoing /\ CanSend(Sender)
    <3>1. /\ nextChunk' = nextChunk + 1
          /\ PumpFrom(nextChunk + 1, ackedUpTo, rest, stall,
                      SentWire(Sender, Chunk(i), wire), SentChan(Sender, Chunk(i), chan))
      BY <1>11, <2>3 DEF EncryptDone, rest
    <3>2. Chunk(i) \in SentFrame(nextChunk + 1)
      BY <2>1, <1>0, FramesTyped
    <3>3. wire \in Queues(nextChunk + 1) /\ chan \in Queues(nextChunk + 1)
      BY <1>0, QueuesGrow
    <3>4. /\ SentWire(Sender, Chunk(i), wire) \in Queues(nextChunk + 1)
          /\ SentChan(Sender, Chunk(i), chan) \in Queues(nextChunk + 1)
      BY <3>2, <3>3, <1>0, SentTyped
    <3>5. /\ nextChunk + 1 \in 0 .. ChunkCount
          /\ stall \in BOOLEAN /\ sOutcome = <<>> /\ outgoing = TRUE
      BY <2>1, <2>3, <1>0, ChunkFacts DEF WindowOpen, SenderOK
    <3>6. started' = TRUE /\ ConnOK
      BY <2>1
    <3>7. SenderOK' /\ NetOK'
      <4>1. PICK n \in 0 .. ChunkCount : n = nextChunk + 1
        BY <3>5
      <4>2. PICK w \in Queues(n) : w = SentWire(Sender, Chunk(i), wire)
        BY <4>1, <3>4
      <4>3. PICK c \in Queues(n) : c = SentChan(Sender, Chunk(i), chan)
        BY <4>1, <3>4
      <4>4. PumpFrom(n, ackedUpTo, rest, stall, w, c) /\ nextChunk' = n
        BY <3>1, <4>1, <4>2, <4>3
      <4>5. ackedUpTo \in -1 .. n - 1 /\ n - ackedUpTo - 1 <= CREDIT_WINDOW
        <5>1. n \in Int /\ nextChunk \in Int /\ CREDIT_WINDOW \in Int
          BY <1>0, <4>1, ChunkFacts
        <5>2. ackedUpTo \in -1 .. nextChunk - 1
          BY DEF SenderOK
        <5> QED BY <2>1, <4>1, <5>1, <5>2, SendFits DEF WindowOpen
      <4> QED BY <4>4, <4>5, <3>5, <3>6, <2>1, <2>2, PumpKeeps
    <3> QED BY <3>1, <3>7, <1>1, <1>2
  <2>4. CASE ~(outgoing /\ CanSend(Sender))
    <3>0. /\ nextChunk' = nextChunk /\ wire' = wire /\ chan' = chan
          /\ encrypting' = rest /\ pumping' = FALSE
          /\ IF outgoing THEN EndSender("error") ELSE UNCHANGED <<outgoing, stall, sOutcome>>
      BY <1>11, <2>4 DEF EncryptDone, netVars, rest
    <3>1. outgoing' = FALSE /\ stall' \in BOOLEAN /\ sOutcome' \in Seq(SOutcome)
      <4>1. CASE outgoing
        <5>1. EndSender("error") /\ sOutcome \in Seq(SOutcome)
          BY <3>0, <4>1 DEF SenderOK
        <5>2. "error" \in SOutcome
          BY DEF SOutcome
        <5>3. outgoing' = FALSE /\ stall' = FALSE /\ sOutcome' = Append(sOutcome, "error")
          BY <5>1 DEF EndSender
        <5>4. sOutcome' \in Seq(SOutcome)
          BY <5>1, <5>2, <5>3
        <5> QED BY <5>3, <5>4
      <4>2. CASE ~outgoing
        BY <3>0, <4>2 DEF SenderOK
      <4> QED BY <4>1, <4>2
    <3>2. OnePump' /\ NoLostWakeup' /\ CreditWindow'
      BY <3>0, <3>1, <2>1, <2>2 DEF SenderOK, OnePump, NoLostWakeup, CreditWindow
    <3>3. SenderOK' /\ NetOK'
      BY <3>0, <3>1, <3>2, <2>1, <2>2 DEF SenderOK, NetOK
    <3> QED BY <3>0, <3>3, <1>1, <1>2
  <2> QED BY <2>3, <2>4
<1> QED BY <1>3, <1>4, <1>5, <1>6, <1>7, <1>8, <1>9, <1>10, <1>11 DEF SenderStep

-----------------------------------------------------------------------------
(* The receivers. *)

LEMMA ReceiversApart == ASSUME NEW r, ReceiverStep(r) PROVE UNCHANGED senderVars
  BY DEF ReceiverStep, OfferDecrypted, OfferRejected, AcceptFile, DeclineFile, Hashed,
     ChunkDecrypted, ChunkRejected, OnOffer, OnChunk, OnCancelReceiver, OnComplete

\* A receiver's step touches the sender only through the frames it sends.
LEMMA ReceiverStepFrame ==
    ASSUME IInv, NEW r \in Receivers, ReceiverStep(r)
    PROVE  SenderOK' /\ ConnOK' /\ nextChunk' = nextChunk /\ r \in Devices
           /\ nextChunk \in Nat /\ wire \in Queues(nextChunk) /\ chan \in Queues(nextChunk)
<1>1. UNCHANGED senderVars
  BY ReceiversApart
<1>2. UNCHANGED <<online, link>> /\ faults' \in {faults, faults + 1} /\ (faults' = faults \/ faults < MaxFaults)
  BY DEF ReceiverStep, OfferDecrypted, OfferRejected, AcceptFile, DeclineFile, Hashed,
     ChunkDecrypted, ChunkRejected, OnOffer, OnChunk, OnCancelReceiver, OnComplete, connVars
<1>3. ConnOK'
  BY <1>2, ChunkFacts DEF ConnOK, IInv
<1>4. nextChunk \in Nat
  BY ChunkFacts DEF IInv, SenderOK
<1> QED BY <1>1, <1>3, <1>4, SenderStutters, ChunkFacts DEF IInv, NetOK, senderVars

\* The steps of a receiver: it takes in, counts and acknowledges only chunks
\* that have left the sender.
LEMMA ReceiverStepKeeps ==
    ASSUME IInv, NEW r \in Receivers, ReceiverStep(r)
    PROVE  IInv'
<1>. USE DEF IInv
<1>0. /\ SenderOK' /\ ConnOK' /\ nextChunk' = nextChunk /\ r \in Devices
      /\ nextChunk \in Nat /\ wire \in Queues(nextChunk) /\ chan \in Queues(nextChunk)
  BY ReceiverStepFrame
<1>1. CASE OfferDecrypted(r)
  <2>1. {} \in SUBSET (0 .. nextChunk - 1) /\ -1 \in -1 .. nextChunk - 1 /\ INLINE \in BOOLEAN
    BY <1>0, TransferAssumption
  <2>2. ReceiverOK'
    BY <1>1, <1>0, <2>1 DEF OfferDecrypted, ReceiverOK
  <2>3. NetOK'
    BY <1>1, <1>0, FramesTyped, SentTyped DEF OfferDecrypted, NetOK, Transmit, netVars
  <2> QED BY <1>0, <2>2, <2>3
<1>2. CASE OfferRejected(r)
  BY <1>2, <1>0 DEF OfferRejected, ReceiverOK, NetOK, netVars
<1>3. CASE AcceptFile(r)
  <2>1. ReceiverOK'
    BY <1>3, <1>0 DEF AcceptFile, ReceiverOK
  <2>2. NetOK'
    BY <1>3, <1>0, FramesTyped, SentTyped DEF AcceptFile, NetOK, Transmit
  <2> QED BY <1>0, <2>1, <2>2
<1>4. CASE DeclineFile(r)
  <2>1. ReceiverOK'
    BY <1>4, <1>0 DEF DeclineFile, EndReceiver, ReceiverOK, ROutcome
  <2>2. NetOK'
    BY <1>4, <1>0, FramesTyped, SentTyped DEF DeclineFile, NetOK, Transmit
  <2> QED BY <1>0, <2>1, <2>2
<1>5. CASE Hashed(r)
  BY <1>5, <1>0 DEF Hashed, EndReceiver, ReceiverOK, ROutcome, NetOK, netVars
<1>6. ASSUME NEW i \in Chunks, ChunkRejected(r, i) PROVE IInv'
  <2>1. ReceiverOK'
    <3>1. [decrypting[r] EXCEPT ![i] = @ - 1] \in [Chunks -> Nat]
      BY <1>6, ChunkFacts DEF ChunkRejected, ReceiverOK
    <3>2. decrypting' = [decrypting EXCEPT ![r] = [decrypting[r] EXCEPT ![i] = @ - 1]]
      BY <1>6 DEF ChunkRejected, ReceiverOK
    <3>3. /\ decrypting' \in [Receivers -> [Chunks -> Nat]]
          /\ \A q \in Receivers : \A j \in Chunks : decrypting'[q][j] > 0 => j < nextChunk
      BY <1>6, <3>1, <3>2, ChunkFacts DEF ReceiverOK, ChunkRejected
    <3>4. rOutcome' \in [Receivers -> Seq(ROutcome)] /\ incoming' \in [Receivers -> BOOLEAN]
      BY <1>6 DEF ChunkRejected, EndReceiver, ReceiverOK, ROutcome
    <3> QED BY <1>6, <1>0, <3>3, <3>4 DEF ChunkRejected, ReceiverOK
  <2>2. NetOK'
    BY <1>6, <1>0, FramesTyped, SentTyped DEF ChunkRejected, NetOK, Transmit
  <2> QED BY <1>0, <2>1, <2>2
<1>7. ASSUME NEW i \in Chunks, ChunkDecrypted(r, i) PROVE IInv'
  <2>1. decrypting[r][i] > 0 /\ i \in 0 .. nextChunk - 1
    BY <1>7, <1>0, ChunkFacts DEF ChunkDecrypted, Reached, ReceiverOK
  <2>2. buf' = [buf EXCEPT ![r] = buf[r] \cup {i}] /\ buf' \in [Receivers -> SUBSET (0 .. nextChunk - 1)]
    BY <1>7, <2>1 DEF ChunkDecrypted, Reached, ReceiverOK
  <2>3. PICK u \in upTo[r] .. ChunkCount - 1 :
            /\ (upTo[r] + 1) .. u \subseteq buf'[r]
            /\ upTo' = [upTo EXCEPT ![r] = u]
            /\ IF AckDue(received'[r]) /\ u >= 0
               THEN Transmit(r, Ack(u), wire, chan) ELSE UNCHANGED netVars
    BY <1>7 DEF ChunkDecrypted, Reached
  <2>4. u \in -1 .. nextChunk - 1
    <3>1. upTo[r] \in -1 .. nextChunk - 1 /\ buf'[r] \subseteq 0 .. nextChunk - 1
      BY <2>2 DEF ReceiverOK
    <3>2. u \in Int /\ upTo[r] <= u /\ upTo[r] \in Int
      BY <3>1, <2>3, <1>0, ChunkFacts
    <3>3. CASE u = upTo[r]
      BY <3>1, <3>3
    <3>4. CASE u # upTo[r]
      <4>1. u \in (upTo[r] + 1) .. u
        BY <3>2, <3>4
      <4>2. u \in 0 .. nextChunk - 1
        BY <4>1, <2>3, <3>1
      <4> QED BY <4>2, <1>0
    <3> QED BY <3>3, <3>4
  <2>5. upTo' \in [Receivers -> -1 .. nextChunk - 1]
    BY <2>3, <2>4 DEF ReceiverOK
  <2>6. /\ decrypting' \in [Receivers -> [Chunks -> Nat]]
        /\ \A q \in Receivers : \A j \in Chunks : decrypting'[q][j] > 0 => j < nextChunk
    <3>1. [decrypting[r] EXCEPT ![i] = @ - 1] \in [Chunks -> Nat]
      BY <2>1, ChunkFacts DEF ReceiverOK
    <3>2. decrypting' = [decrypting EXCEPT ![r] = [decrypting[r] EXCEPT ![i] = @ - 1]]
      BY <1>7 DEF ChunkDecrypted, Reached, ReceiverOK
    <3> QED BY <2>1, <3>1, <3>2, ChunkFacts DEF ReceiverOK
  <2>7. received' \in [Receivers -> Nat] /\ hashing' \in [Receivers -> BOOLEAN]
    BY <1>7 DEF ChunkDecrypted, Reached, ReceiverOK
  <2>8. ReceiverOK'
    BY <1>7, <1>0, <2>2, <2>5, <2>6, <2>7 DEF ChunkDecrypted, Reached, ReceiverOK
  <2>9. NetOK'
    <3>1. CASE AckDue(received'[r]) /\ u >= 0
      <4>1. u \in Nat /\ u < nextChunk
        BY <2>4, <3>1, <1>0
      <4>2. Ack(u) \in SentFrame(nextChunk)
        BY <4>1, <1>0, FramesTyped
      <4> QED BY <4>2, <2>3, <3>1, <1>0, SentTyped DEF Transmit, NetOK
    <3>2. CASE ~(AckDue(received'[r]) /\ u >= 0)
      BY <2>3, <3>2, <1>0 DEF NetOK, netVars
    <3> QED BY <3>1, <3>2
  <2> QED BY <1>0, <2>8, <2>9
<1>8. ASSUME NEW via \in Paths, OnOffer(r, via) PROVE IInv'
  <2>1. NetOK'
    BY <1>8, <1>0, ArrivedTyped DEF OnOffer, Consume, NetOK
  <2> QED BY <1>8, <1>0, <2>1 DEF OnOffer, ReceiverOK
<1>9. ASSUME NEW via \in Paths, OnChunk(r, via) PROVE IInv'
  <2>1. NetOK'
    BY <1>9, <1>0, ArrivedTyped DEF OnChunk, Consume, NetOK
  <2>2. Arg(r, via) < nextChunk
    BY <1>9, <1>0, ArrivedTyped DEF OnChunk, Arg, SentFrame
  <2>3. /\ decrypting' \in [Receivers -> [Chunks -> Nat]]
        /\ \A q \in Receivers : \A j \in Chunks : decrypting'[q][j] > 0 => j < nextChunk
    <3>1. CASE decrypting' = decrypting
      BY <3>1 DEF ReceiverOK
    <3>2. CASE decrypting' # decrypting
      <4>1. Arg(r, via) \in Chunks
        BY <1>9, <3>2 DEF OnChunk
      <4>2. decrypting' = [decrypting EXCEPT ![r] = [decrypting[r] EXCEPT ![Arg(r, via)] = @ + 1]]
        BY <1>9, <3>2 DEF OnChunk, ReceiverOK
      <4>3. [decrypting[r] EXCEPT ![Arg(r, via)] = @ + 1] \in [Chunks -> Nat]
        BY <4>1 DEF ReceiverOK
      <4> QED BY <4>1, <4>2, <4>3, <2>2 DEF ReceiverOK
    <3> QED BY <3>1, <3>2
  <2> QED BY <1>9, <1>0, <2>1, <2>3 DEF OnChunk, ReceiverOK
<1>10. ASSUME NEW via \in Paths, OnCancelReceiver(r, via) PROVE IInv'
  <2>1. NetOK'
    BY <1>10, <1>0, ArrivedTyped DEF OnCancelReceiver, Consume, NetOK
  <2>2. ReceiverOK'
    <3>1. incoming' \in [Receivers -> BOOLEAN] /\ rOutcome' \in [Receivers -> Seq(ROutcome)]
      <4>1. CASE incoming[r]
        <5>1. EndReceiver(r, "cancel") /\ "cancel" \in ROutcome
          BY <1>10, <4>1 DEF OnCancelReceiver, ROutcome
        <5> QED BY <5>1 DEF EndReceiver, ReceiverOK
      <4>2. CASE ~incoming[r]
        BY <1>10, <4>2 DEF OnCancelReceiver, ReceiverOK
      <4> QED BY <4>1, <4>2
    <3> QED BY <1>10, <1>0, <3>1 DEF OnCancelReceiver, ReceiverOK
  <2> QED BY <1>0, <2>1, <2>2
<1>11. ASSUME NEW via \in Paths, OnComplete(r, via) PROVE IInv'
  <2>1. NetOK'
    BY <1>11, <1>0, ArrivedTyped DEF OnComplete, Consume, NetOK
  <2> QED BY <1>11, <1>0, <2>1, ReceiverStutters DEF OnComplete
<1> QED BY <1>1, <1>2, <1>3, <1>4, <1>5, <1>6, <1>7, <1>8, <1>9, <1>10, <1>11 DEF ReceiverStep

-----------------------------------------------------------------------------
(* The connections. *)

\* Aborting the transfers of a set of devices ends entries and nothing else.
LEMMA AbortKeeps ==
    ASSUME IInv, NEW D, AbortAll(D)
    PROVE  SenderOK' /\ ReceiverOK' /\ nextChunk' = nextChunk
<1>. USE DEF IInv
<1>1. nextChunk' = nextChunk
  BY DEF AbortAll
<1>2. SenderOK'
  <2>1. CASE Sender \in D /\ outgoing
    <3>1. offering' \in {"encrypting", "sent"} /\ "error" \in SOutcome /\ EndSender("error")
      BY <2>1 DEF AbortAll, SenderOK, SOutcome
    <3> QED BY <3>1, EndKeeps DEF AbortAll
  <2>2. CASE ~(Sender \in D /\ outgoing)
    BY <2>2, SenderStutters DEF AbortAll, senderVars
  <2> QED BY <2>1, <2>2
<1>3. ReceiverOK'
  <2>1. incoming' \in [Receivers -> BOOLEAN]
    BY DEF AbortAll, ReceiverOK
  <2>2. rOutcome' \in [Receivers -> Seq(ROutcome)]
    <3>1. \A r \in Receivers : Append(rOutcome[r], "error") \in Seq(ROutcome)
      BY DEF ReceiverOK, ROutcome
    <3> QED BY <3>1 DEF AbortAll, ReceiverOK
  <2> QED BY <1>1, <2>1, <2>2 DEF AbortAll, ReceiverOK
<1> QED BY <1>1, <1>2, <1>3

LEMMA ConnectionStepKeeps == IInv /\ ConnectionStep => IInv'
<1>. SUFFICES ASSUME IInv, ConnectionStep PROVE IInv'
  OBVIOUS
<1>. USE DEF IInv
<1>1. ASSUME NEW d \in Devices, Disconnect(d) PROVE IInv'
  <2>1. SenderOK' /\ ReceiverOK' /\ nextChunk' = nextChunk
    BY <1>1, AbortKeeps DEF Disconnect
  <2>2. NetOK'
    <3>1. \A e \in Devices : <<>> \in Seq(SentFrame(nextChunk))
      OBVIOUS
    <3>2. wire' \in Queues(nextChunk)
      BY <1>1, <3>1 DEF Disconnect, NetOK, Queues
    <3>3. chan' \in Queues(nextChunk)
      BY <1>1, <3>1 DEF Disconnect, NetOK, Queues
    <3> QED BY <2>1, <3>2, <3>3 DEF NetOK
  <2>3. ConnOK'
    BY <1>1, ChunkFacts DEF Disconnect, ConnOK
  <2> QED BY <2>1, <2>2, <2>3
<1>2. ASSUME NEW d \in Devices, Reconnect(d) PROVE IInv'
  <2>1. SenderOK' /\ nextChunk' = nextChunk
    BY <1>2, SenderStutters DEF Reconnect, senderVars
  <2>2. ReceiverOK'
    BY <1>2, <2>1, ReceiverStutters, ChunkFacts DEF Reconnect, SenderOK
  <2> QED BY <1>2, <2>1, <2>2 DEF Reconnect, NetOK, ConnOK, netVars
<1>3. ASSUME NEW r \in Receivers, OpenLink(r) PROVE IInv'
  <2>1. SenderOK' /\ nextChunk' = nextChunk
    BY <1>3, SenderStutters DEF OpenLink, senderVars
  <2>2. ReceiverOK'
    BY <1>3, <2>1, ReceiverStutters, ChunkFacts DEF OpenLink, SenderOK
  <2> QED BY <1>3, <2>1, <2>2 DEF OpenLink, NetOK, ConnOK, netVars
<1>4. CASE CloseLink
  <2>1. SenderOK' /\ ReceiverOK' /\ nextChunk' = nextChunk
    BY <1>4, AbortKeeps DEF CloseLink
  <2>2. chan' \in Queues(nextChunk)
    <3>1. \A e \in Devices : <<>> \in Seq(SentFrame(nextChunk))
      OBVIOUS
    <3> QED BY <1>4, <3>1 DEF CloseLink, NetOK, Queues
  <2>3. NetOK'
    BY <1>4, <2>1, <2>2 DEF CloseLink, NetOK
  <2>4. ConnOK'
    BY <1>4, ChunkFacts DEF CloseLink, ConnOK
  <2> QED BY <2>1, <2>3, <2>4
<1> QED BY <1>1, <1>2, <1>3, <1>4 DEF ConnectionStep

-----------------------------------------------------------------------------
(* The theorems. *)

LEMMA StutterKeeps == IInv /\ UNCHANGED vars => IInv'
<1>. SUFFICES ASSUME IInv, UNCHANGED vars PROVE IInv'
  OBVIOUS
<1>1. UNCHANGED senderVars /\ UNCHANGED receiverVars /\ UNCHANGED netVars /\ UNCHANGED connVars
  BY DEF vars
<1>2. SenderOK' /\ nextChunk' = nextChunk
  BY <1>1, SenderStutters DEF IInv, senderVars
<1>3. ReceiverOK'
  BY <1>1, <1>2, ReceiverStutters, ChunkFacts DEF IInv, SenderOK
<1>4. NetOK' /\ ConnOK'
  BY <1>1, <1>2 DEF IInv, NetOK, ConnOK, netVars, connVars
<1> QED BY <1>2, <1>3, <1>4 DEF IInv

\* The inductive invariant holds: from file-transfer.ts, for every number of
\* receivers, chunks, credits and faults.
THEOREM Inductive == Spec => []IInv
<1>1. IInv /\ [Next]_vars => IInv'
  BY SenderStepKeeps, ReceiverStepKeeps, ConnectionStepKeeps, StutterKeeps DEF Next
<1> QED BY InitIInv, <1>1, PTL DEF Spec

LEMMA IInvImplies == IInv => TypeOK /\ CreditWindow /\ OnePump /\ NoLostWakeup
<1>. SUFFICES ASSUME IInv PROVE TypeOK /\ CreditWindow /\ OnePump /\ NoLostWakeup
  OBVIOUS
<1>1. nextChunk \in 0 .. ChunkCount /\ ackedUpTo \in -1 .. ChunkCount - 1
  BY ChunkFacts DEF IInv, SenderOK
<1>2. 0 .. nextChunk - 1 \subseteq Chunks /\ -1 .. nextChunk - 1 \subseteq -1 .. ChunkCount - 1
  BY <1>1, ChunkFacts DEF Chunks
<1>3. buf \in [Receivers -> SUBSET Chunks] /\ upTo \in [Receivers -> -1 .. ChunkCount - 1]
  BY <1>2 DEF IInv, ReceiverOK
<1>4. wire \in [Devices -> Seq(Frame)] /\ chan \in [Devices -> Seq(Frame)]
  <2>1. SentFrame(nextChunk) \subseteq Frame
    BY DEF SentFrame
  <2>2. Seq(SentFrame(nextChunk)) \subseteq Seq(Frame)
    BY <2>1
  <2> QED BY <2>2 DEF IInv, NetOK, Queues
<1>5. TypeOK
  BY <1>1, <1>3, <1>4 DEF TypeOK, IInv, SenderOK, ReceiverOK, ConnOK, SOutcome, ROutcome
<1> QED BY <1>5 DEF IInv, SenderOK

\* The variables keep their types.
THEOREM TypeCorrect == Spec => []TypeOK
  BY Inductive, IInvImplies, PTL

\* The sender never runs more than CREDIT_WINDOW chunks ahead of the best
\* acknowledgement, whatever the receivers, the network and the users do.
THEOREM CreditHolds == Spec => []CreditWindow
  BY Inductive, IInvImplies, PTL

\* At most one chunk is being encrypted, it is the next one and it has room:
\* two wake-ups of pump never run two loops.
THEOREM OnePumpHolds == Spec => []OnePump
  BY Inductive, IInvImplies, PTL

\* A live, started transfer without a running pump has nothing to send and is not
\* finished: no acknowledgement is lost on a busy pump.
THEOREM NoWakeupLost == Spec => []NoLostWakeup
  BY Inductive, IInvImplies, PTL

-----------------------------------------------------------------------------
(* The sender implements WindowedStream. *)

\* How the stream has ended is decided by the first outcome.
LEMMA StatusFacts ==
    ASSUME sOutcome \in Seq(SOutcome), NEW why \in SOutcome, sOutcome' = Append(sOutcome, why)
    PROVE  /\ sOutcome = <<>> => /\ StreamStatus = "open"
                                 /\ StreamStatus' = IF why = "complete" THEN "done" ELSE "aborted"
           /\ sOutcome # <<>> /\ why # "complete" => StreamStatus' = StreamStatus
<1>1. /\ Len(sOutcome) \in Nat /\ DOMAIN sOutcome = 1 .. Len(sOutcome)
      /\ Len(sOutcome') = Len(sOutcome) + 1 /\ DOMAIN sOutcome' = 1 .. Len(sOutcome) + 1
      /\ \A k \in DOMAIN sOutcome : sOutcome'[k] = sOutcome[k]
      /\ sOutcome'[Len(sOutcome) + 1] = why
      /\ sOutcome' # <<>>
  OBVIOUS
<1>2. Outcomes' = Outcomes \cup {why}
  BY <1>1 DEF Outcomes
<1>3. sOutcome = <<>> => Outcomes = {}
  BY <1>1 DEF Outcomes
<1> QED BY <1>1, <1>2, <1>3 DEF StreamStatus

\* Ending a transfer other than by completing it aborts the stream, or changes
\* nothing if it had ended.
LEMMA EndAborts ==
    ASSUME IInv, NEW why \in SOutcome \ {"complete"}, sOutcome' = Append(sOutcome, why),
           UNCHANGED <<nextChunk, ackedUpTo>>
    PROVE  Stream!Abort \/ UNCHANGED Stream!vars
<1>1. sOutcome \in Seq(SOutcome)
  BY DEF IInv, SenderOK
<1>2. CASE sOutcome = <<>>
  <2>1. StreamStatus = "open" /\ StreamStatus' = "aborted"
    BY <1>1, <1>2, StatusFacts
  <2> QED BY <2>1 DEF Stream!Abort
<1>3. CASE sOutcome # <<>>
  <2>1. StreamStatus' = StreamStatus
    BY <1>1, <1>3, StatusFacts
  <2> QED BY <2>1 DEF Stream!vars
<1> QED BY <1>2, <1>3

\* A step that leaves the counters and the outcome alone is a stutter.
LEMMA QuietStutters ==
    ASSUME UNCHANGED <<nextChunk, ackedUpTo, sOutcome>>
    PROVE  UNCHANGED Stream!vars
  BY DEF Stream!vars, StreamStatus, Outcomes

LEMMA StreamInit == Init => Stream!Init
  BY DEF Init, Stream!Init, StreamStatus

\* An acknowledgement that raises ackedUpTo is an Ack of the stream, and completes
\* it exactly when it is the last; any other ack finds the pump with nothing to do.
LEMMA AckRefines ==
    ASSUME IInv, NEW via \in Paths, OnAck(via)
    PROVE  Stream!Ack \/ UNCHANGED Stream!vars
<1>. USE DEF IInv
<1>0. /\ nextChunk' = nextChunk /\ nextChunk \in 0 .. ChunkCount
      /\ ackedUpTo \in -1 .. nextChunk - 1
      /\ Arg(Sender, via) \in Nat /\ Arg(Sender, via) < nextChunk
  BY ArrivedTyped, ChunkFacts DEF OnAck, MayPump, Arg, SentFrame, Frame, NetOK, SenderOK
<1>1. CASE outgoing /\ Arg(Sender, via) > ackedUpTo
  <2>1. /\ ackedUpTo' = Arg(Sender, via) /\ sOutcome = <<>> /\ started
        /\ ackedUpTo' + 1 \in (ackedUpTo + 1) + 1 .. nextChunk
    BY <1>0, <1>1 DEF OnAck, MayPump, SenderOK
  <2>2. StreamStatus = "open"
    BY <2>1 DEF StreamStatus
  <2>3. StreamStatus' = IF ackedUpTo' + 1 = ChunkCount THEN "done" ELSE "open"
    <3>1. CASE ackedUpTo' + 1 = ChunkCount
      <4>1. nextChunk = ChunkCount /\ ~pumping
        BY <1>0, <2>1, <3>1, ChunkFacts DEF SenderOK, WindowOpen
      <4>2. PumpFrom(nextChunk, ackedUpTo', encrypting, TRUE,
                     WireAfter(Sender, via), ChanAfter(Sender, via))
        BY <1>1, <2>1, <4>1 DEF OnAck, MayPump
      <4>3. ~WindowOpen(nextChunk, ackedUpTo') /\ Acknowledged(nextChunk, ackedUpTo')
        BY <4>1, <3>1, <2>1, <1>0, ChunkFacts DEF WindowOpen, Acknowledged
      <4>4. sOutcome' = Append(sOutcome, "complete")
        BY <4>2, <4>3 DEF PumpFrom, EndSender
      <4>5. "complete" \in SOutcome /\ sOutcome \in Seq(SOutcome)
        BY DEF SOutcome, SenderOK
      <4> QED BY <4>4, <4>5, <2>1, <3>1, StatusFacts
    <3>2. CASE ackedUpTo' + 1 # ChunkCount
      <4>1. ~Acknowledged(nextChunk, ackedUpTo')
        BY <3>2, <2>1, <1>0, ChunkFacts DEF Acknowledged
      <4>2. sOutcome' = sOutcome
        BY <1>1, <1>0, <4>1 DEF OnAck, MayPump, PumpFrom
      <4> QED BY <4>2, <2>1, <3>2 DEF StreamStatus
    <3> QED BY <3>1, <3>2
  <2> QED BY <1>0, <2>1, <2>2, <2>3 DEF Stream!Ack
<1>2. CASE ~(outgoing /\ Arg(Sender, via) > ackedUpTo)
  <2>1. ackedUpTo' = ackedUpTo
    BY <1>2 DEF OnAck, MayPump
  <2>2. sOutcome' = sOutcome
    <3>1. CASE outgoing /\ started /\ ~pumping
      BY <3>1, <2>1, <1>0 DEF OnAck, MayPump, PumpFrom, SenderOK, NoLostWakeup
    <3>2. CASE ~(outgoing /\ started /\ ~pumping)
      BY <3>2 DEF OnAck, MayPump
    <3> QED BY <3>1, <3>2
  <2> QED BY <2>1, <2>2, <1>0, QuietStutters
<1> QED BY <1>1, <1>2

\* A chunk that leaves is a Send of the stream.
LEMMA EncryptRefines ==
    ASSUME IInv, NEW i \in Chunks, EncryptDone(i)
    PROVE  Stream!Send \/ Stream!Abort \/ UNCHANGED Stream!vars
<1>. USE DEF IInv
<1>0. /\ i = nextChunk /\ ackedUpTo' = ackedUpTo /\ nextChunk \in 0 .. ChunkCount
      /\ ackedUpTo \in -1 .. nextChunk - 1 /\ WindowOpen(nextChunk, ackedUpTo)
  BY ChunkFacts DEF EncryptDone, SenderOK, OnePump
<1>1. CASE outgoing /\ CanSend(Sender)
  <2>1. sOutcome = <<>> /\ nextChunk' = nextChunk + 1
    BY <1>1 DEF EncryptDone, SenderOK
  <2>2. ~Acknowledged(nextChunk + 1, ackedUpTo)
    BY <1>0, ChunkFacts DEF Acknowledged, WindowOpen
  <2>3. sOutcome' = sOutcome
    BY <1>1, <2>2 DEF EncryptDone, PumpFrom
  <2>4. StreamStatus = "open" /\ StreamStatus' = "open"
    BY <2>1, <2>3 DEF StreamStatus
  <2>5. nextChunk < ChunkCount /\ nextChunk - (ackedUpTo + 1) < CREDIT_WINDOW
    <3>1. nextChunk \in Int /\ ackedUpTo \in Int /\ CREDIT_WINDOW \in Int
      BY <1>0, ChunkFacts
    <3> QED BY <3>1, <1>0, SameRoom DEF WindowOpen
  <2> QED BY <1>0, <2>1, <2>4, <2>5 DEF Stream!Send
<1>2. CASE ~(outgoing /\ CanSend(Sender))
  <2>1. nextChunk' = nextChunk
    BY <1>2 DEF EncryptDone
  <2>2. CASE outgoing
    <3>1. sOutcome' = Append(sOutcome, "error") /\ "error" \in SOutcome \ {"complete"}
      BY <1>2, <2>2 DEF EncryptDone, EndSender, SOutcome
    <3> QED BY <3>1, <2>1, <1>0, EndAborts
  <2>3. CASE ~outgoing
    BY <1>2, <2>3, <2>1, <1>0, QuietStutters DEF EncryptDone
  <2> QED BY <2>2, <2>3
<1> QED BY <1>1, <1>2

LEMMA AbortRefines ==
    ASSUME IInv, NEW D, AbortAll(D)
    PROVE  Stream!Abort \/ UNCHANGED Stream!vars
<1>1. CASE Sender \in D /\ outgoing
  <2>1. sOutcome' = Append(sOutcome, "error") /\ "error" \in SOutcome \ {"complete"}
    BY <1>1 DEF AbortAll, EndSender, SOutcome
  <2> QED BY <2>1, EndAborts DEF AbortAll
<1>2. CASE ~(Sender \in D /\ outgoing)
  BY <1>2, QuietStutters DEF AbortAll
<1> QED BY <1>1, <1>2

LEMMA StreamStep == IInv /\ [Next]_vars => [Stream!Next]_(Stream!vars)
<1>. SUFFICES ASSUME IInv, [Next]_vars PROVE [Stream!Next]_(Stream!vars)
  OBVIOUS
<1>. USE DEF Stream!Next
<1>1. ASSUME NEW r \in Receivers, ReceiverStep(r) PROVE UNCHANGED Stream!vars
  <2>1. UNCHANGED senderVars
    BY <1>1 DEF ReceiverStep, OfferDecrypted, OfferRejected, AcceptFile, DeclineFile, Hashed,
       ChunkDecrypted, ChunkRejected, OnOffer, OnChunk, OnCancelReceiver, OnComplete
  <2> QED BY <2>1, QuietStutters DEF senderVars
<1>2. CASE ConnectionStep
  <2>1. ASSUME NEW d \in Devices, Disconnect(d) PROVE [Stream!Next]_(Stream!vars)
    BY <2>1, AbortRefines DEF Disconnect
  <2>2. ASSUME NEW d \in Devices, Reconnect(d) PROVE [Stream!Next]_(Stream!vars)
    BY <2>2, QuietStutters DEF Reconnect, senderVars
  <2>3. ASSUME NEW r \in Receivers, OpenLink(r) PROVE [Stream!Next]_(Stream!vars)
    BY <2>3, QuietStutters DEF OpenLink, senderVars
  <2>4. CASE CloseLink
    BY <2>4, AbortRefines DEF CloseLink
  <2> QED BY <1>2, <2>1, <2>2, <2>3, <2>4 DEF ConnectionStep
<1>3. CASE SenderStep
  <2>1. CASE SendFile
    BY <2>1, QuietStutters DEF SendFile
  <2>2. CASE OfferEncrypted
    <3>1. CASE CanSend(Sender)
      BY <2>2, <3>1, QuietStutters DEF OfferEncrypted
    <3>2. CASE ~CanSend(Sender)
      <4>1. sOutcome' = Append(sOutcome, "error") /\ "error" \in SOutcome \ {"complete"}
        BY <2>2, <3>2 DEF OfferEncrypted, EndSender, SOutcome
      <4> QED BY <2>2, <4>1, EndAborts DEF OfferEncrypted
    <3> QED BY <3>1, <3>2
  <2>3. CASE CancelFile
    <3>1. sOutcome' = Append(sOutcome, "cancelled") /\ "cancelled" \in SOutcome \ {"complete"}
      BY <2>3 DEF CancelFile, EndSender, SOutcome
    <3> QED BY <2>3, <3>1, EndAborts DEF CancelFile
  <2>4. CASE StallFires
    <3>1. sOutcome' = Append(sOutcome, "stalled") /\ "stalled" \in SOutcome \ {"complete"}
      BY <2>4 DEF StallFires, Stalled, EndSender, SOutcome
    <3> QED BY <2>4, <3>1, EndAborts DEF StallFires, Stalled
  <2>5. ASSUME NEW i \in Chunks, EncryptDone(i) PROVE [Stream!Next]_(Stream!vars)
    BY <2>5, EncryptRefines
  <2>6. ASSUME NEW via \in Paths, OnAccept(via) PROVE [Stream!Next]_(Stream!vars)
    <3>1. sOutcome' = sOutcome
      <4>1. CASE outgoing /\ ~started
        <5>1. nextChunk = 0 /\ ~Acknowledged(nextChunk, ackedUpTo)
          BY <4>1, ChunkFacts DEF IInv, SenderOK, Acknowledged
        <5> QED BY <2>6, <4>1, <5>1 DEF OnAccept, PumpFrom
      <4>2. CASE ~(outgoing /\ ~started)
        BY <2>6, <4>2 DEF OnAccept
      <4> QED BY <4>1, <4>2
    <3> QED BY <2>6, <3>1, QuietStutters DEF OnAccept
  <2>7. ASSUME NEW via \in Paths, OnAck(via) PROVE [Stream!Next]_(Stream!vars)
    BY <2>7, AckRefines
  <2>8. ASSUME NEW via \in Paths, OnCancelSender(via) PROVE [Stream!Next]_(Stream!vars)
    <3>1. CASE outgoing
      <4>1. sOutcome' = Append(sOutcome, "peer_cancel") /\ "peer_cancel" \in SOutcome \ {"complete"}
        BY <2>8, <3>1 DEF OnCancelSender, EndSender, SOutcome
      <4> QED BY <2>8, <4>1, EndAborts DEF OnCancelSender
    <3>2. CASE ~outgoing
      BY <2>8, <3>2, QuietStutters DEF OnCancelSender
    <3> QED BY <3>1, <3>2
  <2>9. ASSUME NEW via \in Paths, OnDecline(via) PROVE [Stream!Next]_(Stream!vars)
    BY <2>9, QuietStutters DEF OnDecline, senderVars
  <2> QED BY <1>3, <2>1, <2>2, <2>3, <2>4, <2>5, <2>6, <2>7, <2>8, <2>9 DEF SenderStep
<1>4. CASE UNCHANGED vars
  BY <1>4, QuietStutters DEF vars, senderVars
<1> QED BY <1>1, <1>2, <1>3, <1>4 DEF Next

\* Seen through nextChunk, ackedUpTo and its outcome, the sender behaves as
\* WindowedStream: file-transfer.ts never acknowledges what has not left, never
\* overruns its window, and ends a transfer once.
THEOREM StreamImplemented == Spec => StreamSpec
  BY StreamInit, StreamStep, Inductive, PTL DEF Spec, StreamSpec, Stream!Spec

-----------------------------------------------------------------------------
(* After the end. *)

\* The timer is armed only for an entry that is in the map.
TimerLives == stall => outgoing

\* What a step may do to the sender's end of the transfer.
SenderEnd == <<outgoing, nextChunk, stall, sOutcome>>

LEMMA PumpTimer ==
    ASSUME NEW next, NEW acked, NEW enc, NEW armed, NEW w, NEW c,
           outgoing, PumpFrom(next, acked, enc, armed, w, c)
    PROVE  TimerLives'
  BY DEF PumpFrom, EndSender, TimerLives

LEMMA SenderAtRest ==
    ASSUME SenderOK, TimerLives, SenderStep
    PROVE  TimerLives' /\ (offering = "sent" /\ ~outgoing => UNCHANGED SenderEnd)
<1> USE DEF SenderEnd
<1>1. CASE SendFile
  BY <1>1 DEF SendFile, SenderOK, TimerLives
<1>2. CASE OfferEncrypted
  BY <1>2 DEF OfferEncrypted, EndSender, TimerLives
<1>3. CASE CancelFile \/ StallFires
  BY <1>3 DEF CancelFile, StallFires, Stalled, EndSender, TimerLives
<1>4. ASSUME NEW i \in Chunks, EncryptDone(i)
      PROVE  TimerLives' /\ (~outgoing => UNCHANGED SenderEnd)
  <2>1. CASE outgoing /\ CanSend(Sender)
    BY <1>4, <2>1, PumpTimer DEF EncryptDone
  <2>2. CASE ~(outgoing /\ CanSend(Sender))
    BY <1>4, <2>2 DEF EncryptDone, EndSender, TimerLives
  <2> QED BY <2>1, <2>2
<1>5. ASSUME NEW via \in Paths, OnAccept(via)
      PROVE  TimerLives' /\ (~outgoing => UNCHANGED SenderEnd)
  <2>1. CASE outgoing /\ ~started
    BY <1>5, <2>1, PumpTimer DEF OnAccept
  <2>2. CASE ~(outgoing /\ ~started)
    BY <1>5, <2>2 DEF OnAccept, TimerLives
  <2> QED BY <2>1, <2>2
<1>6. ASSUME NEW via \in Paths, OnAck(via)
      PROVE  TimerLives' /\ (~outgoing => UNCHANGED SenderEnd)
  <2>1. CASE MayPump
    BY <1>6, <2>1, PumpTimer DEF OnAck, MayPump
  <2>2. CASE ~MayPump
    <3>1. stall' = (stall \/ outgoing) /\ UNCHANGED <<outgoing, nextChunk, sOutcome>>
      BY <1>6, <2>2 DEF OnAck
    <3>2. stall \in BOOLEAN /\ outgoing \in BOOLEAN
      BY DEF SenderOK
    <3> QED BY <3>1, <3>2 DEF TimerLives
  <2> QED BY <2>1, <2>2
<1>7. ASSUME NEW via \in Paths, OnCancelSender(via) \/ OnDecline(via)
      PROVE  TimerLives' /\ (~outgoing => UNCHANGED SenderEnd)
  BY <1>7 DEF OnCancelSender, OnDecline, EndSender, senderVars, TimerLives
<1> QED BY <1>1, <1>2, <1>3, <1>4, <1>5, <1>6, <1>7 DEF SenderStep

LEMMA OthersAtRest ==
    ASSUME TimerLives,
           ConnectionStep \/ (\E r \in Receivers : ReceiverStep(r)) \/ UNCHANGED vars
    PROVE  TimerLives' /\ (~outgoing => UNCHANGED SenderEnd)
<1> USE DEF SenderEnd
<1>1. ASSUME NEW D, AbortAll(D) \/ UNCHANGED senderVars
      PROVE  UNCHANGED nextChunk /\ TimerLives' /\ (~outgoing => UNCHANGED SenderEnd)
  BY <1>1 DEF AbortAll, EndSender, senderVars, TimerLives
<1>2. CASE ConnectionStep
  BY <1>1, <1>2 DEF ConnectionStep, Disconnect, Reconnect, OpenLink, CloseLink
<1>3. CASE (\E r \in Receivers : ReceiverStep(r)) \/ UNCHANGED vars
  <2>1. UNCHANGED senderVars
    BY <1>3, ReceiversApart DEF vars
  <2> QED BY <1>1, <2>1
<1> QED BY <1>2, <1>3

\* Once an offered transfer has ended nothing revives it: no timer fires, no chunk
\* leaves, no second end is reported (file-transfer.ts fail, cancelFile, pump).
THEOREM EndIsFinal == Spec => EndedStaysEnded
<1> DEFINE AtRest == offering = "sent" /\ ~outgoing => UNCHANGED SenderEnd
<1>1. Init => TimerLives
  BY DEF Init, TimerLives
<1>2. IInv /\ TimerLives /\ [Next]_vars => TimerLives' /\ AtRest
  BY SenderAtRest, OthersAtRest DEF Next, IInv
<1>3. IInv /\ TimerLives /\ [Next]_vars => [AtRest]_vars
  BY <1>2
<1>4. Spec => [][AtRest]_vars
  BY <1>1, <1>2, <1>3, Inductive, PTL DEF Spec
<1>5. EndedStaysEnded <=> [][AtRest]_vars
  BY PTL DEF EndedStaysEnded, SenderEnd
<1> QED BY <1>4, <1>5

-----------------------------------------------------------------------------
(* The sender's acknowledgements tell the truth.                            *)
(*                                                                          *)
(* AckedWasReceived speaks of the sender's counter and a receiver's buffer, *)
(* with frames in between.  AckInv follows the claim on its way: upTo is    *)
(* true of the buffer it goes with, so is every ack that travels            *)
(* (AckFrame), so is the counter.  A claim could be voided only by a second *)
(* offer, which empties the buffer; OfferOnce says why there is none: at    *)
(* most one offer is ever on its way to a receiver, and as long as it is,   *)
(* or is being decrypted, the receiver has not begun.                       *)

\* The frames that claim nothing false of the buffers B.
AckFrame(B) ==
    {f \in Frame : f.type = "ack" => \E r \in Receivers : 0 .. f.n \subseteq B[r]}

QueuesOf(G) == [Devices -> Seq(G)]

\* Whether one of the frames of S is on a queue, and at most one.
Is(S, q, k) == k \in DOMAIN q /\ q[k] \in S
Has(S, q) == \E k \in DOMAIN q : Is(S, q, k)
AtMostOne(S, q) == \A k, l \in DOMAIN q : Is(S, q, k) /\ Is(S, q, l) => k = l

Offers == {f \in Frame : f.type = "offer"}

\* A receiver that has not begun.
Untouched(r) ==
    /\ buf[r] = {} /\ upTo[r] = -1 /\ incoming[r] = FALSE
    /\ \A i \in Chunks : decrypting[r][i] = 0

OfferOnce(r) ==
    /\ AtMostOne(Offers, wire[r]) /\ AtMostOne(Offers, chan[r])
    /\ ~(Has(Offers, wire[r]) /\ Has(Offers, chan[r]))
    /\ Has(Offers, wire[r]) \/ Has(Offers, chan[r]) =>
          Untouched(r) /\ ~reserving[r] /\ offering = "sent"
    /\ reserving[r] => Untouched(r) /\ offering = "sent"
    /\ offering # "sent" => Untouched(r)

PrefixHeld == \A r \in Receivers : 0 .. upTo[r] \subseteq buf[r]

AckInv ==
    /\ \A r \in Receivers : OfferOnce(r)
    /\ wire \in QueuesOf(AckFrame(buf)) /\ chan \in QueuesOf(AckFrame(buf))
    /\ AckedWasReceived
    /\ PrefixHeld

-----------------------------------------------------------------------------
(* Queues. *)

\* There are no more frames of S in q than in p.
Fewer(S, p, q) == (AtMostOne(S, p) => AtMostOne(S, q)) /\ (Has(S, q) => Has(S, p))

LEMMA FewerTrans ==
    ASSUME NEW S, NEW p, NEW q, NEW s, Fewer(S, p, q), Fewer(S, q, s) PROVE Fewer(S, p, s)
  BY DEF Fewer

LEMMA FewerSame == ASSUME NEW S, NEW p PROVE Fewer(S, p, p)
  BY DEF Fewer

LEMMA FewerAppend ==
    ASSUME NEW S, NEW G, NEW p \in Seq(G), NEW f \in G, f \notin S
    PROVE  Fewer(S, p, Append(p, f))
<1>1. /\ Len(p) \in Nat /\ DOMAIN p = 1 .. Len(p) /\ DOMAIN Append(p, f) = 1 .. Len(p) + 1
      /\ \A k \in DOMAIN p : Append(p, f)[k] = p[k]
      /\ Append(p, f)[Len(p) + 1] = f
  OBVIOUS
<1>2. \A k \in DOMAIN Append(p, f) : k \in DOMAIN p \/ k = Len(p) + 1
  BY <1>1
<1>3. \A k : Is(S, Append(p, f), k) => Is(S, p, k)
  BY <1>1, <1>2 DEF Is
<1> QED BY <1>3 DEF Fewer, AtMostOne, Has, Is

LEMMA FewerSent ==
    ASSUME NEW S, NEW G, NEW p \in Seq(G), NEW f \in G, f \notin S, NEW q \in {p, Append(p, f)}
    PROVE  Fewer(S, p, q)
<1>1. CASE q = p
  BY <1>1, FewerSame
<1>2. CASE q = Append(p, f)
  BY <1>2, FewerAppend
<1> QED BY <1>1, <1>2

LEMMA FewerTail ==
    ASSUME NEW S, NEW G, NEW p \in Seq(G), p # <<>>
    PROVE  /\ Fewer(S, p, Tail(p))
           /\ AtMostOne(S, p) /\ Head(p) \in S => ~Has(S, Tail(p))
           /\ Head(p) \in S => Has(S, p)
<1>1. /\ Len(p) \in Nat /\ Len(p) >= 1 /\ DOMAIN p = 1 .. Len(p)
      /\ DOMAIN Tail(p) = 1 .. Len(p) - 1
      /\ \A k \in DOMAIN Tail(p) : Tail(p)[k] = p[k + 1]
      /\ Head(p) = p[1]
  OBVIOUS
<1>2. \A k \in DOMAIN Tail(p) : k \in Int /\ k + 1 \in DOMAIN p /\ k + 1 # 1
  BY <1>1
<1>3. \A k : Is(S, Tail(p), k) => Is(S, p, k + 1)
  BY <1>1, <1>2 DEF Is
<1>4. 1 \in DOMAIN p
  BY <1>1
<1>5. Has(S, Tail(p)) => Has(S, p)
  BY <1>2, <1>3 DEF Has, Is
<1>6. ASSUME AtMostOne(S, p) PROVE AtMostOne(S, Tail(p))
  <2> SUFFICES ASSUME NEW k \in DOMAIN Tail(p), NEW l \in DOMAIN Tail(p),
                      Is(S, Tail(p), k), Is(S, Tail(p), l)
               PROVE  k = l
    BY DEF AtMostOne
  <2>1. k + 1 = l + 1
    BY <1>2, <1>3, <1>6 DEF AtMostOne
  <2> QED BY <2>1, <1>2
<1>7. ASSUME AtMostOne(S, p), Head(p) \in S, Has(S, Tail(p)) PROVE FALSE
  <2>1. PICK k \in DOMAIN Tail(p) : Is(S, Tail(p), k)
    BY <1>7 DEF Has
  <2>2. Is(S, p, k + 1) /\ Is(S, p, 1)
    BY <2>1, <1>1, <1>3, <1>4, <1>7 DEF Is
  <2> QED BY <2>1, <2>2, <1>2, <1>4, <1>7 DEF AtMostOne
<1>8. Head(p) \in S => Has(S, p)
  BY <1>1, <1>4 DEF Has, Is
<1> QED BY <1>5, <1>6, <1>7, <1>8 DEF Fewer

\* Frames of a set G on the queues, and one more of them sent by d.
LEMMA SentKeeps ==
    ASSUME NEW G, NEW w \in QueuesOf(G), NEW c \in QueuesOf(G), NEW f \in G,
           NEW d \in Devices, ConnOK
    PROVE  /\ SentWire(d, f, w) \in QueuesOf(G) /\ SentChan(d, f, c) \in QueuesOf(G)
           /\ \A e \in Devices : SentWire(d, f, w)[e] \in {w[e], Append(w[e], f)}
           /\ \A e \in Devices : SentChan(d, f, c)[e] \in {c[e], Append(c[e], f)}
           /\ SentWire(d, f, w) = w \/ SentChan(d, f, c) = c
<1>1. \A e \in Devices : w[e] \in Seq(G) /\ Append(w[e], f) \in Seq(G)
  BY DEF QueuesOf
<1>2. Broadcast(d, f, w) \in QueuesOf(G)
      /\ \A e \in Devices : Broadcast(d, f, w)[e] \in {w[e], Append(w[e], f)}
  BY <1>1 DEF Broadcast, QueuesOf
<1>3. SentWire(d, f, w) \in QueuesOf(G)
      /\ \A e \in Devices : SentWire(d, f, w)[e] \in {w[e], Append(w[e], f)}
  BY <1>2 DEF SentWire
<1>4. CASE Linked(d)
  <2>1. LinkPeer(d) \in Devices
    BY <1>4 DEF Linked, LinkPeer, Devices, ConnOK
  <2>2. Append(c[LinkPeer(d)], f) \in Seq(G)
    BY <2>1 DEF QueuesOf
  <2>3. SentChan(d, f, c) = [c EXCEPT ![LinkPeer(d)] = Append(c[LinkPeer(d)], f)]
        /\ SentWire(d, f, w) = w
    BY <1>4 DEF SentChan, SentWire
  <2> QED BY <1>3, <2>1, <2>2, <2>3 DEF QueuesOf
<1>5. CASE ~Linked(d)
  BY <1>3, <1>5 DEF SentChan
<1> QED BY <1>4, <1>5

\* How the queues move when no frame of S is sent.
Moves(S, G, w, c) ==
    /\ wire' \in QueuesOf(G) /\ chan' \in QueuesOf(G)
    /\ \A e \in Devices : Fewer(S, w[e], wire'[e]) /\ Fewer(S, c[e], chan'[e])

LEMMA SendMoves ==
    ASSUME NEW S, NEW G, NEW w \in QueuesOf(G), NEW c \in QueuesOf(G), NEW f \in G,
           NEW d \in Devices, ConnOK, f \notin S, Transmit(d, f, w, c)
    PROVE  Moves(S, G, w, c)
<1>1. \A e \in Devices : w[e] \in Seq(G) /\ c[e] \in Seq(G)
  BY DEF QueuesOf
<1>2. \A e \in Devices : wire'[e] \in {w[e], Append(w[e], f)} /\ chan'[e] \in {c[e], Append(c[e], f)}
  BY SentKeeps DEF Transmit
<1>3. ASSUME NEW e \in Devices PROVE Fewer(S, w[e], wire'[e]) /\ Fewer(S, c[e], chan'[e])
  <2>1. w[e] \in Seq(G) /\ wire'[e] \in {w[e], Append(w[e], f)}
    BY <1>1, <1>2
  <2>2. c[e] \in Seq(G) /\ chan'[e] \in {c[e], Append(c[e], f)}
    BY <1>1, <1>2
  <2>3. Fewer(S, w[e], wire'[e])
    BY <2>1, FewerSent
  <2>4. Fewer(S, c[e], chan'[e])
    BY <2>2, FewerSent
  <2> QED BY <2>3, <2>4
<1> QED BY <1>3, SentKeeps DEF Moves, Transmit

\* A frame is taken off a queue.
LEMMA TakeKeeps ==
    ASSUME NEW S, NEW G, wire \in QueuesOf(G), chan \in QueuesOf(G),
           NEW d \in Devices, NEW via, NEW t, Arrives(d, via, t)
    PROVE  /\ WireAfter(d, via) \in QueuesOf(G) /\ ChanAfter(d, via) \in QueuesOf(G)
           /\ Head(Inbox(d, via)) \in G /\ Head(Inbox(d, via)).type = t
           /\ \A e \in Devices : Fewer(S, wire[e], WireAfter(d, via)[e])
                                 /\ Fewer(S, chan[e], ChanAfter(d, via)[e])
<1>1. /\ wire[d] \in Seq(G) /\ chan[d] \in Seq(G)
      /\ Inbox(d, via) \in Seq(G) /\ Inbox(d, via) # <<>>
  BY DEF QueuesOf, Inbox, Arrives
<1>2. Head(Inbox(d, via)) \in G /\ Tail(Inbox(d, via)) \in Seq(G)
      /\ Head(Inbox(d, via)).type = t
  BY <1>1 DEF Arrives
<1>3. Fewer(S, Inbox(d, via), Tail(Inbox(d, via)))
  BY <1>1, FewerTail
<1>4. CASE via = "ws"
  <2>1. WireAfter(d, via) = [wire EXCEPT ![d] = Tail(wire[d])] /\ ChanAfter(d, via) = chan
        /\ Inbox(d, via) = wire[d]
    BY <1>4 DEF WireAfter, ChanAfter, Inbox
  <2> QED BY <1>2, <1>3, <2>1, FewerSame DEF QueuesOf
<1>5. CASE via # "ws"
  <2>1. ChanAfter(d, via) = [chan EXCEPT ![d] = Tail(chan[d])] /\ WireAfter(d, via) = wire
        /\ Inbox(d, via) = chan[d]
    BY <1>5 DEF WireAfter, ChanAfter, Inbox
  <2> QED BY <1>2, <1>3, <2>1, FewerSame DEF QueuesOf
<1> QED BY <1>4, <1>5

LEMMA ConsumeMoves ==
    ASSUME NEW S, NEW G, wire \in QueuesOf(G), chan \in QueuesOf(G),
           NEW d \in Devices, NEW via, NEW t, Arrives(d, via, t), Consume(d, via)
    PROVE  Moves(S, G, wire, chan)
  BY TakeKeeps DEF Consume, Moves

LEMMA MovesTrans ==
    ASSUME NEW S, NEW G, NEW w, NEW c, Moves(S, G, w, c),
           \A e \in Devices : Fewer(S, wire[e], w[e]) /\ Fewer(S, chan[e], c[e])
    PROVE  Moves(S, G, wire, chan)
  BY FewerTrans DEF Moves

LEMMA StillMoves ==
    ASSUME NEW S, NEW G, wire \in QueuesOf(G), chan \in QueuesOf(G), UNCHANGED netVars
    PROVE  Moves(S, G, wire, chan)
  BY FewerSame DEF Moves, netVars
-----------------------------------------------------------------------------
(* Every step but the one that sends the offer moves the queues so.        *)

Replies == {"accept", "decline", "complete", "cancel"}

\* All frames but the acks are in G, and S has only offers and chunks.
Silent(S, G) ==
    /\ \A t \in Replies : Plain(t) \in G /\ Plain(t) \notin S
    /\ \A i \in Chunks : Chunk(i) \in G
    /\ Plain("offer") \in G

LEMMA PlainMoves ==
    ASSUME NEW S, NEW G, Silent(S, G), NEW w \in QueuesOf(G), NEW c \in QueuesOf(G), ConnOK,
           NEW d \in Devices, NEW t \in Replies,
           Transmit(d, Plain(t), w, c)
    PROVE  Moves(S, G, w, c)
<1>1. Plain(t) \in G /\ Plain(t) \notin S
  BY DEF Silent
<1> QED BY <1>1, SendMoves

LEMMA PumpMoves ==
    ASSUME NEW S, NEW G, Silent(S, G), NEW w \in QueuesOf(G), NEW c \in QueuesOf(G), ConnOK,
           NEW next, NEW acked, NEW enc, NEW armed,
           PumpFrom(next, acked, enc, armed, w, c)
    PROVE  Moves(S, G, w, c)
<1>1. CASE wire' = w /\ chan' = c
  BY <1>1, FewerSame DEF Moves
<1>2. CASE Transmit(Sender, Plain("complete"), w, c)
  BY <1>2, PlainMoves, ChunkFacts DEF Replies
<1> QED BY <1>1, <1>2 DEF PumpFrom

\* A chunk leaves, and maybe a file-complete after it.
LEMMA EncryptMoves ==
    ASSUME NEW S, NEW G, Silent(S, G), wire \in QueuesOf(G), chan \in QueuesOf(G), ConnOK,
           NEW i \in Chunks, EncryptDone(i), ~UNCHANGED netVars
    PROVE  LET w == SentWire(Sender, Chunk(i), wire)
               c == SentChan(Sender, Chunk(i), chan) IN
           /\ Moves(S, G, w, c)
           /\ \A e \in Devices : w[e] \in {wire[e], Append(wire[e], Chunk(i))}
           /\ \A e \in Devices : c[e] \in {chan[e], Append(chan[e], Chunk(i))}
           /\ w = wire \/ c = chan
<1> DEFINE w == SentWire(Sender, Chunk(i), wire)
           c == SentChan(Sender, Chunk(i), chan)
<1>1. PumpFrom(nextChunk + 1, ackedUpTo, [encrypting EXCEPT ![i] = @ - 1], stall, w, c)
  BY DEF EncryptDone
<1>2. Chunk(i) \in G /\ Sender \in Devices
  BY ChunkFacts DEF Silent
<1>3. /\ w \in QueuesOf(G) /\ c \in QueuesOf(G)
      /\ \A e \in Devices : w[e] \in {wire[e], Append(wire[e], Chunk(i))}
      /\ \A e \in Devices : c[e] \in {chan[e], Append(chan[e], Chunk(i))}
      /\ w = wire \/ c = chan
  BY <1>2, SentKeeps
<1> HIDE DEF w, c
<1>4. Moves(S, G, w, c)
  BY <1>1, <1>3, PumpMoves
<1> QED BY <1>3, <1>4 DEF w, c

LEMMA SenderMoves ==
    ASSUME NEW S, NEW G, Silent(S, G), wire \in QueuesOf(G), chan \in QueuesOf(G), ConnOK,
           SenderStep,
           OfferEncrypted => Plain("offer") \notin S,
           \A i \in Chunks : EncryptDone(i) /\ ~UNCHANGED netVars => Chunk(i) \notin S
    PROVE  Moves(S, G, wire, chan)
<1>0. Sender \in Devices
  BY ChunkFacts
<1>1. CASE SendFile
  BY <1>1, StillMoves DEF SendFile
<1>2. CASE CancelFile \/ StallFires
  BY <1>0, <1>2, PlainMoves DEF CancelFile, StallFires, Replies
<1>5. CASE OfferEncrypted
  BY <1>0, <1>5, SendMoves DEF OfferEncrypted, Silent
<1>3. ASSUME NEW i \in Chunks, EncryptDone(i) PROVE Moves(S, G, wire, chan)
  <2>1. CASE UNCHANGED netVars
    BY <2>1, StillMoves
  <2>2. CASE ~UNCHANGED netVars
    <3> DEFINE w == SentWire(Sender, Chunk(i), wire)
               c == SentChan(Sender, Chunk(i), chan)
    <3>1. /\ Moves(S, G, w, c)
          /\ \A e \in Devices : w[e] \in {wire[e], Append(wire[e], Chunk(i))}
          /\ \A e \in Devices : c[e] \in {chan[e], Append(chan[e], Chunk(i))}
      BY <1>3, <2>2, EncryptMoves
    <3>2. Chunk(i) \in G /\ Chunk(i) \notin S
      BY <1>3, <2>2 DEF Silent
    <3>3. \A e \in Devices : wire[e] \in Seq(G) /\ chan[e] \in Seq(G)
      BY DEF QueuesOf
    <3> HIDE DEF w, c
    <3>4. ASSUME NEW e \in Devices PROVE Fewer(S, wire[e], w[e]) /\ Fewer(S, chan[e], c[e])
      <4>0. /\ wire[e] \in Seq(G) /\ w[e] \in {wire[e], Append(wire[e], Chunk(i))}
            /\ chan[e] \in Seq(G) /\ c[e] \in {chan[e], Append(chan[e], Chunk(i))}
        BY <3>1, <3>3
      <4>1. Fewer(S, wire[e], w[e])
        BY <3>2, <4>0, FewerSent
      <4>2. Fewer(S, chan[e], c[e])
        BY <3>2, <4>0, FewerSent
      <4> QED BY <4>1, <4>2
    <3> QED BY <3>1, <3>4, MovesTrans
  <2> QED BY <2>1, <2>2
<1>4. ASSUME NEW via \in Paths,
             OnAccept(via) \/ OnAck(via) \/ OnCancelSender(via) \/ OnDecline(via)
      PROVE  Moves(S, G, wire, chan)
  <2> DEFINE w == WireAfter(Sender, via)
             c == ChanAfter(Sender, via)
  <2>1. PICK t : Arrives(Sender, via, t)
    BY <1>4 DEF OnAccept, OnAck, OnCancelSender, OnDecline
  <2>2. CASE Consume(Sender, via)
    BY <1>0, <2>1, <2>2, ConsumeMoves
  <2>3. ASSUME NEW next, NEW acked, PumpFrom(next, acked, encrypting, TRUE, w, c)
        PROVE  Moves(S, G, wire, chan)
    <3>1. /\ w \in QueuesOf(G) /\ c \in QueuesOf(G)
          /\ \A e \in Devices : Fewer(S, wire[e], w[e]) /\ Fewer(S, chan[e], c[e])
      BY <1>0, <2>1, TakeKeeps
    <3> HIDE DEF w, c
    <3>2. Moves(S, G, w, c)
      BY <3>1, <2>3, PumpMoves
    <3> QED BY <3>1, <3>2, MovesTrans
  <2>4. \/ Consume(Sender, via)
        \/ \E next, acked : PumpFrom(next, acked, encrypting, TRUE, w, c)
    BY <1>4 DEF OnAccept, OnAck, OnCancelSender, OnDecline
  <2> QED BY <2>2, <2>3, <2>4
<1> QED BY <1>1, <1>2, <1>3, <1>4, <1>5 DEF SenderStep

LEMMA ReceiverMoves ==
    ASSUME NEW S, NEW G, Silent(S, G), wire \in QueuesOf(G), chan \in QueuesOf(G), ConnOK,
           NEW r \in Receivers, ReceiverStep(r), upTo \in [Receivers -> -1 .. ChunkCount - 1],
           \A u \in Nat : Ack(u) \notin S /\ (upTo'[r] = u => Ack(u) \in G)
    PROVE  Moves(S, G, wire, chan)
<1>0. r \in Devices
  BY ChunkFacts
<1>1. CASE OfferDecrypted(r) \/ OfferRejected(r) \/ AcceptFile(r) \/ DeclineFile(r) \/ Hashed(r)
  <2>1. \/ UNCHANGED netVars
        \/ \E t \in {"accept", "decline"} : Transmit(r, Plain(t), wire, chan)
    BY <1>1 DEF OfferDecrypted, OfferRejected, AcceptFile, DeclineFile, Hashed
  <2> QED BY <1>0, <2>1, StillMoves, PlainMoves DEF Replies
<1>2. ASSUME NEW i \in Chunks, ChunkRejected(r, i) PROVE Moves(S, G, wire, chan)
  BY <1>0, <1>2, PlainMoves DEF ChunkRejected, Replies
<1>3. ASSUME NEW i \in Chunks, ChunkDecrypted(r, i)
      PROVE  Moves(S, G, wire, chan)
  <2>1. CASE UNCHANGED netVars
    BY <2>1, StillMoves
  <2>2. CASE ~UNCHANGED netVars
    <3>1. PICK u \in upTo[r] .. ChunkCount - 1 :
               /\ upTo' = [upTo EXCEPT ![r] = u] /\ u >= 0 /\ Transmit(r, Ack(u), wire, chan)
      BY <1>3, <2>2 DEF ChunkDecrypted
    <3>2. u \in Nat /\ upTo'[r] = u
      BY <1>3, <3>1, ChunkFacts
    <3>3. Ack(u) \in G /\ Ack(u) \notin S
      BY <3>2
    <3> QED BY <1>0, <3>1, <3>3, SendMoves
  <2> QED BY <2>1, <2>2
<1>4. ASSUME NEW via \in Paths, \/ OnOffer(r, via) \/ OnChunk(r, via)
                                \/ OnCancelReceiver(r, via) \/ OnComplete(r, via)
      PROVE  Moves(S, G, wire, chan)
  <2>1. (\E t : Arrives(r, via, t)) /\ Consume(r, via)
    BY <1>4 DEF OnOffer, OnChunk, OnCancelReceiver, OnComplete
  <2> QED BY <1>0, <2>1, ConsumeMoves
<1> QED BY <1>1, <1>2, <1>3, <1>4 DEF ReceiverStep

LEMMA ConnectionMoves ==
    ASSUME NEW S, NEW G, wire \in QueuesOf(G), chan \in QueuesOf(G), ConnectionStep
    PROVE  Moves(S, G, wire, chan)
<1>0. ~Has(S, <<>>) /\ AtMostOne(S, <<>>) /\ <<>> \in Seq(G)
  BY DEF Has, AtMostOne
<1>1. \A p : Fewer(S, p, p) /\ Fewer(S, p, <<>>)
  BY <1>0 DEF Fewer
<1>2. \A e \in Devices : wire[e] \in Seq(G) /\ chan[e] \in Seq(G)
  BY DEF QueuesOf
<1>3. ASSUME NEW d \in Devices, Disconnect(d) PROVE Moves(S, G, wire, chan)
  <2>1. PICK cut : chan' = [e \in Devices |-> IF e \in cut THEN <<>> ELSE chan[e]]
    BY <1>3 DEF Disconnect
  <2>2. wire' = [wire EXCEPT ![d] = <<>>]
    BY <1>3 DEF Disconnect
  <2> QED BY <1>0, <1>1, <1>2, <2>1, <2>2 DEF Moves, QueuesOf
<1>4. CASE (\E d \in Devices : Reconnect(d)) \/ (\E r \in Receivers : OpenLink(r))
  BY <1>4, StillMoves DEF Reconnect, OpenLink
<1>5. CASE CloseLink
  <2>1. /\ chan' = [e \in Devices |-> IF e \in Ends(link) THEN <<>> ELSE chan[e]]
        /\ wire' = wire
    BY <1>5 DEF CloseLink
  <2> QED BY <1>0, <1>1, <1>2, <2>1 DEF Moves, QueuesOf
<1> QED BY <1>3, <1>4, <1>5 DEF ConnectionStep
-----------------------------------------------------------------------------
(* Receivers: a step of q, seen from r. *)

ReceiverTypes ==
    /\ reserving \in [Receivers -> BOOLEAN]
    /\ incoming \in [Receivers -> BOOLEAN]
    /\ buf \in [Receivers -> SUBSET Chunks]
    /\ upTo \in [Receivers -> -1 .. ChunkCount - 1]
    /\ decrypting \in [Receivers -> [Chunks -> Nat]]

LEMMA Types == IInv => ReceiverTypes /\ ConnOK /\ wire \in [Devices -> Seq(Frame)]
                       /\ chan \in [Devices -> Seq(Frame)]
  BY IInvImplies DEF TypeOK, ReceiverTypes, IInv

\* What a receiver holds is not taken from it but by an offer, and what it claims
\* it holds.
HeldBy(r) ==
    /\ buf[r] \subseteq buf'[r]
    /\ 0 .. upTo[r] \subseteq buf[r] => 0 .. upTo'[r] \subseteq buf'[r]

\* A receiver that has not begun does not begin, and no offer is being decrypted
\* that was not.
Waits(r) == (Untouched(r) => Untouched(r)') /\ (reserving'[r] => reserving[r])

LEMMA StillHeld ==
    ASSUME NEW r \in Receivers, UNCHANGED <<buf, upTo>> PROVE HeldBy(r)
  BY DEF HeldBy

LEMMA StillWaits ==
    ASSUME NEW r \in Receivers, UNCHANGED receiverVars PROVE HeldBy(r) /\ Waits(r)
  BY DEF HeldBy, Waits, Untouched, receiverVars

LEMMA DecryptedHolds ==
    ASSUME ReceiverTypes, NEW q \in Receivers, NEW i \in Chunks, ChunkDecrypted(q, i),
           NEW r \in Receivers
    PROVE  HeldBy(r) /\ Waits(r)
<1>1. PICK u \in upTo[q] .. ChunkCount - 1 :
           Reached(buf'[q], upTo[q], u) /\ upTo' = [upTo EXCEPT ![q] = u]
  BY DEF ChunkDecrypted
<1>2. /\ buf' = [buf EXCEPT ![q] = @ \cup {i}]
      /\ decrypting' = [decrypting EXCEPT ![q][i] = @ - 1]
      /\ decrypting[q][i] > 0 /\ UNCHANGED <<incoming, reserving>>
  BY DEF ChunkDecrypted
<1>3. CASE r = q
  <2>1. upTo[q] \in Int /\ u \in Int
    BY <1>1, ChunkFacts DEF ReceiverTypes
  <2>2. buf'[q] = buf[q] \cup {i} /\ upTo'[q] = u
    BY <1>1, <1>2 DEF ReceiverTypes
  <2>3. \A k \in 0 .. u : k \in 0 .. upTo[q] \/ k \in upTo[q] + 1 .. u
    BY <2>1
  <2>4. upTo[q] + 1 .. u \subseteq buf'[q]
    BY <1>1 DEF Reached
  <2>5. HeldBy(q)
    BY <2>2, <2>3, <2>4 DEF HeldBy
  <2>6. ~Untouched(q)
    BY <1>2 DEF Untouched
  <2> QED BY <1>2, <1>3, <2>5, <2>6 DEF Waits
<1>4. CASE r # q
  <2>1. buf'[r] = buf[r] /\ upTo'[r] = upTo[r] /\ decrypting'[r] = decrypting[r]
    BY <1>1, <1>2, <1>4 DEF ReceiverTypes
  <2> QED BY <1>2, <2>1 DEF HeldBy, Waits, Untouched
<1> QED BY <1>3, <1>4

LEMMA ReceiverHolds ==
    ASSUME ReceiverTypes, NEW q \in Receivers, ReceiverStep(q), NEW r \in Receivers
    PROVE  /\ (r = q /\ OfferDecrypted(q)) \/ HeldBy(r)
           /\ \/ r = q /\ (OfferDecrypted(q) \/ \E via \in Paths : OnOffer(q, via))
              \/ Waits(r)
<1>1. CASE OfferDecrypted(q)
  BY <1>1 DEF OfferDecrypted, HeldBy, Waits, Untouched, ReceiverTypes
<1>2. CASE OfferRejected(q)
  BY <1>2 DEF OfferRejected, HeldBy, Waits, Untouched, ReceiverTypes
<1>3. CASE AcceptFile(q)
  BY <1>3, StillHeld DEF AcceptFile, Waits, Untouched
<1>4. CASE DeclineFile(q)
  BY <1>4, StillHeld DEF DeclineFile, EndReceiver, Waits, Untouched, ReceiverTypes
<1>5. CASE Hashed(q)
  BY <1>5, StillHeld DEF Hashed, EndReceiver, Waits, Untouched, ReceiverTypes
<1>6. ASSUME NEW i \in Chunks, ChunkDecrypted(q, i) PROVE HeldBy(r) /\ Waits(r)
  BY <1>6, DecryptedHolds
<1>7. ASSUME NEW i \in Chunks, ChunkRejected(q, i) PROVE HeldBy(r) /\ Waits(r)
  <2>1. /\ decrypting' = [decrypting EXCEPT ![q][i] = @ - 1] /\ decrypting[q][i] > 0
        /\ incoming' = [incoming EXCEPT ![q] = FALSE] /\ UNCHANGED <<buf, upTo, reserving>>
    BY <1>7 DEF ChunkRejected, EndReceiver
  <2>2. CASE r = q
    BY <2>1, <2>2, StillHeld DEF Waits, Untouched
  <2>3. CASE r # q
    <3>1. decrypting'[r] = decrypting[r] /\ incoming'[r] = incoming[r]
      BY <2>1, <2>3 DEF ReceiverTypes
    <3> QED BY <2>1, <3>1, StillHeld DEF Waits, Untouched
  <2> QED BY <2>2, <2>3
<1>8. ASSUME NEW via \in Paths, OnOffer(q, via) PROVE HeldBy(r) /\ (r # q => Waits(r))
  <2>1. UNCHANGED <<incoming, buf, upTo, decrypting>>
        /\ reserving' \in {reserving, [reserving EXCEPT ![q] = TRUE]}
    BY <1>8 DEF OnOffer
  <2> QED BY <2>1, StillHeld DEF Waits, Untouched, ReceiverTypes
<1>9. ASSUME NEW via \in Paths, OnChunk(q, via) PROVE HeldBy(r) /\ Waits(r)
  <2>1. /\ UNCHANGED <<incoming, buf, upTo, reserving>>
        /\ \/ decrypting' = decrypting
           \/ incoming[q] /\ \E i : decrypting' = [decrypting EXCEPT ![q][i] = @ + 1]
    BY <1>9 DEF OnChunk
  <2>2. CASE r = q
    BY <2>1, <2>2, StillHeld DEF Waits, Untouched
  <2>3. CASE r # q
    <3>1. decrypting'[r] = decrypting[r]
      BY <2>1, <2>3 DEF ReceiverTypes
    <3> QED BY <2>1, <3>1, StillHeld DEF Waits, Untouched
  <2> QED BY <2>2, <2>3
<1>10. ASSUME NEW via \in Paths, OnCancelReceiver(q, via) \/ OnComplete(q, via)
       PROVE  HeldBy(r) /\ Waits(r)
  <2>1. UNCHANGED <<buf, upTo, decrypting, reserving>>
        /\ incoming' \in {incoming, [incoming EXCEPT ![q] = FALSE]}
    BY <1>10 DEF OnCancelReceiver, OnComplete, EndReceiver, receiverVars
  <2> QED BY <2>1, StillHeld DEF Waits, Untouched, ReceiverTypes
<1> QED BY <1>1, <1>2, <1>3, <1>4, <1>5, <1>6, <1>7, <1>8, <1>9, <1>10 DEF ReceiverStep

LEMMA ConnectionHolds ==
    ASSUME ReceiverTypes, ConnectionStep, NEW r \in Receivers PROVE HeldBy(r) /\ Waits(r)
<1>1. ASSUME NEW D, AbortAll(D) PROVE HeldBy(r) /\ Waits(r)
  BY <1>1, StillHeld DEF AbortAll, Waits, Untouched, ReceiverTypes
<1>2. CASE (\E d \in Devices : Disconnect(d)) \/ CloseLink
  BY <1>1, <1>2 DEF Disconnect, CloseLink
<1>3. CASE (\E d \in Devices : Reconnect(d)) \/ (\E q \in Receivers : OpenLink(q))
  BY <1>3, StillWaits DEF Reconnect, OpenLink
<1> QED BY <1>2, <1>3 DEF ConnectionStep
-----------------------------------------------------------------------------
(* Offers. *)

\* What a step makes of r when it is neither the sending of the offer nor its
\* arrival or decryption.
LEMMA QuietOffer ==
    ASSUME NEW r, OfferOnce(r), Waits(r), Fewer(Offers, wire[r], wire'[r]), Fewer(Offers, chan[r], chan'[r]),
           offering' = offering \/ (offering = "idle" /\ offering' = "encrypting")
    PROVE  OfferOnce(r)'
  BY DEF OfferOnce, Waits, Fewer

LEMMA StillOffer ==
    ASSUME NEW r, OfferOnce(r), Waits(r), Fewer(Offers, wire[r], wire'[r]), Fewer(Offers, chan[r], chan'[r]),
           offering' = offering
    PROVE  OfferOnce(r)'
  BY QuietOffer

LEMMA OfferSent ==
    ASSUME IInv, NEW r \in Receivers, OfferOnce(r), OfferEncrypted PROVE OfferOnce(r)'
<1> DEFINE f == Plain("offer")
<1>1. /\ ConnOK /\ Sender \in Devices /\ r \in Devices
      /\ wire \in QueuesOf(Frame) /\ chan \in QueuesOf(Frame) /\ f \in Frame
  BY Types, ChunkFacts DEF QueuesOf, Plain, Frame
<1>2. /\ wire'[r] \in {wire[r], Append(wire[r], f)}
      /\ chan'[r] \in {chan[r], Append(chan[r], f)}
      /\ wire' = wire \/ chan' = chan
  BY <1>1, SentKeeps DEF OfferEncrypted, Transmit
<1>3. /\ ~Has(Offers, wire[r]) /\ ~Has(Offers, chan[r]) /\ ~reserving[r] /\ Untouched(r)
      /\ offering' = "sent" /\ UNCHANGED receiverVars
  BY DEF OfferEncrypted, OfferOnce
<1>4. ASSUME NEW p \in Seq(Frame), ~Has(Offers, p) PROVE AtMostOne(Offers, Append(p, f))
  <2>1. /\ Len(p) \in Nat /\ DOMAIN p = 1 .. Len(p) /\ DOMAIN Append(p, f) = 1 .. Len(p) + 1
        /\ \A k \in DOMAIN p : Append(p, f)[k] = p[k]
    BY <1>1
  <2>2. \A k : Is(Offers, Append(p, f), k) => k = Len(p) + 1
    BY <2>1, <1>4 DEF Is, Has
  <2> QED BY <2>2 DEF AtMostOne
<1>5. wire[r] \in Seq(Frame) /\ chan[r] \in Seq(Frame)
  BY <1>1 DEF QueuesOf
<1>6. AtMostOne(Offers, wire'[r]) /\ AtMostOne(Offers, chan'[r]) /\ ~(Has(Offers, wire'[r]) /\ Has(Offers, chan'[r]))
  <2> HIDE DEF f
  <2> QED BY <1>2, <1>3, <1>4, <1>5 DEF OfferOnce
<1>7. Untouched(r)' /\ ~reserving'[r]
  BY <1>3 DEF Untouched, receiverVars
<1> QED BY <1>3, <1>6, <1>7 DEF OfferOnce

LEMMA OfferArrives ==
    ASSUME IInv, NEW r \in Receivers, OfferOnce(r), NEW via \in Paths, OnOffer(r, via)
    PROVE  OfferOnce(r)'
<1>1. /\ wire[r] \in Seq(Frame) /\ chan[r] \in Seq(Frame)
      /\ wire \in [Devices -> Seq(Frame)] /\ chan \in [Devices -> Seq(Frame)]
      /\ r \in Devices /\ reserving \in [Receivers -> BOOLEAN]
  BY Types, ChunkFacts DEF ReceiverTypes
<1>2. Arrives(r, via, "offer") /\ Consume(r, via)
      /\ UNCHANGED <<incoming, buf, upTo, decrypting, offering>>
  BY DEF OnOffer, senderVars
<1>3. CASE via = "ws"
  <2>1. /\ wire[r] # <<>> /\ wire'[r] = Tail(wire[r]) /\ chan' = chan
        /\ Head(wire[r]) \in Frame /\ Head(wire[r]).type = "offer"
    BY <1>1, <1>2, <1>3 DEF Arrives, Inbox, Consume, WireAfter, ChanAfter
  <2>0. Head(wire[r]) \in Offers
    BY <2>1 DEF Offers
  <2>2. Has(Offers, wire[r]) /\ ~Has(Offers, wire'[r]) /\ ~Has(Offers, chan'[r])
        /\ AtMostOne(Offers, wire'[r]) /\ AtMostOne(Offers, chan'[r])
    BY <1>1, <2>0, <2>1, FewerTail DEF OfferOnce, Fewer
  <2> QED BY <1>2, <2>2 DEF OfferOnce, Untouched
<1>4. CASE via # "ws"
  <2>1. /\ chan[r] # <<>> /\ chan'[r] = Tail(chan[r]) /\ wire' = wire
        /\ Head(chan[r]) \in Frame /\ Head(chan[r]).type = "offer"
    BY <1>1, <1>2, <1>4 DEF Arrives, Inbox, Consume, WireAfter, ChanAfter
  <2>0. Head(chan[r]) \in Offers
    BY <2>1 DEF Offers
  <2>2. Has(Offers, chan[r]) /\ ~Has(Offers, chan'[r]) /\ ~Has(Offers, wire'[r])
        /\ AtMostOne(Offers, wire'[r]) /\ AtMostOne(Offers, chan'[r])
    BY <1>1, <2>0, <2>1, FewerTail DEF OfferOnce, Fewer
  <2> QED BY <1>2, <2>2 DEF OfferOnce, Untouched
<1> QED BY <1>3, <1>4

LEMMA OfferOpened ==
    ASSUME ReceiverTypes, NEW r \in Receivers, OfferOnce(r), OfferDecrypted(r),
           Fewer(Offers, wire[r], wire'[r]), Fewer(Offers, chan[r], chan'[r])
    PROVE  OfferOnce(r)'
<1>1. reserving[r] /\ ~reserving'[r] /\ offering' = offering
  BY DEF OfferDecrypted, ReceiverTypes, senderVars
<1> QED BY <1>1 DEF OfferOnce, Fewer

-----------------------------------------------------------------------------
(* Acknowledgements. *)

\* What was true of some buffer stays true of it.
LEMMA ClaimsStay ==
    ASSUME \A r \in Receivers : HeldBy(r) \/ Untouched(r)
    PROVE  /\ \A n \in Nat : (\E r \in Receivers : 0 .. n \subseteq buf[r])
                              => \E r \in Receivers : 0 .. n \subseteq buf'[r]
           /\ AckFrame(buf) \subseteq AckFrame(buf')
<1>1. ASSUME NEW n \in Nat, NEW r \in Receivers, 0 .. n \subseteq buf[r]
      PROVE  0 .. n \subseteq buf'[r]
  <2>1. 0 \in buf[r]
    BY <1>1
  <2>2. HeldBy(r)
    BY <2>1 DEF Untouched
  <2> QED BY <1>1, <2>2 DEF HeldBy
<1>2. \A f \in Frame : f.n \in Nat
  BY DEF Frame
<1> QED BY <1>1, <1>2 DEF AckFrame

LEMMA SilentFrames ==
    /\ \A B : Silent(Offers, AckFrame(B))
    /\ \A i \in Chunks : Chunk(i) \notin Offers
    /\ \A u \in Nat : Ack(u) \notin Offers
<1>1. \A i \in Chunks : i \in Nat
  BY DEF Chunks
<1>2. /\ \A t \in Replies \cup {"offer"} : Plain(t) \in Frame /\ Plain(t).type = t
      /\ \A i \in Chunks : Chunk(i) \in Frame /\ Chunk(i).type = "chunk"
      /\ \A u \in Nat : Ack(u) \in Frame /\ Ack(u).type = "ack"
  BY <1>1 DEF Plain, Chunk, Ack, Frame, Replies
<1>3. "ack" \notin Replies \cup {"offer"} /\ "offer" \notin Replies
  BY DEF Replies
<1> QED BY <1>2, <1>3 DEF Silent, AckFrame, Offers

LEMMA QueuesWiden ==
    ASSUME NEW F, NEW G, F \subseteq G PROVE QueuesOf(F) \subseteq QueuesOf(G)
<1>1. Seq(F) \subseteq Seq(G)
  OBVIOUS
<1> QED BY <1>1 DEF QueuesOf

\* What the sender counts as acknowledged was claimed by an ack.
LEMMA CounterTrue ==
    ASSUME IInv, AckInv, [Next]_vars, \A r \in Receivers : HeldBy(r) \/ Untouched(r)
    PROVE  AckedWasReceived'
<1>0. ackedUpTo \in Int /\ Sender \in Devices
      /\ wire \in QueuesOf(AckFrame(buf)) /\ chan \in QueuesOf(AckFrame(buf))
  BY IInvImplies, ChunkFacts DEF TypeOK, AckInv
<1>1. CASE ackedUpTo' = ackedUpTo
  BY <1>0, <1>1, ClaimsStay DEF AckInv, AckedWasReceived
<1>2. CASE ackedUpTo' # ackedUpTo
  <2>1. PICK via \in Paths : OnAck(via)
    BY <1>2 DEF Next, SenderStep, ReceiverStep, ConnectionStep, vars, senderVars,
                SendFile, OfferEncrypted, CancelFile, StallFires, EncryptDone, OnAccept,
                OnCancelSender, OnDecline, OfferDecrypted, OfferRejected, AcceptFile,
                DeclineFile, Hashed, ChunkDecrypted, ChunkRejected, OnOffer, OnChunk,
                OnCancelReceiver, OnComplete, Disconnect, Reconnect, OpenLink, CloseLink, AbortAll
  <2>2. ackedUpTo' = Arg(Sender, via) /\ Arrives(Sender, via, "ack")
    BY <1>2, <2>1 DEF OnAck
  <2>3. Head(Inbox(Sender, via)) \in AckFrame(buf) /\ Head(Inbox(Sender, via)).type = "ack"
    BY <1>0, <2>2, TakeKeeps
  <2>4. Arg(Sender, via) \in Nat /\ \E r \in Receivers : 0 .. Arg(Sender, via) \subseteq buf[r]
    BY <2>3 DEF AckFrame, Arg, Frame
  <2> QED BY <2>2, <2>4, ClaimsStay DEF AckedWasReceived
<1> QED BY <1>1, <1>2
-----------------------------------------------------------------------------
(* The invariant. *)

LEMMA AckInit == Init => AckInv
<1> SUFFICES ASSUME Init PROVE AckInv
  OBVIOUS
<1>1. ~Has(Offers, <<>>) /\ AtMostOne(Offers, <<>>)
  BY DEF Has, AtMostOne
<1>2. \A r \in Receivers : OfferOnce(r)
  BY <1>1, ChunkFacts DEF Init, OfferOnce, Untouched
<1>3. wire \in QueuesOf(AckFrame(buf)) /\ chan \in QueuesOf(AckFrame(buf))
  BY DEF Init, QueuesOf
<1>4. AckedWasReceived /\ PrefixHeld
  BY DEF Init, AckedWasReceived, PrefixHeld
<1> QED BY <1>2, <1>3, <1>4 DEF AckInv

\* All of it follows for a step once it is known how the step moves the queues, what
\* it leaves the receivers, and that it treats offers as it should.
LEMMA AckClose ==
    ASSUME IInv, AckInv, [Next]_vars,
           \A r \in Receivers : HeldBy(r) \/ (Untouched(r) /\ upTo'[r] = -1),
           wire \in QueuesOf(AckFrame(buf')) /\ chan \in QueuesOf(AckFrame(buf'))
              => wire' \in QueuesOf(AckFrame(buf')) /\ chan' \in QueuesOf(AckFrame(buf')),
           \A r \in Receivers : OfferOnce(r)'
    PROVE  AckInv'
<1>1. AckedWasReceived'
  BY CounterTrue
<1>2. PrefixHeld'
  BY DEF PrefixHeld, AckInv, HeldBy
<1>3. wire' \in QueuesOf(AckFrame(buf')) /\ chan' \in QueuesOf(AckFrame(buf'))
  BY ClaimsStay, QueuesWiden DEF AckInv
<1> QED BY <1>1, <1>2, <1>3 DEF AckInv

LEMMA AckSender == ASSUME IInv, AckInv, SenderStep PROVE AckInv'
<1> DEFINE G == AckFrame(buf')
<1>1. UNCHANGED receiverVars
  BY DEF SenderStep, SendFile, OfferEncrypted, CancelFile, StallFires, EncryptDone, OnAccept,
         OnAck, OnCancelSender, OnDecline
<1>2. \A r \in Receivers : HeldBy(r) /\ Waits(r)
  BY <1>1, StillWaits
<1>3. ConnOK /\ Silent(Offers, G) /\ Plain("offer") \in G /\ Sender \in Devices
      /\ \A i \in Chunks : Chunk(i) \notin Offers
      /\ \A r \in Receivers : r \in Devices
  BY SilentFrames, ChunkFacts DEF IInv, Silent
<1>4. CASE OfferEncrypted
  <2>1. \A r \in Receivers : OfferOnce(r)'
    BY <1>4, OfferSent DEF AckInv
  <2>2. ASSUME wire \in QueuesOf(G), chan \in QueuesOf(G)
        PROVE  wire' \in QueuesOf(G) /\ chan' \in QueuesOf(G)
    <3> HIDE DEF G
    <3> QED BY <1>3, <1>4, <2>2, SentKeeps DEF OfferEncrypted, Transmit
  <2> QED BY <1>2, <2>1, <2>2, AckClose DEF Next
<1>5. CASE ~OfferEncrypted
  <2>1. ASSUME NEW F, Silent(Offers, F), wire \in QueuesOf(F), chan \in QueuesOf(F)
        PROVE  Moves(Offers, F, wire, chan)
    BY <1>3, <1>5, <2>1, SenderMoves
  <2>2. Silent(Offers, AckFrame(buf)) /\ wire \in QueuesOf(AckFrame(buf)) /\ chan \in QueuesOf(AckFrame(buf))
    BY SilentFrames DEF AckInv
  <2>3. Moves(Offers, AckFrame(buf), wire, chan)
    BY <2>1, <2>2
  <2>4. offering' = offering \/ (offering = "idle" /\ offering' = "encrypting")
    <3>1. CASE SendFile
      BY <3>1 DEF SendFile
    <3>2. ASSUME \/ CancelFile \/ StallFires \/ \E i \in Chunks : EncryptDone(i)
                 \/ \E via \in Paths : \/ OnAccept(via) \/ OnAck(via)
                                       \/ OnCancelSender(via) \/ OnDecline(via)
          PROVE  offering' = offering
      BY <3>2 DEF CancelFile, StallFires, EncryptDone, OnAccept, OnAck, OnCancelSender,
                  OnDecline, senderVars
    <3> QED BY <1>5, <3>1, <3>2 DEF SenderStep
  <2>5. ASSUME NEW r \in Receivers PROVE OfferOnce(r)'
    <3>0. r \in Devices
      BY ChunkFacts
    <3>1. Fewer(Offers, wire[r], wire'[r]) /\ Fewer(Offers, chan[r], chan'[r])
      BY <2>3, <3>0 DEF Moves
    <3> QED BY <1>2, <2>4, <3>1, QuietOffer DEF AckInv
  <2>6. wire \in QueuesOf(G) /\ chan \in QueuesOf(G)
           => wire' \in QueuesOf(G) /\ chan' \in QueuesOf(G)
    BY <1>3, <2>1 DEF Moves
  <2> QED BY <1>2, <2>5, <2>6, AckClose DEF Next
<1> QED BY <1>4, <1>5

LEMMA AckReceiver ==
    ASSUME IInv, AckInv, NEW q \in Receivers, ReceiverStep(q) PROVE AckInv'
<1> DEFINE G == AckFrame(buf')
<1>0. ReceiverTypes /\ ConnOK /\ Silent(Offers, G)
      /\ \A u \in Nat : Ack(u) \notin Offers
      /\ upTo \in [Receivers -> -1 .. ChunkCount - 1]
      /\ \A r \in Receivers : r \in Devices
  BY Types, SilentFrames, ChunkFacts DEF ReceiverTypes
<1>1. \A r \in Receivers :
         /\ (r = q /\ OfferDecrypted(q)) \/ HeldBy(r)
         /\ (r = q /\ (OfferDecrypted(q) \/ \E via \in Paths : OnOffer(q, via))) \/ Waits(r)
  BY <1>0, ReceiverHolds
<1>2. OfferDecrypted(q) => Untouched(q) /\ upTo'[q] = -1
  BY <1>0 DEF OfferDecrypted, AckInv, OfferOnce, ReceiverTypes
<1>3. \A r \in Receivers : HeldBy(r) \/ (Untouched(r) /\ upTo'[r] = -1)
  BY <1>1, <1>2
<1>4. PrefixHeld'
  BY <1>3 DEF PrefixHeld, AckInv, HeldBy
<1>5. ASSUME NEW u \in Nat, upTo'[q] = u PROVE Ack(u) \in G
  BY <1>4, <1>5 DEF PrefixHeld, AckFrame, Ack, Frame
<1>6. AckFrame(buf) \subseteq G
  BY <1>3, ClaimsStay
<1>7. wire \in QueuesOf(G) /\ chan \in QueuesOf(G)
  <2> HIDE DEF G
  <2> QED BY <1>6, QueuesWiden DEF AckInv
<1>8. Moves(Offers, G, wire, chan)
  <2> HIDE DEF G
  <2> QED BY <1>0, <1>5, <1>7, ReceiverMoves
<1>9. offering' = offering
  BY DEF ReceiverStep, OfferDecrypted, OfferRejected, AcceptFile, DeclineFile, Hashed,
         ChunkDecrypted, ChunkRejected, OnOffer, OnChunk, OnCancelReceiver, OnComplete, senderVars
<1>10. ASSUME NEW r \in Receivers PROVE OfferOnce(r)'
  <2>0. OfferOnce(r) /\ Fewer(Offers, wire[r], wire'[r]) /\ Fewer(Offers, chan[r], chan'[r])
    BY <1>0, <1>8 DEF Moves, AckInv
  <2>1. CASE Waits(r)
    BY <1>9, <2>0, <2>1, StillOffer
  <2>2. CASE r = q /\ OfferDecrypted(q)
    BY <1>0, <2>0, <2>2, OfferOpened
  <2>3. CASE r = q /\ \E via \in Paths : OnOffer(q, via)
    BY <2>0, <2>3, OfferArrives
  <2> QED BY <1>1, <2>1, <2>2, <2>3
<1> QED BY <1>3, <1>8, <1>10, AckClose DEF Moves, Next

LEMMA AckConnection ==
    ASSUME IInv, AckInv, ConnectionStep \/ UNCHANGED vars PROVE AckInv'
<1> DEFINE G == AckFrame(buf')
<1>1. \A r \in Receivers : HeldBy(r) /\ Waits(r)
  BY Types, ConnectionHolds, StillWaits DEF vars
<1>2. ASSUME NEW F, wire \in QueuesOf(F), chan \in QueuesOf(F) PROVE Moves(Offers, F, wire, chan)
  BY <1>2, ConnectionMoves, StillMoves DEF vars
<1>3. offering' = offering
  BY DEF ConnectionStep, Disconnect, Reconnect, OpenLink, CloseLink, AbortAll, vars, senderVars
<1>4. Moves(Offers, AckFrame(buf), wire, chan)
  BY <1>2 DEF AckInv
<1>5. \A r \in Receivers : OfferOnce(r)'
  BY <1>1, <1>3, <1>4, StillOffer, ChunkFacts DEF Moves, AckInv
<1>6. wire \in QueuesOf(G) /\ chan \in QueuesOf(G)
         => wire' \in QueuesOf(G) /\ chan' \in QueuesOf(G)
  BY <1>2 DEF Moves
<1> QED BY <1>1, <1>5, <1>6, AckClose DEF Next

LEMMA AckNext == IInv /\ AckInv /\ [Next]_vars => AckInv'
  BY AckSender, AckReceiver, AckConnection DEF Next

\* What the sender believes acknowledged, some receiver has decrypted without a gap
\* (file-transfer.ts onAck, onChunk), though acks name no receiver and no transfer
\* counts twice what it has.
THEOREM AcksTellTheTruth == Spec => []AckedWasReceived
<1>1. AckInv => AckedWasReceived
  BY DEF AckInv
<1> QED BY AckInit, AckNext, Inductive, <1>1, PTL DEF Spec

-----------------------------------------------------------------------------
(* No chunk counts twice.  OnceInv follows each chunk on its way to a       *)
(* receiver: it is in one place, and was in none before the sender came to  *)
(* it.  The counter is then raised once for each chunk in the buffer.       *)

Flying(r, i) == Has({Chunk(i)}, wire[r]) \/ Has({Chunk(i)}, chan[r])
Landed(r, i) == decrypting[r][i] > 0 \/ i \in buf[r]

ChunkOnce(r, i) ==
    /\ AtMostOne({Chunk(i)}, wire[r]) /\ AtMostOne({Chunk(i)}, chan[r])
    /\ ~(Has({Chunk(i)}, wire[r]) /\ Has({Chunk(i)}, chan[r]))
    /\ Flying(r, i) => ~Landed(r, i)
    /\ decrypting[r][i] <= 1
    /\ decrypting[r][i] > 0 => i \notin buf[r]
    /\ Flying(r, i) \/ Landed(r, i) => i < nextChunk

OnceInv ==
    /\ \A r \in Receivers : \A i \in Chunks : ChunkOnce(r, i)
    /\ CountedOnce

LEMMA OnceInit == Init => OnceInv
<1> SUFFICES ASSUME Init PROVE OnceInv
  OBVIOUS
<1>1. ASSUME NEW r \in Receivers, NEW i \in Chunks PROVE ChunkOnce(r, i)
  <2>1. \A S : ~Has(S, <<>>) /\ AtMostOne(S, <<>>)
    BY DEF Has, AtMostOne
  <2>2. wire[r] = <<>> /\ chan[r] = <<>> /\ buf[r] = {} /\ decrypting[r][i] = 0
    BY ChunkFacts DEF Init
  <2> QED BY <2>1, <2>2 DEF ChunkOnce, Flying, Landed
<1>2. CountedOnce
  BY FS_EmptySet DEF Init, CountedOnce
<1> QED BY <1>1, <1>2 DEF OnceInv

\* The step does nothing to chunk i at r, but may lose it.
LEMMA QuietChunk ==
    ASSUME NEW r, NEW i \in Int, ChunkOnce(r, i), nextChunk \in Int, nextChunk' \in Int,
           nextChunk <= nextChunk',
           buf'[r] = buf[r], decrypting'[r][i] = decrypting[r][i],
           Fewer({Chunk(i)}, wire[r], wire'[r]), Fewer({Chunk(i)}, chan[r], chan'[r])
    PROVE  ChunkOnce(r, i)'
<1> DEFINE S == {Chunk(i)}
<1>1. Flying(r, i)' => Flying(r, i)
  BY DEF Flying, Fewer
<1>2. Landed(r, i)' <=> Landed(r, i)
  BY DEF Landed
<1> QED BY <1>1, <1>2 DEF ChunkOnce, Fewer

LEMMA OnceFacts ==
    ASSUME IInv
    PROVE  /\ wire \in QueuesOf(Frame) /\ chan \in QueuesOf(Frame) /\ ConnOK
           /\ nextChunk \in Int /\ Sender \in Devices
           /\ \A r \in Receivers : r \in Devices
           /\ \A i \in Chunks : i \in Int /\ Silent({Chunk(i)}, Frame)
           /\ \A i \in Chunks : \A j \in Chunks : Chunk(i) \in {Chunk(j)} => i = j
           /\ \A i \in Chunks : Plain("offer") \notin {Chunk(i)}
           /\ \A i \in Chunks : \A u \in Nat : Ack(u) \notin {Chunk(i)} /\ Ack(u) \in Frame
<1>1. wire \in QueuesOf(Frame) /\ chan \in QueuesOf(Frame) /\ ConnOK
      /\ nextChunk \in Int /\ Sender \in Devices
      /\ \A r \in Receivers : r \in Devices
  <2>1. nextChunk \in 0 .. ChunkCount
    BY IInvImplies DEF TypeOK
  <2>2. nextChunk \in Int
    BY <2>1, ChunkFacts
  <2> QED BY <2>2, Types, ChunkFacts DEF QueuesOf
<1>2. \A i \in Chunks : i \in Nat
  BY DEF Chunks
<1>3. /\ \A t \in Replies \cup {"offer"} : Plain(t) \in Frame /\ Plain(t).type = t
      /\ \A i \in Chunks : Chunk(i) \in Frame /\ Chunk(i).type = "chunk" /\ Chunk(i).n = i
      /\ \A u \in Nat : Ack(u) \in Frame /\ Ack(u).type = "ack"
  BY <1>2 DEF Plain, Chunk, Ack, Frame, Replies
<1>4. "chunk" \notin Replies \cup {"offer", "ack"} /\ "offer" \notin Replies
  BY DEF Replies
<1>5. \A i \in Chunks : Silent({Chunk(i)}, Frame)
  BY <1>3, <1>4 DEF Silent
<1>6. \A i \in Chunks : \A j \in Chunks : Chunk(i) \in {Chunk(j)} => i = j
  BY <1>3
<1>7. \A i \in Chunks : \A u \in Nat : Ack(u) \notin {Chunk(i)} /\ Ack(u) \in Frame
  BY <1>3, <1>4
<1>8. \A i \in Chunks : Plain("offer") \notin {Chunk(i)}
  BY <1>3, <1>4
<1> QED BY <1>1, <1>2, <1>5, <1>6, <1>7, <1>8

\* Chunk i is sent for the first time.
LEMMA ChunkLeaves ==
    ASSUME IInv, NEW r \in Receivers, NEW i \in Chunks, ChunkOnce(r, i),
           EncryptDone(i), ~UNCHANGED netVars
    PROVE  ChunkOnce(r, i)'
<1> DEFINE S == {Chunk(i)}
           w == SentWire(Sender, Chunk(i), wire)
           c == SentChan(Sender, Chunk(i), chan)
<1>1. nextChunk = i /\ nextChunk' = i + 1 /\ UNCHANGED receiverVars
  <2>1. nextChunk = i
    BY IInvImplies DEF EncryptDone, OnePump
  <2> QED BY <2>1 DEF EncryptDone
<1>2. /\ i \in Int /\ r \in Devices
      /\ Silent(S, Frame) /\ wire \in QueuesOf(Frame) /\ chan \in QueuesOf(Frame) /\ ConnOK
      /\ wire[r] \in Seq(Frame) /\ chan[r] \in Seq(Frame) /\ Chunk(i) \in Frame
  BY OnceFacts DEF QueuesOf, Silent
<1>3. ~Flying(r, i) /\ ~Landed(r, i)
  BY <1>1, <1>2 DEF ChunkOnce
<1>4. /\ Moves(S, Frame, w, c)
      /\ w[r] \in {wire[r], Append(wire[r], Chunk(i))}
      /\ c[r] \in {chan[r], Append(chan[r], Chunk(i))}
      /\ w = wire \/ c = chan
  BY <1>2, EncryptMoves
<1>5. ASSUME NEW p \in Seq(Frame), ~Has(S, p) PROVE AtMostOne(S, p) /\ AtMostOne(S, Append(p, Chunk(i)))
  <2>1. /\ Len(p) \in Nat /\ DOMAIN p = 1 .. Len(p)
        /\ DOMAIN Append(p, Chunk(i)) = 1 .. Len(p) + 1
        /\ \A k \in DOMAIN p : Append(p, Chunk(i))[k] = p[k]
    BY <1>2
  <2>2. \A k : Is(S, Append(p, Chunk(i)), k) => k = Len(p) + 1
    BY <2>1, <1>5 DEF Is, Has
  <2>3. \A k : ~Is(S, p, k)
    BY <1>5 DEF Is, Has
  <2> QED BY <2>2, <2>3 DEF AtMostOne
<1>6. /\ Fewer(S, w[r], wire'[r]) /\ Fewer(S, c[r], chan'[r])
  BY <1>2, <1>4 DEF Moves
<1> HIDE DEF w, c
<1>7. /\ AtMostOne(S, w[r]) /\ AtMostOne(S, c[r]) /\ ~(Has(S, w[r]) /\ Has(S, c[r]))
  BY <1>2, <1>3, <1>4, <1>5 DEF Flying
<1>8. /\ AtMostOne(S, wire'[r]) /\ AtMostOne(S, chan'[r])
      /\ ~(Has(S, wire'[r]) /\ Has(S, chan'[r]))
  BY <1>6, <1>7 DEF Fewer
<1>9. ~Landed(r, i)' /\ decrypting'[r][i] = decrypting[r][i]
  BY <1>1, <1>3 DEF Landed, receiverVars
<1>10. i < nextChunk' /\ Chunk(i)' = Chunk(i)
  BY <1>1, <1>2 DEF Chunk
<1> QED BY <1>8, <1>9, <1>10 DEF ChunkOnce, Landed, Flying

LEMMA OnceSender == ASSUME IInv, OnceInv, SenderStep PROVE OnceInv'
<1>1. UNCHANGED receiverVars
  BY DEF SenderStep, SendFile, OfferEncrypted, CancelFile, StallFires, EncryptDone, OnAccept,
         OnAck, OnCancelSender, OnDecline
<1>2. nextChunk' \in Int /\ nextChunk <= nextChunk'
  <2>1. nextChunk' \in {nextChunk, nextChunk + 1}
    BY DEF SenderStep, SendFile, OfferEncrypted, CancelFile, StallFires, EncryptDone, OnAccept,
           OnAck, OnCancelSender, OnDecline, senderVars
  <2> QED BY <2>1, OnceFacts
<1>3. ASSUME NEW r \in Receivers, NEW i \in Chunks PROVE ChunkOnce(r, i)'
  <2>1. CASE EncryptDone(i) /\ ~UNCHANGED netVars
    BY <2>1, ChunkLeaves DEF OnceInv
  <2>2. CASE ~(EncryptDone(i) /\ ~UNCHANGED netVars)
    <3>1. Moves({Chunk(i)}, Frame, wire, chan)
      BY <2>2, OnceFacts, SenderMoves
    <3>2. Fewer({Chunk(i)}, wire[r], wire'[r]) /\ Fewer({Chunk(i)}, chan[r], chan'[r])
      BY <3>1, OnceFacts DEF Moves
    <3> QED BY <1>1, <1>2, <3>2, OnceFacts, QuietChunk DEF receiverVars, OnceInv
  <2> QED BY <2>1, <2>2
<1>4. CountedOnce'
  BY <1>1 DEF receiverVars, CountedOnce, OnceInv
<1> QED BY <1>3, <1>4 DEF OnceInv

\* Chunk i arrives at q and is taken in.
LEMMA ChunkTaken ==
    ASSUME IInv, NEW q \in Receivers, NEW i \in Chunks, ChunkOnce(q, i),
           NEW via \in Paths, OnChunk(q, via), Arg(q, via) = i,
           incoming[q] /\ accepted[q] /\ i \notin buf[q]
    PROVE  ChunkOnce(q, i)'
<1> DEFINE S == {Chunk(i)}
<1>1. /\ q \in Devices /\ wire \in [Devices -> Seq(Frame)] /\ chan \in [Devices -> Seq(Frame)]
      /\ decrypting \in [Receivers -> [Chunks -> Nat]]
  BY Types, ChunkFacts DEF ReceiverTypes
<1>2. /\ Arrives(q, via, "chunk") /\ Consume(q, via)
      /\ decrypting' = [decrypting EXCEPT ![q][i] = @ + 1]
      /\ UNCHANGED <<buf, nextChunk>>
  BY DEF OnChunk, senderVars
<1>3. Inbox(q, via) \in Seq(Frame) /\ Inbox(q, via) # <<>> /\ Head(Inbox(q, via)) \in Frame
  BY <1>1, <1>2 DEF Inbox, Arrives
<1>4. Head(Inbox(q, via)) = Chunk(i)
  BY <1>2, <1>3 DEF Arrives, Arg, Chunk, Frame
<1>5. Flying(q, i) /\ ~Flying(q, i)'
  <2>1. CASE via = "ws"
    <3>1. Inbox(q, via) = wire[q] /\ wire'[q] = Tail(wire[q]) /\ chan' = chan
      BY <1>1, <1>2, <2>1 DEF Inbox, Consume, WireAfter, ChanAfter
    <3>2. Has(S, wire[q]) /\ ~Has(S, wire'[q])
      BY <1>3, <1>4, <3>1, FewerTail DEF ChunkOnce
    <3> QED BY <3>1, <3>2 DEF ChunkOnce, Flying
  <2>2. CASE via # "ws"
    <3>1. Inbox(q, via) = chan[q] /\ chan'[q] = Tail(chan[q]) /\ wire' = wire
      BY <1>1, <1>2, <2>2 DEF Inbox, Consume, WireAfter, ChanAfter
    <3>2. Has(S, chan[q]) /\ ~Has(S, chan'[q])
      BY <1>3, <1>4, <3>1, FewerTail DEF ChunkOnce
    <3> QED BY <3>1, <3>2 DEF ChunkOnce, Flying
  <2> QED BY <2>1, <2>2
<1>6. decrypting[q][i] = 0 /\ decrypting'[q][i] = 1 /\ i \notin buf'[q] /\ i < nextChunk'
  BY <1>1, <1>2, <1>5 DEF ChunkOnce, Landed
<1>7. Fewer(S, wire[q], wire'[q]) /\ Fewer(S, chan[q], chan'[q])
  BY <1>1, <1>2, ConsumeMoves DEF QueuesOf, Moves
<1> QED BY <1>5, <1>6, <1>7 DEF ChunkOnce, Landed, Fewer

\* Chunk i is decrypted, or fails to be.
LEMMA ChunkOpened ==
    ASSUME IInv, NEW q \in Receivers, NEW i \in Chunks, ChunkOnce(q, i),
           ChunkDecrypted(q, i) \/ ChunkRejected(q, i),
           Fewer({Chunk(i)}, wire[q], wire'[q]), Fewer({Chunk(i)}, chan[q], chan'[q])
    PROVE  ChunkOnce(q, i)'
<1>1. decrypting \in [Receivers -> [Chunks -> Nat]] /\ buf \in [Receivers -> SUBSET Chunks]
  BY Types DEF ReceiverTypes
<1>2. /\ decrypting[q][i] > 0 /\ decrypting' = [decrypting EXCEPT ![q][i] = @ - 1]
      /\ buf'[q] \in {buf[q], buf[q] \cup {i}} /\ nextChunk' = nextChunk
  BY <1>1 DEF ChunkDecrypted, ChunkRejected, senderVars
<1>3. decrypting[q][i] = 1 /\ decrypting'[q][i] = 0
  BY <1>1, <1>2 DEF ChunkOnce
<1>4. ~Flying(q, i) /\ i < nextChunk
  BY <1>2 DEF ChunkOnce, Landed
<1>5. ~Flying(q, i)'
  BY <1>4 DEF Flying, Fewer
<1> QED BY <1>2, <1>3, <1>4, <1>5 DEF ChunkOnce, Landed, Fewer

\* What a receiver's step does to chunk i at r.
LEMMA ChunkEffects ==
    ASSUME IInv, AckInv, NEW q \in Receivers, ReceiverStep(q),
           NEW r \in Receivers, NEW i \in Chunks
    PROVE  \/ buf'[r] \cap {i} = buf[r] \cap {i} /\ decrypting'[r][i] = decrypting[r][i]
           \/ r = q /\ (ChunkDecrypted(q, i) \/ ChunkRejected(q, i))
           \/ /\ r = q /\ incoming[q] /\ accepted[q] /\ i \notin buf[q]
              /\ \E via \in Paths : OnChunk(q, via) /\ Arg(q, via) = i
<1>1. decrypting \in [Receivers -> [Chunks -> Nat]] /\ buf \in [Receivers -> SUBSET Chunks]
  BY Types DEF ReceiverTypes
<1>2. CASE OfferDecrypted(q)
  <2>1. buf[q] = {} /\ buf' = [buf EXCEPT ![q] = {}] /\ decrypting' = decrypting
    BY <1>2 DEF OfferDecrypted, AckInv, OfferOnce, Untouched
  <2> QED BY <1>1, <2>1
<1>3. CASE \/ OfferRejected(q) \/ AcceptFile(q) \/ DeclineFile(q) \/ Hashed(q)
           \/ \E via \in Paths : OnOffer(q, via) \/ OnCancelReceiver(q, via) \/ OnComplete(q, via)
  <2>1. UNCHANGED <<buf, decrypting>>
    BY <1>3 DEF OfferRejected, AcceptFile, DeclineFile, Hashed, OnOffer, OnCancelReceiver,
                OnComplete, receiverVars
  <2> QED BY <2>1
<1>4. ASSUME NEW j \in Chunks, ChunkDecrypted(q, j) \/ ChunkRejected(q, j), j # i \/ r # q
      PROVE  buf'[r] \cap {i} = buf[r] \cap {i} /\ decrypting'[r][i] = decrypting[r][i]
  <2>1. /\ decrypting' = [decrypting EXCEPT ![q][j] = @ - 1]
        /\ buf' \in {buf, [buf EXCEPT ![q] = @ \cup {j}]}
    BY <1>4 DEF ChunkDecrypted, ChunkRejected
  <2> QED BY <1>1, <1>4, <2>1
<1>5. ASSUME NEW via \in Paths, OnChunk(q, via)
      PROVE  \/ buf'[r] \cap {i} = buf[r] \cap {i} /\ decrypting'[r][i] = decrypting[r][i]
             \/ r = q /\ incoming[q] /\ accepted[q] /\ i \notin buf[q] /\ Arg(q, via) = i
  <2>1. CASE incoming[q] /\ accepted[q] /\ Arg(q, via) \in Chunks \ buf[q]
    <3>1. decrypting' = [decrypting EXCEPT ![q][Arg(q, via)] = @ + 1] /\ buf' = buf
      BY <1>5, <2>1 DEF OnChunk
    <3> QED BY <1>1, <2>1, <3>1
  <2>2. CASE ~(incoming[q] /\ accepted[q] /\ Arg(q, via) \in Chunks \ buf[q])
    BY <1>5, <2>2 DEF OnChunk
  <2> QED BY <2>1, <2>2
<1> QED BY <1>2, <1>3, <1>4, <1>5 DEF ReceiverStep

LEMMA OnceCount ==
    ASSUME IInv, AckInv, OnceInv, NEW q \in Receivers, ReceiverStep(q) PROVE CountedOnce'
<1> SUFFICES ASSUME NEW r \in Receivers PROVE received'[r] = Cardinality(buf'[r])
  BY DEF CountedOnce
<1>1. /\ buf \in [Receivers -> SUBSET Chunks] /\ received \in [Receivers -> Nat]
      /\ received[r] = Cardinality(buf[r]) /\ decrypting \in [Receivers -> [Chunks -> Nat]]
  BY Types, IInvImplies DEF ReceiverTypes, OnceInv, CountedOnce, TypeOK
<1>2. CASE OfferDecrypted(q)
  <2>1. buf[q] = {} /\ buf' = [buf EXCEPT ![q] = {}] /\ received' = [received EXCEPT ![q] = 0]
    BY <1>2 DEF OfferDecrypted, AckInv, OfferOnce, Untouched
  <2> QED BY <1>1, <2>1, FS_EmptySet
<1>3. ASSUME NEW i \in Chunks, ChunkDecrypted(q, i) PROVE received'[r] = Cardinality(buf'[r])
  <2>1. /\ buf' = [buf EXCEPT ![q] = @ \cup {i}] /\ received' = [received EXCEPT ![q] = @ + 1]
        /\ decrypting[q][i] > 0
    BY <1>3 DEF ChunkDecrypted
  <2>2. i \notin buf[q]
    BY <2>1 DEF OnceInv, ChunkOnce
  <2>3. IsFiniteSet(buf[r])
    <3>1. IsFiniteSet(Chunks)
      <4>1. 0 \in Int /\ ChunkCount - 1 \in Int
        BY ChunkFacts
      <4> QED BY <4>1, FS_Interval DEF Chunks
    <3>2. buf[r] \subseteq Chunks
      BY <1>1
    <3> QED BY <3>1, <3>2, FS_Subset
  <2>4. Cardinality(buf[r] \cup {i}) = IF i \in buf[r] THEN Cardinality(buf[r]) ELSE Cardinality(buf[r]) + 1
    BY <2>3, FS_AddElement
  <2> QED BY <1>1, <2>1, <2>2, <2>4
<1>4. CASE UNCHANGED <<buf, received>>
  BY <1>1, <1>4
<1>5. \/ OfferDecrypted(q) \/ UNCHANGED <<buf, received>> \/ \E i \in Chunks : ChunkDecrypted(q, i)
  BY DEF ReceiverStep, OfferRejected, AcceptFile, DeclineFile, Hashed, OnOffer, OnChunk,
         OnCancelReceiver, OnComplete, ChunkRejected, receiverVars
<1> QED BY <1>2, <1>3, <1>4, <1>5

LEMMA OnceReceiver ==
    ASSUME IInv, AckInv, OnceInv, NEW q \in Receivers, ReceiverStep(q) PROVE OnceInv'
<1>1. nextChunk' = nextChunk /\ upTo \in [Receivers -> -1 .. ChunkCount - 1]
  BY ReceiverStepFrame, Types DEF ReceiverTypes
<1>2. ASSUME NEW r \in Receivers, NEW i \in Chunks PROVE ChunkOnce(r, i)'
  <2>1. Moves({Chunk(i)}, Frame, wire, chan)
    BY <1>1, OnceFacts, ReceiverMoves
  <2>2. Fewer({Chunk(i)}, wire[r], wire'[r]) /\ Fewer({Chunk(i)}, chan[r], chan'[r])
    BY <2>1, OnceFacts DEF Moves
  <2>3. ChunkOnce(r, i)
    BY DEF OnceInv
  <2>4. CASE buf'[r] \cap {i} = buf[r] \cap {i} /\ decrypting'[r][i] = decrypting[r][i]
    <3>1. Landed(r, i)' <=> Landed(r, i)
      BY <2>4 DEF Landed
    <3>2. i \in buf'[r] <=> i \in buf[r]
      BY <2>4
    <3> QED BY <1>1, <2>2, <2>3, <2>4, <3>1, <3>2 DEF ChunkOnce, Flying, Fewer
  <2> QED BY <2>2, <2>3, <2>4, ChunkEffects, ChunkTaken, ChunkOpened
<1> QED BY <1>2, OnceCount DEF OnceInv

LEMMA OnceConnection ==
    ASSUME IInv, OnceInv, ConnectionStep \/ UNCHANGED vars PROVE OnceInv'
<1>1. UNCHANGED <<buf, received, decrypting, nextChunk>>
  BY DEF ConnectionStep, Disconnect, Reconnect, OpenLink, CloseLink, AbortAll, vars, senderVars,
         receiverVars
<1>2. ASSUME NEW r \in Receivers, NEW i \in Chunks PROVE ChunkOnce(r, i)'
  <2>1. Moves({Chunk(i)}, Frame, wire, chan)
    BY OnceFacts, ConnectionMoves, StillMoves DEF vars
  <2>2. Fewer({Chunk(i)}, wire[r], wire'[r]) /\ Fewer({Chunk(i)}, chan[r], chan'[r])
    BY <2>1, OnceFacts DEF Moves
  <2>3. ChunkOnce(r, i) /\ i \in Int /\ nextChunk \in Int
    BY OnceFacts DEF OnceInv
  <2> QED BY <1>1, <2>2, <2>3, QuietChunk
<1>3. CountedOnce'
  BY <1>1 DEF CountedOnce, OnceInv
<1> QED BY <1>2, <1>3 DEF OnceInv

LEMMA OnceNext == IInv /\ AckInv /\ OnceInv /\ [Next]_vars => OnceInv'
  BY OnceSender, OnceReceiver, OnceConnection DEF Next

\* The counter that alone decides that a file is whole is the number of chunks
\* received (file-transfer.ts onChunk), for any number of chunks, receivers and faults:
\* the check for a duplicate before the decryption and the count after it never
\* disagree, because a chunk is sent once and is in one place.
THEOREM ChunksCountOnce == Spec => []CountedOnce
<1>1. OnceInv => CountedOnce
  BY DEF OnceInv
<1> QED BY AckInit, AckNext, OnceInit, OnceNext, Inductive, <1>1, PTL DEF Spec
=============================================================================

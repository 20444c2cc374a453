------------------------- MODULE TransferRowsProofs -------------------------
(***************************************************************************)
(* TransferRows adds what the two screens show to FileTransfer, and their  *)
(* buttons and keys to the user's steps.  Every step of it is a step of    *)
(* the engine or leaves the engine alone, so that what is proved of        *)
(* FileTransfer holds of the engine under web page and terminal.           *)
(*                                                                         *)
(* RowInv then relates what the screens show to the engine: each event     *)
(* moves a row as the step that emits it moves the entry (ReceiverListens, *)
(* SenderListens).  It rests on what EngineInv adds to FileTransferProofs: *)
(* an entry begins only at a receiver that has had no outcome yet.         *)
(***************************************************************************)
EXTENDS TransferRows, FileTransferProofs

LEMMA InitRefines == RowsInit => Init
  BY DEF RowsInit

LEMMA EngineRefines == EngineStep => Next
<1> SUFFICES ASSUME EngineStep PROVE Next
  OBVIOUS
<1>1. CASE \/ SendFile \/ StallFires
           \/ \E i \in Chunks : EncryptDone(i)
           \/ \E via \in Paths : OnAccept(via) \/ OnAck(via) \/ OnCancelSender(via) \/ OnDecline(via)
  BY <1>1 DEF Next, SenderStep
<1>2. CASE \E r \in Receivers :
              \/ OfferDecrypted(r) \/ OfferRejected(r) \/ Hashed(r)
              \/ \E i \in Chunks : ChunkDecrypted(r, i) \/ ChunkRejected(r, i)
              \/ \E via \in Paths :
                    OnOffer(r, via) \/ OnChunk(r, via) \/ OnCancelReceiver(r, via) \/ OnComplete(r, via)
  BY <1>2 DEF Next, ReceiverStep
<1>3. CASE ConnectionStep
  BY <1>3 DEF Next
<1> QED BY <1>1, <1>2, <1>3 DEF EngineStep

\* A button or key acts on the engine as its user does, or on the screen only.
LEMMA UserRefines == UserStep => Next \/ UNCHANGED vars
<1> SUFFICES ASSUME UserStep PROVE Next \/ UNCHANGED vars
  OBVIOUS
<1>1. CASE WebCancelSend
  BY <1>1 DEF WebCancelSend, Next, SenderStep
<1>2. CASE \E r \in Receivers :
              WebAccept(r) \/ WebDecline(r) \/ WebCancelReceive(r) \/ CliAccept(r) \/ CliDecline(r)
  <2>1. PICK r \in Receivers : AcceptFile(r) \/ DeclineFile(r) \/ UNCHANGED vars
    BY <1>2 DEF WebAccept, WebDecline, WebCancelReceive, CliAccept, CliDecline
  <2> QED BY <2>1 DEF Next, ReceiverStep
<1>3. CASE \E r \in Receivers : OtherOffer(r) \/ OtherAnswered(r) \/ Saved(r)
  BY <1>3 DEF OtherOffer, OtherAnswered, Saved
<1> QED BY <1>1, <1>2, <1>3 DEF UserStep

LEMMA StepRefines == [RowsNext]_rowsVars => [Next]_vars
<1> SUFFICES ASSUME [RowsNext]_rowsVars PROVE Next \/ UNCHANGED vars
  OBVIOUS
<1>1. CASE SendReturns
  BY <1>1 DEF SendReturns, Next, SenderStep
<1>2. CASE EngineStep /\ Listen
  BY <1>2, EngineRefines
<1>3. CASE UserStep
  BY <1>3, UserRefines
<1>4. CASE UNCHANGED rowsVars
  BY <1>4 DEF rowsVars
<1> QED BY <1>1, <1>2, <1>3, <1>4 DEF RowsNext

\* The engine under its two user interfaces (room.svelte and transfer-row.svelte,
\* app.tsx) behaves as the engine alone, whatever they make of its events.
THEOREM RowsRefineEngine == RowsSpec => Spec
  BY InitRefines, StepRefines, PTL DEF RowsSpec, Spec

\* So the engine under the interfaces keeps its types, runs one pump that misses no
\* wake-up, believes no acknowledgement that is not true, and counts no chunk twice.
THEOREM EngineHolds ==
    RowsSpec => [](TypeOK /\ OnePump /\ NoLostWakeup /\ AckedWasReceived /\ CountedOnce)
  BY RowsRefineEngine, TypeCorrect, OnePumpHolds, NoWakeupLost, AcksTellTheTruth, ChunksCountOnce, PTL

\* Nor does a button, a key or a late row revive a transfer that has ended.
THEOREM EndIsFinalUnderRows == RowsSpec => EndedStaysEnded
  BY RowsRefineEngine, EndIsFinal, PTL

\* And its sending half implements WindowedStream.
THEOREM StreamUnderRows == RowsSpec => StreamSpec
  BY RowsRefineEngine, StreamImplemented, PTL

-----------------------------------------------------------------------------
(* What the rows show.                                                      *)

\* Before the offer is sent nothing happens but connections.
Before ==
    offering # "sent" =>
        /\ ~started /\ ~stall /\ nextChunk = 0
        /\ \A i \in Chunks : encrypting[i] = 0
        /\ \A d \in Devices : wire[d] = <<>> /\ chan[d] = <<>>

\* The offer is still to reach r, or is being decrypted there.
Pending(r) ==
    \/ offering # "sent" \/ reserving[r]
    \/ Has(Offers, wire[r]) \/ Has(Offers, chan[r])

\* Until then r has no outcome and will get none.
NoOutcomeYet(r) == Pending(r) => rOutcome[r] = <<>> /\ ~hashing[r]

EngineInv == IInv /\ AckInv /\ OnceInv /\ Before /\ \A r \in Receivers : NoOutcomeYet(r)

Got(r) == "received" \in {rOutcome[r][k] : k \in DOMAIN rOutcome[r]}

\* A receiver's row: RowsTrue, and there is none before there was an entry.
ReceiverRow(r) ==
    IF Web(r)
    THEN /\ ~saving[r]
         /\ row[r] = "offering" <=> incoming[r] /\ ~accepted[r]
         /\ row[r] = "transferring" <=> incoming[r] /\ accepted[r]
         /\ ~incoming[r] /\ rOutcome[r] = <<>> => row[r] = "none"
         /\ row[r] = "done" => buf[r] = Chunks /\ Got(r)
    ELSE row[r] \in {"none", "shown"}

\* The sender's: it is on its way while there is something to send.
SenderRow ==
    IF Web(Sender)
    THEN /\ offering # "sent" => row[Sender] = "none"
         /\ row[Sender] = "transferring" => orphan \/ (outgoing /\ nextChunk < ChunkCount)
         /\ row[Sender] = "done" => nextChunk = ChunkCount
    ELSE row[Sender] \in {"none", "shown"}

RowTypes ==
    /\ kind \in [Devices -> {"web", "cli"}]
    /\ row \in [Devices -> RowStates]
    /\ saving \in [Devices -> BOOLEAN]

RowInv == RowTypes /\ SenderRow /\ \A r \in Receivers : ReceiverRow(r)

(* The engine. *)

LEMMA BeforeKeeps == ASSUME IInv, AckInv, OnceInv, Before, [Next]_vars PROVE Before'
<1> SUFFICES ASSUME offering' # "sent" PROVE Before'
  BY DEF Before
<1>1. \A via \in Paths : \A d \in Devices : \A t : offering # "sent" => ~Arrives(d, via, t)
  BY DEF Before, Arrives, Inbox
<1>2. \A r \in Receivers : offering # "sent" => Untouched(r) /\ ~reserving[r]
  BY DEF AckInv, OfferOnce
<1>3. CASE SenderStep
  <2>1. offering # "sent"
    BY <1>3 DEF SenderStep, SendFile, OfferEncrypted, CancelFile, StallFires, EncryptDone,
                OnAccept, OnAck, OnCancelSender, OnDecline, senderVars
  <2>2. SendFile
    <3>1. \A via \in Paths : ~(OnAccept(via) \/ OnAck(via) \/ OnCancelSender(via) \/ OnDecline(via))
      BY <1>1, <2>1, ChunkFacts DEF OnAccept, OnAck, OnCancelSender, OnDecline
    <3>2. \A i \in Chunks : ~EncryptDone(i)
      BY <2>1 DEF Before, EncryptDone
    <3>3. ~OfferEncrypted /\ ~CancelFile /\ ~StallFires
      BY <2>1 DEF OfferEncrypted, CancelFile, StallFires, Stalled, Before
    <3> QED BY <1>3, <3>1, <3>2, <3>3 DEF SenderStep
  <2> QED BY <2>1, <2>2 DEF SendFile, Before, netVars
<1>4. ASSUME NEW q \in Receivers, ReceiverStep(q) PROVE Before'
  <2>1. offering # "sent" /\ UNCHANGED senderVars
    BY <1>4, ReceiversApart DEF senderVars
  <2>2. \A via \in Paths :
           ~(OnOffer(q, via) \/ OnChunk(q, via) \/ OnCancelReceiver(q, via) \/ OnComplete(q, via))
    BY <1>1, <2>1, ChunkFacts DEF OnOffer, OnChunk, OnCancelReceiver, OnComplete
  <2>3. \A i \in Chunks : ~(ChunkDecrypted(q, i) \/ ChunkRejected(q, i))
    BY <1>2, <2>1 DEF Untouched, ChunkDecrypted, ChunkRejected
  <2>4. Hashed(q)
    BY <1>2, <1>4, <2>1, <2>2, <2>3 DEF ReceiverStep, OfferDecrypted, OfferRejected, AcceptFile,
                                         DeclineFile, Untouched
  <2> QED BY <2>1, <2>4 DEF Hashed, Before, senderVars, netVars
<1>5. CASE ConnectionStep
  <2>1. offering # "sent"
    BY <1>5 DEF ConnectionStep, Disconnect, Reconnect, OpenLink, CloseLink, AbortAll, senderVars
  <2>2. /\ UNCHANGED <<started, nextChunk, encrypting>> /\ ~stall'
    BY <1>5, <2>1 DEF ConnectionStep, Disconnect, Reconnect, OpenLink, CloseLink, AbortAll,
                      EndSender, senderVars, Before
  <2>3. \A d \in Devices : wire'[d] = <<>> /\ chan'[d] = <<>>
    <3>1. /\ wire = [d \in Devices |-> <<>>] /\ chan = [d \in Devices |-> <<>>]
      BY <2>1, Types DEF Before
    <3>2. \/ UNCHANGED netVars
          \/ /\ \E D : chan' = [e \in Devices |-> IF e \in D THEN <<>> ELSE chan[e]]
             /\ wire' = wire \/ \E d \in Devices : wire' = [wire EXCEPT ![d] = <<>>]
      <4>1. CASE \E d \in Devices : Disconnect(d)
        BY <4>1 DEF Disconnect
      <4>2. CASE CloseLink
        BY <4>2 DEF CloseLink
      <4>3. CASE \E d \in Devices : Reconnect(d)
        BY <4>3 DEF Reconnect
      <4>4. CASE \E r \in Receivers : OpenLink(r)
        BY <4>4 DEF OpenLink
      <4> QED BY <1>5, <4>1, <4>2, <4>3, <4>4 DEF ConnectionStep
    <3> QED BY <3>1, <3>2 DEF netVars
  <2> QED BY <2>1, <2>2, <2>3 DEF Before
<1>6. CASE UNCHANGED vars
  BY <1>6 DEF vars, senderVars, netVars, Before
<1> QED BY <1>3, <1>4, <1>5, <1>6 DEF Next

LEMMA PendingStays ==
    ASSUME IInv, AckInv, [Next]_vars, NEW r \in Receivers, Pending(r)' PROVE Pending(r)
<1>1. (Fewer(Offers, wire[r], wire'[r]) /\ Fewer(Offers, chan[r], chan'[r])) \/ OfferEncrypted
  <2>0. /\ wire \in QueuesOf(Frame) /\ chan \in QueuesOf(Frame) /\ ConnOK
        /\ r \in Devices /\ upTo \in [Receivers -> -1 .. ChunkCount - 1]
    BY OnceFacts, Types DEF ReceiverTypes
  <2>1. /\ Silent(Offers, Frame) /\ \A i \in Chunks : Chunk(i) \notin Offers
        /\ \A u \in Nat : Ack(u) \notin Offers /\ Ack(u) \in Frame
    <3>1. \A B : Silent(Offers, AckFrame(B)) => Silent(Offers, Frame)
      BY DEF Silent, AckFrame
    <3> QED BY <3>1, SilentFrames DEF Ack, Frame
  <2>2. Moves(Offers, Frame, wire, chan) \/ OfferEncrypted
    <3>1. CASE SenderStep
      BY <2>0, <2>1, <3>1, SenderMoves
    <3>2. CASE \E q \in Receivers : ReceiverStep(q)
      BY <2>0, <2>1, <3>2, ReceiverMoves
    <3>3. CASE ConnectionStep \/ UNCHANGED vars
      BY <2>0, <3>3, ConnectionMoves, StillMoves DEF vars
    <3> QED BY <3>1, <3>2, <3>3 DEF Next
  <2> QED BY <2>0, <2>2 DEF Moves
<1>2. offering' # "sent" => offering # "sent"
  <2>1. CASE SenderStep
    BY <2>1 DEF SenderStep, SendFile, OfferEncrypted, CancelFile, StallFires, EncryptDone,
                OnAccept, OnAck, OnCancelSender, OnDecline, senderVars
  <2>2. CASE \E q \in Receivers : ReceiverStep(q)
    BY <2>2, ReceiversApart DEF senderVars
  <2>3. CASE ConnectionStep \/ UNCHANGED vars
    BY <2>3 DEF ConnectionStep, Disconnect, Reconnect, OpenLink, CloseLink, AbortAll, vars, senderVars
  <2> QED BY <2>1, <2>2, <2>3 DEF Next
<1>3. OfferEncrypted => offering # "sent"
  BY DEF OfferEncrypted
<1>4. reserving'[r] => reserving[r] \/ Has(Offers, wire[r]) \/ Has(Offers, chan[r])
  <2>1. CASE \E q \in Receivers : ReceiverStep(q)
    <3>1. PICK q \in Receivers : ReceiverStep(q)
      BY <2>1
    <3>2. ASSUME NEW via \in Paths, OnOffer(r, via)
          PROVE  Has(Offers, wire[r]) \/ Has(Offers, chan[r])
      <4>1. Inbox(r, via) \in Seq(Frame) /\ Inbox(r, via) # <<>>
            /\ Head(Inbox(r, via)).type = "offer"
        BY <3>2, Types, ChunkFacts DEF OnOffer, Arrives, Inbox
      <4>2. Head(Inbox(r, via)) \in Offers
        BY <4>1 DEF Offers
      <4>3. Has(Offers, Inbox(r, via))
        BY <4>1, <4>2, FewerTail
      <4> QED BY <4>3 DEF Inbox
    <3>3. OfferDecrypted(r) => ~reserving'[r]
      BY Types DEF OfferDecrypted, ReceiverTypes
    <3> QED BY <3>1, <3>2, <3>3, Types, ReceiverHolds DEF Waits
  <2>2. CASE SenderStep
    BY <2>2 DEF SenderStep, SendFile, OfferEncrypted, CancelFile, StallFires, EncryptDone,
                OnAccept, OnAck, OnCancelSender, OnDecline, receiverVars
  <2>3. CASE ConnectionStep \/ UNCHANGED vars
    BY <2>3 DEF ConnectionStep, Disconnect, Reconnect, OpenLink, CloseLink, AbortAll, vars, receiverVars
  <2> QED BY <2>1, <2>2, <2>3 DEF Next
<1> QED BY <1>1, <1>2, <1>3, <1>4 DEF Pending, Fewer

LEMMA OutcomeKeeps ==
    ASSUME IInv, AckInv, [Next]_vars, NEW r \in Receivers, NoOutcomeYet(r) PROVE NoOutcomeYet(r)'
<1> SUFFICES ASSUME Pending(r)' PROVE rOutcome'[r] = rOutcome[r] /\ (hashing'[r] => hashing[r])
  BY PendingStays DEF NoOutcomeYet
<1>1. Pending(r) /\ Untouched(r) /\ ~hashing[r]
  BY PendingStays DEF AckInv, OfferOnce, Pending, NoOutcomeYet
<1>2. rOutcome \in [Receivers -> Seq(ROutcome)] /\ hashing \in [Receivers -> BOOLEAN]
  BY DEF IInv, ReceiverOK
<1>3. ASSUME NEW q \in Receivers, ReceiverStep(q)
      PROVE  rOutcome'[r] = rOutcome[r] /\ (hashing'[r] => hashing[r])
  <2>1. CASE q = r
    <3>1. ~DeclineFile(r) /\ ~Hashed(r) /\ \A i \in Chunks : ~ChunkDecrypted(r, i) /\ ~ChunkRejected(r, i)
      BY <1>1 DEF Untouched, DeclineFile, Hashed, ChunkDecrypted, ChunkRejected
    <3> QED BY <1>1, <1>3, <2>1, <3>1
         DEF ReceiverStep, OfferDecrypted, OfferRejected, AcceptFile, OnOffer, OnChunk,
             OnCancelReceiver, OnComplete, receiverVars, Untouched
  <2>2. CASE q # r
    <3>1. /\ rOutcome' = rOutcome \/ \E why : rOutcome' = [rOutcome EXCEPT ![q] = Append(@, why)]
          /\ hashing' = hashing \/ \E b : hashing' = [hashing EXCEPT ![q] = b]
      BY <1>3 DEF ReceiverStep, OfferDecrypted, OfferRejected, AcceptFile, DeclineFile, Hashed,
                  ChunkDecrypted, ChunkRejected, OnOffer, OnChunk, OnCancelReceiver, OnComplete,
                  EndReceiver, receiverVars
    <3> QED BY <1>2, <2>2, <3>1
  <2> QED BY <2>1, <2>2
<1>4. CASE SenderStep
  BY <1>4 DEF SenderStep, SendFile, OfferEncrypted, CancelFile, StallFires, EncryptDone,
              OnAccept, OnAck, OnCancelSender, OnDecline, receiverVars
<1>5. CASE ConnectionStep \/ UNCHANGED vars
  BY <1>1, <1>5 DEF ConnectionStep, Disconnect, Reconnect, OpenLink, CloseLink, AbortAll, vars,
                    receiverVars, Untouched
<1> QED BY <1>3, <1>4, <1>5 DEF Next

LEMMA EngineInit == Init => EngineInv
<1> SUFFICES ASSUME Init PROVE EngineInv
  OBVIOUS
<1>1. Before
  BY DEF Init, Before
<1>2. \A r \in Receivers : NoOutcomeYet(r)
  BY DEF Init, NoOutcomeYet
<1> QED BY <1>1, <1>2, InitIInv, AckInit, OnceInit DEF EngineInv

LEMMA EngineNext == EngineInv /\ [Next]_vars => EngineInv'
<1> SUFFICES ASSUME EngineInv, [Next]_vars PROVE EngineInv'
  OBVIOUS
<1>1. IInv'
  BY SenderStepKeeps, ReceiverStepKeeps, ConnectionStepKeeps, StutterKeeps DEF Next, EngineInv
<1> QED BY <1>1, AckNext, OnceNext, BeforeKeeps, OutcomeKeeps DEF EngineInv

(* What a step of the engine does to an entry, and what a row makes of it. *)

SameEntry(r) ==
    /\ rOutcome'[r] = rOutcome[r] /\ incoming'[r] = incoming[r] /\ accepted'[r] = accepted[r]
    /\ buf[r] \subseteq buf'[r]

NewEntry(r) ==
    /\ rOutcome'[r] = rOutcome[r] /\ rOutcome[r] = <<>>
    /\ ~incoming[r] /\ incoming'[r] /\ accepted'[r] = INLINE

EntryEnds(r) ==
    /\ ~incoming'[r] /\ buf'[r] = buf[r]
    /\ \E why \in {"received", "error", "cancel"} :
          rOutcome'[r] = Append(rOutcome[r], why) /\ (why = "received" => buf[r] = Chunks)

LEMMA EntryTypes ==
    ASSUME EngineInv
    PROVE  /\ rOutcome \in [Receivers -> Seq(ROutcome)] /\ incoming \in [Receivers -> BOOLEAN]
           /\ accepted \in [Receivers -> BOOLEAN] /\ buf \in [Receivers -> SUBSET Chunks]
  BY Types DEF EngineInv, IInv, ReceiverOK, ReceiverTypes

LEMMA EntryChanges ==
    ASSUME EngineInv, EngineStep \/ OfferEncrypted \/ CancelFile, NEW r \in Receivers
    PROVE  SameEntry(r) \/ NewEntry(r) \/ EntryEnds(r)
<1> USE EntryTypes
<1>1. ASSUME UNCHANGED receiverVars PROVE SameEntry(r)
  BY <1>1 DEF SameEntry, receiverVars
<1>2. CASE \/ OfferEncrypted \/ CancelFile \/ SendFile \/ StallFires
           \/ \E i \in Chunks : EncryptDone(i)
           \/ \E via \in Paths : OnAccept(via) \/ OnAck(via) \/ OnCancelSender(via) \/ OnDecline(via)
  BY <1>1, <1>2 DEF SendFile, OfferEncrypted, CancelFile, StallFires, EncryptDone, OnAccept,
                    OnAck, OnCancelSender, OnDecline
<1>3. ASSUME NEW q \in Receivers, OfferDecrypted(q) PROVE SameEntry(r) \/ NewEntry(r)
  <2>1. Untouched(q) /\ rOutcome[q] = <<>>
    BY <1>3 DEF OfferDecrypted, EngineInv, AckInv, OfferOnce, NoOutcomeYet, Pending
  <2>2. CASE q = r
    BY <1>3, <2>1, <2>2 DEF OfferDecrypted, NewEntry, Untouched
  <2>3. CASE q # r
    BY <1>3, <2>3 DEF OfferDecrypted, SameEntry
  <2> QED BY <2>2, <2>3
<1>4. ASSUME NEW q \in Receivers, Hashed(q) PROVE SameEntry(r) \/ EntryEnds(r)
  <2>1. CASE q = r
    <3>1. /\ rOutcome'[r] = Append(rOutcome[r], IF buf[r] = Chunks THEN "received" ELSE "error")
          /\ incoming'[r] = FALSE /\ buf' = buf
      BY <1>4, <2>1 DEF Hashed, EndReceiver
    <3> QED BY <3>1 DEF EntryEnds
  <2>2. CASE q # r
    BY <1>4, <2>2 DEF Hashed, EndReceiver, SameEntry
  <2> QED BY <2>1, <2>2
<1>5. ASSUME NEW q \in Receivers, NEW i \in Chunks, ChunkRejected(q, i)
      PROVE  SameEntry(r) \/ EntryEnds(r)
  <2>1. CASE q = r
    <3>1. rOutcome'[r] = Append(rOutcome[r], "error") /\ incoming'[r] = FALSE /\ buf' = buf
      BY <1>5, <2>1 DEF ChunkRejected, EndReceiver
    <3> QED BY <3>1 DEF EntryEnds
  <2>2. CASE q # r
    BY <1>5, <2>2 DEF ChunkRejected, EndReceiver, SameEntry
  <2> QED BY <2>1, <2>2
<1>6. ASSUME NEW q \in Receivers, NEW i \in Chunks, ChunkDecrypted(q, i) PROVE SameEntry(r)
  <2>1. buf' = [buf EXCEPT ![q] = @ \cup {i}] /\ UNCHANGED <<rOutcome, incoming, accepted>>
    BY <1>6 DEF ChunkDecrypted
  <2> QED BY <2>1 DEF SameEntry
<1>7. ASSUME NEW q \in Receivers, NEW via \in Paths, OnCancelReceiver(q, via)
      PROVE  SameEntry(r) \/ EntryEnds(r)
  <2>1. CASE q = r /\ incoming[r]
    <3>1. rOutcome'[r] = Append(rOutcome[r], "cancel") /\ incoming'[r] = FALSE /\ buf' = buf
      BY <1>7, <2>1 DEF OnCancelReceiver, EndReceiver
    <3> QED BY <3>1 DEF EntryEnds
  <2>2. CASE q # r \/ ~incoming[r]
    BY <1>7, <2>2 DEF OnCancelReceiver, EndReceiver, SameEntry
  <2> QED BY <2>1, <2>2
<1>8. CASE \E q \in Receivers :
              \/ OfferRejected(q)
              \/ \E via \in Paths : OnOffer(q, via) \/ OnChunk(q, via) \/ OnComplete(q, via)
  BY <1>8 DEF OfferRejected, OnOffer, OnChunk, OnComplete, SameEntry, receiverVars
<1>9. CASE ConnectionStep
  <2>1. ASSUME NEW D, AbortAll(D) PROVE SameEntry(r) \/ EntryEnds(r)
    <3>1. CASE r \in D /\ incoming[r]
      <4>1. rOutcome'[r] = Append(rOutcome[r], "error") /\ incoming'[r] = FALSE /\ buf' = buf
        BY <2>1, <3>1 DEF AbortAll
      <4> QED BY <4>1 DEF EntryEnds
    <3>2. CASE r \notin D \/ ~incoming[r]
      <4>1. incoming'[r] = incoming[r]
        BY <2>1, <3>2 DEF AbortAll
      <4> QED BY <2>1, <3>2, <4>1 DEF AbortAll, SameEntry
    <3> QED BY <3>1, <3>2
  <2>2. UNCHANGED receiverVars \/ \E D : AbortAll(D)
    BY <1>9 DEF ConnectionStep, Disconnect, Reconnect, OpenLink, CloseLink
  <2> QED BY <1>1, <2>1, <2>2
<1> QED BY <1>2, <1>3, <1>4, <1>5, <1>6, <1>7, <1>8, <1>9 DEF EngineStep

LEMMA AppendNewest ==
    ASSUME NEW G, NEW s \in Seq(G), NEW x \in G
    PROVE  /\ Len(Append(s, x)) > Len(s) /\ Newest(Append(s, x)) = x /\ Append(s, x) # <<>>
           /\ x \in {Append(s, x)[k] : k \in DOMAIN Append(s, x)}
           /\ {s[k] : k \in DOMAIN s} \subseteq {Append(s, x)[k] : k \in DOMAIN Append(s, x)}
<1>1. /\ Len(s) \in Nat /\ DOMAIN s = 1 .. Len(s) /\ Len(Append(s, x)) = Len(s) + 1
      /\ DOMAIN Append(s, x) = 1 .. Len(s) + 1
      /\ \A k \in DOMAIN s : Append(s, x)[k] = s[k] /\ k \in DOMAIN Append(s, x)
      /\ Append(s, x)[Len(s) + 1] = x /\ Len(s) + 1 \in DOMAIN Append(s, x)
  OBVIOUS
<1>2. Append(s, x) # <<>>
  BY <1>1
<1> QED BY <1>1, <1>2 DEF Newest

\* A row as its event leaves it.
ReceiverRowAfter(r) ==
    IF Web(r)
    THEN \/ SameEntry(r) /\ row'[r] = row[r]
         \/ /\ NewEntry(r)
            /\ row'[r] = IF row[r] # "none" THEN row[r]
                         ELSE IF INLINE THEN "transferring" ELSE "offering"
         \/ /\ EntryEnds(r) /\ row'[r] \in {"none", "done", "error", "cancelled"}
            /\ row'[r] = "done" => buf'[r] = Chunks /\ Got(r)'
            /\ rOutcome'[r] # <<>>
    ELSE row[r] \in {"none", "shown"} => row'[r] \in {"none", "shown"}

LEMMA ReceiverListens ==
    ASSUME EngineInv, EngineStep \/ CancelFile, Listen, NEW r \in Receivers
    PROVE  ReceiverRowAfter(r)
<1>1. r \in Devices /\ r # Sender
  BY TransferAssumption DEF Devices
<1>2. row'[r] = IF Web(r) THEN WebRow(r, row[r]) ELSE CliRow(r, row[r])
  BY <1>1 DEF Listen
<1>3. Event(r) = ReceiverEvent(r)
  BY <1>1 DEF Event
<1>4. CASE ~Web(r)
  BY <1>2, <1>4 DEF CliRow, ReceiverRowAfter
<1>5. CASE Web(r)
  <2>1. CASE SameEntry(r)
    <3>1. ReceiverEvent(r) \in {"file-progress", "none"}
      BY <2>1, EntryTypes DEF ReceiverEvent, SameEntry
    <3>2. WebRow(r, row[r]) = row[r]
      BY <1>1, <1>3, <3>1 DEF WebRow, ProgressRow
    <3> QED BY <1>2, <1>5, <2>1, <3>2 DEF ReceiverRowAfter
  <2>2. CASE NewEntry(r)
    <3>1. ReceiverEvent(r) = "file-offer"
      BY <2>2 DEF ReceiverEvent, NewEntry
    <3> QED BY <1>2, <1>3, <1>5, <2>2, <3>1 DEF ReceiverRowAfter, WebRow
  <2>3. CASE EntryEnds(r)
    <3>1. PICK why \in {"received", "error", "cancel"} :
              rOutcome'[r] = Append(rOutcome[r], why) /\ (why = "received" => buf[r] = Chunks)
      BY <2>3 DEF EntryEnds
    <3>2. /\ Len(rOutcome'[r]) > Len(rOutcome[r]) /\ Newest(rOutcome'[r]) = why
          /\ rOutcome'[r] # <<>>
          /\ why = "received" => Got(r)'
      <4> DEFINE s == Append(rOutcome[r], why)
      <4>1. rOutcome[r] \in Seq(ROutcome) /\ why \in ROutcome
        BY EntryTypes DEF ROutcome
      <4>2. /\ Len(s) > Len(rOutcome[r]) /\ Newest(s) = why /\ s # <<>>
            /\ why \in {s[k] : k \in DOMAIN s}
        BY <4>1, AppendNewest
      <4>3. rOutcome'[r] = s
        BY <3>1
      <4> HIDE DEF s
      <4> QED BY <4>2, <4>3 DEF Got
    <3>4. ReceiverEvent(r) = IF why = "received" THEN "file-received"
                             ELSE IF why = "error" THEN "file-error" ELSE "file-cancel"
      BY <3>2 DEF ReceiverEvent
    <3>5. WebRow(r, row[r]) = IF row[r] = "none" THEN "none"
                              ELSE IF why = "received" THEN "done"
                              ELSE IF why = "error" THEN "error" ELSE "cancelled"
      BY <1>3, <3>4 DEF WebRow, Patched
    <3>6. buf'[r] = buf[r]
      BY <2>3 DEF EntryEnds
    <3> QED BY <1>2, <1>5, <2>3, <3>1, <3>2, <3>5, <3>6 DEF ReceiverRowAfter
  <2> QED BY <2>1, <2>2, <2>3, EntryChanges
<1> QED BY <1>4, <1>5

(* The sender's entry and row. *)

SenderGoesOn ==
    /\ sOutcome' = sOutcome /\ nextChunk' \in {nextChunk, nextChunk + 1}
    /\ outgoing' = outgoing \/ offering = "idle"

SenderFails ==
    /\ ~outgoing' /\ nextChunk' = nextChunk
    /\ \E why \in SOutcome \ {"complete"} : sOutcome' = Append(sOutcome, why)

SenderCompletes ==
    /\ ~outgoing' /\ nextChunk' \in {nextChunk, nextChunk + 1} /\ nextChunk' >= ChunkCount
    /\ sOutcome' = Append(sOutcome, "complete")

LEMMA PumpChanges ==
    ASSUME NEW next, NEW acked, NEW enc, NEW armed, NEW w, NEW c,
           PumpFrom(next, acked, enc, armed, w, c), nextChunk' = next,
           next \in {nextChunk, nextChunk + 1}
    PROVE  SenderGoesOn \/ SenderCompletes
<1>1. CASE UNCHANGED <<outgoing, sOutcome>>
  BY <1>1 DEF SenderGoesOn
<1>2. CASE EndSender("complete") /\ Acknowledged(next, acked)
  BY <1>2 DEF EndSender, Acknowledged, SenderCompletes
<1> QED BY <1>1, <1>2 DEF PumpFrom

LEMMA SenderChanges ==
    ASSUME EngineStep \/ CancelFile PROVE SenderGoesOn \/ SenderFails \/ SenderCompletes
<1>1. ASSUME UNCHANGED <<outgoing, nextChunk, sOutcome>> PROVE SenderGoesOn
  BY <1>1 DEF SenderGoesOn
<1>2. ASSUME NEW why \in SOutcome \ {"complete"}, EndSender(why), nextChunk' = nextChunk
      PROVE  SenderFails
  BY <1>2 DEF EndSender, SenderFails
<1>3. CASE SendFile
  BY <1>3 DEF SendFile, SenderGoesOn
<1>4. CASE CancelFile
  <2>1. EndSender("cancelled") /\ nextChunk' = nextChunk
    BY <1>4 DEF CancelFile
  <2> QED BY <1>2, <2>1 DEF SOutcome
<1>5. CASE StallFires
  <2>1. EndSender("stalled") /\ nextChunk' = nextChunk
    BY <1>5 DEF StallFires
  <2> QED BY <1>2, <2>1 DEF SOutcome
<1>6. ASSUME NEW i \in Chunks, EncryptDone(i) PROVE SenderGoesOn \/ SenderFails \/ SenderCompletes
  <2>1. CASE outgoing /\ CanSend(Sender)
    BY <1>6, <2>1, PumpChanges DEF EncryptDone
  <2>2. CASE ~(outgoing /\ CanSend(Sender))
    <3>1. nextChunk' = nextChunk /\ (EndSender("error") \/ UNCHANGED <<outgoing, sOutcome>>)
      BY <1>6, <2>2 DEF EncryptDone
    <3> QED BY <1>1, <1>2, <3>1 DEF SOutcome
  <2> QED BY <2>1, <2>2
<1>7. ASSUME NEW via \in Paths, OnAccept(via) \/ OnAck(via)
      PROVE  SenderGoesOn \/ SenderCompletes
  <2>1. nextChunk' = nextChunk
    BY <1>7 DEF OnAccept, OnAck
  <2>2. \/ UNCHANGED <<outgoing, sOutcome>>
        \/ \E acked, enc, armed, w, c : PumpFrom(nextChunk, acked, enc, armed, w, c)
    BY <1>7 DEF OnAccept, OnAck
  <2> QED BY <1>1, <2>1, <2>2, PumpChanges
<1>8. ASSUME NEW via \in Paths, OnCancelSender(via) \/ OnDecline(via)
      PROVE  SenderGoesOn \/ SenderFails
  <2>1. nextChunk' = nextChunk /\ (EndSender("peer_cancel") \/ UNCHANGED <<outgoing, sOutcome>>)
    BY <1>8 DEF OnCancelSender, OnDecline, senderVars
  <2> QED BY <1>1, <1>2, <2>1 DEF SOutcome
<1>9. ASSUME NEW q \in Receivers, ReceiverStep(q) PROVE SenderGoesOn
  BY <1>1, <1>9, ReceiversApart DEF senderVars
<1>10. CASE ConnectionStep
  <2>1. nextChunk' = nextChunk /\ (EndSender("error") \/ UNCHANGED <<outgoing, sOutcome>>)
    BY <1>10 DEF ConnectionStep, Disconnect, Reconnect, OpenLink, CloseLink, AbortAll, senderVars
  <2> QED BY <1>1, <1>2, <2>1 DEF SOutcome
<1>11. EngineStep => \/ SendFile \/ StallFires \/ ConnectionStep
                     \/ \E i \in Chunks : EncryptDone(i)
                     \/ \E via \in Paths : OnAccept(via) \/ OnAck(via) \/ OnCancelSender(via) \/ OnDecline(via)
                     \/ \E r \in Receivers : ReceiverStep(r)
  BY DEF EngineStep, ReceiverStep
<1> QED BY <1>3, <1>4, <1>5, <1>6, <1>7, <1>8, <1>9, <1>10, <1>11

\* What the sender's web page makes of it.
LEMMA SenderListens ==
    ASSUME EngineInv, EngineStep \/ CancelFile, Listen, SenderRow, EngineInv' PROVE SenderRow'
<1>1. /\ Sender \in Devices /\ nextChunk \in Int /\ nextChunk' \in Int /\ nextChunk' <= ChunkCount
      /\ nextChunk <= ChunkCount /\ ChunkCount \in Int /\ sOutcome \in Seq(SOutcome)
  <2>1. ChunkCount \in Int /\ nextChunk \in 0 .. ChunkCount /\ nextChunk' \in 0 .. ChunkCount
    BY ChunkFacts DEF EngineInv, IInv, SenderOK
  <2> QED BY <2>1, ChunkFacts DEF EngineInv, IInv, SenderOK
<1>2. row'[Sender] = IF Web(Sender) THEN WebRow(Sender, row[Sender]) ELSE CliRow(Sender, row[Sender])
  BY <1>1 DEF Listen
<1>3. Event(Sender) = SenderEvent /\ kind' = kind /\ orphan' = orphan
  BY DEF Event, Listen
<1>4. CASE ~Web(Sender)
  BY <1>2, <1>3, <1>4 DEF CliRow, SenderRow, Web
<1>5. CASE Web(Sender)
  <2>0. Web(Sender)' /\ (offering' # "sent" => offering # "sent")
    <3>1. offering' # "sent" => offering # "sent"
      BY DEF EngineStep, SendFile, CancelFile, StallFires, EncryptDone, OnAccept, OnAck,
             OnCancelSender, OnDecline, OfferDecrypted, OfferRejected, Hashed, ChunkDecrypted,
             ChunkRejected, OnOffer, OnChunk, OnCancelReceiver, OnComplete, ConnectionStep,
             Disconnect, Reconnect, OpenLink, CloseLink, AbortAll, senderVars
    <3> QED BY <1>3, <1>5, <3>1 DEF Web
  <2>1. /\ offering # "sent" => row[Sender] = "none"
        /\ row[Sender] = "transferring" => orphan \/ (outgoing /\ nextChunk < ChunkCount)
        /\ row[Sender] = "done" => nextChunk = ChunkCount
    BY <1>5 DEF SenderRow
  <2>2. SenderEvent # "file-offer" /\ SenderEvent # "file-received"
    BY DEF SenderEvent
  <2>3. CASE SenderGoesOn
    <3>1. SenderEvent = IF nextChunk' > nextChunk THEN "file-progress" ELSE "none"
      BY <2>3 DEF SenderEvent, SenderGoesOn
    <3>2. CASE nextChunk' = nextChunk
      <4>1. row'[Sender] = row[Sender]
        BY <1>1, <1>2, <1>3, <1>5, <3>1, <3>2 DEF WebRow
      <4> QED BY <1>3, <2>0, <2>1, <2>3, <3>2, <4>1 DEF SenderRow, SenderGoesOn
    <3>3. CASE nextChunk' = nextChunk + 1
      <4>1. row'[Sender] = IF nextChunk' >= ChunkCount /\ row[Sender] # "none" THEN "done" ELSE row[Sender]
        BY <1>1, <1>2, <1>3, <1>5, <3>1, <3>3 DEF WebRow, ProgressRow, Patched
      <4> QED BY <1>1, <1>3, <2>0, <2>1, <2>3, <3>3, <4>1 DEF SenderRow, SenderGoesOn
    <3> QED BY <2>3, <3>2, <3>3 DEF SenderGoesOn
  <2>4. CASE SenderFails
    <3>1. PICK why \in SOutcome \ {"complete"} : sOutcome' = Append(sOutcome, why)
      BY <2>4 DEF SenderFails
    <3>2. Len(sOutcome') > Len(sOutcome) /\ Newest(sOutcome') = why
      BY <1>1, <3>1, AppendNewest
    <3>3. SenderEvent \in {"file-error", "file-cancel"}
      BY <3>1, <3>2 DEF SenderEvent
    <3>4. row'[Sender] \in {"none", "error", "cancelled"} /\ (row[Sender] = "none" => row'[Sender] = "none")
      BY <1>2, <1>3, <1>5, <3>3 DEF WebRow, Patched
    <3> QED BY <2>0, <2>1, <3>4 DEF SenderRow
  <2>5. CASE SenderCompletes
    <3>1. Newest(sOutcome') = "complete"
      BY <1>1, <2>5, AppendNewest DEF SenderCompletes, SOutcome
    <3>2. SenderEvent = IF nextChunk' > nextChunk THEN "file-progress" ELSE "none"
      BY <3>1 DEF SenderEvent
    <3>3. nextChunk' = ChunkCount
      BY <1>1, <2>5 DEF SenderCompletes
    <3>4. CASE nextChunk' = nextChunk
      <4>1. row'[Sender] = row[Sender]
        BY <1>1, <1>2, <1>3, <1>5, <3>2, <3>4 DEF WebRow
      <4> QED BY <1>1, <1>3, <2>0, <2>1, <3>3, <3>4, <4>1 DEF SenderRow
    <3>5. CASE nextChunk' = nextChunk + 1
      <4>1. row'[Sender] = IF row[Sender] # "none" THEN "done" ELSE "none"
        BY <1>1, <1>2, <1>3, <1>5, <3>2, <3>3, <3>5 DEF WebRow, ProgressRow, Patched
      <4> QED BY <2>0, <2>1, <3>3, <4>1 DEF SenderRow
    <3> QED BY <2>5, <3>4, <3>5 DEF SenderCompletes
  <2> QED BY <2>3, <2>4, <2>5, SenderChanges
<1> QED BY <1>4, <1>5

(* The rows follow. *)

LEMMA RowFollows ==
    ASSUME EngineInv, EngineInv', NEW r \in Receivers, ReceiverRow(r), ReceiverRowAfter(r),
           kind' = kind, Web(r) => ~saving'[r]
    PROVE  ReceiverRow(r)'
<1>1. Web(r)' = Web(r)
  BY DEF Web
<1>2. CASE ~Web(r)
  BY <1>1, <1>2 DEF ReceiverRow, ReceiverRowAfter
<1>3. CASE Web(r) /\ SameEntry(r) /\ row'[r] = row[r]
  <2>1. buf'[r] \subseteq Chunks
    <3>1. nextChunk' \in 0 .. ChunkCount /\ buf'[r] \subseteq 0 .. nextChunk' - 1
      BY DEF EngineInv, IInv, SenderOK, ReceiverOK
    <3> QED BY <3>1, ChunkFacts DEF Chunks
  <2>2. buf[r] = Chunks => buf'[r] = Chunks
    BY <1>3, <2>1 DEF SameEntry
  <2>3. Got(r)' <=> Got(r)
    BY <1>3 DEF SameEntry, Got
  <2> QED BY <1>1, <1>3, <2>2, <2>3 DEF ReceiverRow, SameEntry
<1>4. CASE /\ Web(r) /\ NewEntry(r)
           /\ row'[r] = IF row[r] # "none" THEN row[r]
                        ELSE IF INLINE THEN "transferring" ELSE "offering"
  <2>1. row[r] = "none"
    BY <1>4 DEF ReceiverRow, NewEntry
  <2> QED BY <1>1, <1>4, <2>1 DEF ReceiverRow, NewEntry
<1>5. CASE /\ Web(r) /\ EntryEnds(r) /\ row'[r] \in {"none", "done", "error", "cancelled"}
           /\ row'[r] = "done" => buf'[r] = Chunks /\ Got(r)'
           /\ rOutcome'[r] # <<>>
  BY <1>1, <1>5 DEF ReceiverRow, EntryEnds
<1> QED BY <1>2, <1>3, <1>4, <1>5 DEF ReceiverRowAfter

LEMMA ListenKeeps ==
    ASSUME EngineInv, EngineInv', RowInv, EngineStep \/ CancelFile, Listen PROVE RowInv'
<1>1. RowTypes'
  <2>1. /\ kind' = kind
        /\ row' = [d \in Devices |-> IF Web(d) THEN WebRow(d, row[d]) ELSE CliRow(d, row[d])]
        /\ saving' = [d \in Devices |-> saving[d] \/ (~Web(d) /\ Event(d) = "file-received")]
    BY DEF Listen
  <2>2. ASSUME NEW d \in Devices
        PROVE  WebRow(d, row[d]) \in RowStates /\ CliRow(d, row[d]) \in RowStates
    <3>1. row[d] \in RowStates
      BY DEF RowInv, RowTypes
    <3> QED BY <3>1 DEF WebRow, CliRow, ProgressRow, Patched, RowStates
  <2>3. row' \in [Devices -> RowStates]
    BY <2>1, <2>2
  <2>4. saving' \in [Devices -> BOOLEAN]
    BY <2>1
  <2> QED BY <2>1, <2>3, <2>4 DEF RowInv, RowTypes
<1>2. SenderRow'
  BY SenderListens DEF RowInv
<1>3. ASSUME NEW r \in Receivers PROVE ReceiverRow(r)'
  <2>1. kind' = kind /\ saving'[r] = (saving[r] \/ (~Web(r) /\ Event(r) = "file-received"))
    BY ChunkFacts DEF Listen
  <2>2. ReceiverRow(r) /\ (Web(r) => ~saving'[r])
    BY <2>1 DEF RowInv, ReceiverRow
  <2> QED BY <2>1, <2>2, ReceiverListens, RowFollows
<1> QED BY <1>1, <1>2, <1>3 DEF RowInv

LEMMA ReturnKeeps == ASSUME EngineInv, EngineInv', RowInv, SendReturns PROVE RowInv'
<1>1. /\ offering # "sent" /\ offering' = "sent" /\ UNCHANGED <<kind, saving, receiverVars>>
      /\ row' = IF Web(Sender) /\ CanSend(Sender) THEN [row EXCEPT ![Sender] = "transferring"] ELSE row
      /\ orphan' = ~outgoing /\ nextChunk' = nextChunk
      /\ CanSend(Sender) => outgoing' = outgoing
  BY DEF SendReturns, OfferEncrypted
<1>2. nextChunk = 0 /\ ChunkCount \in Nat \ {0} /\ Sender \in Devices
  BY <1>1, ChunkFacts DEF EngineInv, Before
<1>3. RowTypes'
  BY <1>1 DEF RowInv, RowTypes, RowStates
<1>4. SenderRow'
  <2>1. CASE Web(Sender)
    <3>1. row[Sender] = "none"
      BY <1>1, <2>1 DEF RowInv, SenderRow
    <3>2. row'[Sender] = IF CanSend(Sender) THEN "transferring" ELSE "none"
      BY <1>1, <1>2, <2>1, <3>1 DEF RowInv, RowTypes
    <3>3. row'[Sender] = "transferring" => orphan' \/ (outgoing' /\ nextChunk' < ChunkCount)
      <4>1. 0 < ChunkCount /\ nextChunk' = 0
        BY <1>1, <1>2
      <4>2. CASE outgoing
        BY <1>1, <3>2, <4>1, <4>2
      <4>3. CASE ~outgoing
        BY <1>1, <4>3
      <4> QED BY <4>2, <4>3
    <3> QED BY <1>1, <2>1, <3>2, <3>3 DEF SenderRow, Web
  <2>2. CASE ~Web(Sender)
    BY <1>1, <2>2 DEF RowInv, SenderRow, Web
  <2> QED BY <2>1, <2>2
<1>5. ASSUME NEW r \in Receivers PROVE ReceiverRow(r)'
  <2>1. r \in Devices /\ r # Sender
    BY TransferAssumption DEF Devices
  <2>2. row'[r] = row[r]
    BY <1>1, <2>1 DEF RowInv, RowTypes
  <2> QED BY <1>1, <2>2 DEF RowInv, ReceiverRow, Web, receiverVars, Got
<1> QED BY <1>3, <1>4, <1>5 DEF RowInv

\* A button or a key of r.
LEMMA ButtonKeeps ==
    ASSUME EngineInv, RowInv, NEW r \in Receivers, NEW to \in RowStates,
           UNCHANGED <<kind, orphan, senderVars>>, saving' \in [Devices -> BOOLEAN],
           \A d \in Devices : saving'[d] => saving[d],
           row' = [row EXCEPT ![r] = to],
           \A q \in Receivers \ {r} :
              UNCHANGED <<incoming[q], accepted[q], buf[q], rOutcome[q]>>,
           ReceiverRow(r)'
    PROVE  RowInv'
<1>1. r \in Devices /\ Sender \in Devices /\ r # Sender
  BY TransferAssumption DEF Devices
<1>2. RowTypes'
  BY <1>1 DEF RowInv, RowTypes
<1>3. SenderRow'
  <2>1. row'[Sender] = row[Sender]
    BY <1>1 DEF RowInv, RowTypes
  <2> QED BY <2>1 DEF RowInv, SenderRow, Web, senderVars
<1>4. ASSUME NEW q \in Receivers, q # r PROVE ReceiverRow(q)'
  <2>1. q \in Devices /\ row'[q] = row[q] /\ (saving'[q] => saving[q])
    BY <1>4 DEF RowInv, RowTypes, Devices
  <2> QED BY <1>4, <2>1 DEF RowInv, ReceiverRow, Web, Got
<1> QED BY <1>2, <1>3, <1>4 DEF RowInv

LEMMA UserKeeps == ASSUME EngineInv, EngineInv', RowInv, UserStep PROVE RowInv'
<1> USE EntryTypes
<1>1. CASE WebCancelSend
  BY <1>1, ListenKeeps DEF WebCancelSend
<1>2. ASSUME NEW r \in Receivers,
             WebAccept(r) \/ WebDecline(r) \/ WebCancelReceive(r)
      PROVE  RowInv'
  <2> DEFINE to == IF WebAccept(r) THEN "transferring" ELSE
                   IF WebDecline(r) /\ row'[r] = "none" THEN "none" ELSE "cancelled"
  <2>0. r \in Devices /\ row \in [Devices -> RowStates] /\ saving \in [Devices -> BOOLEAN]
        /\ ReceiverRow(r) /\ Web(r)
    BY <1>2, ChunkFacts DEF RowInv, RowTypes, WebAccept, WebDecline, WebCancelReceive
  <2>1. /\ UNCHANGED <<kind, orphan, saving, senderVars>>
        /\ \A q \in Receivers \ {r} : UNCHANGED <<incoming[q], accepted[q], buf[q], rOutcome[q]>>
    BY <1>2 DEF WebAccept, WebDecline, WebCancelReceive, Shows, AcceptFile, DeclineFile, EndReceiver
  <2>2. CASE WebAccept(r)
    <3>1. row' = [row EXCEPT ![r] = "transferring"]
          /\ incoming[r] /\ accepted'[r] /\ UNCHANGED <<incoming, buf, rOutcome>>
      BY <2>2 DEF WebAccept, Shows, AcceptFile
    <3>2. ReceiverRow(r)'
      BY <2>0, <2>1, <3>1 DEF ReceiverRow, Web
    <3> QED BY <2>0, <2>1, <3>1, <3>2, ButtonKeeps DEF RowStates
  <2>3. CASE WebDecline(r) \/ WebCancelReceive(r)
    <3>1. PICK shown \in {"none", "cancelled"} : row' = [row EXCEPT ![r] = shown]
      BY <2>3 DEF WebDecline, WebCancelReceive, Shows
    <3>2. ~incoming'[r] /\ rOutcome'[r] = Append(rOutcome[r], "declined")
      BY <2>3 DEF WebDecline, WebCancelReceive, DeclineFile, EndReceiver
    <3>3. rOutcome'[r] # <<>>
      <4>1. rOutcome[r] \in Seq(ROutcome) /\ "declined" \in ROutcome
        BY DEF ROutcome
      <4>2. Append(rOutcome[r], "declined") # <<>>
        BY <4>1, AppendNewest
      <4> QED BY <3>2, <4>2
    <3>4. ReceiverRow(r)'
      BY <2>0, <2>1, <3>1, <3>2, <3>3 DEF ReceiverRow, Web
    <3> QED BY <2>0, <2>1, <3>1, <3>4, ButtonKeeps DEF RowStates
  <2> QED BY <1>2, <2>2, <2>3
<1>3. ASSUME NEW r \in Receivers, ~Web(r),
             UNCHANGED <<kind, orphan, senderVars>>, saving' \in [Devices -> BOOLEAN],
             \A d \in Devices : saving'[d] => saving[d],
             row' = row \/ row' = [row EXCEPT ![r] = "none"],
             \A q \in Receivers \ {r} : UNCHANGED <<incoming[q], accepted[q], buf[q], rOutcome[q]>>
      PROVE  RowInv'
  <2>0. r \in Devices /\ row \in [Devices -> RowStates] /\ ReceiverRow(r)
    BY ChunkFacts DEF RowInv, RowTypes
  <2>1. row[r] \in {"none", "shown"}
    BY <1>3, <2>0 DEF ReceiverRow
  <2>2. PICK to \in {"none", "shown"} : row' = [row EXCEPT ![r] = to]
    BY <1>3, <2>0, <2>1
  <2>3. ReceiverRow(r)'
    BY <1>3, <2>0, <2>2 DEF ReceiverRow, Web
  <2> QED BY <1>3, <2>2, <2>3, ButtonKeeps DEF RowStates
<1>4. ASSUME NEW r \in Receivers, CliAccept(r) \/ CliDecline(r) PROVE RowInv'
  <2>1. /\ ~Web(r) /\ UNCHANGED <<kind, orphan, senderVars, saving, row>>
        /\ \A q \in Receivers \ {r} : UNCHANGED <<incoming[q], accepted[q], buf[q], rOutcome[q]>>
    BY <1>4 DEF CliAccept, CliDecline, Asked, ModalGone, AcceptFile, DeclineFile, EndReceiver,
                vars, receiverVars
  <2> QED BY <1>3, <2>1 DEF RowInv, RowTypes
<1>5. ASSUME NEW r \in Receivers, OtherOffer(r) \/ OtherAnswered(r) PROVE RowInv'
  <2>1. UNCHANGED <<kind, orphan, saving, row, vars>>
    BY <1>5 DEF OtherOffer, OtherAnswered, ModalGone
  <2> QED BY <2>1 DEF RowInv, RowTypes, SenderRow, ReceiverRow, Web, Got, vars, senderVars, receiverVars
<1>6. ASSUME NEW r \in Receivers, Saved(r) PROVE RowInv'
  <2>1. /\ saving' = [saving EXCEPT ![r] = FALSE] /\ UNCHANGED <<kind, orphan, vars>>
        /\ saving[r]
        /\ row' = row \/ row' = [row EXCEPT ![r] = "none"]
    BY <1>6 DEF Saved
  <2>2. ~Web(r) /\ saving' \in [Devices -> BOOLEAN] /\ \A d \in Devices : saving'[d] => saving[d]
    BY <2>1, ChunkFacts DEF RowInv, RowTypes, ReceiverRow
  <2>3. \A q \in Receivers \ {r} : UNCHANGED <<incoming[q], accepted[q], buf[q], rOutcome[q]>>
    BY <2>1 DEF vars, receiverVars
  <2> QED BY <1>3, <2>1, <2>2, <2>3 DEF vars
<1> QED BY <1>1, <1>2, <1>4, <1>5, <1>6 DEF UserStep

LEMMA RowsInitOK == RowsInit => RowInv
<1> SUFFICES ASSUME RowsInit PROVE RowInv
  OBVIOUS
<1>1. RowTypes
  BY DEF RowsInit, RowTypes, RowStates
<1>2. SenderRow
  BY ChunkFacts DEF RowsInit, SenderRow
<1>3. \A r \in Receivers : ReceiverRow(r)
  BY ChunkFacts DEF RowsInit, Init, ReceiverRow
<1> QED BY <1>1, <1>2, <1>3 DEF RowInv

LEMMA RowsNextOK == EngineInv /\ EngineInv' /\ RowInv /\ [RowsNext]_rowsVars => RowInv'
<1> SUFFICES ASSUME EngineInv, EngineInv', RowInv, [RowsNext]_rowsVars PROVE RowInv'
  OBVIOUS
<1>1. CASE UNCHANGED rowsVars
  BY <1>1 DEF rowsVars, rowVars, RowInv, RowTypes, SenderRow, ReceiverRow, Web, Got, vars,
              senderVars, receiverVars
<1> QED BY <1>1, ReturnKeeps, ListenKeeps, UserKeeps DEF RowsNext

\* What the screens show is true of the engine (transfers.ts, transfer-row.svelte,
\* file-transfers.ts, app.tsx): a button is offered exactly while its entry is in the state it
\* acts on, a row is on its way only while its entry lives, and done means whole, for any
\* number of receivers and chunks, whatever events, clicks and awaits meet.
THEOREM RowsTellTheTruth == RowsSpec => []RowsTrue
<1>1. EngineInv /\ [RowsNext]_rowsVars => EngineInv'
  BY StepRefines, EngineNext
<1>2. EngineInv /\ RowInv => RowsTrue
  <2> SUFFICES ASSUME EngineInv, RowInv PROVE RowsTrue
    OBVIOUS
  <2>1. RowsFollow
    BY DEF RowInv, ReceiverRow, SenderRow, RowsFollow
  <2>2. DoneIsWhole
    BY DEF RowInv, ReceiverRow, SenderRow, DoneIsWhole, Got, Devices
  <2> QED BY <2>1, <2>2 DEF RowsTrue
<1>3. RowsSpec => [](EngineInv /\ RowInv)
  BY InitRefines, EngineInit, RowsInitOK, RowsNextOK, <1>1, PTL DEF RowsSpec
<1> QED BY <1>2, <1>3, PTL
=============================================================================

---------------------------- MODULE TransferRows ----------------------------
(***************************************************************************)
(* What the user sees of a file transfer, and may do about it: the rows of *)
(* the web page (apps/web/src/lib/transfers.ts with the handlers of        *)
(* room.svelte and the buttons of transfer-row.svelte) and those of the    *)
(* terminal (apps/cli/src/file-transfers.ts with app.tsx), driven by the   *)
(* events the engine of FileTransfer emits.                                *)
(*                                                                         *)
(* Nothing but events keeps a row in step with the engine's entry, and the *)
(* two ends of a transfer need not run the same program.  Each device is   *)
(* therefore a web page or a terminal from the start, and every step of    *)
(* the engine, except those a user takes, is taken together with what the  *)
(* handlers of its events do.  A handler is synchronous, so this is one    *)
(* step; saving a received file to disk is not, and is two.                *)
(*                                                                         *)
(* A row is reduced to the state it shows.  The terminal's rows have none, *)
(* only a percentage: they are there or not.                               *)
(***************************************************************************)
EXTENDS FileTransfer

VARIABLES
    kind,     \* the program a device runs: "web" or "cli"
    row,      \* what its list shows of the transfer
    modal,    \* a terminal asks: "none", about "this" file, or about "other"
    saving,   \* saveBlob has not finished
    orphan    \* the sender's row was added after its entry had gone

rowVars  == <<kind, row, modal, saving, orphan>>
rowsVars == <<vars, rowVars>>

RowStates == {"none", "offering", "transferring", "done", "error", "cancelled", "shown"}

Web(d) == kind[d] = "web"

-----------------------------------------------------------------------------
(* The events of a step of the engine, read off what it does to its entry. *)

Newest(s) == s[Len(s)]

\* The sender hears of every chunk that left, and of every end but the good one.
SenderEvent ==
    IF Len(sOutcome') > Len(sOutcome) /\ Newest(sOutcome') # "complete"
    THEN IF Newest(sOutcome') \in {"error", "stalled"} THEN "file-error" ELSE "file-cancel"
    ELSE IF nextChunk' > nextChunk THEN "file-progress" ELSE "none"

ReceiverEvent(r) ==
    IF Len(rOutcome'[r]) > Len(rOutcome[r])
    THEN CASE Newest(rOutcome'[r]) = "received" -> "file-received"
           [] Newest(rOutcome'[r]) = "error"    -> "file-error"
           [] Newest(rOutcome'[r]) = "cancel"   -> "file-cancel"
           [] OTHER                             -> "none"
    ELSE IF incoming'[r] /\ ~incoming[r] THEN "file-offer"
    ELSE IF received'[r] > received[r] THEN "file-progress" ELSE "none"

Event(d) == IF d = Sender THEN SenderEvent ELSE ReceiverEvent(d)

-----------------------------------------------------------------------------
(* The web page's list.  Only an offer adds a row, and addOutgoing.        *)

Patched(shown, to) == IF shown = "none" THEN "none" ELSE to

\* Mutants: a chunk of a transfer that has ended puts it back on its way; the last
\* chunk but one counts as the last.
ProgressRow_Revives(d, shown) ==
    IF d = Sender /\ nextChunk' >= ChunkCount THEN Patched(shown, "done")
    ELSE Patched(shown, "transferring")
ProgressRow_Early(d, shown) ==
    IF d = Sender /\ nextChunk' >= ChunkCount - 1 THEN Patched(shown, "done") ELSE shown

\* applyProgress: the sender is done when its last chunk has left.
ProgressRow(d, shown) ==
    IF d = Sender /\ nextChunk' >= ChunkCount THEN Patched(shown, "done") ELSE shown

WebRow(d, shown) ==
    CASE Event(d) = "file-offer" /\ shown = "none" ->
             IF INLINE THEN "transferring" ELSE "offering"
      [] Event(d) = "file-progress" -> ProgressRow(d, shown)
      [] Event(d) = "file-received" -> Patched(shown, "done")
      [] Event(d) = "file-error"    -> Patched(shown, "error")
      [] Event(d) = "file-cancel"   -> Patched(shown, "cancelled")
      [] OTHER                      -> shown

\* The terminal's: progress adds or replaces it, an error or a cancel removes it.
CliRow(d, shown) ==
    CASE Event(d) = "file-progress"                 -> "shown"
      [] Event(d) \in {"file-error", "file-cancel"} -> "none"
      [] OTHER                                      -> shown

\* The handlers of whatever the step emits.  An offer that finds another one on
\* the terminal's screen is not shown, then or later.
Listen ==
    /\ row' = [d \in Devices |-> IF Web(d) THEN WebRow(d, row[d]) ELSE CliRow(d, row[d])]
    /\ modal' = [d \in Devices |->
                    IF ~Web(d) /\ Event(d) = "file-offer" /\ ~INLINE /\ modal[d] = "none"
                    THEN "this" ELSE modal[d]]
    /\ saving' = [d \in Devices |-> saving[d] \/ (~Web(d) /\ Event(d) = "file-received")]
    /\ UNCHANGED <<kind, orphan>>

-----------------------------------------------------------------------------
(* Steps of the engine that no user takes. *)

\* client.sendFile returns: the web page adds its row if it has an id, which says
\* nothing about the entry.  The terminal waits for the first progress.
SendReturns ==
    /\ OfferEncrypted
    /\ row' = IF Web(Sender) /\ CanSend(Sender)
              THEN [row EXCEPT ![Sender] = "transferring"] ELSE row
    /\ orphan' = ~outgoing
    /\ UNCHANGED <<kind, modal, saving>>

EngineStep ==
    \/ SendFile \/ StallFires
    \/ \E i \in Chunks : EncryptDone(i)
    \/ \E via \in Paths : OnAccept(via) \/ OnAck(via) \/ OnCancelSender(via) \/ OnDecline(via)
    \/ \E r \in Receivers :
          \/ OfferDecrypted(r) \/ OfferRejected(r) \/ Hashed(r)
          \/ \E i \in Chunks : ChunkDecrypted(r, i) \/ ChunkRejected(r, i)
          \/ \E via \in Paths :
                OnOffer(r, via) \/ OnChunk(r, via) \/ OnCancelReceiver(r, via) \/ OnComplete(r, via)
    \/ ConnectionStep

-----------------------------------------------------------------------------
(* What the user does. *)

Shows(d, to) == row' = [row EXCEPT ![d] = to] /\ UNCHANGED <<kind, modal, saving, orphan>>

\* The web page's buttons: an offering row can be accepted or declined, one that
\* is transferring cancelled.  A receiver cancels by declining.
WebAccept(r) ==
    /\ Web(r) /\ row[r] = "offering"
    /\ AcceptFile(r)
    /\ Shows(r, "transferring")

WebDecline(r) ==
    /\ Web(r) /\ row[r] = "offering"
    /\ DeclineFile(r)
    /\ Shows(r, "none")

WebCancelReceive(r) ==
    /\ Web(r) /\ row[r] = "transferring"
    /\ DeclineFile(r)
    /\ Shows(r, "cancelled")

\* Without an entry cancelFile returns at once, and emits nothing.
WebCancelSend ==
    /\ Web(Sender) /\ row[Sender] = "transferring"
    /\ CancelFile
    /\ Listen

\* The terminal's keys, a and d, whether or not the engine still has the offer.
Asked(r) == ~Web(r) /\ modal[r] = "this"
ModalGone(r) == modal' = [modal EXCEPT ![r] = "none"] /\ UNCHANGED <<kind, row, saving, orphan>>

CliAccept(r) ==
    /\ Asked(r)
    /\ IF incoming[r] /\ ~accepted[r] THEN AcceptFile(r) ELSE UNCHANGED vars
    /\ ModalGone(r)

CliDecline(r) ==
    /\ Asked(r)
    /\ IF incoming[r] THEN DeclineFile(r) ELSE UNCHANGED vars
    /\ ModalGone(r)

\* Another file is offered first, and is answered in the end.
OtherOffer(r) ==
    /\ ~Web(r) /\ modal[r] = "none" /\ ~incoming[r] /\ rOutcome[r] = <<>>
    /\ modal' = [modal EXCEPT ![r] = "other"]
    /\ UNCHANGED <<vars, kind, row, saving, orphan>>

OtherAnswered(r) ==
    /\ modal[r] = "other"
    /\ ModalGone(r)
    /\ UNCHANGED vars

\* saveBlob ends: the row goes, unless the disk refused the file.
Saved(r) ==
    /\ saving[r]
    /\ saving' = [saving EXCEPT ![r] = FALSE]
    /\ \/ row' = [row EXCEPT ![r] = "none"]
       \/ row' = row
    /\ UNCHANGED <<vars, kind, modal, orphan>>

-----------------------------------------------------------------------------
RowsInit ==
    /\ Init
    /\ kind \in [Devices -> {"web", "cli"}]
    /\ row = [d \in Devices |-> "none"]
    /\ modal = [d \in Devices |-> "none"]
    /\ saving = [d \in Devices |-> FALSE]
    /\ orphan = FALSE

UserStep ==
    \/ WebCancelSend
    \/ \E r \in Receivers :
          \/ WebAccept(r) \/ WebDecline(r) \/ WebCancelReceive(r)
          \/ CliAccept(r) \/ CliDecline(r)
          \/ OtherOffer(r) \/ OtherAnswered(r) \/ Saved(r)

RowsNext == SendReturns \/ (EngineStep /\ Listen) \/ UserStep

RowsSpec == RowsInit /\ [][RowsNext]_rowsVars

\* The fairness of the engine.  Users owe nothing, and neither does the disk.
RowsFairSpec == RowsSpec /\ Fairness

-----------------------------------------------------------------------------
(* What should hold. *)

\* The rows follow the engine: on a web page a receiver's row can be
\* answered exactly while its entry waits for the answer, and can be cancelled
\* exactly while the entry receives; a sender's row is on its way only while its
\* entry lives, or if the entry had gone before the row came (abortAll during
\* the encryption of the offer), when the row stays so for ever.
RowsFollow ==
    /\ \A r \in Receivers : Web(r) =>
          /\ row[r] = "offering" <=> incoming[r] /\ ~accepted[r]
          /\ row[r] = "transferring" <=> incoming[r] /\ accepted[r]
    /\ Web(Sender) /\ row[Sender] = "transferring" => outgoing \/ orphan

\* Done is done: a receiver's row says so only of a file that was received whole,
\* which it then offers for download; a sender's only once every chunk has left.
DoneIsWhole ==
    \A d \in Devices : row[d] = "done" =>
        IF d = Sender THEN nextChunk = ChunkCount
        ELSE buf[d] = Chunks /\ "received" \in {rOutcome[d][k] : k \in DOMAIN rOutcome[d]}

\* What the list shows is true, in whatever order events, clicks and awaits meet.
RowsTrue == RowsFollow /\ DoneIsWhole
=============================================================================

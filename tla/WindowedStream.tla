--------------------------- MODULE WindowedStream ---------------------------
(***************************************************************************)
(* What the sending half of a file transfer promises, with no network, no  *)
(* receiver and no timer: Total chunks leave in order, one at a time, at   *)
(* most Window of them beyond the last acknowledged one; an                *)
(* acknowledgement only ever covers chunks that have left; the stream is   *)
(* done exactly when every chunk is acknowledged, and once it has ended,   *)
(* done or aborted, nothing about it changes any more.                     *)
(*                                                                         *)
(* FileTransfer implements this specification (its property StreamSpec,    *)
(* proved in FileTransferProofs).                                          *)
(***************************************************************************)
EXTENDS Naturals

CONSTANTS Total,     \* chunks in the file
          Window     \* chunks that may be unacknowledged

VARIABLES sent,      \* chunks that have left, a prefix of the file
          acked,     \* chunks known to have arrived, a prefix of those sent
          status     \* "open", "done" or "aborted"

vars == <<sent, acked, status>>

Init == sent = 0 /\ acked = 0 /\ status = "open"

\* The next chunk leaves, if the window has room for it.
Send ==
    /\ status = "open"
    /\ sent < Total
    /\ sent - acked < Window
    /\ sent' = sent + 1
    /\ UNCHANGED <<acked, status>>

\* An acknowledgement moves the window; the last one completes the stream.
Ack ==
    /\ status = "open"
    /\ \E a \in (acked + 1) .. sent :
          /\ acked' = a
          /\ status' = IF a = Total THEN "done" ELSE "open"
    /\ UNCHANGED sent

\* Cancelled, stalled, or the connection is gone.
Abort ==
    /\ status = "open"
    /\ status' = "aborted"
    /\ UNCHANGED <<sent, acked>>

Next == Send \/ Ack \/ Abort

Spec == Init /\ [][Next]_vars
=============================================================================

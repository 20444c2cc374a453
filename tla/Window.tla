------------------------------- MODULE Window -------------------------------
(***************************************************************************)
(* The list of a sliding window, oldest first, as SlidingWindowLimiter     *)
(* (apps/relay/src/rate-limit.ts) and the relay of a local network         *)
(* (apps/cli/src/lan-relay.ts) prune it before they look at its length.    *)
(***************************************************************************)
EXTENDS Integers, Sequences

\* The first index that is not in `old`, or the one after the last.
FirstKept(s, old) == CHOOSE k \in 1 .. Len(s) + 1 : k \notin old /\ 1 .. k - 1 \subseteq old

\* What is left of s: while its first element is among the old ones, it is shifted
\* out.
ShiftWhile(s, old) == SubSeq(s, FirstKept(s, old), Len(s))
=============================================================================

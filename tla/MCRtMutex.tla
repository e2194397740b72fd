----------------------------- MODULE MCRtMutex -----------------------------
(* Small instances of RtMutex. *)
EXTENDS RtMutex

CONSTANTS high, mid, low

\* Three threads of different priorities, as finsh, the AT parser and
\* GSM_thread have.
ThreeLevels == [t \in Threads |-> CASE t = high -> 1 [] t = mid -> 2 [] OTHER -> 3]
=============================================================================

----------------------------- MODULE ByteQueue -----------------------------
(***************************************************************************)
(* What the receive side of a serial device promises its one reader: a     *)
(* FIFO queue of at most Capacity bytes.  A byte that arrives when the     *)
(* queue is full pushes out the oldest one; nothing else is ever lost,     *)
(* duplicated or reordered.                                                *)
(***************************************************************************)
EXTENDS Integers, Sequences

CONSTANTS Byte,      \* the values the line carries
          Capacity   \* how many unread bytes the device keeps

VARIABLES queue,     \* unread bytes, oldest first
          out        \* the byte the last read returned, or the value before any

Init == queue = << >> /\ out \in Byte

\* A byte arrives: it is always kept, at the cost of the oldest one.
Arrive(b) ==
  /\ queue' = Append(IF Len(queue) = Capacity THEN Tail(queue) ELSE queue, b)
  /\ UNCHANGED out

\* The reader takes the oldest byte.
Deliver ==
  /\ queue # << >>
  /\ out' = Head(queue)
  /\ queue' = Tail(queue)

Next == Deliver \/ \E b \in Byte : Arrive(b)

Spec == Init /\ [][Next]_<<queue, out>>
=============================================================================

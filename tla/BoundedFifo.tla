----------------------------- MODULE BoundedFifo -----------------------------
(***************************************************************************)
(* What a ring buffer between one producer and one consumer promises: a    *)
(* queue of at most Capacity items, read in the order they were written,   *)
(* each exactly once.                                                      *)
(***************************************************************************)
EXTENDS Integers, Sequences

CONSTANTS Capacity, Items    \* Items: the values 1..n the producer writes

VARIABLES
  queue,    \* the items written and not yet read
  written,  \* the last item written, 0 before the first
  read      \* the last item read, 0 before the first

fifoVars == <<queue, written, read>>

FifoInit == queue = <<>> /\ written = 0 /\ read = 0

Put ==
  /\ written + 1 \in Items
  /\ Len(queue) < Capacity
  /\ queue' = Append(queue, written + 1)
  /\ written' = written + 1
  /\ UNCHANGED read

Get ==
  /\ queue # <<>>
  /\ read' = Head(queue)
  /\ queue' = Tail(queue)
  /\ UNCHANGED written

FifoSpec == FifoInit /\ [][Put \/ Get]_fifoVars

=============================================================================

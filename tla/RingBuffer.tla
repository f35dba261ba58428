----------------------------- MODULE RingBuffer -----------------------------
(***************************************************************************)
(* The lock-free ring buffer of circularRingBuffer/ring_buffer.c: one      *)
(* thread writes the values 1..RingTarget, another reads until it has read *)
(* RingTarget.  Both spin, and nothing protects the two indices, so each   *)
(* access to memory the other thread also uses is a step of its own.  The  *)
(* build compiles every access as written (no optimisation), on a machine  *)
(* that keeps the stores of a thread in order; a late store of an index    *)
(* only makes the other thread spin once more.                             *)
(***************************************************************************)
EXTENDS Integers, Sequences

CONSTANTS
  RingSize,     \* RING_BUFFER_SIZE
  RingTarget    \* the number on the command line

ASSUME RingAssumption == RingSize \in Nat \ {0, 1} /\ RingTarget \in Nat \ {0}

VARIABLES
  ringBuffer,  \* ringBuffer[i] for the index i
  headIdx,     \* written by the writer only
  tailIdx,     \* written by the reader only
  wpc,         \* the writer: "check", "store", "advance", "exited"
  counter,     \* writeHandler's counter: the value being written
  rpc,         \* the reader: "check", "load", "advance", "exited"
  readData,    \* the reader's *data
  received     \* the last value readHandler got with ACCESS_SUCCESS

ringVars == <<ringBuffer, headIdx, tailIdx, wpc, counter, rpc, readData, received>>

Idx == 0..(RingSize - 1)

RingTypeOK ==
  /\ ringBuffer \in [Idx -> 0..RingTarget]
  /\ headIdx \in Idx /\ tailIdx \in Idx
  /\ wpc \in {"check", "store", "advance", "exited"}
  /\ rpc \in {"check", "load", "advance", "exited"}
  /\ counter \in 1..(RingTarget + 1)
  /\ readData \in 0..RingTarget /\ received \in 0..RingTarget

RingInit ==
  /\ ringBuffer = [i \in Idx |-> 0]
  /\ headIdx = 0 /\ tailIdx = 0
  /\ wpc = "check" /\ counter = 1
  /\ rpc = "check" /\ readData = 0 /\ received = 0

Succ(i) == (i + 1) % RingSize

\* Mutant of isBufferFull: the writer never waits.
isBufferNeverFull == FALSE

isBufferFull == Succ(headIdx) = tailIdx
isBufferEmpty == headIdx = tailIdx

\* writeToBuffer: the test, which the writer repeats while it fails.
WriteCheck ==
  /\ wpc = "check"
  /\ wpc' = IF isBufferFull THEN "check" ELSE "store"
  /\ UNCHANGED <<ringBuffer, headIdx, tailIdx, counter, rpc, readData, received>>

WriteStore ==
  /\ wpc = "store"
  /\ ringBuffer' = [ringBuffer EXCEPT ![headIdx] = counter]
  /\ wpc' = "advance"
  /\ UNCHANGED <<headIdx, tailIdx, counter, rpc, readData, received>>

\* The item becomes visible; writeHandler counts it and may be done.
WriteAdvance ==
  /\ wpc = "advance"
  /\ headIdx' = Succ(headIdx)
  /\ counter' = counter + 1
  /\ wpc' = IF counter + 1 <= RingTarget THEN "check" ELSE "exited"
  /\ UNCHANGED <<ringBuffer, tailIdx, rpc, readData, received>>

\* readFromBuffer: the test, which the reader repeats while it fails.
ReadCheck ==
  /\ rpc = "check"
  /\ rpc' = IF isBufferEmpty THEN "check" ELSE "load"
  /\ UNCHANGED <<ringBuffer, headIdx, tailIdx, wpc, counter, readData, received>>

\* Mutant of ReadLoad: the index is advanced before the load.
ReadLoadNext ==
  /\ rpc = "load"
  /\ readData' = ringBuffer[Succ(tailIdx)]
  /\ rpc' = "advance"
  /\ UNCHANGED <<ringBuffer, headIdx, tailIdx, wpc, counter, received>>

ReadLoad ==
  /\ rpc = "load"
  /\ readData' = ringBuffer[tailIdx]
  /\ rpc' = "advance"
  /\ UNCHANGED <<ringBuffer, headIdx, tailIdx, wpc, counter, received>>

\* The place becomes free; readHandler stops at the value it was given.
ReadAdvance ==
  /\ rpc = "advance"
  /\ tailIdx' = Succ(tailIdx)
  /\ received' = readData
  /\ rpc' = IF readData = RingTarget THEN "exited" ELSE "check"
  /\ UNCHANGED <<ringBuffer, headIdx, wpc, counter, readData>>

writeHandler == WriteCheck \/ WriteStore \/ WriteAdvance
readHandler == ReadCheck \/ ReadLoad \/ ReadAdvance

RingNext == writeHandler \/ readHandler

\* Both threads are scheduled.
RingSpec ==
  RingInit /\ [][RingNext]_ringVars /\ WF_ringVars(writeHandler) /\ WF_ringVars(readHandler)

-----------------------------------------------------------------------------
\* The two threads never access the same element at the same time: while the
\* reader loads an element, the writer is not storing into it.
NoConflict == ~(wpc = "store" /\ rpc = "load" /\ headIdx = tailIdx)

\* The number of items in the buffer, as the indices have it.
Count == (headIdx - tailIdx + RingSize) % RingSize

\* The buffer is a FIFO queue of capacity RingSize - 1 (one element stays unused):
\* nothing is lost, repeated, reordered or overwritten.
Fifo == INSTANCE BoundedFifo WITH
  Capacity <- RingSize - 1,
  Items <- 1..RingTarget,
  queue <- [i \in 1..Count |-> ringBuffer[(tailIdx + i - 1) % RingSize]],
  written <- counter - 1,
  read <- received

ImplementsFifo == Fifo!FifoSpec

\* Both threads have ended, and main(), which joins them, returns.
RingEnded == wpc = "exited" /\ rpc = "exited"

\* The two threads never spin for each other, nor one of them for a thread that has
\* ended: a full buffer is not empty, and the reader expects what the writer writes.
NeverBothSpin ==
  \/ RingEnded
  \/ wpc # "exited" /\ ~(wpc = "check" /\ isBufferFull)
  \/ rpc # "exited" /\ ~(rpc = "check" /\ isBufferEmpty)

=============================================================================

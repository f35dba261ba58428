---------------------------- MODULE BufferProofs -----------------------------
(***************************************************************************)
(* Proofs about the two buffers that threads share: RingBuffer for every   *)
(* size of the buffer and every number of items, and SemBuffer for every   *)
(* number of threads besides.  They share no state.                        *)
(***************************************************************************)
EXTENDS RingBuffer, SemBuffer, FiniteSetTheorems, TLAPS

-----------------------------------------------------------------------------
(***************************************************************************)
(* The ring buffer                                                         *)
(***************************************************************************)

\* The place of the i-th item in the buffer.
PlaceOf(i) == (tailIdx + i - 1) % RingSize

\* The indices tell how many of the items written have not been read, and the
\* places between them hold those items in order.
Contents ==
  /\ Count = counter - 1 - received
  /\ \A i \in 1..Count : ringBuffer[PlaceOf(i)] = received + i

\* A thread that has passed its test may go on: the other thread's steps cannot
\* make the test fail again.
WriterMayGoOn ==
  /\ wpc \in {"store", "advance"} => Succ(headIdx) # tailIdx
  /\ wpc = "advance" => ringBuffer[headIdx] = counter
  /\ wpc # "exited" => counter <= RingTarget

ReaderMayGoOn ==
  /\ rpc \in {"load", "advance"} => headIdx # tailIdx
  /\ rpc = "advance" => readData = received + 1

RingInv == RingTypeOK /\ Contents /\ WriterMayGoOn /\ ReaderMayGoOn

-----------------------------------------------------------------------------
\* The remainder of a number below twice the divisor.
LEMMA SmallRemainder ==
  ASSUME NEW n \in Nat \ {0}, NEW x \in 0..(2 * n - 1)
  PROVE  x % n = IF x < n THEN x ELSE x - n
OBVIOUS

LEMMA SuccValue ==
  ASSUME NEW i \in Idx
  PROVE  Succ(i) = (IF i = RingSize - 1 THEN 0 ELSE i + 1) /\ Succ(i) \in Idx
<1>1. RingSize \in Nat \ {0} /\ i + 1 \in 0..(2 * RingSize - 1)
  BY RingAssumption DEF Idx
<1>2. PICK x \in 0..(2 * RingSize - 1) : x = i + 1
  BY <1>1
<1>3. x % RingSize = IF x < RingSize THEN x ELSE x - RingSize
  BY <1>1, SmallRemainder
<1>4. Succ(i) = x % RingSize
  BY <1>2 DEF Succ
<1> QED
  BY <1>1, <1>2, <1>3, <1>4 DEF Idx

\* The distance from index t on to index h.
LEMMA DistanceValue ==
  ASSUME NEW h \in Idx, NEW t \in Idx
  PROVE  (h - t + RingSize) % RingSize
         = IF t <= h THEN h - t ELSE h - t + RingSize
<1>1. RingSize \in Nat \ {0} /\ h - t + RingSize \in 0..(2 * RingSize - 1)
  BY RingAssumption DEF Idx
<1>2. PICK x \in 0..(2 * RingSize - 1) : x = h - t + RingSize
  BY <1>1
<1>3. x % RingSize = IF x < RingSize THEN x ELSE x - RingSize
  BY <1>1, SmallRemainder
<1>4. (h - t + RingSize) % RingSize = x % RingSize
  BY <1>2
<1> QED
  BY <1>1, <1>2, <1>3, <1>4 DEF Idx

\* The index at a distance of less than RingSize on from index t.
LEMMA IndexValue ==
  ASSUME NEW t \in Idx, NEW i \in 1..RingSize
  PROVE  /\ (t + i - 1) % RingSize
              = IF t + i <= RingSize THEN t + i - 1 ELSE t + i - 1 - RingSize
         /\ (t + i - 1) % RingSize \in Idx
<1>1. RingSize \in Nat \ {0} /\ t + i - 1 \in 0..(2 * RingSize - 1)
  BY RingAssumption DEF Idx
<1>2. PICK x \in 0..(2 * RingSize - 1) : x = t + i - 1
  BY <1>1
<1>3. x % RingSize = IF x < RingSize THEN x ELSE x - RingSize
  BY <1>1, SmallRemainder
<1>4. (t + i - 1) % RingSize = x % RingSize
  BY <1>2
<1> QED
  BY <1>1, <1>2, <1>3, <1>4 DEF Idx

LEMMA CountValue ==
  ASSUME RingTypeOK
  PROVE  /\ Count = IF tailIdx <= headIdx THEN headIdx - tailIdx
                    ELSE headIdx - tailIdx + RingSize
         /\ Count \in 0..(RingSize - 1)
<1>1. headIdx \in Idx /\ tailIdx \in Idx
  BY DEF RingTypeOK
<1>2. Count = IF tailIdx <= headIdx THEN headIdx - tailIdx
              ELSE headIdx - tailIdx + RingSize
  BY <1>1, DistanceValue DEF Count
<1> QED
  BY <1>1, <1>2, RingAssumption DEF Idx

LEMMA PlaceOfValue ==
  ASSUME RingTypeOK, NEW i \in 1..RingSize
  PROVE  /\ PlaceOf(i) = IF tailIdx + i <= RingSize THEN tailIdx + i - 1
                       ELSE tailIdx + i - 1 - RingSize
         /\ PlaceOf(i) \in Idx
BY IndexValue DEF PlaceOf, RingTypeOK

\* The writer's place is none of those in use.
LEMMA HeadIsFree ==
  ASSUME RingTypeOK, NEW i \in 1..Count
  PROVE  PlaceOf(i) # headIdx /\ PlaceOf(i) \in Idx
<1>1. /\ headIdx \in Idx /\ tailIdx \in Idx
      /\ Count = IF tailIdx <= headIdx THEN headIdx - tailIdx
                 ELSE headIdx - tailIdx + RingSize
      /\ Count \in 0..(RingSize - 1)
  BY CountValue DEF RingTypeOK
<1>2. i \in 1..RingSize
  BY <1>1, RingAssumption
<1>3. /\ PlaceOf(i) = IF tailIdx + i <= RingSize THEN tailIdx + i - 1
                    ELSE tailIdx + i - 1 - RingSize
      /\ PlaceOf(i) \in Idx
  BY <1>2, PlaceOfValue
<1> QED
  BY <1>1, <1>2, <1>3, RingAssumption DEF Idx

-----------------------------------------------------------------------------
LEMMA RingStart == RingInit => RingInv
<1> SUFFICES ASSUME RingInit PROVE RingInv
  OBVIOUS
<1>1. RingTypeOK
  BY RingAssumption DEF RingInit, RingTypeOK, Idx
<1>2. Count = 0
  BY <1>1, CountValue DEF RingInit
<1>3. Contents
  BY <1>2 DEF RingInit, Contents
<1>4. WriterMayGoOn /\ ReaderMayGoOn
  BY RingAssumption DEF RingInit, WriterMayGoOn, ReaderMayGoOn
<1> QED
  BY <1>1, <1>3, <1>4 DEF RingInv

LEMMA CheckSteps ==
  ASSUME RingInv, WriteCheck \/ ReadCheck
  PROVE  RingInv'
<1>1. RingTypeOK'
  BY DEF RingInv, RingTypeOK, WriteCheck, ReadCheck
<1>2. Contents'
  BY DEF RingInv, Contents, Count, PlaceOf, WriteCheck, ReadCheck
<1>3. WriterMayGoOn' /\ ReaderMayGoOn'
  BY DEF RingInv, RingTypeOK, WriterMayGoOn, ReaderMayGoOn, WriteCheck, ReadCheck,
     isBufferFull, isBufferEmpty
<1> QED
  BY <1>1, <1>2, <1>3 DEF RingInv

\* The store reaches none of the items in the buffer.
LEMMA RingStore ==
  ASSUME RingInv, WriteStore
  PROVE  RingInv'
<1> USE DEF RingInv
<1>1. RingTypeOK'
  BY DEF RingTypeOK, WriterMayGoOn, WriteStore
<1>2. Contents'
  <2>1. Count' = Count /\ \A i \in 1..Count : PlaceOf(i)' = PlaceOf(i)
    BY DEF Count, PlaceOf, WriteStore
  <2>2. ASSUME NEW i \in 1..Count PROVE ringBuffer'[PlaceOf(i)] = ringBuffer[PlaceOf(i)]
    <3>1. PlaceOf(i) # headIdx /\ PlaceOf(i) \in Idx
      BY HeadIsFree
    <3> QED
      BY <3>1 DEF RingTypeOK, WriteStore
  <2> QED
    BY <2>1, <2>2 DEF Contents, WriteStore
<1>3. WriterMayGoOn' /\ ReaderMayGoOn'
  BY DEF RingTypeOK, WriterMayGoOn, ReaderMayGoOn, WriteStore
<1> QED
  BY <1>1, <1>2, <1>3

\* The item stored becomes the last one in the buffer.
LEMMA WriteAdvanceStep ==
  ASSUME RingInv, WriteAdvance
  PROVE  /\ RingInv'
         /\ Count' = Count + 1 /\ Count < RingSize - 1
         /\ \A i \in 1..Count : ringBuffer'[PlaceOf(i)'] = ringBuffer[PlaceOf(i)]
         /\ ringBuffer'[PlaceOf(Count)'] = counter
<1> USE DEF RingInv
<1>1. RingTypeOK'
  <2>1. headIdx' \in Idx
    BY SuccValue DEF RingTypeOK, WriteAdvance
  <2>2. counter' \in 1..(RingTarget + 1)
    BY RingAssumption DEF RingTypeOK, WriterMayGoOn, WriteAdvance
  <2> QED
    BY <2>1, <2>2 DEF RingTypeOK, WriteAdvance
<1>2. headIdx' = Succ(headIdx) /\ headIdx' # tailIdx /\ tailIdx' = tailIdx
  BY DEF WriterMayGoOn, WriteAdvance
<1>3. Count' = Count + 1 /\ Count < RingSize - 1
  <2>1. Count' = IF tailIdx' <= headIdx' THEN headIdx' - tailIdx'
                 ELSE headIdx' - tailIdx' + RingSize
    BY <1>1, DistanceValue DEF Count, RingTypeOK
  <2>2. Succ(headIdx) = IF headIdx = RingSize - 1 THEN 0 ELSE headIdx + 1
    BY SuccValue DEF RingTypeOK
  <2>3. Count = IF tailIdx <= headIdx THEN headIdx - tailIdx
                ELSE headIdx - tailIdx + RingSize
    BY CountValue
  <2>4. headIdx \in Idx /\ tailIdx \in Idx
    BY DEF RingTypeOK
  <2> QED
    BY <2>1, <2>2, <2>3, <2>4, <1>2, RingAssumption DEF Idx
<1>4. \A i : PlaceOf(i)' = PlaceOf(i)
  BY DEF PlaceOf, WriteAdvance
<1>5. PlaceOf(Count + 1) = headIdx
  <2>1. /\ Count = IF tailIdx <= headIdx THEN headIdx - tailIdx
                   ELSE headIdx - tailIdx + RingSize
        /\ Count + 1 \in 1..RingSize
    BY CountValue, RingAssumption
  <2>2. PlaceOf(Count + 1) = IF tailIdx + (Count + 1) <= RingSize
                           THEN tailIdx + (Count + 1) - 1
                           ELSE tailIdx + (Count + 1) - 1 - RingSize
    BY <2>1, PlaceOfValue
  <2> QED
    BY <2>1, <2>2, RingAssumption DEF RingTypeOK, Idx
<1>6. /\ \A i \in 1..Count : ringBuffer'[PlaceOf(i)'] = ringBuffer[PlaceOf(i)]
      /\ ringBuffer'[PlaceOf(Count)'] = counter
  <2>1. PlaceOf(Count)' = headIdx
    BY <1>3, <1>5 DEF PlaceOf, WriteAdvance
  <2> QED
    BY <2>1, <1>4 DEF WriteAdvance, WriterMayGoOn
<1>7. Contents'
  <2>1. counter' = counter + 1 /\ received' = received
    BY DEF WriteAdvance
  <2>2. Count' = counter' - 1 - received'
    BY <1>3, <2>1 DEF Contents, RingTypeOK
  <2>3. ASSUME NEW i \in 1..Count' PROVE ringBuffer'[PlaceOf(i)'] = received' + i
    <3>1. CASE i \in 1..Count
      BY <3>1, <1>6, <2>1 DEF Contents
    <3>2. CASE i = Count'
      <4>1. ringBuffer'[PlaceOf(i)'] = counter
        BY <3>2, <1>6 DEF PlaceOf
      <4> QED
        BY <4>1, <3>2, <2>1, <2>2 DEF RingTypeOK
    <3> QED
      BY <3>1, <3>2, <1>3, CountValue DEF Idx
  <2> QED
    BY <2>2, <2>3 DEF Contents
<1>8. WriterMayGoOn'
  BY DEF RingTypeOK, WriterMayGoOn, WriteAdvance
<1>9. ReaderMayGoOn'
  BY <1>2, <1>3, CountValue, <1>1, RingAssumption
  DEF RingTypeOK, Idx, ReaderMayGoOn, WriteAdvance
<1> QED
  BY <1>1, <1>3, <1>6, <1>7, <1>8, <1>9

LEMMA RingLoad ==
  ASSUME RingInv, ReadLoad
  PROVE  RingInv'
<1> USE DEF RingInv
<1>1. RingTypeOK'
  BY DEF RingTypeOK, ReadLoad
<1>2. Contents'
  BY DEF Contents, Count, PlaceOf, ReadLoad
<1>3. Count \in 1..RingSize
  BY CountValue, RingAssumption, SMTT(30) DEF RingTypeOK, Idx, ReaderMayGoOn, ReadLoad
<1>4. PlaceOf(1) = tailIdx
  BY PlaceOfValue, RingAssumption DEF RingTypeOK, Idx
<1>5. ringBuffer[tailIdx] = received + 1
  BY <1>3, <1>4 DEF Contents
<1>6. WriterMayGoOn' /\ ReaderMayGoOn'
  BY <1>5 DEF RingTypeOK, WriterMayGoOn, ReaderMayGoOn, ReadLoad
<1> QED
  BY <1>1, <1>2, <1>6

\* The first item leaves the buffer.
LEMMA ReadAdvanceStep ==
  ASSUME RingInv, ReadAdvance
  PROVE  /\ RingInv'
         /\ Count' = Count - 1 /\ Count \in 1..RingSize
         /\ ringBuffer[PlaceOf(1)] = received'
         /\ \A i \in 1..Count' : ringBuffer'[PlaceOf(i)'] = ringBuffer[PlaceOf(i + 1)]
<1> USE DEF RingInv
<1>1. RingTypeOK'
  BY SuccValue DEF RingTypeOK, ReadAdvance
<1>2. tailIdx' = Succ(tailIdx) /\ headIdx # tailIdx /\ headIdx' = headIdx
  BY DEF ReaderMayGoOn, ReadAdvance
<1>3. Count' = Count - 1 /\ Count \in 1..(RingSize - 1)
  <2>1. Count' = IF tailIdx' <= headIdx' THEN headIdx' - tailIdx'
                 ELSE headIdx' - tailIdx' + RingSize
    BY <1>1, DistanceValue DEF Count, RingTypeOK
  <2>2. Succ(tailIdx) = IF tailIdx = RingSize - 1 THEN 0 ELSE tailIdx + 1
    BY SuccValue DEF RingTypeOK
  <2>3. /\ Count = IF tailIdx <= headIdx THEN headIdx - tailIdx
                   ELSE headIdx - tailIdx + RingSize
        /\ Count \in 0..(RingSize - 1)
    BY CountValue
  <2>4. headIdx \in Idx /\ tailIdx \in Idx
    BY DEF RingTypeOK
  <2> QED
    BY <2>1, <2>2, <2>3, <2>4, <1>2, RingAssumption DEF Idx
<1>4. \A i \in 1..Count' : PlaceOf(i)' = PlaceOf(i + 1)
  <2> SUFFICES ASSUME NEW i \in 1..Count' PROVE PlaceOf(i)' = PlaceOf(i + 1)
    OBVIOUS
  <2>1. i \in 1..RingSize /\ i + 1 \in 1..RingSize
    BY <1>3, RingAssumption
  <2>2. PlaceOf(i)' = IF tailIdx' + i <= RingSize THEN tailIdx' + i - 1
                    ELSE tailIdx' + i - 1 - RingSize
    BY <1>1, <2>1, IndexValue DEF PlaceOf, RingTypeOK
  <2>3. PlaceOf(i + 1) = IF tailIdx + (i + 1) <= RingSize THEN tailIdx + (i + 1) - 1
                       ELSE tailIdx + (i + 1) - 1 - RingSize
    BY <2>1, PlaceOfValue
  <2>4. Succ(tailIdx) = IF tailIdx = RingSize - 1 THEN 0 ELSE tailIdx + 1
    BY SuccValue DEF RingTypeOK
  <2> QED
    BY <2>1, <2>2, <2>3, <2>4, <1>2, RingAssumption DEF RingTypeOK, Idx
<1>5. \A i \in 1..Count' : ringBuffer'[PlaceOf(i)'] = ringBuffer[PlaceOf(i + 1)]
  BY <1>4 DEF ReadAdvance
<1>6. received' = received + 1 /\ counter' = counter
  BY DEF ReadAdvance, ReaderMayGoOn
<1>7. ringBuffer[PlaceOf(1)] = received'
  BY <1>3, <1>6 DEF Contents
<1>8. Contents'
  <2>1. Count' = counter' - 1 - received'
    BY <1>3, <1>6 DEF Contents, RingTypeOK
  <2>2. ASSUME NEW i \in 1..Count' PROVE ringBuffer'[PlaceOf(i)'] = received' + i
    <3>1. i + 1 \in 1..Count
      BY <1>3
    <3> QED
      BY <3>1, <1>5, <1>6 DEF Contents, RingTypeOK
  <2> QED
    BY <2>1, <2>2 DEF Contents
<1>9. WriterMayGoOn'
  <2>1. Succ(headIdx)' = Succ(headIdx)
    BY <1>2 DEF Succ
  <2>2. wpc \in {"store", "advance"} => Succ(headIdx) # tailIdx'
    <3>1. /\ Succ(headIdx) = IF headIdx = RingSize - 1 THEN 0 ELSE headIdx + 1
          /\ Succ(tailIdx) = IF tailIdx = RingSize - 1 THEN 0 ELSE tailIdx + 1
          /\ headIdx \in Idx /\ tailIdx \in Idx
      BY SuccValue DEF RingTypeOK
    <3> QED
      BY <1>2, <3>1, RingAssumption DEF Idx
  <2> QED
    BY <2>1, <2>2 DEF WriterMayGoOn, ReadAdvance
<1>10. ReaderMayGoOn'
  BY DEF RingTypeOK, ReaderMayGoOn, ReadAdvance
<1>11. Count \in 1..RingSize
  BY <1>3, RingAssumption
<1> QED
  BY <1>1, <1>3, <1>5, <1>7, <1>8, <1>9, <1>10, <1>11

LEMMA RingStep == RingInv /\ [RingNext]_ringVars => RingInv'
<1> SUFFICES ASSUME RingInv, [RingNext]_ringVars PROVE RingInv'
  OBVIOUS
<1>1. CASE writeHandler
  BY <1>1, CheckSteps, RingStore, WriteAdvanceStep DEF writeHandler
<1>2. CASE readHandler
  BY <1>2, CheckSteps, RingLoad, ReadAdvanceStep DEF readHandler
<1>3. CASE UNCHANGED ringVars
  BY <1>3 DEF RingInv, RingTypeOK, Contents, Count, PlaceOf, WriterMayGoOn, ReaderMayGoOn,
     ringVars
<1> QED
  BY <1>1, <1>2, <1>3 DEF RingNext

\* A thread ends when it has written, or read, the last value.
Endings ==
  /\ wpc = "exited" <=> counter = RingTarget + 1
  /\ rpc = "exited" <=> received = RingTarget

LEMMA EndingsStart == RingInit => Endings
BY RingAssumption DEF RingInit, Endings

LEMMA EndingsStep == RingInv /\ Endings /\ [RingNext]_ringVars => Endings'
<1> SUFFICES ASSUME RingInv, Endings, [RingNext]_ringVars PROVE Endings'
  OBVIOUS
<1> USE DEF Endings, RingInv, RingTypeOK
<1>1. CASE WriteCheck BY <1>1 DEF WriteCheck
<1>2. CASE WriteStore BY <1>2 DEF WriteStore
<1>3. CASE WriteAdvance
  BY <1>3, RingAssumption DEF WriteAdvance, WriterMayGoOn
<1>4. CASE ReadCheck BY <1>4 DEF ReadCheck
<1>5. CASE ReadLoad BY <1>5 DEF ReadLoad
<1>6. CASE ReadAdvance BY <1>6 DEF ReadAdvance
<1>7. CASE UNCHANGED ringVars BY <1>7 DEF ringVars
<1> QED
  BY <1>1, <1>2, <1>3, <1>4, <1>5, <1>6, <1>7 DEF RingNext, writeHandler, readHandler

\* While one thread waits, the other has a step that is no wait.
LEMMA RingProceeds == RingInv /\ Endings => NeverBothSpin
<1> SUFFICES ASSUME RingInv, Endings PROVE NeverBothSpin
  OBVIOUS
<1>1. /\ RingTypeOK /\ headIdx \in Idx /\ tailIdx \in Idx
      /\ counter \in 1..(RingTarget + 1) /\ received \in 0..RingTarget
      /\ Count = counter - 1 - received
  BY DEF RingInv, RingTypeOK, Contents
<1>2. isBufferEmpty => Count = 0
  BY <1>1, CountValue DEF isBufferEmpty, Idx
<1>3. isBufferFull => Count > 0
  <2>1. Succ(headIdx) = IF headIdx = RingSize - 1 THEN 0 ELSE headIdx + 1
    BY <1>1, SuccValue
  <2> QED
    BY <1>1, <2>1, CountValue, RingAssumption DEF isBufferFull, Idx
<1>4. CASE wpc = "exited" /\ rpc = "exited"
  BY <1>4 DEF NeverBothSpin, RingEnded
<1>5. CASE wpc = "exited" /\ rpc # "exited"
  \* The items left are in the buffer.
  <2>1. ~isBufferEmpty
    BY <1>1, <1>2, <1>5, RingAssumption DEF Endings
  <2> QED
    BY <1>5, <2>1 DEF NeverBothSpin
<1>6. CASE wpc # "exited" /\ rpc = "exited"
  \* No reader has read what is still to be written.
  <2>1. FALSE
    BY <1>1, <1>6, CountValue, RingAssumption DEF Endings
  <2> QED
    BY <2>1
<1>7. CASE wpc # "exited" /\ rpc # "exited"
  BY <1>2, <1>3, <1>7 DEF NeverBothSpin
<1> QED
  BY <1>4, <1>5, <1>6, <1>7

\* The properties the run checks follow from the two.
LEMMA RingImplied == RingInv => RingTypeOK /\ NoConflict
BY DEF RingInv, ReaderMayGoOn, NoConflict

\* The indices, the items between them and the places of the threads agree.
THEOREM RingInvariance == RingSpec => []RingInv
BY RingStart, RingStep, PTL DEF RingSpec

\* What the threads still have to do agrees with the indices too.
THEOREM RingEndings == RingSpec => [](RingInv /\ Endings)
BY RingStart, RingStep, EndingsStart, EndingsStep, PTL DEF RingSpec

\* Every index stays in the array and every value among those written.
THEOREM RingTypeCorrect == RingSpec => []RingTypeOK
BY RingImplied, RingInvariance, PTL

\* The writer never stores into the element the reader loads, although neither
\* takes a lock: readFromBuffer and writeToBuffer of ring_buffer.c.
THEOREM NoDataRace == RingSpec => []NoConflict
BY RingImplied, RingInvariance, PTL

\* writeToBuffer and readFromBuffer of ring_buffer.c, which wait by spinning, never
\* both spin, nor does one after the other's thread has ended: the reader's last
\* value is the writer's last.
THEOREM NoCommonSpin == RingSpec => []NeverBothSpin
BY RingProceeds, RingEndings, PTL

-----------------------------------------------------------------------------
\* The queue the buffer stands for.
Queue == [i \in 1..Count |-> ringBuffer[(tailIdx + i - 1) % RingSize]]

\* The elements of the buffer that follow index t are a sequence.
LEMMA ItemsAreSeq ==
  ASSUME NEW b \in [Idx -> 0..RingTarget], NEW t \in Idx, NEW n \in 0..RingSize
  PROVE  /\ [i \in 1..n |-> b[(t + i - 1) % RingSize]] \in Seq(0..RingTarget)
         /\ Len([i \in 1..n |-> b[(t + i - 1) % RingSize]]) = n
<1>1. ASSUME NEW i \in 1..n PROVE (t + i - 1) % RingSize \in Idx
  <2>1. i \in 1..RingSize
    BY RingAssumption
  <2> QED
    BY <2>1, IndexValue
<1> DEFINE q == [i \in 1..n |-> b[(t + i - 1) % RingSize]]
<1>2. q \in [1..n -> 0..RingTarget] /\ n \in Nat
  BY <1>1, RingAssumption
<1> QED
  BY <1>2

LEMMA QueueIsSeq ==
  ASSUME RingTypeOK
  PROVE  Queue \in Seq(0..RingTarget) /\ Len(Queue) = Count
<1>1. Count \in 0..RingSize
  BY CountValue, RingAssumption
<1> QED
  BY <1>1, ItemsAreSeq, ZenonT(60) DEF Queue, RingTypeOK

LEMMA AbsInitial == RingInit => Fifo!FifoInit
<1> SUFFICES ASSUME RingInit PROVE Fifo!FifoInit
  OBVIOUS
<1>1. RingTypeOK /\ Count = 0
  BY RingStart, RingAssumption DEF RingInv, Contents, RingInit
<1>2. Queue = <<>>
  BY <1>1, QueueIsSeq
<1> QED
  BY <1>2 DEF Queue, RingInit, Fifo!FifoInit

\* Advancing headIdx puts an item into the queue.
LEMMA AbsPut ==
  ASSUME RingInv, WriteAdvance
  PROVE  Fifo!Put
<1>1. /\ RingTypeOK' /\ RingTypeOK
      /\ Count' = Count + 1 /\ Count < RingSize - 1
      /\ \A i \in 1..Count : ringBuffer'[PlaceOf(i)'] = ringBuffer[PlaceOf(i)]
      /\ ringBuffer'[PlaceOf(Count)'] = counter
  BY WriteAdvanceStep DEF RingInv
<1>2. /\ Queue \in Seq(0..RingTarget) /\ Len(Queue) = Count
      /\ Queue' \in Seq(0..RingTarget) /\ Len(Queue') = Count'
  <2>1. Count' \in 0..RingSize /\ RingTypeOK'
    BY <1>1, CountValue, RingAssumption
  <2>2. Queue' \in Seq(0..RingTarget) /\ Len(Queue') = Count'
    BY <2>1, ItemsAreSeq, ZenonT(60) DEF Queue, RingTypeOK
  <2> QED
    BY <2>2, <1>1, QueueIsSeq
<1>3. counter \in 1..RingTarget
  BY DEF RingInv, RingTypeOK, WriterMayGoOn, WriteAdvance
<1>4. Append(Queue, counter) \in Seq(0..RingTarget) /\ Len(Append(Queue, counter)) = Count'
  BY <1>1, <1>2, <1>3
<1>5. ASSUME NEW i \in 1..Count' PROVE Queue'[i] = Append(Queue, counter)[i]
  <2>1. Queue'[i] = ringBuffer'[PlaceOf(i)']
    BY DEF Queue, PlaceOf
  <2>2. CASE i \in 1..Count
    <3>1. Queue[i] = ringBuffer[PlaceOf(i)]
      BY <2>2 DEF Queue, PlaceOf
    <3> QED
      BY <2>1, <2>2, <3>1, <1>1, <1>2, <1>3
  <2>3. CASE i = Count + 1
    BY <2>1, <2>3, <1>1, <1>2, <1>3
  <2> QED
    BY <2>2, <2>3, <1>1, <1>2
<1>6. Queue' = Append(Queue, counter)
  BY <1>2, <1>4, <1>5
<1>7. counter - 1 + 1 = counter /\ counter' - 1 = counter /\ received' = received
  BY <1>3 DEF WriteAdvance
<1> QED
  BY <1>1, <1>2, <1>3, <1>6, <1>7 DEF Fifo!Put, Queue

\* Advancing tailIdx takes the item loaded before out of the queue.
LEMMA AbsGet ==
  ASSUME RingInv, ReadAdvance
  PROVE  Fifo!Get
<1>1. /\ RingTypeOK' /\ RingTypeOK
      /\ Count' = Count - 1 /\ Count \in 1..RingSize
      /\ ringBuffer[PlaceOf(1)] = received'
      /\ \A i \in 1..Count' : ringBuffer'[PlaceOf(i)'] = ringBuffer[PlaceOf(i + 1)]
  BY ReadAdvanceStep DEF RingInv
<1>2. /\ Queue \in Seq(0..RingTarget) /\ Len(Queue) = Count
      /\ Queue' \in Seq(0..RingTarget) /\ Len(Queue') = Count'
  <2>1. Count' \in 0..RingSize /\ RingTypeOK'
    BY <1>1, CountValue, RingAssumption
  <2>2. Queue' \in Seq(0..RingTarget) /\ Len(Queue') = Count'
    BY <2>1, ItemsAreSeq, ZenonT(60) DEF Queue, RingTypeOK
  <2> QED
    BY <2>2, <1>1, QueueIsSeq
<1>3. Queue # <<>> /\ Head(Queue) = received'
  <2>1. Queue[1] = ringBuffer[PlaceOf(1)]
    BY <1>1 DEF Queue, PlaceOf
  <2> QED
    BY <2>1, <1>1, <1>2
<1>4. Tail(Queue) \in Seq(0..RingTarget) /\ Len(Tail(Queue)) = Count'
  BY <1>1, <1>2, <1>3
<1>5. ASSUME NEW i \in 1..Count' PROVE Queue'[i] = Tail(Queue)[i]
  <2>1. Queue'[i] = ringBuffer'[PlaceOf(i)']
    BY DEF Queue, PlaceOf
  <2>2. i + 1 \in 1..Count
    BY <1>1
  <2>3. Queue[i + 1] = ringBuffer[PlaceOf(i + 1)]
    BY <2>2 DEF Queue, PlaceOf
  <2> QED
    BY <2>1, <2>2, <2>3, <1>1, <1>2, <1>3
<1>6. Queue' = Tail(Queue)
  BY <1>2, <1>4, <1>5
<1> QED
  BY <1>3, <1>6 DEF Fifo!Get, Queue, ReadAdvance

\* Every other step leaves the queue as it is.
LEMMA AbsStutter ==
  ASSUME RingInv, WriteCheck \/ WriteStore \/ ReadCheck \/ ReadLoad \/ UNCHANGED ringVars
  PROVE  UNCHANGED Fifo!fifoVars
<1>1. UNCHANGED <<headIdx, tailIdx, counter, received>>
  BY DEF WriteCheck, WriteStore, ReadCheck, ReadLoad, ringVars
<1>2. Count' = Count /\ \A i : PlaceOf(i)' = PlaceOf(i)
  BY <1>1 DEF Count, PlaceOf
<1>3. \A i \in 1..Count : ringBuffer'[PlaceOf(i)] = ringBuffer[PlaceOf(i)]
  <2>1. CASE WriteStore
    <3>1. \A i \in 1..Count : PlaceOf(i) \in Idx /\ PlaceOf(i) # headIdx
      BY HeadIsFree DEF RingInv
    <3> QED
      BY <2>1, <3>1 DEF RingInv, RingTypeOK, WriteStore
  <2>2. CASE ~WriteStore
    BY <2>2 DEF WriteCheck, ReadCheck, ReadLoad, ringVars
  <2> QED
    BY <2>1, <2>2
<1>4. Queue' = Queue
  BY <1>2, <1>3 DEF Queue, PlaceOf
<1> QED
  BY <1>1, <1>4 DEF Fifo!fifoVars, Queue

LEMMA AbsNext ==
  ASSUME RingInv, [RingNext]_ringVars
  PROVE  [Fifo!Put \/ Fifo!Get]_(Fifo!fifoVars)
BY AbsPut, AbsGet, AbsStutter DEF RingNext, writeHandler, readHandler

\* The ring buffer is a FIFO queue of RingSize - 1 items: however its two
\* threads interleave, what the reader gets is what was written, in order.
THEOREM Refinement == RingSpec => ImplementsFifo
<1>1. RingInit => Fifo!FifoInit
  BY AbsInitial
<1>2. RingInv /\ [RingNext]_ringVars => [Fifo!Put \/ Fifo!Get]_(Fifo!fifoVars)
  BY AbsNext
<1> QED
  BY <1>1, <1>2, RingInvariance, PTL DEF RingSpec, ImplementsFifo, Fifo!FifoSpec

-----------------------------------------------------------------------------
(***************************************************************************)
(* The buffer with semaphores                                              *)
(***************************************************************************)

\* The labels of a thread that has taken a place from a semaphore and not yet
\* handed it on, and those of a thread that owns the mutex.
Reserving == Pc \ {"wait", "exited"}
Inside == {"access", "count", "set", "unlock"}

Reserved == At(Threads, Reserving)
Unposted == At(Writers, {"unlock", "post"})
Untaken == At(Readers, {"lock", "count", "set"})

MutexHeld == \A t \in Threads : semPc[t] \in Inside <=> mtx = t

\* The index counts the items the semaphore offers, those whose writer has still
\* to post them and those whose reader has still to take them.
PlacesReserved == sem_w + sem_r + Reserved = SemSize

IndexCounts == semHeadIdx = sem_r + Unposted + Untaken

\* No one changes the index between the read and the write of headIdx++.
IndexIsRead == \A t \in Threads : semPc[t] = "set" => reg[t] = semHeadIdx

WorkLeft == \A t \in Threads : semPc[t] # "exited" => maxNum[t] > 0

\* SlotsBelow the index are items; at it is the one just stored or about to be read.
PlacesFilled ==
  /\ \A i \in 0..(semHeadIdx - 1) : semRingBuffer[i] \in Item
  /\ \A t \in Writers :
       semPc[t] \in {"count", "set"} => semRingBuffer[semHeadIdx] = <<t, maxNum[t]>>
  /\ \A t \in Readers : semPc[t] = "access" => semRingBuffer[semHeadIdx] \in Item

\* The item a reader has taken off the buffer and not yet loaded.
Pending(x) ==
  IF (\E t \in Readers : semPc[t] = "access") /\ semRingBuffer[semHeadIdx] = x
  THEN 1 ELSE 0

ItemsAccounted == \A x \in Item : Stored(x) = InBuffer(x) + taken[x] + Pending(x)

SemInv ==
  /\ SemTypeOK
  /\ MutexHeld
  /\ PlacesReserved
  /\ IndexCounts
  /\ IndexIsRead
  /\ WorkLeft
  /\ PlacesFilled
  /\ ItemsAccounted

-----------------------------------------------------------------------------
LEMMA ThreadsFinite == IsFiniteSet(Threads)
BY FS_Union, SemBufferAssumption DEF Threads

\* How many threads of a kind are at one of some labels, when one thread moves.
LEMMA MoveCount ==
  ASSUME NEW f \in [Threads -> Pc], NEW t \in Threads, NEW b \in Pc,
         NEW K \in SUBSET Threads, NEW L
  PROVE  Cardinality({x \in K : [f EXCEPT ![t] = b][x] \in L})
         = Cardinality({x \in K : f[x] \in L})
           + (IF t \in K /\ b \in L THEN 1 ELSE 0)
           - (IF t \in K /\ f[t] \in L THEN 1 ELSE 0)
<1> DEFINE g == [f EXCEPT ![t] = b]
           rest == {x \in K \ {t} : f[x] \in L}
           before == {x \in K : f[x] \in L}
           after == {x \in K : g[x] \in L}
<1>1. IsFiniteSet(rest) /\ Cardinality(rest) \in Nat
  BY ThreadsFinite, FS_Subset, FS_CardinalityType
<1>2. /\ Cardinality(rest \union {t}) = Cardinality(rest) + 1
  BY <1>1, FS_AddElement
<1>3. before = IF t \in K /\ f[t] \in L THEN rest \union {t} ELSE rest
  OBVIOUS
<1>4. after = IF t \in K /\ b \in L THEN rest \union {t} ELSE rest
  OBVIOUS
<1>5. /\ Cardinality(before) = IF t \in K /\ f[t] \in L THEN Cardinality(rest) + 1
                               ELSE Cardinality(rest)
      /\ Cardinality(after) = IF t \in K /\ b \in L THEN Cardinality(rest) + 1
                              ELSE Cardinality(rest)
  BY <1>2, <1>3, <1>4
<1> HIDE DEF before, after, rest
<1> QED
  BY <1>1, <1>5 DEF before, after

\* What a move of thread t does to the counts the invariant speaks of.
LEMMA MoveCounts ==
  ASSUME SemTypeOK, NEW t \in Threads, NEW b \in Pc, Goto(t, b)
  PROVE  /\ Reserved \in Nat /\ Unposted \in Nat /\ Untaken \in Nat
         /\ Reserved' = Reserved + (IF b \in Reserving THEN 1 ELSE 0)
                                 - (IF semPc[t] \in Reserving THEN 1 ELSE 0)
         /\ t \in Writers =>
              /\ Unposted' = Unposted + (IF b \in {"unlock", "post"} THEN 1 ELSE 0)
                             - (IF semPc[t] \in {"unlock", "post"} THEN 1 ELSE 0)
              /\ Untaken' = Untaken
         /\ t \in Readers =>
              /\ Untaken' = Untaken + (IF b \in {"lock", "count", "set"} THEN 1 ELSE 0)
                            - (IF semPc[t] \in {"lock", "count", "set"} THEN 1 ELSE 0)
              /\ Unposted' = Unposted
<1>1. semPc \in [Threads -> Pc] /\ semPc' = [semPc EXCEPT ![t] = b]
  BY DEF SemTypeOK, Goto
<1>2. ASSUME NEW K \in SUBSET Threads, NEW L
      PROVE  /\ At(K, L) \in Nat
             /\ At(K, L)' = At(K, L) + (IF t \in K /\ b \in L THEN 1 ELSE 0)
                                     - (IF t \in K /\ semPc[t] \in L THEN 1 ELSE 0)
  <2>1. Cardinality({x \in K : semPc[x] \in L}) \in Nat
    BY ThreadsFinite, FS_Subset, FS_CardinalityType
  <2>2. Cardinality({x \in K : [semPc EXCEPT ![t] = b][x] \in L})
        = Cardinality({x \in K : semPc[x] \in L})
          + (IF t \in K /\ b \in L THEN 1 ELSE 0)
          - (IF t \in K /\ semPc[t] \in L THEN 1 ELSE 0)
    BY <1>1, MoveCount, SMTT(30)
  <2> QED
    BY <1>1, <2>1, <2>2 DEF At
<1>3. /\ Writers \in SUBSET Threads /\ Readers \in SUBSET Threads
      /\ Writers \intersect Readers = {}
  BY SemBufferAssumption DEF Threads
<1>4. /\ Reserved \in Nat
      /\ Reserved' = Reserved + (IF b \in Reserving THEN 1 ELSE 0)
                              - (IF semPc[t] \in Reserving THEN 1 ELSE 0)
  BY <1>2 DEF Reserved
<1>5. /\ Unposted \in Nat
      /\ Unposted' = Unposted
                     + (IF t \in Writers /\ b \in {"unlock", "post"} THEN 1 ELSE 0)
                     - (IF t \in Writers /\ semPc[t] \in {"unlock", "post"} THEN 1 ELSE 0)
  BY <1>2, <1>3 DEF Unposted
<1>6. /\ Untaken \in Nat
      /\ Untaken' = Untaken
           + (IF t \in Readers /\ b \in {"lock", "count", "set"} THEN 1 ELSE 0)
           - (IF t \in Readers /\ semPc[t] \in {"lock", "count", "set"} THEN 1 ELSE 0)
  BY <1>2, <1>3 DEF Untaken
<1> QED
  BY <1>3, <1>4, <1>5, <1>6

\* Each thread that reserves a place accounts for at most one item below the index.
LEMMA ReservedBound ==
  ASSUME SemTypeOK, PlacesReserved, IndexCounts
  PROVE  /\ semHeadIdx <= SemSize
         /\ \A t \in Writers :
              semPc[t] \in {"lock", "access", "count", "set"} => semHeadIdx < SemSize
         /\ \A t \in Readers :
              semPc[t] \in {"access", "unlock", "post"} => semHeadIdx < SemSize
         /\ \A t \in Readers : semPc[t] \in {"lock", "count", "set"} => semHeadIdx > 0
<1> DEFINE A == {t \in Threads : semPc[t] \in Reserving}
           W == {t \in Writers : semPc[t] \in {"unlock", "post"}}
           R == {t \in Readers : semPc[t] \in {"lock", "count", "set"}}
           B == W \union R
<1>1. IsFiniteSet(A) /\ IsFiniteSet(W) /\ IsFiniteSet(R)
  <2>1. A \in SUBSET Threads /\ W \in SUBSET Threads /\ R \in SUBSET Threads
    BY DEF Threads
  <2> QED
    BY <2>1, ThreadsFinite, FS_Subset
<1>2. /\ Cardinality(A) \in Nat /\ Cardinality(W) \in Nat /\ Cardinality(R) \in Nat
  BY <1>1, FS_CardinalityType
<1>3. Cardinality(B) = Cardinality(W) + Cardinality(R)
  <2>1. W \intersect R = {}
    BY SemBufferAssumption
  <2>2. Cardinality(B) = Cardinality(W) + Cardinality(R) - Cardinality(W \intersect R)
    BY <1>1, FS_Union
  <2>3. Cardinality(W \intersect R) = 0
    BY <2>1, FS_EmptySet
  <2> HIDE DEF B, W, R
  <2> QED
    BY <2>2, <2>3, <1>2
<1>4. B \in SUBSET A
  BY DEF Threads, Reserving, Pc
<1>5. Cardinality(B) <= Cardinality(A) /\ (Cardinality(B) = Cardinality(A) => B = A)
  BY <1>1, <1>4, FS_Subset
<1>6. semHeadIdx = sem_r + Cardinality(B) /\ sem_w + sem_r + Cardinality(A) = SemSize
  <2>1. semHeadIdx = sem_r + Cardinality(W) + Cardinality(R)
    BY DEF IndexCounts, Unposted, Untaken, At
  <2>2. sem_w + sem_r + Cardinality(A) = SemSize
    BY DEF PlacesReserved, Reserved, At
  <2> HIDE DEF A, B, W, R
  <2> QED
    BY <2>1, <2>2, <1>2, <1>3 DEF SemTypeOK
<1>7. sem_w \in Nat /\ sem_r \in Nat /\ semHeadIdx \in Nat /\ SemSize \in Nat
  BY SemBufferAssumption DEF SemTypeOK
<1>8. semHeadIdx <= SemSize /\ (B # A => semHeadIdx < SemSize)
  <2> HIDE DEF A, B, W, R
  <2> QED
    BY <1>2, <1>3, <1>5, <1>6, <1>7
<1>9. ASSUME NEW t \in Writers, semPc[t] \in {"lock", "access", "count", "set"}
      PROVE  B # A
  <2>1. t \in A /\ t \notin B
    BY <1>9, SemBufferAssumption DEF Threads, Reserving, Pc
  <2> QED
    BY <2>1
<1>10. ASSUME NEW t \in Readers, semPc[t] \in {"access", "unlock", "post"}
       PROVE  B # A
  <2>1. t \in A /\ t \notin B
    BY <1>10, SemBufferAssumption DEF Threads, Reserving, Pc
  <2> QED
    BY <2>1
<1>11. ASSUME NEW t \in Readers, semPc[t] \in {"lock", "count", "set"}
       PROVE  semHeadIdx > 0
  <2>1. B # {} /\ IsFiniteSet(B)
    BY <1>11, <1>1, FS_Union
  <2>2. Cardinality(B) # 0
    BY <2>1, FS_EmptySet
  <2> HIDE DEF A, B, W, R
  <2> QED
    BY <2>2, <1>2, <1>3, <1>6, <1>7
<1> HIDE DEF A, B, W, R
<1> QED
  BY <1>8, <1>9, <1>10, <1>11

\* The places below h that hold x.
SlotsBelow(f, h, x) == {i \in 0..(h - 1) : f[i] = x}

LEMMA SlotsBelowCount ==
  ASSUME NEW f, NEW h \in Nat, NEW x
  PROVE  /\ Cardinality(SlotsBelow(f, h, x)) \in Nat
         /\ Cardinality(SlotsBelow(f, h + 1, x))
            = Cardinality(SlotsBelow(f, h, x)) + (IF f[h] = x THEN 1 ELSE 0)
<1>1. IsFiniteSet(SlotsBelow(f, h, x)) /\ Cardinality(SlotsBelow(f, h, x)) \in Nat
  <2>1. IsFiniteSet(0..(h - 1)) /\ SlotsBelow(f, h, x) \in SUBSET (0..(h - 1))
    BY FS_Interval DEF SlotsBelow
  <2> QED
    BY <2>1, FS_Subset, FS_CardinalityType
<1>2. Cardinality(SlotsBelow(f, h, x) \union {h}) = Cardinality(SlotsBelow(f, h, x)) + 1
  <2>1. h \notin SlotsBelow(f, h, x)
    BY DEF SlotsBelow
  <2> QED
    BY <1>1, <2>1, FS_AddElement
<1>3. SlotsBelow(f, h + 1, x) = IF f[h] = x THEN SlotsBelow(f, h, x) \union {h} ELSE SlotsBelow(f, h, x)
  BY DEF SlotsBelow
<1> QED
  BY <1>1, <1>2, <1>3

LEMMA InBufferCount ==
  ASSUME SemTypeOK, NEW x
  PROVE  /\ InBuffer(x) = Cardinality(SlotsBelow(semRingBuffer, semHeadIdx, x))
         /\ InBuffer(x) \in Nat
<1>1. semHeadIdx \in Nat
  BY SemBufferAssumption DEF SemTypeOK
<1>2. InBuffer(x) = Cardinality(SlotsBelow(semRingBuffer, semHeadIdx, x))
  BY DEF InBuffer, SlotsBelow
<1>3. Cardinality(SlotsBelow(semRingBuffer, semHeadIdx, x)) \in Nat
  BY <1>1, SlotsBelowCount
<1> QED
  BY <1>2, <1>3

\* A move that neither stores, loads nor moves the index accounts for the items
\* as before.
LEMMA QuietMove ==
  ASSUME SemInv, NEW t \in Threads, NEW b \in Pc, Goto(t, b),
         UNCHANGED <<semRingBuffer, semHeadIdx, maxNum, taken>>,
         semPc[t] \in {"unlock", "post"} <=> b \in {"unlock", "post"},
         t \in Readers => (semPc[t] = "access" <=> b = "access")
  PROVE  ItemsAccounted'
<1>1. \A x \in Item : Stored(x)' = Stored(x)
  BY DEF SemInv, SemTypeOK, Stored, Goto, Item, Threads
<1>2. \A x \in Item : InBuffer(x)' = InBuffer(x)
  BY DEF InBuffer
<1>3. \A x \in Item : Pending(x)' = Pending(x)
  BY DEF SemInv, SemTypeOK, Pending, Goto, Threads
<1> QED
  BY <1>1, <1>2, <1>3 DEF SemInv, ItemsAccounted

-----------------------------------------------------------------------------
LEMMA SemStart == SemInit => SemInv
<1> SUFFICES ASSUME SemInit PROVE SemInv
  OBVIOUS
<1>1. SemTypeOK
  BY SemBufferAssumption DEF SemInit, SemTypeOK, Pc
<1>2. \A K \in SUBSET Threads : \A L : "wait" \notin L => At(K, L) = 0
  <2> SUFFICES ASSUME NEW K \in SUBSET Threads, NEW L, "wait" \notin L
               PROVE  At(K, L) = 0
    OBVIOUS
  <2>1. {x \in K : semPc[x] \in L} = {}
    BY DEF SemInit
  <2> QED
    BY <2>1, FS_EmptySet DEF At
<1>3. PlacesReserved
  BY <1>2, SemBufferAssumption DEF SemInit, PlacesReserved, Reserved, Reserving
<1>4. IndexCounts
  BY <1>2 DEF SemInit, IndexCounts, Unposted, Untaken, Threads
<1>5. MutexHeld
  BY SemBufferAssumption DEF SemInit, MutexHeld, Inside, Threads
<1>6. IndexIsRead /\ WorkLeft /\ PlacesFilled
  BY SemBufferAssumption DEF SemInit, IndexIsRead, WorkLeft, PlacesFilled, Threads
<1>7. ItemsAccounted
  <2> SUFFICES ASSUME NEW x \in Item
               PROVE  Stored(x) = InBuffer(x) + taken[x] + Pending(x)
    BY DEF ItemsAccounted
  <2>1. Stored(x) = 0
    BY SemBufferAssumption DEF SemInit, Stored, Item, Threads
  <2>2. {i \in 0..(semHeadIdx - 1) : semRingBuffer[i] = x} = {}
    BY DEF SemInit
  <2>3. InBuffer(x) = 0
    BY <2>2, FS_EmptySet DEF InBuffer
  <2>4. Pending(x) = 0 /\ taken[x] = 0
    BY DEF SemInit, Pending, Threads
  <2> QED
    BY <2>1, <2>3, <2>4
<1> QED
  BY <1>1, <1>3, <1>4, <1>5, <1>6, <1>7 DEF SemInv

LEMMA WaitStep ==
  ASSUME SemInv, NEW t \in Threads, SemWait(t)
  PROVE  SemInv'
<1> USE DEF SemInv
<1>1. /\ semPc[t] = "wait" /\ Goto(t, "lock")
      /\ UNCHANGED <<semRingBuffer, semHeadIdx, mtx, maxNum, reg, taken>>
  BY DEF SemWait
<1>2. SemTypeOK'
  BY <1>1, SemBufferAssumption, SMTT(30) DEF SemWait, SemTypeOK, Goto, Pc
<1>3. /\ Reserved \in Nat /\ Unposted \in Nat /\ Untaken \in Nat
      /\ Reserved' = Reserved + 1 /\ Unposted' = Unposted
      /\ t \in Writers => Untaken' = Untaken
      /\ t \in Readers => Untaken' = Untaken + 1
  <2>1. "lock" \in Pc /\ "lock" \in Reserving /\ "wait" \notin Reserving
    BY DEF Pc, Reserving
  <2> QED
    BY <1>1, <2>1, MoveCounts DEF Threads
<1>4. PlacesReserved' /\ IndexCounts'
  <2>1. /\ sem_w \in Nat /\ sem_r \in Nat /\ semHeadIdx' = semHeadIdx
        /\ \/ t \in Writers /\ sem_w' = sem_w - 1 /\ sem_r' = sem_r
           \/ t \in Readers /\ sem_r' = sem_r - 1 /\ sem_w' = sem_w
    BY SemBufferAssumption DEF SemWait, SemTypeOK
  <2>2. PlacesReserved'
    BY <1>3, <2>1 DEF PlacesReserved
  <2> QED
    BY <1>3, <2>1, <2>2 DEF IndexCounts
<1>5. MutexHeld' /\ IndexIsRead' /\ WorkLeft' /\ PlacesFilled'
  BY <1>1, SemBufferAssumption
  DEF SemTypeOK, Goto, MutexHeld, Inside, IndexIsRead, WorkLeft, PlacesFilled, Threads
<1>6. ItemsAccounted'
  BY <1>1, QuietMove DEF Pc
<1> QED
  BY <1>2, <1>4, <1>5, <1>6

\* The thread that owns the mutex is alone with the buffer.
LEMMA Alone ==
  ASSUME MutexHeld, NEW t \in Threads, semPc[t] \in Inside
  PROVE  mtx = t /\ \A u \in Threads : u # t => semPc[u] \notin Inside
BY DEF MutexHeld

LEMMA LockStep ==
  ASSUME SemInv, NEW t \in Threads, Lock(t)
  PROVE  SemInv'
<1> USE DEF SemInv
<1> DEFINE b == IF t \in Writers THEN "access" ELSE "count"
<1>1. /\ semPc[t] = "lock" /\ Goto(t, b) /\ mtx = Nobody /\ mtx' = t
      /\ UNCHANGED <<semRingBuffer, semHeadIdx, sem_w, sem_r, maxNum, reg, taken>>
  BY DEF Lock
<1>2. SemTypeOK'
  BY <1>1 DEF SemTypeOK, Goto, Pc
<1>3. Reserved' = Reserved /\ Unposted' = Unposted /\ Untaken' = Untaken
  <2>1. b \in Pc /\ b \in Reserving /\ semPc[t] \in Reserving
    BY <1>1 DEF Pc, Reserving
  <2>2. b \notin {"unlock", "post"} /\ (t \in Readers => b = "count")
    BY SemBufferAssumption
  <2> HIDE DEF b
  <2> QED
    BY <1>1, <2>1, <2>2, MoveCounts DEF Threads
<1>4. PlacesReserved' /\ IndexCounts'
  BY <1>1, <1>3 DEF PlacesReserved, IndexCounts
<1>5. MutexHeld'
  <2>1. \A u \in Threads : semPc[u] \notin Inside
    BY <1>1, SemBufferAssumption DEF MutexHeld, Threads
  <2> QED
    BY <1>1, <2>1 DEF MutexHeld, Inside, Goto, SemTypeOK
<1>6. IndexIsRead' /\ WorkLeft' /\ PlacesFilled'
  BY <1>1, SemBufferAssumption
  DEF SemTypeOK, Goto, IndexIsRead, WorkLeft, PlacesFilled, Threads
<1>7. ItemsAccounted'
  <2>1. b \in Pc /\ b \notin {"unlock", "post"} /\ (t \in Readers => b # "access")
    BY SemBufferAssumption DEF Pc
  <2> HIDE DEF b
  <2> QED
    BY <1>1, <2>1, QuietMove
<1> QED
  BY <1>2, <1>4, <1>5, <1>6, <1>7

LEMMA SemStore ==
  ASSUME SemInv, NEW t \in Threads, WriterStore(t)
  PROVE  SemInv'
<1> USE DEF SemInv
<1>1. /\ t \in Writers /\ semPc[t] = "access" /\ Goto(t, "count")
      /\ semRingBuffer' = [semRingBuffer EXCEPT ![semHeadIdx] = <<t, maxNum[t]>>]
      /\ UNCHANGED <<semHeadIdx, sem_w, sem_r, mtx, maxNum, reg, taken>>
  BY DEF WriterStore
<1>2. semHeadIdx \in 0..(SemSize - 1)
  BY <1>1, ReservedBound, SemBufferAssumption DEF SemTypeOK
<1>3. <<t, maxNum[t]>> \in Item
  BY <1>1, SemBufferAssumption DEF Item, SemTypeOK, WorkLeft
<1>4. SemTypeOK'
  BY <1>1, <1>2, <1>3 DEF SemTypeOK, Goto, Pc
<1>5. \A u \in Threads : u # t => semPc[u] \notin Inside
  BY <1>1, Alone DEF Inside
<1>6. Reserved' = Reserved /\ Unposted' = Unposted /\ Untaken' = Untaken
  <2>1. "count" \in Pc /\ "count" \in Reserving /\ semPc[t] \in Reserving
    BY <1>1 DEF Pc, Reserving
  <2> QED
    BY <1>1, <2>1, MoveCounts
<1>7. PlacesReserved' /\ IndexCounts'
  BY <1>1, <1>6 DEF PlacesReserved, IndexCounts
<1>8. MutexHeld' /\ IndexIsRead' /\ WorkLeft'
  BY <1>1 DEF SemTypeOK, Goto, MutexHeld, Inside, IndexIsRead, WorkLeft, Threads
<1>9. PlacesFilled'
  <2>1. \A i \in 0..(semHeadIdx - 1) : semRingBuffer'[i] = semRingBuffer[i]
    BY <1>1, <1>2 DEF SemTypeOK
  <2>2. semRingBuffer'[semHeadIdx] = <<t, maxNum[t]>>
    BY <1>1, <1>2 DEF SemTypeOK
  <2> QED
    BY <1>1, <1>5, <2>1, <2>2, SemBufferAssumption
    DEF PlacesFilled, SemTypeOK, Goto, Inside, Threads
<1>10. ItemsAccounted'
  <2> SUFFICES ASSUME NEW x \in Item
               PROVE  Stored(x)' = InBuffer(x)' + taken'[x] + Pending(x)'
    BY DEF ItemsAccounted
  <2>1. Stored(x)' = Stored(x)
    BY <1>1 DEF Stored, SemTypeOK, Goto, Item, Threads
  <2>2. InBuffer(x)' = InBuffer(x)
    <3>1. \A i \in 0..(semHeadIdx - 1) : semRingBuffer'[i] = semRingBuffer[i]
      BY <1>1, <1>2 DEF SemTypeOK
    <3>2. {i \in 0..(semHeadIdx - 1) : semRingBuffer'[i] = x}
          = {i \in 0..(semHeadIdx - 1) : semRingBuffer[i] = x}
      BY <3>1
    <3> QED
      BY <1>1, <3>2 DEF InBuffer
  <2>3. Pending(x) = 0 /\ Pending(x)' = 0
    BY <1>1, <1>5, SemBufferAssumption DEF Pending, SemTypeOK, Goto, Inside, Threads
  <2> QED
    BY <1>1, <2>1, <2>2, <2>3 DEF ItemsAccounted
<1> QED
  BY <1>4, <1>7, <1>8, <1>9, <1>10

LEMMA SemLoad ==
  ASSUME SemInv, NEW t \in Threads, ReaderLoad(t)
  PROVE  SemInv'
<1> USE DEF SemInv
<1> DEFINE item == semRingBuffer[semHeadIdx]
<1>1. /\ t \in Readers /\ semPc[t] = "access" /\ Goto(t, "unlock")
      /\ taken' = [taken EXCEPT ![item] = @ + 1]
      /\ UNCHANGED <<semRingBuffer, semHeadIdx, sem_w, sem_r, mtx, maxNum, reg>>
  BY DEF ReaderLoad
<1>2. item \in Item
  BY <1>1 DEF PlacesFilled
<1>3. SemTypeOK'
  BY <1>1, <1>2, SMTT(30) DEF SemTypeOK, Goto, Pc
<1>4. \A u \in Threads : u # t => semPc[u] \notin Inside
  BY <1>1, Alone DEF Inside
<1>5. Reserved' = Reserved /\ Unposted' = Unposted /\ Untaken' = Untaken
  <2>1. "unlock" \in Pc /\ "unlock" \in Reserving /\ semPc[t] \in Reserving
    BY <1>1 DEF Pc, Reserving
  <2> QED
    BY <1>1, <2>1, MoveCounts
<1>6. PlacesReserved' /\ IndexCounts'
  BY <1>1, <1>5 DEF PlacesReserved, IndexCounts
<1>7. MutexHeld' /\ IndexIsRead' /\ WorkLeft'
  BY <1>1 DEF SemTypeOK, Goto, MutexHeld, Inside, IndexIsRead, WorkLeft, Threads
<1>8. PlacesFilled'
  BY <1>1, <1>4, SemBufferAssumption DEF PlacesFilled, SemTypeOK, Goto, Inside, Threads
<1>9. ItemsAccounted'
  <2> SUFFICES ASSUME NEW x \in Item
               PROVE  Stored(x)' = InBuffer(x)' + taken'[x] + Pending(x)'
    BY DEF ItemsAccounted
  <2>1. Stored(x)' = Stored(x)
    BY <1>1, SemBufferAssumption DEF Stored, SemTypeOK, Goto, Item, Threads
  <2>2. InBuffer(x)' = InBuffer(x) /\ InBuffer(x) \in Nat
    BY <1>1, InBufferCount DEF InBuffer
  <2>3. Pending(x) = IF item = x THEN 1 ELSE 0
    BY <1>1 DEF Pending
  <2>4. Pending(x)' = 0
    BY <1>1, <1>4 DEF Pending, SemTypeOK, Goto, Inside, Threads
  <2>5. taken'[x] = taken[x] + (IF item = x THEN 1 ELSE 0) /\ taken[x] \in Nat
    BY <1>1, <1>2 DEF SemTypeOK
  <2>6. Stored(x) = InBuffer(x) + taken[x] + Pending(x)
    BY DEF ItemsAccounted
  <2> HIDE DEF item
  <2> QED
    BY <2>1, <2>2, <2>3, <2>4, <2>5, <2>6
<1> QED
  BY <1>3, <1>6, <1>7, <1>8, <1>9

LEMMA ReadIndexStep ==
  ASSUME SemInv, NEW t \in Threads, ReadIndex(t)
  PROVE  SemInv'
<1> USE DEF SemInv
<1>1. /\ semPc[t] = "count" /\ Goto(t, "set") /\ reg' = [reg EXCEPT ![t] = semHeadIdx]
      /\ UNCHANGED <<semRingBuffer, semHeadIdx, sem_w, sem_r, mtx, maxNum, taken>>
  BY DEF ReadIndex
<1>2. SemTypeOK'
  BY <1>1 DEF SemTypeOK, Goto, Pc
<1>3. Reserved' = Reserved /\ Unposted' = Unposted /\ Untaken' = Untaken
  <2>1. "set" \in Pc /\ "set" \in Reserving /\ semPc[t] \in Reserving
    BY <1>1 DEF Pc, Reserving
  <2> QED
    BY <1>1, <2>1, MoveCounts DEF Threads
<1>4. PlacesReserved' /\ IndexCounts'
  BY <1>1, <1>3 DEF PlacesReserved, IndexCounts
<1>5. MutexHeld' /\ IndexIsRead' /\ WorkLeft' /\ PlacesFilled'
  BY <1>1 DEF SemTypeOK, Goto, MutexHeld, Inside, IndexIsRead, WorkLeft, PlacesFilled,
     Threads
<1>6. ItemsAccounted'
  BY <1>1, QuietMove DEF Pc
<1> QED
  BY <1>2, <1>4, <1>5, <1>6

LEMMA UnlockStep ==
  ASSUME SemInv, NEW t \in Threads, Unlock(t)
  PROVE  SemInv'
<1> USE DEF SemInv
<1>1. /\ semPc[t] = "unlock" /\ Goto(t, "post") /\ mtx' = Nobody
      /\ UNCHANGED <<semRingBuffer, semHeadIdx, sem_w, sem_r, maxNum, reg, taken>>
  BY DEF Unlock
<1>2. SemTypeOK'
  BY <1>1 DEF SemTypeOK, Goto, Pc
<1>3. Reserved' = Reserved /\ Unposted' = Unposted /\ Untaken' = Untaken
  <2>1. "post" \in Pc /\ "post" \in Reserving /\ semPc[t] \in Reserving
    BY <1>1 DEF Pc, Reserving
  <2> QED
    BY <1>1, <2>1, MoveCounts DEF Threads
<1>4. PlacesReserved' /\ IndexCounts'
  BY <1>1, <1>3 DEF PlacesReserved, IndexCounts
<1>5. MutexHeld'
  <2>1. \A u \in Threads : u # t => semPc[u] \notin Inside
    BY <1>1, Alone DEF Inside
  <2> QED
    BY <1>1, <2>1, SemBufferAssumption DEF MutexHeld, Inside, Goto, SemTypeOK, Threads
<1>6. IndexIsRead' /\ WorkLeft' /\ PlacesFilled'
  BY <1>1 DEF SemTypeOK, Goto, IndexIsRead, WorkLeft, PlacesFilled, Threads
<1>7. ItemsAccounted'
  BY <1>1, QuietMove DEF Pc
<1> QED
  BY <1>2, <1>4, <1>5, <1>6, <1>7

\* A writer's headIdx++ puts the item it stored below the index.
LEMMA IncrementStep ==
  ASSUME SemInv, NEW t \in Writers, WriteIndex(t)
  PROVE  SemInv'
<1> USE DEF SemInv
<1> DEFINE h == semHeadIdx
<1>1. /\ t \in Threads /\ semPc[t] = "set" /\ Goto(t, "unlock") /\ semHeadIdx' = h + 1
      /\ reg' = [reg EXCEPT ![t] = 0]
      /\ UNCHANGED <<semRingBuffer, sem_w, sem_r, mtx, maxNum, taken>>
  BY DEF WriteIndex, IndexIsRead, Threads
<1>2. h \in Nat /\ h < SemSize
  BY <1>1, ReservedBound, SemBufferAssumption DEF SemTypeOK
<1>3. semRingBuffer[h] = <<t, maxNum[t]>> /\ <<t, maxNum[t]>> \in Item
  <2>1. maxNum[t] \in 0..SemTarget /\ maxNum[t] > 0
    BY <1>1 DEF WorkLeft, SemTypeOK
  <2>2. semRingBuffer[h] = <<t, maxNum[t]>>
    BY <1>1 DEF PlacesFilled
  <2> QED
    BY <2>1, <2>2, SemBufferAssumption DEF Item
<1>4. SemTypeOK'
  BY <1>1, <1>2, SemBufferAssumption DEF SemTypeOK, Goto, Pc
<1>5. \A u \in Threads : u # t => semPc[u] \notin Inside
  BY <1>1, Alone DEF Inside
<1>6. /\ Unposted \in Nat /\ Untaken \in Nat
      /\ Reserved' = Reserved /\ Unposted' = Unposted + 1 /\ Untaken' = Untaken
  <2>1. "unlock" \in Pc /\ "unlock" \in Reserving /\ semPc[t] \in Reserving
    BY <1>1 DEF Pc, Reserving
  <2> QED
    BY <1>1, <2>1, MoveCounts
<1>7. PlacesReserved' /\ IndexCounts'
  BY <1>1, <1>2, <1>6, SemBufferAssumption DEF PlacesReserved, IndexCounts, SemTypeOK
<1>8. MutexHeld' /\ WorkLeft' /\ IndexIsRead'
  BY <1>1, <1>5 DEF SemTypeOK, Goto, MutexHeld, Inside, WorkLeft, IndexIsRead
<1>9. PlacesFilled'
  <2>1. \A i \in 0..(semHeadIdx' - 1) : semRingBuffer'[i] \in Item
    BY <1>1, <1>2, <1>3 DEF PlacesFilled
  <2> QED
    BY <1>1, <1>5, <2>1, SemBufferAssumption
    DEF PlacesFilled, SemTypeOK, Goto, Inside, Threads
<1>10. ItemsAccounted'
  <2> SUFFICES ASSUME NEW x \in Item
               PROVE  Stored(x)' = InBuffer(x)' + taken'[x] + Pending(x)'
    BY DEF ItemsAccounted
  <2> DEFINE one == IF x = <<t, maxNum[t]>> THEN 1 ELSE 0
  <2>1. Stored(x)' = Stored(x) + one /\ Stored(x) \in Nat
    BY <1>1 DEF Stored, SemTypeOK, Goto, Item, Threads
  <2>2. InBuffer(x)' = InBuffer(x) + one /\ InBuffer(x) \in Nat
    <3>1. InBuffer(x)' = Cardinality(SlotsBelow(semRingBuffer, h + 1, x))
      BY <1>1 DEF InBuffer, SlotsBelow
    <3>2. InBuffer(x) = Cardinality(SlotsBelow(semRingBuffer, h, x)) /\ InBuffer(x) \in Nat
      BY InBufferCount
    <3>3. one = IF semRingBuffer[h] = x THEN 1 ELSE 0
      BY <1>3
    <3> QED
      BY <1>2, <3>1, <3>2, <3>3, SlotsBelowCount
  <2>3. Pending(x) = 0 /\ Pending(x)' = 0
    BY <1>1, <1>5, SemBufferAssumption DEF Pending, SemTypeOK, Goto, Inside, Threads
  <2>4. Stored(x) = InBuffer(x) + taken[x] + Pending(x) /\ taken[x] \in Nat
    BY DEF ItemsAccounted, SemTypeOK
  <2>5. one \in Nat
    OBVIOUS
  <2> HIDE DEF one
  <2> QED
    BY <1>1, <2>1, <2>2, <2>3, <2>4, <2>5
<1> QED
  BY <1>4, <1>7, <1>8, <1>9, <1>10

\* A reader's headIdx-- takes the last item off the buffer.
LEMMA DecrementStep ==
  ASSUME SemInv, NEW t \in Readers, WriteIndex(t)
  PROVE  SemInv'
<1> USE DEF SemInv
<1> DEFINE h == semHeadIdx - 1
<1>1. /\ t \in Threads /\ t \notin Writers /\ semPc[t] = "set" /\ Goto(t, "access")
      /\ semHeadIdx' = h
      /\ reg' = [reg EXCEPT ![t] = 0]
      /\ UNCHANGED <<semRingBuffer, sem_w, sem_r, mtx, maxNum, taken>>
  BY SemBufferAssumption DEF WriteIndex, IndexIsRead, Threads
<1>2. h \in Nat /\ h < SemSize /\ semHeadIdx = h + 1
  BY <1>1, ReservedBound, SemBufferAssumption DEF SemTypeOK
<1>3. semRingBuffer[h] \in Item
  BY <1>2 DEF PlacesFilled
<1>4. SemTypeOK'
  BY <1>1, <1>2, SemBufferAssumption DEF SemTypeOK, Goto, Pc
<1>5. \A u \in Threads : u # t => semPc[u] \notin Inside
  BY <1>1, Alone DEF Inside
<1>6. /\ Unposted \in Nat /\ Untaken \in Nat
      /\ Reserved' = Reserved /\ Unposted' = Unposted /\ Untaken' = Untaken - 1
  <2>1. "access" \in Pc /\ "access" \in Reserving /\ semPc[t] \in Reserving
    BY <1>1 DEF Pc, Reserving
  <2> QED
    BY <1>1, <2>1, MoveCounts
<1>7. PlacesReserved' /\ IndexCounts'
  BY <1>1, <1>2, <1>6, SemBufferAssumption DEF PlacesReserved, IndexCounts, SemTypeOK
<1>8. MutexHeld' /\ WorkLeft' /\ IndexIsRead'
  BY <1>1, <1>5 DEF SemTypeOK, Goto, MutexHeld, Inside, WorkLeft, IndexIsRead
<1>9. PlacesFilled'
  <2>1. \A i \in 0..(semHeadIdx' - 1) : semRingBuffer'[i] \in Item
    BY <1>1, <1>2 DEF PlacesFilled
  <2> QED
    BY <1>1, <1>3, <1>5, <2>1, SemBufferAssumption
    DEF PlacesFilled, SemTypeOK, Goto, Inside, Threads
<1>10. ItemsAccounted'
  <2> SUFFICES ASSUME NEW x \in Item
               PROVE  Stored(x)' = InBuffer(x)' + taken'[x] + Pending(x)'
    BY DEF ItemsAccounted
  <2> DEFINE one == IF semRingBuffer[h] = x THEN 1 ELSE 0
  <2>1. Stored(x)' = Stored(x)
    BY <1>1 DEF Stored, SemTypeOK, Goto, Item, Threads
  <2>2. InBuffer(x) = InBuffer(x)' + one /\ InBuffer(x)' \in Nat
    <3>1. InBuffer(x)' = Cardinality(SlotsBelow(semRingBuffer, h, x))
      BY <1>1 DEF InBuffer, SlotsBelow
    <3>2. InBuffer(x) = Cardinality(SlotsBelow(semRingBuffer, h + 1, x))
      BY <1>2, InBufferCount
    <3> HIDE DEF h
    <3> QED
      BY <1>2, <3>1, <3>2, SlotsBelowCount
  <2>3. Pending(x) = 0
    BY <1>1, <1>5 DEF Pending, Inside, Threads
  <2>4. Pending(x)' = one
    BY <1>1 DEF Pending, SemTypeOK, Goto
  <2>5. Stored(x) = InBuffer(x) + taken[x] + Pending(x) /\ taken[x] \in Nat
    BY DEF ItemsAccounted, SemTypeOK
  <2>6. one \in Nat
    OBVIOUS
  <2> HIDE DEF one
  <2> QED
    BY <1>1, <2>1, <2>2, <2>3, <2>4, <2>5, <2>6
<1> QED
  BY <1>4, <1>7, <1>8, <1>9, <1>10

LEMMA PostStep ==
  ASSUME SemInv, NEW t \in Threads, SemPost(t)
  PROVE  SemInv'
<1> USE DEF SemInv
<1> DEFINE b == IF maxNum[t] = 1 THEN "exited" ELSE "wait"
<1>1. /\ semPc[t] = "post" /\ Goto(t, b)
      /\ maxNum' = [maxNum EXCEPT ![t] = @ - 1]
      /\ UNCHANGED <<semRingBuffer, semHeadIdx, mtx, reg, taken>>
  BY DEF SemPost
<1>2. maxNum[t] \in 1..SemTarget
  <2>1. maxNum[t] \in 0..SemTarget /\ maxNum[t] > 0
    BY <1>1 DEF WorkLeft, SemTypeOK
  <2> QED
    BY <2>1, SemBufferAssumption
<1>3. /\ Reserved \in Nat /\ Unposted \in Nat /\ Untaken \in Nat
      /\ Reserved' = Reserved - 1 /\ Untaken' = Untaken
      /\ t \in Writers => Unposted' = Unposted - 1
      /\ t \in Readers => Unposted' = Unposted
  <2>1. b \in Pc /\ b \notin Reserving /\ semPc[t] \in Reserving
    BY <1>1 DEF Pc, Reserving
  <2>2. b \notin {"unlock", "post"} /\ b \notin {"lock", "count", "set"}
    OBVIOUS
  <2> HIDE DEF b
  <2> QED
    BY <1>1, <2>1, <2>2, MoveCounts DEF Threads
<1>4. Reserved > 0
  <2>1. t \in {x \in Threads : semPc[x] \in Reserving}
    BY <1>1 DEF Reserving, Pc
  <2>2. IsFiniteSet({x \in Threads : semPc[x] \in Reserving})
    BY ThreadsFinite, FS_Subset
  <2> QED
    BY <1>3, <2>1, <2>2, FS_EmptySet DEF Reserved, At
<1>5. /\ sem_w \in Nat /\ sem_r \in Nat
      /\ \/ t \in Writers /\ sem_r' = sem_r + 1 /\ sem_w' = sem_w
         \/ t \in Readers /\ sem_w' = sem_w + 1 /\ sem_r' = sem_r
  BY SemBufferAssumption DEF SemPost, SemTypeOK
<1>6. PlacesReserved' /\ IndexCounts'
  <2>1. semHeadIdx' = semHeadIdx
    BY <1>1
  <2> QED
    BY <1>3, <1>5, <2>1 DEF PlacesReserved, IndexCounts
<1>7. SemTypeOK'
  <2>1. sem_w' \in 0..SemSize /\ sem_r' \in 0..SemSize
    BY <1>3, <1>4, <1>5, <1>6, SemBufferAssumption DEF PlacesReserved
  <2> QED
    BY <1>1, <1>2, <2>1, SemBufferAssumption DEF SemTypeOK, Goto, Pc
<1>8. MutexHeld' /\ IndexIsRead' /\ WorkLeft' /\ PlacesFilled'
  BY <1>1, <1>2, SemBufferAssumption
  DEF SemTypeOK, Goto, MutexHeld, Inside, IndexIsRead, WorkLeft, PlacesFilled, Threads
<1>9. ItemsAccounted'
  <2> SUFFICES ASSUME NEW x \in Item
               PROVE  Stored(x)' = InBuffer(x)' + taken'[x] + Pending(x)'
    BY DEF ItemsAccounted
  <2>1. Stored(x)' = Stored(x)
    <3>1. x[1] \in Threads /\ x[2] \in 1..SemTarget
      BY DEF Item, Threads
    <3>2. CASE x[1] # t
      BY <3>1, <3>2, <1>1 DEF Stored, SemTypeOK, Goto
    <3>3. CASE x[1] = t
      BY <3>1, <3>3, <1>1, <1>2 DEF Stored, SemTypeOK, Goto
    <3> QED
      BY <3>2, <3>3
  <2>2. InBuffer(x)' = InBuffer(x)
    BY <1>1 DEF InBuffer
  <2>3. Pending(x)' = Pending(x)
    BY <1>1 DEF Pending, SemTypeOK, Goto, Threads
  <2> QED
    BY <1>1, <2>1, <2>2, <2>3 DEF ItemsAccounted
<1> QED
  BY <1>6, <1>7, <1>8, <1>9

-----------------------------------------------------------------------------
LEMMA SemStep == SemInv /\ [SemNext]_semVars => SemInv'
<1> SUFFICES ASSUME SemInv, [SemNext]_semVars PROVE SemInv'
  OBVIOUS
<1>1. ASSUME NEW t \in Threads, ThreadStep(t) PROVE SemInv'
  <2>1. CASE SemWait(t) BY <2>1, WaitStep
  <2>2. CASE Lock(t) BY <2>2, LockStep
  <2>3. CASE WriterStore(t) BY <2>3, SemStore
  <2>4. CASE ReaderLoad(t) BY <2>4, SemLoad
  <2>5. CASE ReadIndex(t) BY <2>5, ReadIndexStep
  <2>6. CASE WriteIndex(t) BY <2>6, IncrementStep, DecrementStep DEF Threads
  <2>7. CASE Unlock(t) BY <2>7, UnlockStep
  <2>8. CASE SemPost(t) BY <2>8, PostStep
  <2> QED
    BY <1>1, <2>1, <2>2, <2>3, <2>4, <2>5, <2>6, <2>7, <2>8 DEF ThreadStep
<1>2. CASE UNCHANGED semVars
  BY <1>2, ZenonT(60) DEF semVars, SemInv, SemTypeOK, MutexHeld, PlacesReserved, IndexCounts,
     Reserved, Unposted, Untaken, At, IndexIsRead, WorkLeft, PlacesFilled,
     ItemsAccounted, Stored, InBuffer, Pending
<1> QED
  BY <1>1, <1>2 DEF SemNext

\* What the threads of a kind have done: an item each thread has counted.
Done(kind) == {x \in kind \X (1..SemTarget) : maxNum[x[1]] < x[2]}

\* Each item a writer has posted is offered by sem_r, held by a reader that has
\* waited for it, or counted by a reader.
Balance ==
  sem_r + At(Readers, Reserving) + Cardinality(Done(Readers)) = Cardinality(Done(Writers))

Finished == \A t \in Threads : semPc[t] = "exited" => maxNum[t] = 0

Ledger == Balance /\ Finished

LEMMA DoneFinite ==
  ASSUME NEW K \in SUBSET Threads, IsFiniteSet(K)
  PROVE  /\ IsFiniteSet(K \X (1..SemTarget)) /\ IsFiniteSet(Done(K))
         /\ Cardinality(K \X (1..SemTarget)) = Cardinality(K) * SemTarget
         /\ Cardinality(Done(K)) \in Nat
<1>1. IsFiniteSet(1..SemTarget) /\ Cardinality(1..SemTarget) = SemTarget
  BY FS_Interval, SemBufferAssumption
<1>2. /\ IsFiniteSet(K \X (1..SemTarget))
      /\ Cardinality(K \X (1..SemTarget)) = Cardinality(K) * SemTarget
  BY <1>1, FS_Product
<1>3. Done(K) \in SUBSET (K \X (1..SemTarget))
  BY DEF Done
<1> QED
  BY <1>2, <1>3, FS_Subset, FS_CardinalityType

\* A thread that counts an item has done one more.
LEMMA DoneCounts ==
  ASSUME SemTypeOK, NEW t \in Threads, maxNum[t] > 0, maxNum' = [maxNum EXCEPT ![t] = @ - 1],
         NEW K \in SUBSET Threads, IsFiniteSet(K)
  PROVE  Cardinality(Done(K)') = Cardinality(Done(K)) + (IF t \in K THEN 1 ELSE 0)
<1>1. maxNum[t] \in 1..SemTarget
  BY SemBufferAssumption DEF SemTypeOK
<1>2. IsFiniteSet(Done(K)) /\ Cardinality(Done(K)) \in Nat
  BY DoneFinite
<1>3. CASE t \in K
  <2> DEFINE new == <<t, maxNum[t]>>
  <2>1. new \notin Done(K)
    BY <1>1 DEF Done
  <2>2. Done(K)' = Done(K) \union {new}
    <3>1. ASSUME NEW x \in K \X (1..SemTarget)
          PROVE  maxNum'[x[1]] < x[2] <=> maxNum[x[1]] < x[2] \/ x = new
      <4>1. PICK u \in K, y \in 1..SemTarget : x = <<u, y>>
        OBVIOUS
      <4>2. CASE u = t
        BY <1>1, <4>1, <4>2 DEF SemTypeOK
      <4>3. CASE u # t
        BY <4>1, <4>3 DEF SemTypeOK
      <4> QED
        BY <4>2, <4>3
    <3>2. new \in K \X (1..SemTarget)
      BY <1>1, <1>3
    <3> QED
      BY <3>1, <3>2 DEF Done
  <2> HIDE DEF new
  <2> QED
    BY <1>2, <1>3, <2>1, <2>2, FS_AddElement
<1>4. CASE t \notin K
  <2>1. Done(K)' = Done(K)
    BY <1>4 DEF Done, SemTypeOK
  <2> QED
    BY <1>2, <1>4, <2>1
<1> QED
  BY <1>3, <1>4

\* What a move of thread t does to the readers that have waited for an item.
LEMMA HolderCount ==
  ASSUME SemTypeOK, NEW t \in Threads, NEW b \in Pc, Goto(t, b)
  PROVE  /\ At(Readers, Reserving) \in Nat
         /\ At(Readers, Reserving)'
            = At(Readers, Reserving)
              + (IF t \in Readers /\ b \in Reserving THEN 1 ELSE 0)
              - (IF t \in Readers /\ semPc[t] \in Reserving THEN 1 ELSE 0)
<1>1. semPc \in [Threads -> Pc] /\ semPc' = [semPc EXCEPT ![t] = b]
  BY DEF SemTypeOK, Goto
<1>2. Readers \in SUBSET Threads
  BY DEF Threads
<1>3. Cardinality({x \in Readers : semPc[x] \in Reserving}) \in Nat
  BY <1>2, ThreadsFinite, FS_Subset, FS_CardinalityType
<1>4. Cardinality({x \in Readers : [semPc EXCEPT ![t] = b][x] \in Reserving})
      = Cardinality({x \in Readers : semPc[x] \in Reserving})
        + (IF t \in Readers /\ b \in Reserving THEN 1 ELSE 0)
        - (IF t \in Readers /\ semPc[t] \in Reserving THEN 1 ELSE 0)
  BY <1>1, <1>2, MoveCount, SMTT(30)
<1> QED
  BY <1>1, <1>3, <1>4 DEF At

LEMMA LedgerStart == SemInit => Ledger
<1> SUFFICES ASSUME SemInit PROVE Ledger
  OBVIOUS
<1>1. {x \in Readers : semPc[x] \in Reserving} = {}
  BY DEF SemInit, Reserving, Threads
<1>2. Done(Readers) = {} /\ Done(Writers) = {}
  BY SemBufferAssumption DEF SemInit, Done, Threads
<1>3. At(Readers, Reserving) = 0 /\ Cardinality(Done(Readers)) = 0
      /\ Cardinality(Done(Writers)) = 0
  BY <1>1, <1>2, FS_EmptySet DEF At
<1>4. Balance
  BY <1>3 DEF SemInit, Balance
<1>5. Finished
  BY DEF SemInit, Finished
<1> QED
  BY <1>4, <1>5 DEF Ledger

\* A step between the two semaphores, or of a thread that moves neither count.
LEMMA LedgerQuiet ==
  ASSUME SemTypeOK, Ledger, NEW t \in Threads, NEW b \in Reserving, Goto(t, b),
         semPc[t] \in Reserving, UNCHANGED <<sem_r, maxNum>>
  PROVE  Ledger'
<1>1. b \in Pc
  BY DEF Reserving
<1>2. At(Readers, Reserving) \in Nat /\ At(Readers, Reserving)' = At(Readers, Reserving)
  BY <1>1, HolderCount
<1>3. Done(Readers)' = Done(Readers) /\ Done(Writers)' = Done(Writers)
  BY DEF Done
<1>4. Balance'
  BY <1>2, <1>3 DEF Ledger, Balance
<1>5. Finished'
  BY <1>1 DEF Ledger, Finished, SemTypeOK, Goto, Reserving
<1> QED
  BY <1>4, <1>5 DEF Ledger

LEMMA LedgerWait ==
  ASSUME SemTypeOK, Ledger, NEW t \in Threads, SemWait(t)
  PROVE  Ledger'
<1>1. semPc[t] = "wait" /\ Goto(t, "lock") /\ maxNum' = maxNum
  BY DEF SemWait
<1>2. "lock" \in Pc /\ "lock" \in Reserving /\ "wait" \notin Reserving
  BY DEF Pc, Reserving
<1>3. /\ At(Readers, Reserving) \in Nat
      /\ At(Readers, Reserving)'
         = At(Readers, Reserving) + (IF t \in Readers THEN 1 ELSE 0)
  BY <1>1, <1>2, HolderCount
<1>4. Done(Readers)' = Done(Readers) /\ Done(Writers)' = Done(Writers)
  BY <1>1 DEF Done
<1>5. sem_r \in Nat /\ sem_r' = sem_r - (IF t \in Readers THEN 1 ELSE 0)
  BY SemBufferAssumption DEF SemWait, SemTypeOK
<1>6. Cardinality(Done(Readers)) \in Nat
  BY DoneFinite, SemBufferAssumption DEF Threads
<1>7. Balance'
  BY <1>3, <1>4, <1>5, <1>6 DEF Ledger, Balance
<1>8. Finished'
  BY <1>1 DEF Ledger, Finished, SemTypeOK, Goto
<1> QED
  BY <1>7, <1>8 DEF Ledger

LEMMA LedgerPost ==
  ASSUME SemTypeOK, WorkLeft, Ledger, NEW t \in Threads, SemPost(t)
  PROVE  Ledger'
<1> DEFINE b == IF maxNum[t] = 1 THEN "exited" ELSE "wait"
<1>1. /\ semPc[t] = "post" /\ Goto(t, b) /\ maxNum' = [maxNum EXCEPT ![t] = @ - 1]
      /\ maxNum[t] > 0
  BY DEF SemPost, WorkLeft
<1>2. b \in Pc /\ b \notin Reserving /\ semPc[t] \in Reserving
  BY <1>1 DEF Pc, Reserving
<1>3. /\ At(Readers, Reserving) \in Nat
      /\ At(Readers, Reserving)'
         = At(Readers, Reserving) - (IF t \in Readers THEN 1 ELSE 0)
  <2> HIDE DEF b
  <2> QED
    BY <1>1, <1>2, HolderCount
<1>4. /\ Readers \in SUBSET Threads /\ IsFiniteSet(Readers)
      /\ Writers \in SUBSET Threads /\ IsFiniteSet(Writers)
  BY SemBufferAssumption DEF Threads
<1>5. /\ Cardinality(Done(Readers)') = Cardinality(Done(Readers)) + (IF t \in Readers THEN 1 ELSE 0)
      /\ Cardinality(Done(Writers)') = Cardinality(Done(Writers)) + (IF t \in Writers THEN 1 ELSE 0)
  BY <1>1, <1>4, DoneCounts
<1>6. /\ Cardinality(Done(Readers)) \in Nat /\ Cardinality(Done(Writers)) \in Nat
  BY <1>4, DoneFinite
<1>7. sem_r \in Nat /\ sem_r' = sem_r + (IF t \in Writers THEN 1 ELSE 0)
      /\ (t \in Writers <=> t \notin Readers)
  BY SemBufferAssumption DEF SemPost, SemTypeOK, Threads
<1>8. Balance'
  BY <1>3, <1>5, <1>6, <1>7 DEF Ledger, Balance
<1>9. Finished'
  BY <1>1 DEF Ledger, Finished, SemTypeOK, Goto
<1> QED
  BY <1>8, <1>9 DEF Ledger

LEMMA LedgerStep == SemInv /\ Ledger /\ [SemNext]_semVars => Ledger'
<1> SUFFICES ASSUME SemInv, Ledger, [SemNext]_semVars PROVE Ledger'
  OBVIOUS
<1> USE DEF SemInv
<1>1. ASSUME NEW t \in Threads, ThreadStep(t) PROVE Ledger'
  <2>1. CASE SemWait(t) BY <2>1, LedgerWait
  <2>2. CASE SemPost(t) BY <2>2, LedgerPost
  <2>3. CASE ~SemWait(t) /\ ~SemPost(t)
    <3>1. PICK b \in Reserving :
            Goto(t, b) /\ semPc[t] \in Reserving /\ UNCHANGED <<sem_r, maxNum>>
      <4>1. {"lock", "access", "count", "set", "unlock", "post"} \in SUBSET Reserving
        BY DEF Reserving, Pc
      <4>2. /\ semPc[t] \in {"lock", "access", "count", "set", "unlock"}
            /\ UNCHANGED <<sem_r, maxNum>>
            /\ \E b \in {"access", "count", "set", "unlock", "post"} : Goto(t, b)
        BY <1>1, <2>3
        DEF ThreadStep, Lock, WriterStore, ReaderLoad, ReadIndex, WriteIndex, Unlock
      <4> QED
        BY <4>1, <4>2
    <3> QED
      BY <3>1, LedgerQuiet
  <2> QED
    BY <2>1, <2>2, <2>3
<1>2. CASE UNCHANGED semVars
  BY <1>2 DEF semVars, Ledger, Balance, Finished, At, Done
<1> QED
  BY <1>1, <1>2 DEF SemNext

\* When all threads of a kind have ended, they have done all their items.
LEMMA AllDone ==
  ASSUME Finished, NEW K \in SUBSET Threads, IsFiniteSet(K),
         \A t \in K : semPc[t] = "exited"
  PROVE  Cardinality(Done(K)) = Cardinality(K) * SemTarget
<1>1. Done(K) = K \X (1..SemTarget)
  BY SemBufferAssumption DEF Done, Finished
<1> QED
  BY <1>1, DoneFinite

\* No more items are done by a kind than the other kind has to do.
LEMMA DoneBound ==
  /\ Cardinality(Done(Readers)) \in Nat /\ Cardinality(Done(Writers)) \in Nat
  /\ Cardinality(Done(Readers)) <= Cardinality(Writers) * SemTarget
  /\ Cardinality(Done(Writers)) <= Cardinality(Writers) * SemTarget
  /\ Cardinality(Writers) = Cardinality(Readers)
  /\ \A K \in {Writers, Readers} :
       Cardinality(Done(K)) = Cardinality(K) * SemTarget => Done(K) = K \X (1..SemTarget)
<1>1. ASSUME NEW K \in {Writers, Readers}
      PROVE  /\ Cardinality(Done(K)) \in Nat
             /\ Cardinality(Done(K)) <= Cardinality(K) * SemTarget
             /\ Cardinality(Done(K)) = Cardinality(K) * SemTarget
                  => Done(K) = K \X (1..SemTarget)
  <2>1. K \in SUBSET Threads /\ IsFiniteSet(K)
    BY SemBufferAssumption DEF Threads
  <2>2. Done(K) \in SUBSET (K \X (1..SemTarget))
    BY DEF Done
  <2>3. /\ IsFiniteSet(K \X (1..SemTarget)) /\ Cardinality(Done(K)) \in Nat
        /\ Cardinality(K \X (1..SemTarget)) = Cardinality(K) * SemTarget
    BY <2>1, DoneFinite
  <2>4. /\ Cardinality(Done(K)) <= Cardinality(K \X (1..SemTarget))
        /\ Cardinality(Done(K)) = Cardinality(K \X (1..SemTarget))
             => Done(K) = K \X (1..SemTarget)
    BY <2>2, <2>3, FS_Subset
  <2> QED
    BY <2>3, <2>4
<1> QED
  BY <1>1, SemBufferAssumption

\* If every thread waited, either the readers would be done although items are
\* left, or the writers would be although the readers still wait for some.
LEMMA NotAllBlocked == SemInv /\ Ledger => NeverAllBlocked
<1> SUFFICES ASSUME SemInv, Ledger, ~SemEnded,
                    \A t \in Threads : semPc[t] = "exited" \/ Blocked(t)
             PROVE  FALSE
  BY DEF NeverAllBlocked
<1> USE DEF SemInv, Ledger
<1>1. mtx = Nobody
  <2>1. \A t \in Threads : semPc[t] \notin Inside
    BY DEF Blocked, Inside
  <2> QED
    BY <2>1 DEF MutexHeld, SemTypeOK
<1>2. \A t \in Threads : semPc[t] \in {"wait", "exited"}
  BY <1>1 DEF Blocked
<1>3. At(Threads, Reserving) = 0 /\ At(Readers, Reserving) = 0
  <2>1. /\ {t \in Threads : semPc[t] \in Reserving} = {}
        /\ {t \in Readers : semPc[t] \in Reserving} = {}
    BY <1>2 DEF Reserving, Threads
  <2> QED
    BY <2>1, FS_EmptySet DEF At
<1>4. sem_w + sem_r = SemSize /\ sem_w \in Nat /\ sem_r \in Nat /\ SemSize > 0
  BY <1>3, SemBufferAssumption DEF PlacesReserved, Reserved, SemTypeOK
<1>5. sem_r + Cardinality(Done(Readers)) = Cardinality(Done(Writers))
  BY <1>3, <1>4, DoneBound DEF Balance
<1>6. /\ Writers \in SUBSET Threads /\ IsFiniteSet(Writers)
      /\ Readers \in SUBSET Threads /\ IsFiniteSet(Readers)
      /\ Writers \intersect Readers = {}
  BY SemBufferAssumption DEF Threads
<1>7. sem_r = 0
  <2> SUFFICES ASSUME sem_r # 0 PROVE FALSE
    OBVIOUS
  <2>1. \A t \in Readers : semPc[t] = "exited"
    BY <1>2, <1>6 DEF Blocked
  <2>2. Cardinality(Done(Readers)) = Cardinality(Readers) * SemTarget
    BY <2>1, <1>6, AllDone
  <2> QED
    BY <2>2, <1>4, <1>5, DoneBound
<1>8. \A t \in Writers : semPc[t] = "exited"
  BY <1>2, <1>4, <1>6, <1>7 DEF Blocked
<1>9. Done(Readers) = Readers \X (1..SemTarget)
  <2>1. Cardinality(Done(Writers)) = Cardinality(Writers) * SemTarget
    BY <1>6, <1>8, AllDone
  <2> QED
    BY <2>1, <1>5, <1>7, DoneBound
<1>10. \A t \in Readers : maxNum[t] = 0
  <2> SUFFICES ASSUME NEW t \in Readers PROVE maxNum[t] = 0
    OBVIOUS
  <2>1. <<t, 1>> \in Done(Readers)
    BY <1>9, SemBufferAssumption
  <2>2. maxNum[t] < 1
    BY <2>1 DEF Done
  <2> QED
    BY <2>2, <1>6 DEF SemTypeOK
<1>11. \A t \in Readers : semPc[t] = "exited"
  BY <1>10, <1>6 DEF WorkLeft
<1> QED
  BY <1>8, <1>11 DEF SemEnded, Threads

\* While no thread owns the mutex, no thread is between the lock and the unlock.
LEMMA IndexFollows == SemInv => IndexAgrees
<1> SUFFICES ASSUME SemInv, mtx = Nobody
             PROVE  semHeadIdx = sem_r + At(Writers, {"post"}) + At(Readers, {"lock"})
  BY DEF IndexAgrees
<1>1. \A t \in Threads : semPc[t] \notin Inside
  BY SemBufferAssumption DEF SemInv, MutexHeld, Threads
<1>2. /\ {t \in Writers : semPc[t] \in {"unlock", "post"}}
           = {t \in Writers : semPc[t] \in {"post"}}
      /\ {t \in Readers : semPc[t] \in {"lock", "count", "set"}}
           = {t \in Readers : semPc[t] \in {"lock"}}
  BY <1>1 DEF Inside, Threads
<1> QED
  BY <1>2 DEF SemInv, IndexCounts, Unposted, Untaken, At

LEMMA ItemsFollow == SemInv => ItemsConserved
<1> SUFFICES ASSUME SemInv, mtx = Nobody, NEW x \in Item
             PROVE  Stored(x) = InBuffer(x) + taken[x]
  BY DEF ItemsConserved
<1>1. Pending(x) = 0
  BY SemBufferAssumption DEF SemInv, MutexHeld, Inside, Pending, Threads
<1>2. InBuffer(x) \in Nat /\ taken[x] \in Nat
  BY InBufferCount DEF SemInv, SemTypeOK
<1> QED
  BY <1>1, <1>2 DEF SemInv, ItemsAccounted

\* When main() returns, the readers have got each item of each writer once.
AllDelivered == SemEnded => \A x \in Item : taken[x] = 1

\* At the end nothing is left in the buffer, so every item is with a reader.
LEMMA Delivered == SemInv /\ Ledger => AllDelivered
<1> SUFFICES ASSUME SemInv, Ledger, SemEnded, NEW x \in Item PROVE taken[x] = 1
  BY DEF AllDelivered
<1> USE DEF SemInv, Ledger, SemEnded
<1>1. mtx = Nobody
  BY DEF MutexHeld, SemTypeOK, Inside
<1>2. /\ Writers \in SUBSET Threads /\ IsFiniteSet(Writers)
      /\ Readers \in SUBSET Threads /\ IsFiniteSet(Readers)
  BY SemBufferAssumption DEF Threads
<1>3. /\ At(Readers, Reserving) = 0 /\ Unposted = 0 /\ Untaken = 0
  <2>1. /\ {t \in Readers : semPc[t] \in Reserving} = {}
        /\ {t \in Writers : semPc[t] \in {"unlock", "post"}} = {}
        /\ {t \in Readers : semPc[t] \in {"lock", "count", "set"}} = {}
    BY <1>2 DEF Reserving
  <2> QED
    BY <2>1, FS_EmptySet DEF At, Unposted, Untaken
<1>4. sem_r = 0
  <2>1. Cardinality(Done(Writers)) = Cardinality(Readers) * SemTarget
        /\ Cardinality(Done(Readers)) = Cardinality(Readers) * SemTarget
    BY <1>2, AllDone, DoneBound
  <2> QED
    BY <1>3, <2>1, DoneBound DEF Balance, SemTypeOK
<1>5. semHeadIdx = 0
  BY <1>3, <1>4 DEF IndexCounts
<1>6. InBuffer(x) = 0
  <2>1. {i \in 0..(semHeadIdx - 1) : semRingBuffer[i] = x} = {}
    BY <1>5
  <2> QED
    BY <2>1, FS_EmptySet DEF InBuffer
<1>7. Stored(x) = 1
  <2>1. x[1] \in Threads /\ x[2] \in 1..SemTarget
    BY DEF Item, Threads
  <2> QED
    BY <2>1 DEF Finished, Stored
<1>8. Stored(x) = InBuffer(x) + taken[x]
  BY <1>1, ItemsFollow DEF ItemsConserved
<1> QED
  BY <1>6, <1>7, <1>8 DEF SemTypeOK

\* The properties the run checks follow from the invariant.
LEMMA SemImplied == SemInv => SemTypeOK /\ PlacesConserved /\ IndexAgrees /\ ItemsConserved
<1>1. SemInv => SemTypeOK
  BY DEF SemInv
<1>2. SemInv => PlacesConserved
  BY DEF SemInv, PlacesReserved, PlacesConserved, Reserved, Reserving
<1> QED
  BY <1>1, <1>2, IndexFollows, ItemsFollow

\* The items, the places and the index agree with where the threads are.
THEOREM SemInvariance == SemSpec => []SemInv
BY SemStart, SemStep, PTL DEF SemSpec

\* The items the threads have done agree with what sem_r offers, too.
THEOREM LedgerInvariance == SemSpec => [](SemInv /\ Ledger)
BY SemStart, SemStep, LedgerStart, LedgerStep, PTL DEF SemSpec

\* The index and the semaphores stay within the buffer.
THEOREM SemTypeCorrect == SemSpec => []SemTypeOK
BY SemImplied, SemInvariance, PTL

\* sem_wait and sem_post of writeHandler and readHandler account for every place
\* of the buffer, whichever threads are between the two.
THEOREM PlacesCorrect == SemSpec => []PlacesConserved
BY SemImplied, SemInvariance, PTL

\* Whenever the mutex is free, headIdx is the number of items in the buffer.
THEOREM IndexExact == SemSpec => []IndexAgrees
BY SemImplied, SemInvariance, PTL

\* No item is lost, duplicated or invented between the writers and the readers of
\* buffer_multithread.c, whatever their number and their schedule.
THEOREM NoItemLost == SemSpec => []ItemsConserved
BY SemImplied, SemInvariance, PTL

\* The threads of buffer_multithread.c never all wait for each other, on sem_w, sem_r
\* and the mutex: main() gives both kinds the same number of items to move.
THEOREM NeverStuck == SemSpec => []NeverAllBlocked
BY NotAllBlocked, LedgerInvariance, PTL

\* When all handlers have returned, the readers have got every item of every writer
\* exactly once.
THEOREM EachItemOnce == SemSpec => []AllDelivered
BY Delivered, LedgerInvariance, PTL

=============================================================================

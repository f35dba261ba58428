------------------------------ MODULE SemBuffer ------------------------------
(***************************************************************************)
(* The shared buffer of circularRingBuffer/buffer_multithread.c: several   *)
(* threads write, several read, two semaphores count the free and the used *)
(* places, and a mutex protects the index.  Despite its name and place the *)
(* buffer is a stack: a reader takes the item written last.                *)
(***************************************************************************)
EXTENDS Integers, FiniteSets

CONSTANTS
  Writers,   \* the threads main() starts with writeHandler
  Readers,   \* the threads main() starts with readHandler
  Nobody,    \* no thread: the mutex is free
  SemSize,   \* RING_BUFFER_SIZE
  SemTarget  \* the number on the command line

\* MAX_NUM_OF_THREADS threads of each kind.
ASSUME SemBufferAssumption ==
  /\ IsFiniteSet(Writers) /\ IsFiniteSet(Readers)
  /\ Writers \intersect Readers = {}
  /\ Nobody \notin Writers \union Readers
  /\ Cardinality(Writers) = Cardinality(Readers)
  /\ SemSize \in Nat \ {0} /\ SemTarget \in Nat \ {0}

Threads == Writers \union Readers

\* An item is the value written and, as history, the writer it came from.
Item == Writers \X (1..SemTarget)
Garbage == <<Nobody, 0>>

VARIABLES
  semRingBuffer,  \* ringBuffer[i] for the places the code may reach
  semHeadIdx,     \* headIdx
  sem_w, sem_r,
  mtx,            \* the owner of the mutex, or Nobody
  semPc,          \* what each thread does next
  maxNum,         \* maxNum[t]: what thread t still has to write or read
  reg,            \* reg[t]: headIdx as thread t read it for headIdx++ or headIdx--
  taken           \* history: the items the readers got, in any order

semVars == <<semRingBuffer, semHeadIdx, sem_w, sem_r, mtx, semPc, maxNum, reg, taken>>

Pc == {"wait", "lock", "access", "count", "set", "unlock", "post", "exited"}

SemTypeOK ==
  /\ semRingBuffer \in [0..(SemSize - 1) -> Item \union {Garbage}]
  /\ semHeadIdx \in 0..SemSize
  /\ sem_w \in 0..SemSize /\ sem_r \in 0..SemSize
  /\ mtx \in Threads \union {Nobody}
  /\ semPc \in [Threads -> Pc]
  /\ maxNum \in [Threads -> 0..SemTarget]
  /\ reg \in [Threads -> 0..SemSize]
  /\ taken \in [Item -> Nat]

SemInit ==
  /\ semRingBuffer = [i \in 0..(SemSize - 1) |-> Garbage]
  /\ semHeadIdx = 0
  /\ sem_w = SemSize /\ sem_r = 0
  /\ mtx = Nobody
  /\ semPc = [t \in Threads |-> "wait"]
  /\ maxNum = [t \in Threads |-> SemTarget]
  /\ reg = [t \in Threads |-> 0]
  /\ taken = [x \in Item |-> 0]

Goto(t, label) == semPc' = [semPc EXCEPT ![t] = label]

\* sem_wait on the semaphore of the thread's kind.
SemWait(t) ==
  /\ semPc[t] = "wait"
  /\ \/ t \in Writers /\ sem_w > 0 /\ sem_w' = sem_w - 1 /\ UNCHANGED sem_r
     \/ t \in Readers /\ sem_r > 0 /\ sem_r' = sem_r - 1 /\ UNCHANGED sem_w
  /\ Goto(t, "lock")
  /\ UNCHANGED <<semRingBuffer, semHeadIdx, mtx, maxNum, reg, taken>>

\* Mutant of Lock: no mutual exclusion.
LockAnyway(t) ==
  /\ semPc[t] = "lock"
  /\ mtx' = t
  /\ Goto(t, IF t \in Writers THEN "access" ELSE "count")
  /\ UNCHANGED <<semRingBuffer, semHeadIdx, sem_w, sem_r, maxNum, reg, taken>>

\* pthread_mutex_lock; a writer stores first, a reader moves the index first.
Lock(t) ==
  /\ semPc[t] = "lock"
  /\ mtx = Nobody
  /\ mtx' = t
  /\ Goto(t, IF t \in Writers THEN "access" ELSE "count")
  /\ UNCHANGED <<semRingBuffer, semHeadIdx, sem_w, sem_r, maxNum, reg, taken>>

\* Mutant of WriterStore: the store uses an index read earlier.
WriterStoreStale(t) ==
  /\ t \in Writers /\ semPc[t] = "access"
  /\ semRingBuffer' = [semRingBuffer EXCEPT ![reg[t]] = <<t, maxNum[t]>>]
  /\ Goto(t, "count")
  /\ UNCHANGED <<semHeadIdx, sem_w, sem_r, mtx, maxNum, reg, taken>>

\* ringBuffer[headIdx] = data
WriterStore(t) ==
  /\ t \in Writers /\ semPc[t] = "access"
  /\ semRingBuffer' = [semRingBuffer EXCEPT ![semHeadIdx] = <<t, maxNum[t]>>]
  /\ Goto(t, "count")
  /\ UNCHANGED <<semHeadIdx, sem_w, sem_r, mtx, maxNum, reg, taken>>

\* *data = ringBuffer[headIdx]
ReaderLoad(t) ==
  /\ t \in Readers /\ semPc[t] = "access"
  /\ taken' = [taken EXCEPT ![semRingBuffer[semHeadIdx]] = @ + 1]
  /\ Goto(t, "unlock")
  /\ UNCHANGED <<semRingBuffer, semHeadIdx, sem_w, sem_r, mtx, maxNum, reg>>

\* headIdx++ and headIdx-- read the volatile index and write it back.
ReadIndex(t) ==
  /\ semPc[t] = "count"
  /\ reg' = [reg EXCEPT ![t] = semHeadIdx]
  /\ Goto(t, "set")
  /\ UNCHANGED <<semRingBuffer, semHeadIdx, sem_w, sem_r, mtx, maxNum, taken>>

WriteIndex(t) ==
  /\ semPc[t] = "set"
  /\ semHeadIdx' = IF t \in Writers THEN reg[t] + 1 ELSE reg[t] - 1
  /\ Goto(t, IF t \in Writers THEN "unlock" ELSE "access")
  /\ reg' = [reg EXCEPT ![t] = 0]
  /\ UNCHANGED <<semRingBuffer, sem_w, sem_r, mtx, maxNum, taken>>

\* Mutant of Unlock: a path that does not release the mutex.
UnlockForgets(t) ==
  /\ semPc[t] = "unlock"
  /\ Goto(t, "post")
  /\ UNCHANGED <<semRingBuffer, semHeadIdx, sem_w, sem_r, mtx, maxNum, reg, taken>>

Unlock(t) ==
  /\ semPc[t] = "unlock"
  /\ mtx' = Nobody
  /\ Goto(t, "post")
  /\ UNCHANGED <<semRingBuffer, semHeadIdx, sem_w, sem_r, maxNum, reg, taken>>

\* Mutant of SemPost: a reader does not hand back the place.
SemPostForgets(t) ==
  /\ semPc[t] = "post"
  /\ \/ t \in Writers /\ sem_r' = sem_r + 1 /\ UNCHANGED sem_w
     \/ t \in Readers /\ UNCHANGED <<sem_w, sem_r>>
  /\ maxNum' = [maxNum EXCEPT ![t] = @ - 1]
  /\ Goto(t, IF maxNum[t] = 1 THEN "exited" ELSE "wait")
  /\ UNCHANGED <<semRingBuffer, semHeadIdx, mtx, reg, taken>>

\* Mutant of SemPost: each thread posts the semaphore it has waited for.
SemPostOwn(t) ==
  /\ semPc[t] = "post"
  /\ \/ t \in Writers /\ sem_w' = sem_w + 1 /\ UNCHANGED sem_r
     \/ t \in Readers /\ sem_r' = sem_r + 1 /\ UNCHANGED sem_w
  /\ maxNum' = [maxNum EXCEPT ![t] = @ - 1]
  /\ Goto(t, IF maxNum[t] = 1 THEN "exited" ELSE "wait")
  /\ UNCHANGED <<semRingBuffer, semHeadIdx, mtx, reg, taken>>

\* sem_post on the other semaphore; the handler's loop counts the item.
SemPost(t) ==
  /\ semPc[t] = "post"
  /\ \/ t \in Writers /\ sem_r' = sem_r + 1 /\ UNCHANGED sem_w
     \/ t \in Readers /\ sem_w' = sem_w + 1 /\ UNCHANGED sem_r
  /\ maxNum' = [maxNum EXCEPT ![t] = @ - 1]
  /\ Goto(t, IF maxNum[t] = 1 THEN "exited" ELSE "wait")
  /\ UNCHANGED <<semRingBuffer, semHeadIdx, mtx, reg, taken>>

ThreadStep(t) ==
  \/ SemWait(t) \/ Lock(t) \/ WriterStore(t) \/ ReaderLoad(t)
  \/ ReadIndex(t) \/ WriteIndex(t) \/ Unlock(t) \/ SemPost(t)

SemNext == \E t \in Threads : ThreadStep(t)

\* Every thread is scheduled.  A thread may lose the race for a semaphore or
\* for the mutex, but only as often as there are items.
SemSpec ==
  SemInit /\ [][SemNext]_semVars /\ \A t \in Threads : WF_semVars(ThreadStep(t))

-----------------------------------------------------------------------------
\* How many threads of a kind are between two of their steps.
At(kind, labels) == Cardinality({t \in kind : semPc[t] \in labels})

\* A place is always accounted for: it is free, in use, or reserved by one
\* thread between its sem_wait and its sem_post.
PlacesConserved ==
  sem_w + sem_r + At(Threads, Pc \ {"wait", "exited"}) = SemSize

\* When no thread is inside the critical section, the index tells exactly the
\* places in use, so that neither a store nor a load leaves the array.
IndexAgrees ==
  mtx = Nobody =>
    semHeadIdx = sem_r + At(Writers, {"post"}) + At(Readers, {"lock"})

\* How often item x has been stored, and how often it is in the buffer.
Stored(x) ==
  IF \/ maxNum[x[1]] < x[2]
     \/ maxNum[x[1]] = x[2] /\ semPc[x[1]] \in {"unlock", "post"}
  THEN 1 ELSE 0
InBuffer(x) == Cardinality({i \in 0..(semHeadIdx - 1) : semRingBuffer[i] = x})

\* No item is lost, duplicated or invented: outside the critical section every
\* item that was stored is either in the buffer or with a reader, once.
ItemsConserved ==
  mtx = Nobody => \A x \in Item : Stored(x) = InBuffer(x) + taken[x]

\* Every thread has ended, and main(), which joins them, returns.
SemEnded == \A t \in Threads : semPc[t] = "exited"

\* Thread t is in sem_wait on a semaphore at zero, or in pthread_mutex_lock on a
\* mutex that is taken.
Blocked(t) ==
  \/ semPc[t] = "wait" /\ (IF t \in Writers THEN sem_w ELSE sem_r) = 0
  \/ semPc[t] = "lock" /\ mtx # Nobody

\* The threads never all wait for each other, on the two semaphores and the mutex:
\* as many items are read as are written, so that the last ones to wait are woken.
NeverAllBlocked == SemEnded \/ \E t \in Threads : semPc[t] # "exited" /\ ~Blocked(t)

=============================================================================

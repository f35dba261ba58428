# Verification of the repository's concurrent and stateful C programs

The repository is a collection of notes on embedded programming with about
4700 lines of C.  This directory holds TLA+ models of the programs in it that
keep state and are hard to test (threads, signals, interrupts, message queues,
intrusive memory), TLC runs over small instances, and TLAPS proofs for every
instance.

    tlc -workers 2 -config fan_live.cfg MCFanControl     # model-check a run
    tlapm MirosProofs.tla                                # check a proof module

## 1. The systems

| System | Source | State | Operations | What is hard |
|---|---|---|---|---|
| Fan control demo | `Interview/Company/intuitive` | server: module table, `active_fan_num`, `max_temp`, fan registers, descriptors; client: poll loop, `done`; POSIX queues between them | attach, reading, urgent reading, detach; timer: group speed, query | priorities reorder messages; timer threads read the table without a lock; blocking queues; signals; crashed and restarted clients |
| MiROS kernel | `.../taskScheduler/exampleRTOSScheduler/mirosExample` | ready and delayed bit masks, counters, `OS_curr`, `OS_next`, pending PendSV, stacks | `OSThread_start`, `OS_run`, `OS_delay`, `OS_tick`, `OS_sched`, PendSV | SysTick interrupts threads and both ends of the context switch |
| Lock-free ring buffer | `circularRingBuffer/ring_buffer.c` | array, two indices | write, read | no lock; wrap-around; spinning |
| Semaphore buffer | `circularRingBuffer/buffer_multithread.c` | array, one index, two semaphores, mutex | write, read | many threads; everyone may wait |
| Memory pool | `memoryPoolAllocator` | blocks, table of blocks, free list inside the elements | initialise, malloc, free, free all, free pool | links in memory a client writes; doubling of the table |
| Timer list | `timerList` | two tail queues, tick counter | arm in `main()`, expire in a signal handler | SIGALRM between two assignments of a list macro |
| Timing wheel, queues, hash tables, heaps, search tree | directories of these names | one data structure each | insert, remove, search | long sequences of calls; boundaries |
| Sorts, overlapping copy, card shuffling | directories of these names; `Interview/Company/Apple/TakeHomeQ1.c` | one array, or one deck | one call | boundaries of loops and recursive calls; termination |
| Stack, strings, bits, state machine | directories of these names | none or one call's | pure functions | nothing a unit test would not reach |

The paths of rows two to six are below `src/Data_Struct_Implementation`.
Everything else in the repository is Markdown.  `PROJECT.json` lists each
component with its status, and under `hazards` the places where this code can
go wrong in a way a test would hardly show, with the properties that cover
them.

### How the parts of the fan control demo interact

Clients write ATTACH, NORMAL, URGENT and DETACH messages into one server queue;
`mq_receive` delivers the highest priority first, and the priority of a reading
depends on its temperature, that of DETACH is 0, that of ATTACH is an
uninitialised variable.  The server's main loop (the *receiver*) handles one
message at a time and owns the module table.  A POSIX timer starts a thread
every five seconds, which reads the table without a lock, sets the speed of all
fans from the maximum temperature and sends a QUERY to each attached module's
own queue; a client answers with NORMAL at its next poll.

## 2. The modules

| Module | Models | Used by |
|---|---|---|
| `FanQueues` | POSIX queues as the demo uses them: server queue by priority, client queues as counters (a query carries nothing), names, capacity | `FanClient`, `FanServer` |
| `FanClient` | `main()` of `fan_control_client.c`, one program counter per process | `FanControl` |
| `FanServer` | the receiver and the timer threads of `fan_control_server.c`, and `fan_hw.h` | `FanControl` |
| `FanControl` | composition, fairness and all properties | `MCFanControl`, proofs |
| `Miros` | `miros.c`, SysTick of `bsp.c`, an application as in `main.c` | `MCMiros`, `MirosProofs` |
| `PriorityScheduler` | abstract: preemptive fixed-priority scheduling with exact delays | refined by `Miros` |
| `RingBuffer` | `ring_buffer.c` at the granularity of memory accesses | `Programs` |
| `BoundedFifo` | abstract: a bounded FIFO queue | refined by `RingBuffer` |
| `SemBuffer` | `buffer_multithread.c` | `Programs` |
| `Pool` | `pool.c` with a client that behaves as `test.c` | `Programs` |
| `TimerList` | `timer_framework.c` with the TAILQ macros cut into assignments | |
| `TimerWheel` | `timerWheel/timer.c` | `Programs` |
| `OpenHash`, `ChainHash` | `hashTable.c` probe by probe; `hashTable_chain.c` | `Programs` |
| `MaxHeap` | `binaryHeap.c` and `binaryHeap_2.c`, one step per turn of a loop | `Programs` |
| `LinkedQueue` | `queue.c` and `queue_advance.c` | `Programs` |
| `BST` | `bst.c`, one step per call | `Programs` |
| `Sorts` | the five sorting programs, one step per call or turn of a loop | `Programs`, `MCSorts` |
| `Memcpy` | `memcpy.c`, byte by byte | `Programs` |
| `Deck` | `TakeHomeQ1.c`, one step per round | `Programs` |
| `Programs` | the programs above from `RingBuffer` on, except `TimerList`: one in each behaviour | `MCPrograms` |
| `MCFanControl`, `MCMiros`, `MCSorts`, `MCPrograms` | the instances the runs check | |
| `FanControlProofs`, `MirosProofs`, `PoolProofs`, `SortProofs` | theorems and proofs about the module of that name | |
| `BufferProofs` | the same for `RingBuffer` and `SemBuffer` | `ProgramsProofs` |
| `ContainerProofs` | the same for `Memcpy`, `TimerWheel`, `LinkedQueue`, `OpenHash`, `ChainHash`, `MaxHeap` and `Deck` | `ProgramsProofs` |
| `TreeProofs` | the same for `BST` | `ProgramsProofs` |
| `ProgramsProofs` | what holds of each program alone holds in `Programs` | |

### Fan control: state and steps

* `sq[p]`, `cq[c]`, `names`, `srvLinked`: the queues.  A queue is an object with
  a name; a name can outlive its process (a crash) and an object its name
  (`mq_unlink`).
* `cpc[c]`, `cdone[c]`, `ctemp[c]`: a client.  `Start` is everything up to the
  creation of its queue, then one step per `mq_send` or `mq_receive`.
  `ctemp` is put back to 0 when the reading is dead.
* `attached`, `curTemp`, `clientQ`, `activeNum`, `fds`, `pwm`: the module table,
  the server's descriptors and the PWM register of each group of fans.
  `attached[s]` stands for `module_id != -1`.
* The receiver (`spc`, `smsg`) takes one step per access a timer thread can tell
  apart: receive and attach or count, open, store, set the urgent speed; for
  DETACH: count, close, clear.
* A timer thread (`tpc`, `tidx`, `ttarget`) takes one step per module and pass.
  `Compare` and `Take` are the two reads that `MAX` makes of `cur_temp`.
  A query is the test of `module_id` (`TestModule`) and the `mq_send` through
  whatever `client_q` is by then (`Query`), which may block on a full queue; `ExpireBeside` is the next
  expiry when a thread is blocked on a queue that nobody will read again.
* `steady[t]` is history: the modules the receiver has left alone since the
  thread began to compare.
* Faults are chosen by the constant `Faults`: SIGINT to clients (`sigint`),
  crashes (`crash`), a send interrupted by a signal (`eintr`), a garbage
  priority that the kernel rejects (`badprio`), SIGINT to the server (`stop`).

Abstractions: temperatures are integers in 0..99, as `read_temperature()`
returns them; priorities above 3 are one value; descriptors of the server are
numbered from 0 (standard input, which `client_q` names in the zeroed table).
`sleep`s are left out: they only make schedules less likely.

### MiROS: state and steps

Bit masks are sets, and `LOG2` is their maximum.  The register frame is
abstracted to *whose* frame it is: `cpu` is the thread whose registers the
processor holds, `saved[p]` whose frame the stack of `p` holds.  Code with
interrupts off is one step.  PendSV is three: entry (before `CPSID`), the
switch, exit (after `CPSIE`); SysTick can come between any two of them and
between any two steps of `main()` and of a thread.  `asked` and `elapsed` are
history for the delay property.  The timeouts are unbounded in the module; in
the instance they are bounded by the delays.

### Ring buffer, semaphore buffer, pool, timer list

* `RingBuffer`: each thread's test, access and index update are steps of their
  own.  Stores become visible in program order, and the indices are loaded every
  time, as in an unoptimised build.
* `SemBuffer`: `headIdx++` is a read and a write.  Items carry their writer as
  history, so that two equal values are told apart.  The buffer is a stack; no
  property says otherwise.
* `Pool`: `nextFree[a]` is the first word of element `a`, `Junk` once a client
  has written there.  The client frees only what it was given.
* `TimerList`: a pointer's place is named by what holds it, so that `tqe_prev`
  and `tqh_last`, which point to pointers, are values like the others.

### Programs

Each file is a program of its own.  `Programs` chooses one at the start, and only
that one moves, so that its states are the sum and not the product of theirs.
Each module of a container carries the reference it is compared with as history:
`due` (what is to be called by the tick after `d` others), `members` (the keys of
the chained table), `held` and `inserted` (the contents of heap and tree as
bags), `queue` (the nodes of the queue in order), `original` (the array to sort).

* `TimerWheel`: the loop of `init_time_wheel` starts at an uninitialised `i`, so
  any list head may be garbage; following one ends the behaviour
  (`wheelFault`).  Deadlines are divided as in C; those beyond the span are
  refused.
* `OpenHash`: `delete` takes the item the last search returned.  Equal keys may
  be inserted twice, as in the code.
* `MaxHeap`: the array keeps what was popped, beyond `curIdx`.  `heapProgram`
  chooses between the two files, which differ in `Down`.
* `BST`: a node is named by its path from the head, so that the tree is a function
  from paths to values.  `Turn` and `Follows` are the descent all functions share.
  As in `main()`, a node is deleted when a search has just returned it.
  `insertNode` of a NULL node ends the behaviour (`bstFault`).
* `Sorts`: `calls` is the C stack: the calls still to be made, the next in front.
  A recursive call, a turn of the partition or of a merge, a comparison of
  bubblesort and an insertion are each one step.  Of a turn of the partition the
  two scans are stated by where they stop.
* `Memcpy`: the bytes of the memory are all different at first, so that each can
  be told where it came from.
* `Deck`: a list is a sequence and -1 a dummy node.  The piles are empty between
  rounds, so a round is one step.  The program leaves some `next` pointers
  unwritten and frees nothing; its nodes are fresh memory, which reads as NULL.
* `LinkedQueue`: `counted` chooses between the two files.  A node is its own
  value; a freed node's `next` is `Freed`, and a write through a stale `rear`
  would change it.  The caller of `create_Q`, which lacks a return statement, is
  given the queue.

## 3. The runs

Deadlock is checked where the system never stops by itself.  Where
`CHECK_DEADLOCK FALSE` stands, it does stop: processes exit, the server is
stopped, threads end, or `MaxTick` ends the run.

| Run | Instance | Checks | Shows |
|---|---|---|---|
| `fan_faults` | 2 processes of one module, 2 places per queue, 1 timer thread, all faults | `TypeOK`, `DetachLast`, `QueueOwned`, `CountNeverExceeds` | safety of the protocol under faults |
| `fan_live` | 2 modules, 2 places, SIGINT and crashes, no timer thread | `CountExact`, `DescriptorsOwned`, `UrgentServed`, `ClientTerminates` | the table is exact; urgent messages are served; stopped clients end |
| `fan_queries` | 2 modules, 1 place, 1 timer thread, SIGINT to the server | `HeartbeatReaches`, `ServerStops` | queries reach every attached client until the server is told to stop; it stops although the signal can slip in before `mq_receive` |
| `fan_count` | 3 processes, two of them for module 0 | `ZeroMeansNone` **violated** | see findings |
| `fan_max` | 2 modules, three temperatures | `MaxCoversSteady` **violated** | see findings |
| `fan_heartbeat` | as `fan_queries`, with crashes instead | `HeartbeatReaches` **violated** | see findings |
| `miros` | priorities 1, 2, 5 with two delays each | `TypeOK`, `NeverResets`, `ReadyXorDelayed`, `HighestReadyRuns`, `DelayIsExact`, `TopThreadReturns`, `ImplementsPriorityScheduler` | the kernel is a correct priority scheduler |
| `timer_race` | 3 timers, 3 ticks | `TimersConserved` **violated** | see findings |
| `quick_sort` | the test arrays of `quicksort.c` | `QuickSortSorts` **violated** | see findings |
| `bst_delete` | 4 nodes of 3 values | `NewHeadReturned` **violated** | see findings |
| `heap_root` | 5 entries of 5 values | `RootIsLargest` **violated** | see findings |
| `programs` | one of twelve programs in a behaviour: the table below | `TypeOK`, the properties of the table below, `ProgramEnds` | each container does what its reference does, each buffer keeps its items, what has to finish does |

| Program of `programs` | Instance | Properties |
|---|---|---|
| ring buffer | 4 elements, 9 values | `NoConflict`, `ImplementsFifo`, `ThreadsProceed`, `ProgramEnds` |
| semaphore buffer | 2 writers, 2 readers, 2 places, 2 items each | `PlacesConserved`, `IndexAgrees`, `ItemsConserved`, `ThreadsProceed`, `ProgramEnds` |
| memory pool | blocks of 2, at most 3 blocks | `FreeListEnds`, `Exclusive`, `Backed`, `NoLeak` |
| timing wheel | 3 slots, 2 handlers, at most 3 waiting | `CalledWhenDue` |
| hash tables | 3 cells and 4 keys; 2 lists and 5 keys | `SearchIsExact`, `CallsReturn`; `ChainsHoldMembers` |
| heaps | 5 entries of 4 values | `PopsLargest` |
| queues | 3 nodes, `Cap` 2 | `ListIsQueue` |
| search tree | 5 nodes of 3 values | `TreeIsExact` |
| sorts | all arrays of up to 5 elements of 3 values | `SortsInput`, `ProgramEnds` |
| copy | every placement in 6 bytes | `CopyIsExact`, `ProgramEnds` |
| cards | 0 to 12 cards | `CardsKept`, `OrderRestored` |

Each property of a passing run has a mutant of the code, an operator before the
mapped one, under which the run fails.

### Bounds, and why they are enough

* `MaxMsgs` is 100 in the code.  With 1 or 2 places and two clients every queue
  fills, empties, and blocks senders; the priorities can still reorder two
  messages.
* Two modules tell "this module" from "another one".  `fan_count` needs three
  processes: two of one module and one that stays attached.
* `AttachPrios` has a priority below and one above those of the readings, where
  the order matters; 95 is an urgent reading, 30 an ordinary one.
* `Timers` has one thread; expiries beside a blocked one are `ExpireBeside`.
  Two threads that both move are allowed by the module and by the proofs.
* Three threads suffice for a preempted thread to be preempted again; the delays
  let threads expire in one tick and in different ticks.
* Nine values make both indices of a ring of four wrap twice.  `SemTarget = 2`
  lets each thread of `SemBuffer` come back to both semaphores.
* Three blocks make the table of blocks double twice (1, 2, 4).
* `MaxTick` bounds `TimerList`; the violation needs fewer ticks.
* Containers: the wheel turns without a bound; its deadlines are zero, below
  one tick, on and between ticks, the last within the span and the first beyond
  it.  The keys of `OpenHash` collide, and one of them starts at the last cell,
  so that probes wrap; the table also fills up.  Four colliding keys of
  `ChainHash` give lists with a front, two middles and an end.  Five entries
  give the heap a left child with two children of its own; equal values occur.
  Five nodes are enough for a deletion that grafts a subtree below another one
  with equal values in both.
* Arrays of five elements of three values have every order and every pattern of
  equal elements that a partition, a merge or a heap of two levels tells apart.
* Twelve cards fill every pile, unevenly as well; with fewer than five cards some
  piles stay empty.

### Fairness

* Fan control: processes and threads are scheduled (weak fairness).  Senders
  that wait on a full queue are served in turn by the kernel as places become
  free: strong fairness of each send.  No fault, signal or start is forced.
* MiROS: `main()` proceeds, the timer ticks, pending exceptions are taken and
  handled.  No thread is forced to call `OS_delay`, so that only the thread of
  highest priority is guaranteed the processor.
* Programs: the one thread of a sequential program goes on with the call it is
  executing; no call is forced.  Ring buffer: both threads run.  Semaphore
  buffer: every thread runs; neither the mutex nor the semaphores are assumed to
  be fair.

## 4. Findings

* `fan_count`: `timer_handler` takes a zero count for "no active module".  When
  module 0 is stopped and started again while its messages wait, the second
  ATTACH is ignored (the module is still attached) and both DETACHes are
  subtracted: two decrements for one increment, and the count is zero while
  module 1 is attached.  Its fan is not set and it is not queried any more.
* `fan_max`: "Speed is determined by the max temperature", but `MAX` reads the
  volatile `cur_temp` twice; a reading that falls in between lowers `max_temp`
  below the temperature of a module compared before.
* `fan_heartbeat`: the README of the demo promises a query to each active client.
  A dead client's queue fills, every timer thread blocks on it, and the modules
  behind it are never queried again.
* `timer_race`: `main()` arms timers without blocking SIGALRM, whose handler
  changes the same lists; a timer can end on neither list or on both.

* `quick_sort`: when the scans of the partition meet, the element there is in
  neither recursive call, although only an element equal to the pivot is sure to
  be in its place.  The first test array of `main()` ends as 1 5 7 9 8 10.
* `bst_delete`: `deleteNode` of a node with a right child and no left one makes
  `insertNode` read through NULL; the comment promises the new head.
* `heap_root`: `down_heapify` of `binaryHeap_2.c` takes the right child whenever it
  is larger than the entry, even if the left child is the largest; the maximum
  then leaves the root, where the README of `binaryHeap` has it.

Also noticed, without a run: with 0, 1 or 2 cards `TakeHomeQ1.c` never ends,
because a dummy of an empty pile is always behind the cards.  In
`hashTable.c` a search or insert in a table without a free cell does not return
(`CallsReturn` is about the others). The README of the fan control demo asks for
20 % below 25 degrees and 100 % from 75, `temp2speed` gives 0 % up to 20 and 100
% from 70; two neighbouring fans share a write register; DETACH leaves the fan
at its last speed.  A DETACH of a module that is not attached (the second one of
`fan_count`, or one whose ATTACH was lost) closes the descriptor that `client_q`
held last, which by then can be another module's: `DescriptorsOwned` fails in the
instance of `fan_count`.

## 5. Theorems

They hold for every value of the constants that the named `ASSUME`s allow: any
number of processes, threads, places, elements or keys, any subset of faults.
The modules of the components prove them about the specification of each
component (`Spec`, `RingSpec`, `PoolSpec`, ...); `ProgramsProofs` proves those of
the twelve programs again about `Programs`, the specification TLC runs.

| Theorem | Module | Statement |
|---|---|---|
| `TypeCorrect` | `FanControlProofs` | `Spec => []TypeOK` |
| `OneClientPerName` | `FanControlProofs` | `Spec => []QueueOwned` |
| `CountBounded` | `FanControlProofs` | `Spec => []CountNeverExceeds` |
| `NothingAfterDetach` | `FanControlProofs` | `Spec => []DetachLast` |
| `CountIsExact` | `FanControlProofs` | `NoAttachLost`, `OwnSlots` give `Spec => []CountExact` |
| `QueriesGoHome` | `FanControlProofs` | those and `IdInRange` give `Spec => []DescriptorsOwned` |
| `TypeCorrect`, `Partition`, `AssertionsHold`, `PriorityRespected`, `DelaysAreExact` | `MirosProofs` | the invariants and `DelayIsExact` of `Miros` |
| `Refinement` | `MirosProofs` | `Spec => ImplementsPriorityScheduler` |
| `NoDataRace`, `NoCommonSpin` | `BufferProofs` | `NoConflict`, `NeverBothSpin` are invariants of `RingSpec` |
| `Refinement` | `BufferProofs` | `RingSpec => ImplementsFifo` |
| `PlacesCorrect`, `IndexExact`, `NoItemLost`, `NeverStuck`, `EachItemOnce` | `BufferProofs` | `PlacesConserved`, `IndexAgrees`, `ItemsConserved`, `NeverAllBlocked`, `AllDelivered` are invariants of `SemSpec` |
| `ListEnds`, `OneOwner`, `MemoryIsThere`, `NothingLeaks` | `PoolProofs` | `FreeListEnds`, `Exclusive`, `Backed`, `NoLeak` are invariants of `PoolSpec` |
| `CalledByItsTick` | `ContainerProofs` | `WheelSpec => []CalledWhenDue` |
| `FirstInFirstOut` | `ContainerProofs` | `QueueSpec => []ListIsQueue` |
| `SearchFinds` | `ContainerProofs` | `OpenHashSpec => SearchIsExact` |
| `ChainsExact` | `ContainerProofs` | `ChainSpec => []ChainsHoldMembers` |
| `LargestFirst` | `ContainerProofs` | `HeapSpec => []PopsLargest` |
| `Copied` | `ContainerProofs` | `MemcpySpec => []CopyIsExact` |
| `DeckKeepsCards` | `ContainerProofs` | `DeckSpec => []CardsKept` |
| `Sorted` | `SortProofs` | `SortSpec => []SortsInput` |
| `TreeCorrect` | `TreeProofs` | `BstSpec => []TreeIsExact` |
| `ProgramsTypeCorrect` | `ProgramsProofs` | `Spec => []TypeOK` |
| `ProgramsCorrect` | `ProgramsProofs` | `Spec =>` the seventeen invariants of the run `programs` |
| `BuffersProceed` | `ProgramsProofs` | `Spec => []ThreadsProceed`, the invariants of `NoCommonSpin` and `NeverStuck` |
| `ProgramsSearchFinds`, `ProgramsRefinement` | `ProgramsProofs` | `Spec => SearchIsExact`, `Spec => ImplementsFifo` |

How they go:

* **DetachLast** is not inductive.  `DetachInv` adds where a client's messages
  can be: once it has sent DETACH it sends nothing more, its DETACH is the last
  of its messages in queue 0, and what waits in front of it, or with a higher
  priority, is served first.  The server can therefore receive DETACH only when
  no other message of that client is left.
* **CountExact** needs `DetachInv` and, besides, that a client in its loop is
  attached or has its ATTACH waiting (`Announced`, `DetachKnown`).  This is where
  the two assumptions come in: without a lost ATTACH (`NoAttachLost`) and with
  one process for each entry (`OwnSlots`) every decrement has its increment.
  `fan_count` shows that `OwnSlots` cannot be left out.
* **CountNeverExceeds** needs neither: a decrement can be one too many, an
  increment always comes with a new entry of the table.  The receiver's step
  inside DETACH is why the entry being removed is not counted.
* **DescriptorsOwned** needs that a name is linked to a queue of a process that
  uses the name (`NamesOwn`), and that the descriptor a DETACH closes is that of
  an attached module, which is `CountInv`; with the two assumptions dropped, one
  module's DETACH closes another one's descriptor (section 4; TLC finds it with
  three modules and `badprio` as well).  `IdInRange` is there because
  the client accepts the id `MAX_MODULE_NUM` itself and gives its queue the name
  0, whatever entry the server puts it in.
* **MiROS**: the inductive invariant `IInv` joins the type invariant, the
  partition of the threads, and what holds at each point of the switch: in
  thread mode `OS_curr` is the thread on the processor and `OS_next` the one the
  ready set selects, unless PendSV is pending; every stack but the running
  thread's holds its owner's frame.  The refinement maps "no thread code runs"
  to the abstract `Kernel`; each action maps to an abstract step or a stutter.
* **Ring buffer**: each thread may rely on a test it has made although the other
  has gone on (`WriterMayGoOn`, `ReaderMayGoOn`): only the writer fills and only
  the reader empties.  The places from `tailIdx` to `headIdx` hold the items
  written and not yet read, in order (`Contents`); read off in that order they
  are the queue of `BoundedFifo`, to which the write of an index is the step and
  everything else a stutter.  `NeverBothSpin` is the safety half of `ProgramEnds`,
  for every instance: a buffer is not full and empty at once, and with what the
  threads have still to do (`Endings`) the items a spinning thread waits for, or
  the place, are still to come from the other one.
* **Semaphore buffer**: the invariant counts.  Every place is free, offered or in
  the hands of one thread (`PlacesReserved`); the index is what the semaphore
  offers plus what a writer has still to post plus what a reader has still to
  take off (`IndexCounts`).  Both are sums over all threads, and `MoveCounts`
  says what the step of one thread does to them.  The mutex keeps the value read
  by `headIdx++` true until it is written (`IndexIsRead`).  `NeverAllBlocked` needs
  a second count (`Ledger`): the items posted by the writers are offered, held by
  a reader that has waited for one, or counted by a reader.  If all waited, no
  place would be reserved, so one semaphore would be above zero and the threads
  of its kind ended; as both kinds have the same number of items to move, the
  other kind would have ended too.  The same count says that at the end the
  buffer is empty, hence `EachItemOnce`: when `main()` returns, every item has
  been read once.
* **Pool**: `FreeListEnds` speaks of a recursive function, the links followed
  from `freed`, and what a store does to all of them would take induction.
  `FreeList` says instead that *some* sequence without repetition is linked from
  `freed` to `NULL`; each operation gives the next such sequence, and the links
  followed are its elements and then `NULL`.  An element has one owner exactly
  when it was carved and is not in the sequence.  `NoLeak` needs that the table
  has no gap (`BlocksFromZero`).
* **Containers**: `CalledWhenDue` and `ChainsHoldMembers` are inductive with
  their types.  `ListIsQueue` needs that no node is in the queue twice and that
  `queue.c` clears `rear` with the last node.  `SearchIsExact` needs that the
  cells from a key's own cell to where it lies are not `Null` (`PathsFull`) and
  that a search has not passed the key (`Passed`); together they make the first
  `Null` a proof of absence.  `PopsLargest` needs the heap order with one
  exception, the entry that moves, and its children against its parent
  (`Sifted`); that the root is then the largest follows by a least
  counterexample.  `CopyIsExact` says what the loop has written so far, and that
  the byte it reads next is not among it, from whichever end it began.
* **Sorts**: the array is a permutation of the input throughout (`Arranged`): there
  is a bijection that takes one to the other, and each store composes it with
  another.  Order is a property of each program's calls: for bubblesort and
  heapsort the places from some point on are settled (`Settled`), with a heap
  below it in which one entry may be too small (`HeapBut`); for insertion sort
  a prefix is in order (`Inserted`).  For mergesort the calls on the stack are
  nested (`Nested`), and before any of them is entered the halves it relies on
  will have been sorted by those in front of it (`Ready`); `Merging` says what
  the merge has taken and what is still to come.  Quicksort has only `Arranged`
  and bounds that stay inside the array: the finding `quick_sort` is why.

* **Search tree**: `TreeInv` says that with a node the tree has those above it,
  that each node lies where the descent for its value leads (`ByDescent`), and
  that each value is there as often as it was inserted and not deleted.  Equal
  values may lie anywhere on the right of each other, which the descent allows
  and "left is smaller, right is not" alone would not show.  A deletion is put
  together from four facts: the subtree below a node is a search tree
  (`BelowTree`), so is the tree without it (`OutsideTree`), a search tree grafted
  at a free place to which all its values descend gives one that holds both
  (`Graft`, `GraftCount`), and the bottom `insertNode` reaches is such a place
  for the whole left subtree, because everything in it is smaller than
  everything in the right one (`MergeIs`).  The least value is at the end of the
  left chain because the descent for any smaller one would turn left there.
* **Cards**: `DeckInv` is the type and `CardsKept`.  The cards of a deck are
  counted off by how many are in front of each (`InFrontIs`); `Cards` is defined so
  in the model, because `SelectSeq` is recursive and could only be reasoned about by
  induction.  Card `i` goes to pile `(i - 1) % P`, and `NextPile` adds one pile at a
  time to what the piles so far hold, for each of the three numbers of piles `P`.
  How many dummies the piles keep follows from the division of the number of
  cards by `P`.
* **Programs**: a step of `Programs` is a step of one component and leaves the
  variables of the others alone (`EachSteps`), and its initial states satisfy every
  component's initial predicate; so the inductive invariants of all twelve hold
  side by side (`ProgramsInv`), and what follows from each of them follows here.

Induction over data is not available to the provers, whose library states it with
an operator as a parameter.  Where an argument needs it, a proof takes the least number for
which the claim fails, which exists because `<` is well-founded on `Nat`
(`SmallestIndex`, `SmallestElement`, `LeastPlace`, `LeastNumber`), and contradicts it.

Only model-checked: all liveness, for which the prover has no rules
(`UrgentServed`, `ClientTerminates`, `HeartbeatReaches`, `ServerStops`,
`TopThreadReturns`, `ProgramEnds`, `CallsReturn`, `OrderRestored`).  Every
invariant and every action property that a passing run checks is proved
(`CountExact` and `DescriptorsOwned` under the assumptions named above), and so
are both refinements.

## 6. Not modelled, and next steps

Failing system calls at start-up, `malloc` that fails, a server with zero
modules and clients without a module id are left out (`fan_control_App_demo.sh`
starts its clients without one, and `mid` is then uninitialised); so are log
output and the LEDs.  `stateMachine.c` is one cycle of five states and `stack.c`
one array with an index: a property of either would restate its code.  The string,
bit and address exercises are pure functions on characters and words.
`TakeHomeQ2.c` and `ArrayOfBits/bitsArray.c` do not compile.  The components
without a module are listed in `PROJECT.json` with the reason.  What remains
is the effect of the shared registers, and of a late write by a timer thread, on
an urgent setting of the fan control, and proofs of the liveness properties,
should the prover come to support them.

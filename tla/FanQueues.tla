----------------------------- MODULE FanQueues -----------------------------
(***************************************************************************)
(* The POSIX message queues of the fan control demo                        *)
(* (src/Interview/Company/intuitive): one queue into the server, shared by *)
(* every client, and one queue out of the server for each client.          *)
(*                                                                         *)
(* mq_send appends behind the waiting messages of the same priority,       *)
(* mq_receive takes the oldest message of the highest priority, a full     *)
(* queue blocks its senders.  A queue is an object with a name: unlinking  *)
(* removes the name, and processes that hold a descriptor keep the object. *)
(***************************************************************************)
EXTENDS Integers, Sequences, FiniteSets

CONSTANTS
  Clients,       \* client processes; each runs main() of the client once
  NoClient,      \* "no queue has this name", "this descriptor is closed"
  Mid,           \* Mid[c]: the <module-id> argument of process c
  MaxModule,     \* MAX_MODULE_NUM
  ModuleNumber,  \* module_number: the <number-of-modules> argument
  MaxMsgs,       \* MAX_MESSAGES, the capacity of every queue
  Temps,         \* the readings read_temperature() may return
  AttachPrios,   \* priorities the uninitialised "prior" of ATTACH may hold
  Faults         \* the disturbances that may happen, a subset of AllFaults

(***************************************************************************)
(* sigint:   SIGINT tells a client to stop                                 *)
(* crash:    a client dies without running its exit path                   *)
(* eintr:    SIGINT interrupts a client's blocked mq_send                   *)
(* badprio:  the uninitialised priority of ATTACH is negative: EINVAL      *)
(* stop:     SIGINT stops the server                                       *)
(***************************************************************************)
AllFaults == {"sigint", "crash", "eintr", "badprio", "stop"}

\* 0..3 are the priorities of readings; 4 stands for every larger value an
\* uninitialised priority may hold.
Prio == 0..4

Slots == 0..(ModuleNumber - 1)
QNames == 0..(MaxModule - 1)

ASSUME FanAssumption ==
  /\ NoClient \notin Clients
  /\ MaxModule \in Nat \ {0}
  /\ ModuleNumber \in 1..MaxModule
  /\ Mid \in [Clients -> 0..MaxModule]
  /\ MaxMsgs \in Nat \ {0}
  /\ Temps \subseteq 0..99
  /\ AttachPrios \subseteq Prio
  /\ Faults \subseteq AllFaults

\* The server's index of the module a message comes from (pid % module_number).
Slot(c) == Mid[c] % ModuleNumber

\* The number in the name of a client's queue (mid % MAX_MODULE_NUM).
QName(c) == Mid[c] % MaxModule

MsgTypes == {"NORMAL", "DETACH", "ATTACH", "URGENT"}
Msg == [from : Clients, type : MsgTypes, temp : 0..99]

VARIABLES
  sq,          \* sq[p]: the messages of priority p waiting for the server
  cq,          \* cq[c]: the number of QUERY messages waiting in c's queue
  names,       \* names[n]: the process whose queue is linked as name n
  srvLinked    \* the server's queue has its name

queueVars == <<sq, cq, names, srvLinked>>

QueuesTypeOK ==
  /\ sq \in [Prio -> Seq(Msg)]
  /\ cq \in [Clients -> 0..MaxMsgs]
  /\ names \in [QNames -> Clients \union {NoClient}]
  /\ srvLinked \in BOOLEAN

QueuesInit ==
  /\ sq = [p \in Prio |-> <<>>]
  /\ cq = [c \in Clients |-> 0]
  /\ names = [n \in QNames |-> NoClient]
  /\ srvLinked = FALSE

Waiting == Len(sq[0]) + Len(sq[1]) + Len(sq[2]) + Len(sq[3]) + Len(sq[4])
Full == Waiting >= MaxMsgs

\* mq_send to the server: blocks while the queue is full.
Send(p, m) ==
  /\ ~Full
  /\ sq' = [sq EXCEPT ![p] = Append(@, m)]

\* p is the priority mq_receive serves next.
IsTop(p) ==
  /\ sq[p] # <<>>
  /\ \A r \in Prio : r > p => sq[r] = <<>>

\* Some message of client c that satisfies P waits for the server.
InQueue(c, types) ==
  \E p \in Prio : \E i \in 1..Len(sq[p]) :
    sq[p][i].from = c /\ sq[p][i].type \in types

=============================================================================

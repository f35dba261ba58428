----------------------------- MODULE FanControl -----------------------------
(***************************************************************************)
(* The fan control demo as a whole: the server with its timer threads, and *)
(* the clients, connected by the message queues, with the properties that  *)
(* make the system correct.                                                *)
(***************************************************************************)
EXTENDS FanClient, FanServer

vars == <<queueVars, clientVars, serverVars>>

Init == QueuesInit /\ ClientInit /\ ServerInit

\* The timer expires although a thread is still blocked.  When the owner of the
\* queue it waits on is gone, that thread waits for ever, and the new thread
\* takes its place here: Timers bounds the threads that can still move.
ExpireBeside(t) ==
  /\ tpc[t] = "blocked"
  /\ cpc[ttarget[t]] \notin Running
  /\ spc # "stopped"
  /\ tpc' = [tpc EXCEPT ![t] = "check"]
  /\ tidx' = [tidx EXCEPT ![t] = 0]
  /\ ttarget' = [ttarget EXCEPT ![t] = NoClient]
  /\ UNCHANGED <<queueVars, clientVars, receiverVars, tableVars, steady,
                 maxTemp, pwm>>

Next ==
  \/ ClientNext /\ UNCHANGED serverVars
  \/ ServerNext /\ UNCHANGED clientVars
  \/ \E t \in Timers : ExpireBeside(t)

Spec == Init /\ [][Next]_vars

(***************************************************************************)
(* Fairness.  Every process is scheduled.  A sender that waits on the full *)
(* server queue is served in turn when the server takes a message (the     *)
(* kernel hands the place to the longest waiting sender), hence strong     *)
(* fairness of the sends; the same holds of a timer thread that waits on a *)
(* client's queue.  Nothing forces a fault, a signal or a start to happen. *)
(***************************************************************************)
ClientFairness(c) ==
  /\ WF_vars((Poll(c) \/ LeaveLoop(c) \/ Unlink(c)) /\ UNCHANGED serverVars)
  /\ SF_vars((SendAttach(c) \/ Reply(c) \/ SendUrgent(c) \/ SendDetach(c))
               /\ UNCHANGED serverVars)

Fairness ==
  /\ WF_vars(ReceiverStep /\ UNCHANGED clientVars)
  /\ \A t \in Timers :
       /\ WF_vars(TimerStep(t) /\ UNCHANGED clientVars)
       /\ WF_vars(ExpireBeside(t))
       /\ SF_vars(QueryUnblocked(t) /\ UNCHANGED clientVars)
  /\ \A c \in Clients : ClientFairness(c)

FairSpec == Spec /\ Fairness

-----------------------------------------------------------------------------
\* Every variable keeps its type; in particular the message being handled is
\* there exactly while the receiver is inside its switch.
TypeOK == QueuesTypeOK /\ ClientTypeOK /\ ServerTypeOK

\* A client's DETACH is the last of its messages the server handles: although
\* priorities reorder the queue, no message of that client still waits when
\* the server handles its DETACH, so none can attach the module again.
DetachLast ==
  smsg # NoMsg => (smsg.type = "DETACH" => ~InQueue(smsg.from, MsgTypes))

\* README: "if a module with the same ID already exists, client will NOT run".
\* A running client's queue is the one linked under its name, whatever other
\* processes with the same module id start, detach, exit or crash meanwhile.
QueueOwned ==
  \A c \in Clients : cpc[c] \in Running => names[QName(c)] = c

\* The modules that count as active: a module whose DETACH is being handled
\* has been subtracted from active_fan_num and still has its module_id.
ActiveSlots == {s \in Slots : attached[s]}
CountedSlots ==
  IF spc \in {"close", "clear"} THEN ActiveSlots \ {Slot(smsg.from)}
                                ELSE ActiveSlots

\* active_fan_num never exceeds the number of modules in the table, for every
\* schedule of attaches, stray detaches, restarts and crashes.
CountNeverExceeds == activeNum <= Cardinality(CountedSlots)

\* Without a failed ATTACH and without two processes for one module,
\* active_fan_num is exactly the number of modules in the table.
CountExact == activeNum = Cardinality(CountedSlots)

\* The descriptor through which the timer thread queries an attached module is
\* open on the queue of the client with that module's number (or mq_open
\* failed), except while the receiver is opening or has just closed it.
DescriptorsOwned ==
  \A s \in Slots :
    attached[s] /\ ~(spc \in {"open", "clear"} /\ Slot(smsg.from) = s) =>
      \/ clientQ[s] = -1
      \/ fds[clientQ[s]] \in {c \in Clients : Slot(c) = s}

\* timer_handler: "return if no active module".  While the receiver is not
\* inside a handler, a zero count means that no module is attached.
ZeroMeansNone ==
  spc \notin Handling /\ activeNum = 0 => ActiveSlots = {}

\* group_set_spd: "Speed is determined by the max temperature".  When a timer
\* thread ends its pass over the temperatures, max_temp is at least the
\* temperature of every module the receiver did not write during the pass.
MaxCoversSteady ==
  [][\A t \in Timers : tpc[t] \in {"compare", "take"} /\ tpc'[t] = "speed"
       => \A s \in steady[t] : maxTemp' >= curTemp[s]]_vars

\* Client c is served: it runs, has not been told to stop, and is attached.
Served(c) == cpc[c] \in Running /\ ~cdone[c] /\ attached[Slot(c)]

\* README: "sending a query message to each active client's message queue".
\* A client that stays attached and running is queried again and again, as long
\* as the server is not told to stop.
HeartbeatReaches ==
  \A c \in Clients :
    <>[](Served(c) /\ ~sdone) => []<>(cpc[c] = "reply")

\* README: "Use Ctrl-C to generate termination signal to each program".  SIGINT
\* between the test of done and mq_receive wakes the receiver up only with its
\* next message: the server stops all the same as long as one client is served,
\* because the timer goes on querying it and its answer is that message.
ServerStops ==
  <>sdone /\ (\E c \in Clients : <>[]Served(c)) => <>(spc = "stopped")

\* An urgent message that reached the queue makes the server set the speed of
\* that module's fan, whatever else is in the queue.
UrgentServed ==
  \A c \in Clients :
    InQueue(c, {"URGENT"}) ~> (spc = "setspeed" /\ smsg.from = c)

\* A client that has been told to stop ends, full queues notwithstanding.
ClientTerminates ==
  \A c \in Clients :
    cdone[c] /\ cpc[c] \in Running ~> cpc[c] \in {"exited", "crashed"}

=============================================================================

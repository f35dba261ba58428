----------------------------- MODULE FanClient -----------------------------
(***************************************************************************)
(* The client processes: main() of fan_control_client.c, with ACTIVE_QUERY *)
(* defined as in fan_control.h.  A client creates its own queue, announces *)
(* itself, polls once a second, answers a query with its reading, sends an *)
(* urgent message when the reading is above the threshold and, when SIGINT *)
(* has set its "done" flag, detaches and removes its queue.                *)
(***************************************************************************)
EXTENDS FanQueues

VARIABLES
  cpc,      \* cpc[c]: what process c does next
  cdone,    \* cdone[c]: the flag SIGINT sets
  ctemp     \* ctemp[c]: the reading of the current poll (0 between polls)

clientVars == <<cpc, cdone, ctemp>>

Sending == {"attach", "reply", "urgent", "detach"}
Running == Sending \union {"poll", "unlink"}
ClientPc == Running \union {"off", "failed", "exited", "crashed"}

TEMP_THRESHOLD == 90

ClientTypeOK ==
  /\ cpc \in [Clients -> ClientPc]
  /\ cdone \in [Clients -> BOOLEAN]
  /\ ctemp \in [Clients -> 0..99]

ClientInit ==
  /\ cpc = [c \in Clients |-> "off"]
  /\ cdone = [c \in Clients |-> FALSE]
  /\ ctemp = [c \in Clients |-> 0]

ReadingPrio(t) == (t \div 25) % 4

Goto(c, label) == cpc' = [cpc EXCEPT ![c] = label]

NewMsg(c, type, temp) == [from |-> c, type |-> type, temp |-> temp]

\* Where a poll goes once there is no (more) query to answer.
Urgency(t) == IF t > TEMP_THRESHOLD THEN "urgent" ELSE "poll"

\* A reading is kept only while a message of this poll is still to be sent.
KeepReading(c, t, label) ==
  ctemp' = [ctemp EXCEPT ![c] = IF label = "poll" THEN 0 ELSE t]

\* Mutant of Start: mq_open without O_EXCL takes a queue that exists already.
StartShared(c) ==
  /\ cpc[c] = "off"
  /\ srvLinked
  /\ names' = [names EXCEPT ![QName(c)] = c]
  /\ Goto(c, "attach")
  /\ UNCHANGED <<sq, cq, srvLinked, cdone, ctemp>>

\* Both mq_open calls succeed: the server runs and the queue's name is free.
Start(c) ==
  /\ cpc[c] = "off"
  /\ srvLinked
  /\ names[QName(c)] = NoClient
  /\ names' = [names EXCEPT ![QName(c)] = c]
  /\ Goto(c, "attach")
  /\ UNCHANGED <<sq, cq, srvLinked, cdone, ctemp>>

\* No server queue, or O_EXCL finds a queue of that name: exit(EXIT_FAILURE).
StartFails(c) ==
  /\ cpc[c] = "off"
  /\ ~srvLinked \/ names[QName(c)] # NoClient
  /\ Goto(c, "failed")
  /\ UNCHANGED <<queueVars, cdone, ctemp>>

\* mq_send of ATTACH with a priority nobody has assigned yet.
SendAttach(c) ==
  /\ cpc[c] = "attach"
  /\ \E p \in AttachPrios : Send(p, NewMsg(c, "ATTACH", 0))
  /\ Goto(c, "poll")
  /\ UNCHANGED <<cq, names, srvLinked, cdone, ctemp>>

\* The garbage priority is out of range: logged, and the client goes on.
AttachRejected(c) ==
  /\ "badprio" \in Faults
  /\ cpc[c] = "attach"
  /\ Goto(c, "poll")
  /\ UNCHANGED <<queueVars, cdone, ctemp>>

\* Mutant of Poll: the loop does not look at the flag.
PollForever(c) ==
  /\ cpc[c] = "poll"
  /\ \E t \in Temps :
       LET next == IF cq[c] > 0 THEN "reply" ELSE Urgency(t)
       IN  /\ Goto(c, next)
           /\ KeepReading(c, t, next)
  /\ cq' = [cq EXCEPT ![c] = IF @ > 0 THEN @ - 1 ELSE 0]
  /\ UNCHANGED <<sq, names, srvLinked, cdone>>

\* The head of the loop, the reading and the non-blocking mq_receive.
Poll(c) ==
  /\ cpc[c] = "poll"
  /\ ~cdone[c]
  /\ \E t \in Temps :
       LET next == IF cq[c] > 0 THEN "reply" ELSE Urgency(t)
       IN  /\ Goto(c, next)
           /\ KeepReading(c, t, next)
  /\ cq' = [cq EXCEPT ![c] = IF @ > 0 THEN @ - 1 ELSE 0]
  /\ UNCHANGED <<sq, names, srvLinked, cdone>>

Reply(c) ==
  /\ cpc[c] = "reply"
  /\ Send(ReadingPrio(ctemp[c]), NewMsg(c, "NORMAL", ctemp[c]))
  /\ Goto(c, Urgency(ctemp[c]))
  /\ KeepReading(c, ctemp[c], Urgency(ctemp[c]))
  /\ UNCHANGED <<cq, names, srvLinked, cdone>>

SendUrgent(c) ==
  /\ cpc[c] = "urgent"
  /\ Send(ReadingPrio(ctemp[c]), NewMsg(c, "URGENT", ctemp[c]))
  /\ Goto(c, "poll")
  /\ KeepReading(c, ctemp[c], "poll")
  /\ UNCHANGED <<cq, names, srvLinked, cdone>>

\* The loop ends when the flag is set.
LeaveLoop(c) ==
  /\ cpc[c] = "poll"
  /\ cdone[c]
  /\ Goto(c, "detach")
  /\ UNCHANGED <<queueVars, cdone, ctemp>>

\* Mutant of DetachPrio: DETACH goes out above the priority of every reading.
DetachPrioTop == 4

\* DETACH goes out with priority 0; the reading in it is never used.
DetachPrio == 0

SendDetach(c) ==
  /\ cpc[c] = "detach"
  /\ Send(DetachPrio, NewMsg(c, "DETACH", 0))
  /\ Goto(c, "unlink")
  /\ UNCHANGED <<cq, names, srvLinked, cdone, ctemp>>

\* mq_close and mq_unlink of the client's own queue, then exit.
Unlink(c) ==
  /\ cpc[c] = "unlink"
  /\ names' = [names EXCEPT ![QName(c)] = NoClient]
  /\ Goto(c, "exited")
  /\ UNCHANGED <<sq, cq, srvLinked, cdone, ctemp>>

\* SIGINT: term() sets the flag.
Interrupt(c) ==
  /\ "sigint" \in Faults
  /\ cpc[c] \in Running
  /\ ~cdone[c]
  /\ cdone' = [cdone EXCEPT ![c] = TRUE]
  /\ UNCHANGED <<queueVars, cpc, ctemp>>

\* SIGINT finds the client blocked in mq_send on the full server queue: the
\* call fails with EINTR, the message is dropped, and the code goes on as it
\* does after any failed send.
InterruptSend(c) ==
  /\ "eintr" \in Faults
  /\ cpc[c] \in Sending
  /\ Full
  /\ cdone' = [cdone EXCEPT ![c] = TRUE]
  /\ Goto(c, IF cpc[c] = "detach" THEN "unlink" ELSE "poll")
  /\ ctemp' = [ctemp EXCEPT ![c] = 0]
  /\ UNCHANGED queueVars

\* The process dies: the kernel closes its descriptors, the queue stays linked.
Crash(c) ==
  /\ "crash" \in Faults
  /\ cpc[c] \in Running
  /\ Goto(c, "crashed")
  /\ ctemp' = [ctemp EXCEPT ![c] = 0]
  /\ UNCHANGED <<queueVars, cdone>>

\* The steps a running client takes by itself, and what happens to it.
ClientStep(c) ==
  \/ Start(c) \/ StartFails(c)
  \/ SendAttach(c) \/ AttachRejected(c)
  \/ Poll(c) \/ Reply(c) \/ SendUrgent(c)
  \/ LeaveLoop(c) \/ SendDetach(c) \/ Unlink(c)

ClientDisturbed(c) == Interrupt(c) \/ InterruptSend(c) \/ Crash(c)

ClientNext == \E c \in Clients : ClientStep(c) \/ ClientDisturbed(c)

=============================================================================

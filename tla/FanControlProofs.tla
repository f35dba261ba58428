-------------------------- MODULE FanControlProofs ---------------------------
(***************************************************************************)
(* Proofs about FanControl for every set of clients, every assignment of   *)
(* module ids, every number of modules, capacity and number of timer       *)
(* threads, and every combination of faults: its types, then, from them,   *)
(* its safety invariants.  The exact count and the descriptors, at the     *)
(* end, need assumptions, which are named there.                           *)
(***************************************************************************)
EXTENDS FanControl, FiniteSetTheorems, TLAPS

-----------------------------------------------------------------------------
(* The helpers of the model keep to their types. *)

LEMMA SlotType ==
  ASSUME NEW c \in Clients
  PROVE  Slot(c) \in Slots /\ QName(c) \in QNames
<1>1. Mid[c] \in Nat /\ ModuleNumber \in Nat \ {0} /\ MaxModule \in Nat \ {0}
  BY FanAssumption
<1>2. \A m \in Nat, n \in Nat \ {0} : m % n \in 0..(n - 1)
  OBVIOUS
<1> QED
  BY <1>1, <1>2 DEF Slot, QName, Slots, QNames

LEMMA SlotsAreNames == Slots \subseteq QNames /\ 0 \in Slots
BY FanAssumption DEF Slots, QNames

LEMMA NewMsgType ==
  ASSUME NEW c \in Clients, NEW type \in MsgTypes, NEW temp \in 0..99
  PROVE  NewMsg(c, type, temp) \in Msg
BY DEF NewMsg, Msg

LEMMA ReadingPrioType ==
  ASSUME NEW t \in 0..99
  PROVE  ReadingPrio(t) \in Prio
BY DEF ReadingPrio, Prio

LEMMA SendType ==
  ASSUME QueuesTypeOK, NEW p \in Prio, NEW m \in Msg, Send(p, m)
  PROVE  sq' \in [Prio -> Seq(Msg)]
BY DEF QueuesTypeOK, Send

LEMMA MsgFields ==
  ASSUME NEW m \in Msg
  PROVE  m.from \in Clients /\ m.type \in MsgTypes /\ m.temp \in 0..99
BY DEF Msg

\* The message mq_receive takes is a message.
LEMMA HeadType ==
  ASSUME QueuesTypeOK, NEW p \in Prio, IsTop(p)
  PROVE  Head(sq[p]) \in Msg /\ Tail(sq[p]) \in Seq(Msg)
BY DEF QueuesTypeOK, IsTop

-----------------------------------------------------------------------------
(* Type correctness. *)

LEMMA InitType == Init => TypeOK
<1> SUFFICES ASSUME Init PROVE TypeOK
  OBVIOUS
<1>1. QueuesTypeOK
  <2>1. sq \in [Prio -> Seq(Msg)]
    BY DEF Init, QueuesInit
  <2>2. cq \in [Clients -> 0..MaxMsgs] /\ names \in [QNames -> Clients \union {NoClient}]
    BY FanAssumption DEF Init, QueuesInit
  <2> QED
    BY <2>1, <2>2 DEF Init, QueuesInit, QueuesTypeOK
<1>2. ClientTypeOK
  BY DEF Init, ClientInit, ClientTypeOK, ClientPc
<1>3. ReceiverTypeOK
  BY DEF Init, ServerInit, ReceiverTypeOK, ServerPc, Handling
<1>4. TableTypeOK
  <2>1. curTemp \in [Slots -> 0..99] /\ attached \in [Slots -> BOOLEAN]
    BY DEF Init, ServerInit
  <2>2. clientQ \in [Slots -> Fds \union {-1}]
    BY FanAssumption DEF Init, ServerInit, Fds
  <2>3. pwm \in [Regs -> 0..PwmMax]
    BY DEF Init, ServerInit, PwmMax
  <2>4. fds \in [Fds -> Clients \union {NoClient, Stdin}] /\ activeNum \in Nat
    BY DEF Init, ServerInit
  <2> QED
    BY <2>1, <2>2, <2>3, <2>4 DEF TableTypeOK
<1>5. TimersTypeOK
  <2>1. /\ tpc \in [Timers -> TimerPc] /\ tidx \in [Timers -> Slots]
        /\ ttarget \in [Timers -> Clients \union {NoClient}]
    BY SlotsAreNames DEF Init, ServerInit, TimerPc
  <2>2. \A t \in Timers : (ttarget[t] # NoClient) <=> (tpc[t] = "blocked")
    BY DEF Init, ServerInit
  <2>3. steady \in [Timers -> SUBSET Slots] /\ maxTemp \in 0..99
    BY DEF Init, ServerInit
  <2> QED
    BY <2>1, <2>2, <2>3 DEF TimersTypeOK
<1> QED
  BY <1>1, <1>2, <1>3, <1>4, <1>5 DEF TypeOK, ServerTypeOK

\* No step of a client touches the server's variables.
LEMMA ClientStepType ==
  ASSUME TypeOK, NEW c \in Clients, ClientStep(c)
  PROVE  QueuesTypeOK' /\ ClientTypeOK'
<1> USE DEF TypeOK, Goto
<1>1. CASE Start(c)
  BY <1>1, SlotType DEF Start, QueuesTypeOK, ClientTypeOK, ClientPc, Running, Sending
<1>2. CASE StartFails(c)
  BY <1>2 DEF StartFails, QueuesTypeOK, ClientTypeOK, ClientPc, queueVars
<1>3. CASE SendAttach(c)
  <2>1. PICK p \in AttachPrios : Send(p, NewMsg(c, "ATTACH", 0))
    BY <1>3 DEF SendAttach
  <2>2. p \in Prio /\ NewMsg(c, "ATTACH", 0) \in Msg
    BY FanAssumption, NewMsgType DEF MsgTypes
  <2> QED
    BY <1>3, <2>1, <2>2, SendType
    DEF SendAttach, QueuesTypeOK, ClientTypeOK, ClientPc, Running
<1>4. CASE AttachRejected(c)
  BY <1>4 DEF AttachRejected, QueuesTypeOK, ClientTypeOK, ClientPc, Running, queueVars
<1>5. CASE Poll(c)
  <2>1. cq' \in [Clients -> 0..MaxMsgs]
    BY <1>5, FanAssumption DEF Poll, QueuesTypeOK
  <2>2. PICK t \in Temps :
          LET label == IF cq[c] > 0 THEN "reply" ELSE Urgency(t)
          IN  Goto(c, label) /\ KeepReading(c, t, label)
    BY <1>5 DEF Poll
  <2>3. t \in 0..99
    BY FanAssumption
  <2>4. cpc' \in [Clients -> ClientPc] /\ ctemp' \in [Clients -> 0..99]
    BY <2>2, <2>3 DEF KeepReading, Urgency, ClientTypeOK, ClientPc, Running, Sending
  <2> QED
    BY <1>5, <2>1, <2>4 DEF Poll, QueuesTypeOK, ClientTypeOK
<1>6. CASE Reply(c)
  <2>1. ctemp[c] \in 0..99
    BY DEF ClientTypeOK
  <2>2. ReadingPrio(ctemp[c]) \in Prio /\ NewMsg(c, "NORMAL", ctemp[c]) \in Msg
    BY <2>1, ReadingPrioType, NewMsgType DEF MsgTypes
  <2>3. sq' \in [Prio -> Seq(Msg)]
    BY <1>6, <2>2, SendType DEF Reply
  <2>4. cpc' \in [Clients -> ClientPc] /\ ctemp' \in [Clients -> 0..99]
    BY <1>6, <2>1
    DEF Reply, KeepReading, Urgency, ClientTypeOK, ClientPc, Running, Sending
  <2> QED
    BY <1>6, <2>3, <2>4 DEF Reply, QueuesTypeOK, ClientTypeOK
<1>7. CASE SendUrgent(c)
  <2>1. ctemp[c] \in 0..99
    BY DEF ClientTypeOK
  <2>2. ReadingPrio(ctemp[c]) \in Prio /\ NewMsg(c, "URGENT", ctemp[c]) \in Msg
    BY <2>1, ReadingPrioType, NewMsgType DEF MsgTypes
  <2>3. sq' \in [Prio -> Seq(Msg)]
    BY <1>7, <2>2, SendType DEF SendUrgent
  <2>4. cpc' \in [Clients -> ClientPc] /\ ctemp' \in [Clients -> 0..99]
    BY <1>7, <2>1 DEF SendUrgent, KeepReading, ClientTypeOK, ClientPc, Running
  <2> QED
    BY <1>7, <2>3, <2>4 DEF SendUrgent, QueuesTypeOK, ClientTypeOK
<1>8. CASE LeaveLoop(c)
  BY <1>8 DEF LeaveLoop, QueuesTypeOK, ClientTypeOK, ClientPc, Running, Sending, queueVars
<1>9. CASE SendDetach(c)
  <2>1. DetachPrio \in Prio /\ NewMsg(c, "DETACH", 0) \in Msg
    BY NewMsgType DEF MsgTypes, DetachPrio, Prio
  <2>2. sq' \in [Prio -> Seq(Msg)]
    BY <1>9, <2>1, SendType DEF SendDetach
  <2> QED
    BY <1>9, <2>2 DEF SendDetach, QueuesTypeOK, ClientTypeOK, ClientPc, Running
<1>10. CASE Unlink(c)
  BY <1>10, SlotType DEF Unlink, QueuesTypeOK, ClientTypeOK, ClientPc
<1> QED
  BY <1>1, <1>2, <1>3, <1>4, <1>5, <1>6, <1>7, <1>8, <1>9, <1>10 DEF ClientStep

LEMMA ClientDisturbedType ==
  ASSUME TypeOK, NEW c \in Clients, ClientDisturbed(c)
  PROVE  QueuesTypeOK' /\ ClientTypeOK'
<1>1. QueuesTypeOK'
  BY DEF TypeOK, ClientDisturbed, Interrupt, InterruptSend, Crash, QueuesTypeOK, queueVars
<1>2. ClientTypeOK /\ "poll" \in ClientPc /\ "unlink" \in ClientPc /\ "crashed" \in ClientPc
  BY DEF TypeOK, ClientPc, Running
<1>3. CASE Interrupt(c)
  BY <1>1, <1>2, <1>3 DEF Interrupt, ClientTypeOK
<1>4. CASE InterruptSend(c)
  BY <1>1, <1>2, <1>4 DEF InterruptSend, Goto, ClientTypeOK
<1>5. CASE Crash(c)
  BY <1>1, <1>2, <1>5 DEF Crash, Goto, ClientTypeOK
<1> QED
  BY <1>3, <1>4, <1>5 DEF ClientDisturbed

LEMMA UnsteadyType ==
  ASSUME TimersTypeOK, NEW s \in Slots, Unsteady(s), UNCHANGED <<tpc, tidx, ttarget, maxTemp>>
  PROVE  TimersTypeOK'
BY DEF TimersTypeOK, Unsteady

\* The duty cycle becomes a 16-bit count.
LEMMA CountType ==
  ASSUME NEW duty \in Int
  PROVE  general_set_speed(duty) \in 0..PwmMax
<1>1. \A x \in Int, n \in Nat \ {0} : x % n \in 0..(n - 1)
  BY SMT
<1>2. PwmMax \in Nat /\ PwmStep \in Nat
  BY SMT DEF PwmMax, PwmStep
<1>3. PICK x \in Int : x = duty * PwmStep
  BY <1>2, SMT
<1>4. PICK n \in Nat \ {0} : n = PwmMax + 1
  BY <1>2, SMT
<1>5. x % n \in 0..(n - 1) /\ n - 1 = PwmMax
  BY <1>1, <1>2, <1>4, SMT
<1>6. general_set_speed(duty) = x % n
  BY <1>3, <1>4, Zenon DEF general_set_speed
<1> QED
  BY <1>5, <1>6, Zenon

LEMMA FanOpType ==
  ASSUME TableTypeOK, NEW s \in Slots, NEW temp \in 0..99, module_fan_op(s, temp)
  PROVE  pwm' \in [Regs -> 0..PwmMax]
<1>1. temp2speed(temp) \in Int
  BY DEF temp2speed
<1>2. general_set_speed(temp2speed(temp)) \in 0..PwmMax
  BY <1>1, CountType
<1> QED
  BY <1>2 DEF TableTypeOK, module_fan_op

LEMMA AttachType ==
  ASSUME TableTypeOK, NEW s \in Slots, Attach(s)
  PROVE  attached' \in [Slots -> BOOLEAN] /\ activeNum' \in Nat
<1>1. CASE attached[s]
  BY <1>1 DEF Attach, TableTypeOK
<1>2. CASE ~attached[s]
  <2>1. attached' = [attached EXCEPT ![s] = TRUE] /\ activeNum' = activeNum + 1
    BY <1>2 DEF Attach
  <2> QED
    BY <2>1 DEF TableTypeOK
<1> QED
  BY <1>1, <1>2

LEMMA ReceiverStepType ==
  ASSUME TypeOK, ReceiverStep
  PROVE  QueuesTypeOK' /\ ServerTypeOK'
<1>q. QueuesTypeOK /\ ReceiverTypeOK /\ TableTypeOK /\ TimersTypeOK
  BY DEF TypeOK, ServerTypeOK
<1>u. UNCHANGED tableVars /\ UNCHANGED pwm => TableTypeOK'
  BY <1>q DEF tableVars, TableTypeOK
<1>t. UNCHANGED timerVars => TimersTypeOK'
  BY <1>q DEF timerVars, TimersTypeOK
<1>v. UNCHANGED queueVars => QueuesTypeOK'
  BY <1>q DEF queueVars, QueuesTypeOK
<1>s. ASSUME smsg # NoMsg
      PROVE  Slot(smsg.from) \in Slots /\ smsg.temp \in 0..99 /\ smsg \in Msg
  BY <1>q, <1>s, MsgFields, SlotType DEF ReceiverTypeOK
<1>1. CASE StartServer
  <2>1. QueuesTypeOK' /\ ReceiverTypeOK'
    BY <1>q, <1>1 DEF StartServer, QueuesTypeOK, ReceiverTypeOK, ServerPc, Handling
  <2> QED
    BY <1>1, <1>u, <1>t, <2>1 DEF StartServer, ServerTypeOK
<1>2. CASE EnterLoop
  <2>1. ReceiverTypeOK'
    BY <1>q, <1>2 DEF EnterLoop, ReceiverTypeOK, ServerPc, Handling
  <2> QED
    BY <1>2, <1>u, <1>t, <1>v, <2>1 DEF EnterLoop, ServerTypeOK
<1>3. CASE Shutdown
  <2>1. QueuesTypeOK' /\ ReceiverTypeOK'
    BY <1>q, <1>3 DEF Shutdown, QueuesTypeOK, ReceiverTypeOK, ServerPc, Handling
  <2>2. TimersTypeOK'
    BY <1>q, <1>3, SlotsAreNames DEF Shutdown, TimersTypeOK, TimerPc
  <2> QED
    BY <1>3, <1>u, <2>1, <2>2 DEF Shutdown, ServerTypeOK
<1>4. CASE Block
  <2>1. ReceiverTypeOK'
    BY <1>q, <1>4 DEF Block, ReceiverTypeOK, ServerPc, Handling
  <2> QED
    BY <1>4, <1>u, <1>t, <1>v, <2>1 DEF Block, ServerTypeOK
<1>5. CASE Receive
  <2>1. PICK p \in Prio :
          /\ IsTop(p)
          /\ sq' = [sq EXCEPT ![p] = Tail(@)]
          /\ ReceiveOther(Head(sq[p])) \/ ReceiveDetach(Head(sq[p]))
    BY <1>5 DEF Receive
  <2> DEFINE m == Head(sq[p])
  <2>2. m \in Msg /\ Tail(sq[p]) \in Seq(Msg)
    BY <1>q, <2>1, HeadType
  <2>3. QueuesTypeOK'
    BY <1>q, <1>5, <2>1, <2>2 DEF Receive, QueuesTypeOK
  <2>4. ReceiverTypeOK' /\ TableTypeOK'
    <3>0. Slot(m.from) \in Slots
      BY <2>2, MsgFields, SlotType
    <3>1. /\ attached' \in [Slots -> BOOLEAN]
          /\ activeNum' \in Nat
      <4>1. CASE ReceiveOther(m)
        <5>1. Attach(Slot(m.from))
          BY <4>1 DEF ReceiveOther
        <5> QED
          BY <1>q, <3>0, <5>1, AttachType
      <4>2. CASE ReceiveDetach(m)
        BY <1>q, <4>2 DEF ReceiveDetach, Uncount, TableTypeOK
      <4> QED
        BY <2>1, <4>1, <4>2
    <3>2. ReceiverTypeOK'
      BY <1>q, <1>5, <2>1, <2>2, NoMsgAssumption
      DEF Receive, ReceiveOther, ReceiveDetach, AfterOpen, ReceiverTypeOK, ServerPc,
          Handling
    <3> QED
      BY <1>q, <1>5, <3>1, <3>2 DEF Receive, TableTypeOK
  <2> QED
    BY <1>5, <1>t, <2>3, <2>4 DEF Receive, ServerTypeOK
<1>6. CASE OpenQueue
  <2>1. smsg # NoMsg
    BY <1>q, <1>6 DEF OpenQueue, ReceiverTypeOK, Handling
  <2>2. names[Slot(smsg.from)] \in Clients \union {NoClient}
    BY <1>q, <1>s, <2>1, SlotsAreNames DEF QueuesTypeOK
  <2>3. clientQ' \in [Slots -> Fds \union {-1}]
    BY <1>q, <1>6, <1>s, <2>1 DEF OpenQueue, TableTypeOK
  <2>4. fds' \in [Fds -> Clients \union {NoClient, Stdin}]
    BY <1>q, <1>6, <2>2 DEF OpenQueue, TableTypeOK
  <2>5. ReceiverTypeOK'
    BY <1>q, <1>6, <1>s, <2>1 DEF OpenQueue, AfterOpen, ReceiverTypeOK, ServerPc, Handling
  <2> QED
    BY <1>q, <1>6, <1>t, <1>v, <2>3, <2>4, <2>5 DEF OpenQueue, ServerTypeOK, TableTypeOK
<1>7. CASE Store
  <2>1. smsg # NoMsg
    BY <1>q, <1>7 DEF Store, ReceiverTypeOK, Handling
  <2>2. TableTypeOK'
    BY <1>q, <1>7, <1>s, <2>1 DEF Store, TableTypeOK
  <2>3. ReceiverTypeOK'
    BY <1>q, <1>7 DEF Store, ReturnToLoop, ReceiverTypeOK, ServerPc, Handling
  <2>4. TimersTypeOK'
    BY <1>q, <1>7, <1>s, <2>1, UnsteadyType DEF Store
  <2> QED
    BY <1>7, <1>v, <2>2, <2>3, <2>4 DEF Store, ServerTypeOK
<1>8. CASE SetUrgentSpeed
  <2>1. smsg # NoMsg
    BY <1>q, <1>8 DEF SetUrgentSpeed, ReceiverTypeOK, Handling
  <2>2. curTemp[Slot(smsg.from)] \in 0..99
    BY <1>q, <1>s, <2>1 DEF TableTypeOK
  <2>3. TableTypeOK'
    BY <1>q, <1>8, <1>s, <2>1, <2>2, FanOpType DEF SetUrgentSpeed, TableTypeOK, tableVars
  <2>4. ReceiverTypeOK'
    BY <1>q, <1>8 DEF SetUrgentSpeed, ReturnToLoop, ReceiverTypeOK, ServerPc, Handling
  <2> QED
    BY <1>8, <1>t, <1>v, <2>3, <2>4 DEF SetUrgentSpeed, ServerTypeOK
<1>9. CASE CloseQueue
  <2>1. TableTypeOK'
    BY <1>q, <1>9 DEF CloseQueue, TableTypeOK
  <2>2. ReceiverTypeOK'
    BY <1>q, <1>9 DEF CloseQueue, ReceiverTypeOK, ServerPc, Handling
  <2> QED
    BY <1>9, <1>t, <1>v, <2>1, <2>2 DEF CloseQueue, ServerTypeOK
<1>10. CASE ClearModule
  <2>1. smsg # NoMsg
    BY <1>q, <1>10 DEF ClearModule, ReceiverTypeOK, Handling
  <2>2. TableTypeOK'
    BY <1>q, <1>10, <1>s, <2>1 DEF ClearModule, TableTypeOK
  <2>3. ReceiverTypeOK'
    BY <1>q, <1>10 DEF ClearModule, ReturnToLoop, ReceiverTypeOK, ServerPc, Handling
  <2>4. TimersTypeOK'
    BY <1>q, <1>10, <1>s, <2>1, UnsteadyType DEF ClearModule
  <2> QED
    BY <1>10, <1>v, <2>2, <2>3, <2>4 DEF ClearModule, ServerTypeOK
<1> QED
  BY <1>1, <1>2, <1>3, <1>4, <1>5, <1>6, <1>7, <1>8, <1>9, <1>10 DEF ReceiverStep

LEMMA InterruptServerType ==
  ASSUME TypeOK, InterruptServer
  PROVE  QueuesTypeOK' /\ ServerTypeOK'
BY DEF TypeOK, InterruptServer, QueuesTypeOK, queueVars, ServerTypeOK, ReceiverTypeOK,
       TableTypeOK, TimersTypeOK, tableVars, timerVars, ServerPc, Handling

\* A pass of a timer thread stays on the modules there are.
LEMMA AdvanceType ==
  ASSUME TimersTypeOK, NEW t \in Timers, NEW pass \in TimerPc, NEW nextPass \in TimerPc,
         Advance(t, pass, nextPass)
  PROVE  /\ tidx' \in [Timers -> Slots] /\ tpc' \in [Timers -> TimerPc]
         /\ \A u \in Timers \ {t} : tpc'[u] = tpc[u]
         /\ tpc'[t] \in {pass, nextPass}
<1>1. tidx[t] + 1 < ModuleNumber => tidx[t] + 1 \in Slots
  BY FanAssumption DEF TimersTypeOK, Slots
<1> QED
  BY <1>1, SlotsAreNames DEF Advance, TimersTypeOK

LEMMA TimerStepType ==
  ASSUME TypeOK, NEW t \in Timers, TimerStep(t)
  PROVE  QueuesTypeOK' /\ ServerTypeOK'
<1>q. QueuesTypeOK /\ ReceiverTypeOK /\ TableTypeOK /\ TimersTypeOK
  BY DEF TypeOK, ServerTypeOK
<1>r. UNCHANGED receiverVars => ReceiverTypeOK'
  BY <1>q DEF receiverVars, ReceiverTypeOK
<1>u. UNCHANGED tableVars /\ UNCHANGED pwm => TableTypeOK'
  BY <1>q DEF tableVars, TableTypeOK
<1>v. UNCHANGED queueVars => QueuesTypeOK'
  BY <1>q DEF queueVars, QueuesTypeOK
<1>p. {"idle", "check", "compare", "take", "speed", "query", "send", "blocked"} \subseteq TimerPc
  BY DEF TimerPc
<1>s. tidx[t] \in Slots /\ curTemp[tidx[t]] \in 0..99 /\ maxTemp \in 0..99
  BY <1>q DEF TimersTypeOK, TableTypeOK
<1>1. CASE Expire(t)
  <2>1. TimersTypeOK'
    BY <1>q, <1>1, <1>p DEF Expire, TimersTypeOK
  <2> QED
    BY <1>1, <1>r, <1>u, <1>v, <2>1 DEF Expire, ServerTypeOK
<1>2. CASE CheckActive(t)
  <2>1. TimersTypeOK'
    BY <1>q, <1>2, <1>p DEF CheckActive, TimersTypeOK
  <2> QED
    BY <1>2, <1>r, <1>u, <1>v, <2>1 DEF CheckActive, ServerTypeOK
<1>3. CASE Compare(t)
  <2>1. steady' \in [Timers -> SUBSET Slots]
    BY <1>q, <1>3 DEF Compare, EndSteady, TimersTypeOK
  <2>2. CASE Exceeds(t) /\ tpc' = [tpc EXCEPT ![t] = "take"] /\ UNCHANGED tidx
    BY <1>q, <1>3, <1>p, <2>1, <2>2, <1>r, <1>u, <1>v
    DEF Compare, TimersTypeOK, ServerTypeOK
  <2>3. CASE Advance(t, "compare", "speed")
    <3>1. TimersTypeOK'
      BY <1>q, <1>3, <1>p, <2>1, <2>3, AdvanceType DEF Compare, TimersTypeOK
    <3> QED
      BY <1>3, <1>r, <1>u, <1>v, <3>1 DEF Compare, ServerTypeOK
  <2> QED
    BY <1>3, <2>2, <2>3 DEF Compare
<1>4. CASE Take(t)
  <2>1. steady' \in [Timers -> SUBSET Slots] /\ maxTemp' \in 0..99
    BY <1>q, <1>4, <1>s DEF Take, EndSteady, TimersTypeOK
  <2>2. Advance(t, "compare", "speed")
    BY <1>4 DEF Take
  <2>3. TimersTypeOK'
    BY <1>q, <1>4, <1>p, <2>1, <2>2, AdvanceType DEF Take, TimersTypeOK
  <2> QED
    BY <1>4, <1>r, <1>u, <1>v, <2>3 DEF Take, ServerTypeOK
<1>5. CASE SetSpeed(t)
  <2>1. TableTypeOK'
    BY <1>q, <1>5, <1>s, FanOpType DEF SetSpeed, TableTypeOK, tableVars
  <2>2. Advance(t, "speed", "query")
    BY <1>5 DEF SetSpeed
  <2>3. TimersTypeOK'
    BY <1>q, <1>5, <1>p, <2>2, AdvanceType DEF SetSpeed, TimersTypeOK
  <2> QED
    BY <1>5, <1>r, <1>v, <2>1, <2>3 DEF SetSpeed, ServerTypeOK
<1>6. CASE TestModule(t)
  <2>1. CASE tpc' = [tpc EXCEPT ![t] = "send"] /\ UNCHANGED tidx
    BY <1>q, <1>6, <1>p, <1>r, <1>u, <1>v, <2>1 DEF TestModule, TimersTypeOK, ServerTypeOK
  <2>2. CASE Advance(t, "query", "idle")
    <3>1. TimersTypeOK'
      BY <1>q, <1>6, <1>p, <2>2, AdvanceType DEF TestModule, TimersTypeOK
    <3> QED
      BY <1>6, <1>r, <1>u, <1>v, <3>1 DEF TestModule, ServerTypeOK
  <2> QED
    BY <1>6, <2>1, <2>2 DEF TestModule
<1>7. CASE Query(t)
  <2> DEFINE c == QueryTarget(t)
  <2>1. c \in Clients \union {NoClient}
    BY <1>q, <1>s DEF QueryTarget, TableTypeOK
  <2>2. QueuesTypeOK'
    BY <1>q, <1>7, <2>1, FanAssumption DEF Query, Deliver, QueuesTypeOK
  <2>3. CASE Advance(t, "query", "idle") /\ UNCHANGED ttarget
    <3>1. TimersTypeOK'
      BY <1>q, <1>7, <1>p, <2>3, AdvanceType DEF Query, TimersTypeOK
    <3> QED
      BY <1>7, <1>r, <1>u, <2>2, <3>1 DEF Query, ServerTypeOK, tableVars
  <2>4. CASE /\ c # NoClient /\ tpc' = [tpc EXCEPT ![t] = "blocked"]
             /\ ttarget' = [ttarget EXCEPT ![t] = c] /\ UNCHANGED tidx
    <3>1. TimersTypeOK'
      BY <1>q, <1>7, <1>p, <2>1, <2>4 DEF Query, TimersTypeOK
    <3> QED
      BY <1>7, <1>r, <1>u, <2>2, <3>1 DEF Query, ServerTypeOK, tableVars
  <2> QED
    BY <1>7, <2>3, <2>4 DEF Query
<1>8. CASE QueryUnblocked(t)
  <2>1. QueuesTypeOK'
    <3>1. ttarget[t] \in Clients
      BY <1>q, <1>8 DEF QueryUnblocked, TimersTypeOK
    <3>2. cq' \in [Clients -> 0..MaxMsgs]
      BY <1>q, <1>8, <3>1, FanAssumption DEF QueryUnblocked, Deliver, QueuesTypeOK
    <3> QED
      BY <1>q, <1>8, <3>2 DEF QueryUnblocked, QueuesTypeOK
  <2>2. Advance(t, "query", "idle")
    BY <1>8 DEF QueryUnblocked
  <2>3. TimersTypeOK'
    BY <1>q, <1>8, <1>p, <2>2, AdvanceType DEF QueryUnblocked, TimersTypeOK
  <2> QED
    BY <1>8, <1>r, <1>u, <2>1, <2>3 DEF QueryUnblocked, ServerTypeOK
<1> QED
  BY <1>1, <1>2, <1>3, <1>4, <1>5, <1>6, <1>7, <1>8 DEF TimerStep

LEMMA ExpireBesideType ==
  ASSUME TypeOK, NEW t \in Timers, ExpireBeside(t)
  PROVE  TypeOK'
<1>1. TimersTypeOK'
  BY SlotsAreNames DEF ExpireBeside, TypeOK, ServerTypeOK, TimersTypeOK, TimerPc
<1> QED
  BY <1>1
  DEF ExpireBeside, TypeOK, ServerTypeOK, QueuesTypeOK, ClientTypeOK, ReceiverTypeOK,
      TableTypeOK, queueVars, clientVars, receiverVars, tableVars

LEMMA NextType ==
  ASSUME TypeOK, [Next]_vars
  PROVE  TypeOK'
<1>1. CASE ClientNext /\ UNCHANGED serverVars
  <2>1. QueuesTypeOK' /\ ClientTypeOK'
    BY <1>1, ClientStepType, ClientDisturbedType DEF ClientNext
  <2>2. ServerTypeOK'
    BY <1>1 DEF serverVars, receiverVars, tableVars, timerVars, TypeOK, ServerTypeOK,
                ReceiverTypeOK, TableTypeOK, TimersTypeOK
  <2> QED
    BY <2>1, <2>2 DEF TypeOK
<1>2. CASE ServerNext /\ UNCHANGED clientVars
  <2>1. QueuesTypeOK' /\ ServerTypeOK'
    BY <1>2, ReceiverStepType, InterruptServerType, TimerStepType DEF ServerNext
  <2>2. ClientTypeOK'
    BY <1>2 DEF clientVars, TypeOK, ClientTypeOK
  <2> QED
    BY <2>1, <2>2 DEF TypeOK
<1>3. CASE \E t \in Timers : ExpireBeside(t)
  BY <1>3, ExpireBesideType
<1>4. CASE UNCHANGED vars
  <2>1. QueuesTypeOK' /\ ClientTypeOK'
    BY <1>4 DEF vars, queueVars, clientVars, TypeOK, QueuesTypeOK, ClientTypeOK
  <2>2. ReceiverTypeOK' /\ TableTypeOK'
    BY <1>4 DEF vars, serverVars, receiverVars, tableVars, TypeOK, ServerTypeOK,
                ReceiverTypeOK, TableTypeOK
  <2>3. TimersTypeOK'
    BY <1>4 DEF vars, serverVars, timerVars, TypeOK, ServerTypeOK, TimersTypeOK
  <2> QED
    BY <2>1, <2>2, <2>3 DEF TypeOK, ServerTypeOK
<1> QED
  BY <1>1, <1>2, <1>3, <1>4 DEF Next

\* Every variable keeps its type, in particular no count becomes negative, no
\* index leaves the module table, the PWM counts fit in 16 bits, and a message
\* is being handled exactly while the receiver is inside its switch.
THEOREM TypeCorrect == Spec => []TypeOK
<1>1. Init => TypeOK
  BY InitType
<1>2. TypeOK /\ [Next]_vars => TypeOK'
  BY NextType
<1> QED
  BY <1>1, <1>2, PTL DEF Spec

-----------------------------------------------------------------------------
\* What the steps of the server leave to the clients.
LEMMA ServerLeaves ==
  ASSUME \/ ServerNext /\ UNCHANGED clientVars
         \/ \E t \in Timers : ExpireBeside(t)
  PROVE  UNCHANGED <<cpc, names>>
BY DEF ServerNext, ReceiverStep, StartServer, EnterLoop, Shutdown, Block, Receive,
       OpenQueue, Store, SetUrgentSpeed, CloseQueue, ClearModule, InterruptServer,
       TimerStep, Expire, CheckActive, Compare, Take, SetSpeed, TestModule, Query, QueryUnblocked,
       ExpireBeside, clientVars, queueVars

-----------------------------------------------------------------------------
(***************************************************************************)
(* QueueOwned is inductive: O_EXCL admits a process only when the name is  *)
(* free, and only the process that owns the name unlinks it.               *)
(***************************************************************************)
LEMMA QueueOwnedClient ==
  ASSUME TypeOK, QueueOwned, NEW c \in Clients, ClientStep(c) \/ ClientDisturbed(c)
  PROVE  QueueOwned'
<1> SUFFICES ASSUME NEW d \in Clients, cpc'[d] \in Running
             PROVE  names'[QName(d)] = d
  BY DEF QueueOwned
<1>t. /\ cpc \in [Clients -> ClientPc] /\ names \in [QNames -> Clients \union {NoClient}]
      /\ QName(c) \in QNames /\ QName(d) \in QNames /\ d # NoClient
  BY SlotType, FanAssumption DEF TypeOK, ClientTypeOK, QueuesTypeOK
<1>1. CASE Start(c)
  <2>1. CASE d = c
    BY <1>1, <1>t, <2>1 DEF Start
  <2>2. CASE d # c
    <3>1. cpc[d] \in Running
      BY <1>1, <1>t, <2>2 DEF Start, Goto
    <3>2. names[QName(d)] = d
      BY <3>1 DEF QueueOwned
    <3> QED
      BY <1>1, <1>t, <3>2 DEF Start
  <2> QED
    BY <2>1, <2>2
<1>2. CASE Unlink(c)
  <2>1. d # c /\ cpc[d] \in Running
    BY <1>2, <1>t DEF Unlink, Goto, Running, Sending
  <2>2. names[QName(d)] = d /\ names[QName(c)] = c
    BY <1>2, <2>1 DEF QueueOwned, Unlink, Running
  <2> QED
    BY <1>2, <1>t, <2>1, <2>2 DEF Unlink
<1>3. CASE ~Start(c) /\ ~Unlink(c)
  <2>1. names' = names
    BY <1>3 DEF ClientStep, ClientDisturbed, StartFails, SendAttach, AttachRejected, Poll,
                Reply, SendUrgent, LeaveLoop, SendDetach, Interrupt, InterruptSend, Crash,
                queueVars
  <2>2. cpc[d] \in Running
    <3>1. CASE d = c
      BY <1>3, <1>t, <3>1
      DEF ClientStep, ClientDisturbed, StartFails, SendAttach, AttachRejected, Poll, Reply,
          SendUrgent, LeaveLoop, SendDetach, Interrupt, InterruptSend, Crash, Goto,
          Running, Sending
    <3>2. CASE d # c
      BY <1>3, <1>t, <3>2
      DEF ClientStep, ClientDisturbed, StartFails, SendAttach, AttachRejected, Poll, Reply,
          SendUrgent, LeaveLoop, SendDetach, Interrupt, InterruptSend, Crash, Goto
    <3> QED
      BY <3>1, <3>2
  <2> QED
    BY <2>1, <2>2 DEF QueueOwned
<1> QED
  BY <1>1, <1>2, <1>3

\* README: "if a module with the same ID already exists, client will NOT run":
\* at most one process per queue name runs, and the name is linked to its
\* queue, however many processes start, detach, exit or crash.
THEOREM OneClientPerName == Spec => []QueueOwned
<1>1. Init => QueueOwned
  BY DEF Init, ClientInit, QueueOwned, Running, Sending
<1>2. TypeOK /\ QueueOwned /\ [Next]_vars => QueueOwned'
  <2> SUFFICES ASSUME TypeOK, QueueOwned, [Next]_vars
               PROVE  QueueOwned'
    OBVIOUS
  <2>1. CASE ClientNext
    BY <2>1, QueueOwnedClient DEF ClientNext
  <2>2. CASE UNCHANGED <<cpc, names>>
    BY <2>2 DEF QueueOwned
  <2> QED
    BY <2>1, <2>2, ServerLeaves DEF Next, vars, queueVars, clientVars
<1>3. Spec => []TypeOK
  BY TypeCorrect
<1> QED
  BY <1>1, <1>2, <1>3, PTL DEF Spec

-----------------------------------------------------------------------------
(***************************************************************************)
(* CountNeverExceeds is inductive: a module is counted when it enters the  *)
(* table, and each DETACH subtracts before it clears the entry.            *)
(***************************************************************************)
LEMMA SlotSets ==
  ASSUME NEW S \in SUBSET Slots, NEW s
  PROVE  /\ IsFiniteSet(S) /\ Cardinality(S) \in Nat
         /\ Cardinality(S \union {s}) = IF s \in S THEN Cardinality(S) ELSE Cardinality(S) + 1
         /\ Cardinality(S \ {s}) = IF s \in S THEN Cardinality(S) - 1 ELSE Cardinality(S)
<1>1. IsFiniteSet(Slots)
  BY FS_Interval, FanAssumption DEF Slots
<1>2. IsFiniteSet(S)
  BY <1>1, FS_Subset
<1> QED
  BY <1>2, FS_CardinalityType, FS_AddElement, FS_RemoveElement

\* Every step but Receive and ClearModule leaves the count and the table alone.
LEMMA CountUntouched ==
  ASSUME [Next]_vars, ~Receive, ~ClearModule
  PROVE  UNCHANGED <<activeNum, attached>>
BY DEF Next, vars, serverVars, tableVars, receiverVars, ClientNext, ServerNext, ReceiverStep,
       StartServer, EnterLoop, Shutdown, Block, OpenQueue, Store, SetUrgentSpeed,
       CloseQueue, InterruptServer, TimerStep, Expire, CheckActive, Compare, Take,
       SetSpeed, TestModule, Query, QueryUnblocked, ExpireBeside

\* Nor does it change which module is being detached.
LEMMA DetachingUntouched ==
  ASSUME TypeOK, [Next]_vars, ~Receive, ~ClearModule
  PROVE  /\ spc' \in {"close", "clear"} <=> spc \in {"close", "clear"}
         /\ spc \in {"close", "clear"} => smsg' = smsg
<1>1. CASE UNCHANGED <<spc, smsg>>
  BY <1>1
<1>2. CASE ReceiverStep
  BY <1>2 DEF ReceiverStep, StartServer, EnterLoop, Shutdown, Block, OpenQueue, AfterOpen,
              Store, SetUrgentSpeed, CloseQueue, ReturnToLoop
<1>3. CASE InterruptServer
  BY <1>3 DEF InterruptServer
<1>4. CASE \E t \in Timers : TimerStep(t)
  BY <1>1, <1>4 DEF TimerStep, Expire, CheckActive, Compare, Take, SetSpeed, TestModule, Query,
                    QueryUnblocked, receiverVars
<1> QED
  BY <1>1, <1>2, <1>3, <1>4
  DEF Next, vars, serverVars, receiverVars, ClientNext, ServerNext, ExpireBeside

LEMMA CountStep ==
  ASSUME TypeOK, CountNeverExceeds, [Next]_vars
  PROVE  CountNeverExceeds'
<1>t. /\ ActiveSlots \subseteq Slots /\ CountedSlots \subseteq Slots
      /\ attached \in [Slots -> BOOLEAN] /\ activeNum \in Nat
  BY DEF ActiveSlots, CountedSlots, TypeOK, ServerTypeOK, TableTypeOK
<1>1. CASE Receive
  <2>1. PICK p \in Prio : /\ IsTop(p)
                          /\ ReceiveOther(Head(sq[p])) \/ ReceiveDetach(Head(sq[p]))
    BY <1>1 DEF Receive
  <2> DEFINE m == Head(sq[p])
  <2>2. Slot(m.from) \in Slots
    <3>0. QueuesTypeOK
      BY DEF TypeOK
    <3>1. m \in Msg /\ Tail(sq[p]) \in Seq(Msg)
      BY <2>1, <3>0, HeadType
    <3> HIDE DEF m
    <3> QED
      BY <3>1, MsgFields, SlotType
  <2>3. CountedSlots = ActiveSlots
    BY <1>1 DEF Receive, CountedSlots
  <2>4. CASE ReceiveOther(m)
    <3>1. spc' \notin {"close", "clear"} /\ Attach(Slot(m.from))
      BY <2>4 DEF ReceiveOther, AfterOpen
    <3> DEFINE s == Slot(m.from)
    <3> HIDE DEF s, m
    <3>2. ActiveSlots' = ActiveSlots \union {s}
      BY <1>t, <2>2, <3>1 DEF Attach, ActiveSlots, s
    <3>3. activeNum' = IF s \in ActiveSlots THEN activeNum ELSE activeNum + 1
      BY <1>t, <2>2, <3>1 DEF Attach, ActiveSlots, s
    <3>4. CountedSlots' = ActiveSlots'
      BY <3>1 DEF CountedSlots
    <3> QED
      BY <1>t, <2>3, <3>2, <3>3, <3>4, SlotSets DEF CountNeverExceeds
  <2>5. CASE ReceiveDetach(m)
    <3> HIDE DEF m
    <3>1. CountedSlots' = ActiveSlots \ {Slot(m.from)}
      <4>1. spc' = "close" /\ smsg' = m /\ attached' = attached
        BY <2>5 DEF ReceiveDetach
      <4> QED
        BY <4>1 DEF CountedSlots, ActiveSlots, Slot
    <3>2. activeNum' = Uncount(activeNum)
      BY <2>5 DEF ReceiveDetach
    <3> DEFINE s == Slot(m.from)
    <3> HIDE DEF s
    <3>3. /\ Cardinality(ActiveSlots) \in Nat
          /\ Cardinality(ActiveSlots \ {s}) =
               IF s \in ActiveSlots THEN Cardinality(ActiveSlots) - 1
                                    ELSE Cardinality(ActiveSlots)
      BY <1>t, SlotSets
    <3>4. CountedSlots' = ActiveSlots \ {s}
      BY <3>1 DEF s
    <3>6. Cardinality(ActiveSlots \ {s}) \in Nat
      BY <1>t, SlotSets
    <3>5. activeNum <= Cardinality(ActiveSlots)
      BY <2>3 DEF CountNeverExceeds
    <3> QED
      BY <1>t, <3>2, <3>3, <3>4, <3>5, <3>6 DEF CountNeverExceeds, Uncount
  <2> QED
    BY <2>1, <2>4, <2>5
<1>2. CASE ClearModule
  <2>1. Slot(smsg.from) \in Slots
    BY <1>2, MsgFields, SlotType
    DEF ClearModule, TypeOK, ServerTypeOK, ReceiverTypeOK, Handling
  <2>2. CountedSlots' = CountedSlots /\ activeNum' = activeNum
    BY <1>2, <1>t, <2>1 DEF ClearModule, ReturnToLoop, CountedSlots, ActiveSlots
  <2> QED
    BY <2>2 DEF CountNeverExceeds
<1>3. CASE ~Receive /\ ~ClearModule
  <2>1. UNCHANGED <<activeNum, attached>>
    BY <1>3, CountUntouched
  <2>2. /\ spc' \in {"close", "clear"} <=> spc \in {"close", "clear"}
        /\ spc \in {"close", "clear"} => smsg' = smsg
    BY <1>3, DetachingUntouched
  <2> QED
    BY <2>1, <2>2 DEF CountNeverExceeds, CountedSlots, ActiveSlots
<1> QED
  BY <1>1, <1>2, <1>3

\* active_fan_num never exceeds the modules in the table, although a DETACH of
\* a module that never attached is subtracted as well.
THEOREM CountBounded == Spec => []CountNeverExceeds
<1>1. Init => CountNeverExceeds
  <2> SUFFICES ASSUME Init PROVE CountNeverExceeds
    OBVIOUS
  <2>1. CountedSlots = {} /\ activeNum = 0
    BY DEF Init, ServerInit, CountedSlots, ActiveSlots
  <2> QED
    BY <2>1, FS_EmptySet DEF CountNeverExceeds
<1>2. TypeOK /\ CountNeverExceeds /\ [Next]_vars => CountNeverExceeds'
  BY CountStep
<1>3. Spec => []TypeOK
  BY TypeCorrect
<1> QED
  BY <1>1, <1>2, <1>3, PTL DEF Spec

-----------------------------------------------------------------------------
(***************************************************************************)
(* DetachLast needs to know where a DETACH can be: at the lowest priority, *)
(* behind everything else its client has sent, and the client has left its *)
(* loop for good.                                                          *)
(***************************************************************************)
Gone == {"unlink", "exited", "crashed"}

\* i is the position of a DETACH behind which nothing of its client waits.
LastOf(queue, i) ==
  \A j \in 1..Len(queue) : j > i => queue[j].from # queue[i].from

DetachesWait ==
  \A p \in Prio : \A i \in 1..Len(sq[p]) :
    sq[p][i].type = "DETACH" =>
      p = 0 /\ cpc[sq[p][i].from] \in Gone /\ LastOf(sq[p], i)

DetachHandled ==
  smsg # NoMsg => (smsg.type = "DETACH" => cpc[smsg.from] \in Gone)

DetachInv == DetachesWait /\ DetachHandled /\ DetachLast

\* A message of a client that is still in its loop may join the queue, and so
\* may the DETACH with which it leaves.
LEMMA SendKeeps ==
  ASSUME TypeOK, DetachInv, NEW c \in Clients, cpc[c] \notin Gone,
         NEW p \in Prio, NEW m \in Msg, m.from = c, Send(p, m),
         m.type = "DETACH" => p = 0 /\ cpc'[c] \in Gone,
         \A d \in Clients \ {c} : cpc'[d] = cpc[d], smsg' = smsg
  PROVE  DetachInv'
<1>t. sq \in [Prio -> Seq(Msg)] /\ smsg \in Msg \union {NoMsg}
  BY DEF TypeOK, QueuesTypeOK, ServerTypeOK, ReceiverTypeOK
<1>1. \A q \in Prio \ {p} : sq'[q] = sq[q]
  BY <1>t DEF Send
<1>2. /\ sq'[p] = Append(sq[p], m) /\ sq[p] \in Seq(Msg)
      /\ Len(sq'[p]) = Len(sq[p]) + 1 /\ Len(sq[p]) \in Nat
      /\ sq'[p][Len(sq[p]) + 1] = m
      /\ \A i \in 1..Len(sq[p]) : sq'[p][i] = sq[p][i] /\ sq[p][i] \in Msg
  BY <1>t DEF Send
<1>3. DetachesWait'
  <2> SUFFICES ASSUME NEW q \in Prio, NEW i \in 1..Len(sq'[q]), sq'[q][i].type = "DETACH"
               PROVE  q = 0 /\ cpc'[sq'[q][i].from] \in Gone /\ LastOf(sq'[q], i)
    BY DEF DetachesWait
  <2>1. CASE q # p
    <3>1. sq'[q] = sq[q] /\ sq[q][i] \in Msg
      BY <1>t, <1>1, <2>1
    <3>2. q = 0 /\ cpc[sq[q][i].from] \in Gone /\ LastOf(sq[q], i)
      BY <3>1 DEF DetachInv, DetachesWait
    <3>3. sq[q][i].from \in Clients \ {c}
      BY <3>1, <3>2, MsgFields
    <3> QED
      BY <3>1, <3>2, <3>3
  <2>2. CASE q = p /\ i = Len(sq[p]) + 1
    BY <1>2, <2>2 DEF LastOf
  <2>3. CASE q = p /\ i \in 1..Len(sq[p])
    <3>1. sq'[p][i] = sq[p][i] /\ sq[p][i] \in Msg
      BY <1>2, <2>3
    <3>2. p = 0 /\ cpc[sq[p][i].from] \in Gone /\ LastOf(sq[p], i)
      BY <2>3, <3>1 DEF DetachInv, DetachesWait
    <3>3. sq[p][i].from \in Clients \ {c}
      BY <3>1, <3>2, MsgFields
    <3>4. LastOf(sq'[p], i)
      BY <1>2, <2>3, <3>1, <3>2, <3>3 DEF LastOf
    <3> QED
      BY <2>3, <3>1, <3>2, <3>3, <3>4
  <2> QED
    BY <1>2, <2>1, <2>2, <2>3
<1>4. ASSUME smsg # NoMsg, smsg.type = "DETACH"
      PROVE  smsg.from \in Clients \ {c} /\ cpc'[smsg.from] \in Gone
  <2>1. cpc[smsg.from] \in Gone /\ smsg.from \in Clients
    BY <1>t, <1>4, MsgFields DEF DetachInv, DetachHandled
  <2> QED
    BY <2>1
<1>5. DetachHandled'
  BY <1>4 DEF DetachHandled
<1>6. DetachLast'
  <2> SUFFICES ASSUME smsg # NoMsg, smsg.type = "DETACH"
               PROVE  ~InQueue(smsg.from, MsgTypes)'
    BY DEF DetachLast, InQueue
  <2>1. \A q \in Prio : \A i \in 1..Len(sq[q]) : sq[q][i].from # smsg.from
    BY <1>t, MsgFields DEF DetachInv, DetachLast, InQueue
  <2>2. \A q \in Prio : \A i \in 1..Len(sq'[q]) : sq'[q][i].from # smsg.from
    <3> SUFFICES ASSUME NEW q \in Prio, NEW i \in 1..Len(sq'[q])
                 PROVE  sq'[q][i].from # smsg.from
      OBVIOUS
    <3>1. CASE q # p
      BY <1>1, <2>1, <3>1
    <3>2. CASE q = p /\ i = Len(sq[p]) + 1
      BY <1>2, <1>4, <3>2
    <3>3. CASE q = p /\ i \in 1..Len(sq[p])
      BY <1>2, <2>1, <3>3
    <3> QED
      BY <1>2, <3>1, <3>2, <3>3
  <2> QED
    BY <2>2 DEF InQueue
<1> QED
  BY <1>3, <1>5, <1>6 DEF DetachInv

\* A step that sends and receives nothing, and takes nobody back into its loop.
LEMMA QuietKeeps ==
  ASSUME TypeOK, DetachInv, sq' = sq, smsg' \in {smsg, NoMsg},
         \A c \in Clients : cpc[c] \in Gone => cpc'[c] \in Gone
  PROVE  DetachInv'
<1>t. sq \in [Prio -> Seq(Msg)] /\ smsg \in Msg \union {NoMsg}
  BY DEF TypeOK, QueuesTypeOK, ServerTypeOK, ReceiverTypeOK
<1>1. \A p \in Prio : \A i \in 1..Len(sq[p]) : sq[p][i].from \in Clients
  BY <1>t, MsgFields
<1>2. smsg # NoMsg => smsg.from \in Clients
  BY <1>t, MsgFields
<1>3. DetachesWait'
  BY <1>1 DEF DetachInv, DetachesWait
<1>4. DetachHandled'
  BY <1>2 DEF DetachInv, DetachHandled
<1>5. DetachLast'
  BY DEF DetachInv, DetachLast, InQueue
<1> QED
  BY <1>3, <1>4, <1>5 DEF DetachInv

\* When a DETACH is the next message, nothing else of its client is waiting.
LEMMA ReceiveKeeps ==
  ASSUME TypeOK, DetachInv, Receive, cpc' = cpc
  PROVE  DetachInv'
<1>t. sq \in [Prio -> Seq(Msg)]
  BY DEF TypeOK, QueuesTypeOK
<1>1. PICK p \in Prio :
        /\ IsTop(p)
        /\ sq' = [sq EXCEPT ![p] = Tail(@)]
        /\ ReceiveOther(Head(sq[p])) \/ ReceiveDetach(Head(sq[p]))
  BY DEF Receive
<1>2. /\ sq[p] # <<>> /\ Len(sq[p]) \in Nat /\ 1 \in 1..Len(sq[p])
      /\ Head(sq[p]) = sq[p][1] /\ sq[p][1] \in Msg
      /\ Len(sq'[p]) = Len(sq[p]) - 1
      /\ \A i \in 1..(Len(sq[p]) - 1) : sq'[p][i] = sq[p][i + 1]
  BY <1>t, <1>1 DEF IsTop
<1>3. \A q \in Prio \ {p} : sq'[q] = sq[q]
  BY <1>t, <1>1
<1>4. DetachesWait'
  <2> SUFFICES ASSUME NEW q \in Prio, NEW i \in 1..Len(sq'[q]), sq'[q][i].type = "DETACH"
               PROVE  q = 0 /\ cpc[sq'[q][i].from] \in Gone /\ LastOf(sq'[q], i)
    BY DEF DetachesWait
  <2>1. CASE q # p
    BY <1>3, <2>1 DEF DetachInv, DetachesWait
  <2>2. CASE q = p
    <3>1. i + 1 \in 1..Len(sq[p]) /\ sq'[p][i] = sq[p][i + 1]
      BY <1>2, <2>2, SMTT(30)
    <3>2. q = 0 /\ cpc[sq[p][i + 1].from] \in Gone /\ LastOf(sq[p], i + 1)
      BY <2>2, <3>1 DEF DetachInv, DetachesWait
    <3>3. ASSUME NEW j \in 1..Len(sq'[p]), j > i
          PROVE  sq'[p][j].from # sq'[p][i].from
      <4>1. j + 1 \in 1..Len(sq[p]) /\ j + 1 > i + 1 /\ sq'[p][j] = sq[p][j + 1]
        BY <1>2, <2>2, <3>3, SMTT(30)
      <4> QED
        BY <3>1, <3>2, <4>1 DEF LastOf
    <3> QED
      BY <2>2, <3>1, <3>2, <3>3 DEF LastOf
  <2> QED
    BY <2>1, <2>2
<1>5. smsg' = sq[p][1] \/ smsg' = NoMsg
  BY <1>1, <1>2 DEF ReceiveOther, ReceiveDetach
<1>6. DetachHandled'
  BY <1>2, <1>5 DEF DetachInv, DetachesWait, DetachHandled
<1>7. DetachLast'
  <2> SUFFICES ASSUME smsg' = sq[p][1], sq[p][1].type = "DETACH"
               PROVE  ~InQueue(smsg.from, MsgTypes)'
    BY <1>5 DEF DetachLast, InQueue
  <2>1. p = 0 /\ LastOf(sq[p], 1)
    BY <1>2 DEF DetachInv, DetachesWait
  <2>2. \A q \in Prio \ {p} : sq'[q] = <<>>
    BY <1>1, <1>3, <2>1 DEF IsTop, Prio
  <2>3. \A i \in 1..Len(sq'[p]) : sq'[p][i].from # sq[p][1].from
    BY <1>2, <2>1 DEF LastOf
  <2>4. \A q \in Prio : \A i \in 1..Len(sq'[q]) : sq'[q][i].from # smsg'.from
    BY <2>2, <2>3
  <2> QED
    BY <2>4 DEF InQueue
<1> QED
  BY <1>4, <1>6, <1>7 DEF DetachInv

LEMMA DetachClient ==
  ASSUME TypeOK, DetachInv, NEW c \in Clients, ClientStep(c) \/ ClientDisturbed(c),
         UNCHANGED serverVars
  PROVE  DetachInv'
<1>t. /\ cpc \in [Clients -> ClientPc] /\ ctemp[c] \in 0..99 /\ smsg' = smsg
      /\ AttachPrios \subseteq Prio
  BY FanAssumption DEF TypeOK, ClientTypeOK, serverVars, receiverVars
<1>1. CASE SendAttach(c)
  <2> DEFINE m == NewMsg(c, "ATTACH", 0)
  <2>1. PICK p \in AttachPrios : Send(p, m)
    BY <1>1 DEF SendAttach
  <2>2. m \in Msg /\ m.from = c /\ m.type = "ATTACH"
    <3>1. m.from = c /\ m.type = "ATTACH"
      BY DEF NewMsg
    <3>2. m \in Msg
      BY NewMsgType DEF MsgTypes
    <3> QED
      BY <3>1, <3>2
  <2>3. cpc[c] \notin Gone /\ \A d \in Clients \ {c} : cpc'[d] = cpc[d]
    BY <1>1, <1>t DEF SendAttach, Goto, Gone
  <2> HIDE DEF m
  <2> QED
    BY <1>t, <2>1, <2>2, <2>3, SendKeeps
<1>2. CASE Reply(c)
  <2> DEFINE m == NewMsg(c, "NORMAL", ctemp[c])
  <2> DEFINE p == ReadingPrio(ctemp[c])
  <2>1. Send(p, m) /\ p \in Prio
    BY <1>t, <1>2, ReadingPrioType, SMTT(30) DEF Reply
  <2>2. m \in Msg /\ m.from = c /\ m.type = "NORMAL"
    BY <1>t, NewMsgType DEF NewMsg, MsgTypes
  <2>3. cpc[c] \notin Gone /\ \A d \in Clients \ {c} : cpc'[d] = cpc[d]
    BY <1>2, <1>t DEF Reply, Goto, Gone
  <2> HIDE DEF m, p
  <2> QED
    BY <1>t, <2>1, <2>2, <2>3, SendKeeps
<1>3. CASE SendUrgent(c)
  <2> DEFINE m == NewMsg(c, "URGENT", ctemp[c])
  <2> DEFINE p == ReadingPrio(ctemp[c])
  <2>1. Send(p, m) /\ p \in Prio
    BY <1>t, <1>3, ReadingPrioType, SMTT(30) DEF SendUrgent
  <2>2. m \in Msg /\ m.from = c /\ m.type = "URGENT"
    BY <1>t, NewMsgType DEF NewMsg, MsgTypes
  <2>3. cpc[c] \notin Gone /\ \A d \in Clients \ {c} : cpc'[d] = cpc[d]
    BY <1>3, <1>t DEF SendUrgent, Goto, Gone
  <2> HIDE DEF m, p
  <2> QED
    BY <1>t, <2>1, <2>2, <2>3, SendKeeps
<1>4. CASE SendDetach(c)
  <2> DEFINE m == NewMsg(c, "DETACH", 0)
  <2>1. Send(0, m) /\ 0 \in Prio
    BY <1>4 DEF SendDetach, DetachPrio, Prio
  <2>2. m \in Msg /\ m.from = c
    <3>1. m.from = c
      BY DEF NewMsg
    <3>2. m \in Msg
      BY NewMsgType DEF MsgTypes
    <3> QED
      BY <3>1, <3>2
  <2>3. /\ cpc[c] \notin Gone /\ cpc'[c] \in Gone
        /\ \A d \in Clients \ {c} : cpc'[d] = cpc[d]
    BY <1>4, <1>t DEF SendDetach, Goto, Gone
  <2> HIDE DEF m
  <2> QED
    BY <1>t, <2>1, <2>2, <2>3, SendKeeps
<1>5. CASE ~SendAttach(c) /\ ~Reply(c) /\ ~SendUrgent(c) /\ ~SendDetach(c)
  <2>1. sq' = sq
    BY <1>5 DEF ClientStep, ClientDisturbed, Start, StartFails, AttachRejected, Poll,
                LeaveLoop, Unlink, Interrupt, InterruptSend, Crash, queueVars
  <2>2. \A d \in Clients : cpc[d] \in Gone => cpc'[d] \in Gone
    BY <1>5, <1>t
    DEF ClientStep, ClientDisturbed, Start, StartFails, AttachRejected, Poll, LeaveLoop,
        Unlink, Interrupt, InterruptSend, Crash, Goto, Gone, Running, Sending
  <2> QED
    BY <1>t, <2>1, <2>2, QuietKeeps
<1> QED
  BY <1>1, <1>2, <1>3, <1>4, <1>5

\* The server takes messages out of the queue in Receive only.
LEMMA QueueUntouched ==
  ASSUME \/ ServerNext /\ UNCHANGED clientVars
         \/ \E t \in Timers : ExpireBeside(t),
         ~Receive
  PROVE  sq' = sq
BY DEF ServerNext, ReceiverStep, StartServer, EnterLoop, Shutdown, Block, OpenQueue, Store,
       SetUrgentSpeed, CloseQueue, ClearModule, InterruptServer, TimerStep, Expire,
       CheckActive, Compare, Take, SetSpeed, TestModule, Query, QueryUnblocked, ExpireBeside, queueVars

LEMMA DetachServer ==
  ASSUME TypeOK, DetachInv,
         \/ ServerNext /\ UNCHANGED clientVars
         \/ \E t \in Timers : ExpireBeside(t)
  PROVE  DetachInv'
<1>0. cpc' = cpc
  BY ServerLeaves
<1>1. CASE Receive
  BY <1>0, <1>1, ReceiveKeeps
<1>2. CASE ~Receive
  <2>1. sq' = sq
    BY <1>2, QueueUntouched
  <2>2. smsg' \in {smsg, NoMsg}
    BY <1>2
    DEF ServerNext, ReceiverStep, StartServer, EnterLoop, Shutdown, Block, OpenQueue,
        Store, SetUrgentSpeed, CloseQueue, ClearModule, InterruptServer, TimerStep,
        Expire, CheckActive, Compare, Take, SetSpeed, TestModule, Query, QueryUnblocked,
        ExpireBeside, ReturnToLoop, receiverVars
  <2> QED
    BY <1>0, <2>1, <2>2, QuietKeeps
<1> QED
  BY <1>1, <1>2

\* A module's DETACH is the last of its messages, whatever the priorities do to
\* the order of the others: handling it cannot be followed by a message that
\* would attach the same process again.
THEOREM NothingAfterDetach == Spec => []DetachLast
<1>1. Init => DetachInv
  BY DEF Init, QueuesInit, ServerInit, DetachInv, DetachesWait, DetachHandled, DetachLast
<1>2. TypeOK /\ DetachInv /\ [Next]_vars => DetachInv'
  <2> SUFFICES ASSUME TypeOK, DetachInv, [Next]_vars
               PROVE  DetachInv'
    OBVIOUS
  <2>1. CASE ClientNext /\ UNCHANGED serverVars
    BY <2>1, DetachClient DEF ClientNext
  <2>2. CASE \/ ServerNext /\ UNCHANGED clientVars
             \/ \E t \in Timers : ExpireBeside(t)
    BY <2>2, DetachServer
  <2>3. CASE UNCHANGED vars
    BY <2>3, QuietKeeps DEF vars, queueVars, clientVars, serverVars, receiverVars
  <2> QED
    BY <2>1, <2>2, <2>3 DEF Next
<1>3. Spec => []TypeOK
  BY TypeCorrect
<1>4. DetachInv => DetachLast
  BY DEF DetachInv
<1> QED
  BY <1>1, <1>2, <1>3, <1>4, PTL DEF Spec

-----------------------------------------------------------------------------
(***************************************************************************)
(* active_fan_num is exact when no ATTACH is lost (no send is interrupted  *)
(* and no priority is out of range) and no two processes share an entry of *)
(* the module table.  The run fan_count shows it go wrong without the      *)
(* latter.  What is known about each entry then also tells which queue its *)
(* descriptor is open on.                                                  *)
(***************************************************************************)
NoAttachLost == "eintr" \notin Faults /\ "badprio" \notin Faults
OwnSlots == \A c, d \in Clients : Slot(c) = Slot(d) => c = d

\* A client in its loop is in the table, or its ATTACH is waiting to put it there.
Known(c) == attached[Slot(c)] \/ InQueue(c, {"ATTACH"})

InLoop == {"poll", "reply", "urgent", "detach"}

Announced == \A c \in Clients : cpc[c] \in InLoop => Known(c)
DetachKnown == \A c \in Clients : InQueue(c, {"DETACH"}) => Known(c)
Detaching ==
  spc \in {"close", "clear"} => smsg.type = "DETACH" /\ attached[Slot(smsg.from)]

CountInv == DetachInv /\ Announced /\ DetachKnown /\ Detaching /\ CountExact

-----------------------------------------------------------------------------
(* What sending and receiving do to the set of waiting messages. *)

LEMMA SendInQueue ==
  ASSUME QueuesTypeOK, NEW p \in Prio, NEW m \in Msg, Send(p, m),
         NEW d \in Clients, NEW types \in SUBSET MsgTypes
  PROVE  InQueue(d, types)' <=> (InQueue(d, types) \/ (m.from = d /\ m.type \in types))
<1>t. sq \in [Prio -> Seq(Msg)]
  BY DEF QueuesTypeOK
<1>1. \A q \in Prio \ {p} : sq'[q] = sq[q]
  BY <1>t DEF Send
<1>2. /\ Len(sq'[p]) = Len(sq[p]) + 1 /\ Len(sq[p]) \in Nat
      /\ sq'[p][Len(sq[p]) + 1] = m
      /\ \A i \in 1..Len(sq[p]) : sq'[p][i] = sq[p][i]
  BY <1>t DEF Send
<1>3. ASSUME InQueue(d, types)
      PROVE  InQueue(d, types)'
  <2>0. PICK q \in Prio : \E i \in 1..Len(sq[q]) :
          sq[q][i].from = d /\ sq[q][i].type \in types
    BY <1>3 DEF InQueue
  <2>1. PICK i \in 1..Len(sq[q]) : sq[q][i].from = d /\ sq[q][i].type \in types
    BY <2>0
  <2>2. i \in 1..Len(sq'[q]) /\ sq'[q][i] = sq[q][i]
    BY <1>1, <1>2
  <2> QED
    BY <2>1, <2>2 DEF InQueue
<1>4. ASSUME m.from = d, m.type \in types
      PROVE  InQueue(d, types)'
  <2>1. Len(sq[p]) + 1 \in 1..Len(sq'[p])
    BY <1>2
  <2> QED
    BY <1>2, <1>4, <2>1 DEF InQueue
<1>5. ASSUME InQueue(d, types)'
      PROVE  InQueue(d, types) \/ (m.from = d /\ m.type \in types)
  <2>0. PICK q \in Prio : \E i \in 1..Len(sq'[q]) :
          sq'[q][i].from = d /\ sq'[q][i].type \in types
    BY <1>5 DEF InQueue
  <2>1. PICK i \in 1..Len(sq'[q]) : sq'[q][i].from = d /\ sq'[q][i].type \in types
    BY <2>0
  <2>2. CASE q # p
    BY <1>1, <2>1, <2>2 DEF InQueue
  <2>3. CASE q = p /\ i \in 1..Len(sq[p])
    BY <1>2, <2>1, <2>3 DEF InQueue
  <2>4. CASE q = p /\ i = Len(sq[p]) + 1
    BY <1>2, <2>1, <2>4
  <2> QED
    BY <1>2, <2>1, <2>2, <2>3, <2>4
<1> QED
  BY <1>3, <1>4, <1>5

LEMMA ReceiveInQueue ==
  ASSUME QueuesTypeOK, NEW p \in Prio, IsTop(p), sq' = [sq EXCEPT ![p] = Tail(@)],
         NEW d \in Clients, NEW types \in SUBSET MsgTypes
  PROVE  /\ InQueue(d, types)' => InQueue(d, types)
         /\ InQueue(d, types) =>
              \/ InQueue(d, types)'
              \/ Head(sq[p]).from = d /\ Head(sq[p]).type \in types
<1>t. sq \in [Prio -> Seq(Msg)]
  BY DEF QueuesTypeOK
<1>1. \A q \in Prio \ {p} : sq'[q] = sq[q]
  BY <1>t
<1>2. /\ Len(sq[p]) \in Nat \ {0} /\ Head(sq[p]) = sq[p][1]
      /\ Len(sq'[p]) = Len(sq[p]) - 1
      /\ \A i \in 1..(Len(sq[p]) - 1) : sq'[p][i] = sq[p][i + 1]
  BY <1>t DEF IsTop
<1>3. ASSUME InQueue(d, types)'
      PROVE  InQueue(d, types)
  <2>0. PICK q \in Prio : \E i \in 1..Len(sq'[q]) :
          sq'[q][i].from = d /\ sq'[q][i].type \in types
    BY <1>3 DEF InQueue
  <2>1. PICK i \in 1..Len(sq'[q]) : sq'[q][i].from = d /\ sq'[q][i].type \in types
    BY <2>0
  <2>2. CASE q # p
    BY <1>1, <2>1, <2>2 DEF InQueue
  <2>3. CASE q = p
    <3>1. i + 1 \in 1..Len(sq[p]) /\ sq'[p][i] = sq[p][i + 1]
      BY <1>2, <2>3
    <3> QED
      BY <2>1, <2>3, <3>1 DEF InQueue
  <2> QED
    BY <2>2, <2>3
<1>4. ASSUME InQueue(d, types)
      PROVE  InQueue(d, types)' \/ (Head(sq[p]).from = d /\ Head(sq[p]).type \in types)
  <2>0. PICK q \in Prio : \E i \in 1..Len(sq[q]) :
          sq[q][i].from = d /\ sq[q][i].type \in types
    BY <1>4 DEF InQueue
  <2>1. PICK i \in 1..Len(sq[q]) : sq[q][i].from = d /\ sq[q][i].type \in types
    BY <2>0
  <2>2. CASE q # p
    BY <1>1, <2>1, <2>2 DEF InQueue
  <2>3. CASE q = p /\ i = 1
    BY <1>2, <2>1, <2>3
  <2>4. CASE q = p /\ i > 1
    <3>1. i - 1 \in 1..Len(sq'[p]) /\ sq'[p][i - 1] = sq[p][i]
      <4>1. i - 1 \in 1..(Len(sq[p]) - 1) /\ (i - 1) + 1 = i
        BY <1>2, <2>4
      <4> QED
        BY <1>2, <4>1
    <3> QED
      BY <2>1, <2>4, <3>1 DEF InQueue
  <2> QED
    BY <2>2, <2>3, <2>4
<1> QED
  BY <1>3, <1>4

-----------------------------------------------------------------------------
(* The steps of the clients. *)

\* A step of a client either leaves the server's queue alone or adds to it one
\* message of that client, an ATTACH or a DETACH only where the code says so.
LEMMA ClientSends ==
  ASSUME TypeOK, NEW c \in Clients, ClientStep(c) \/ ClientDisturbed(c)
  PROVE  \/ sq' = sq /\ ~SendAttach(c) /\ ~SendDetach(c)
         \/ \E p \in Prio, m \in Msg :
              /\ Send(p, m) /\ m.from = c
              /\ m.type = "DETACH" => SendDetach(c)
              /\ SendAttach(c) => m.type = "ATTACH"
<1>t. cpc \in [Clients -> ClientPc] /\ ctemp[c] \in 0..99
  BY DEF TypeOK, ClientTypeOK
<1>m. \A type \in MsgTypes, temp \in 0..99 :
        /\ NewMsg(c, type, temp) \in Msg
        /\ NewMsg(c, type, temp).from = c /\ NewMsg(c, type, temp).type = type
  BY NewMsgType DEF NewMsg
<1>1. CASE SendAttach(c)
  <2>1. PICK p \in AttachPrios : Send(p, NewMsg(c, "ATTACH", 0))
    BY <1>1 DEF SendAttach
  <2>2. p \in Prio
    BY FanAssumption
  <2>3. "ATTACH" \in MsgTypes /\ 0 \in 0..99
    BY DEF MsgTypes
  <2> QED
    BY <1>m, <2>1, <2>2, <2>3
<1>2. CASE Reply(c)
  <2>1. Send(ReadingPrio(ctemp[c]), NewMsg(c, "NORMAL", ctemp[c])) /\ ~SendAttach(c)
    BY <1>2 DEF Reply, SendAttach
  <2>2. ReadingPrio(ctemp[c]) \in Prio /\ "NORMAL" \in MsgTypes
    BY <1>t, ReadingPrioType DEF MsgTypes
  <2> QED
    BY <1>t, <1>m, <2>1, <2>2
<1>3. CASE SendUrgent(c)
  <2>1. Send(ReadingPrio(ctemp[c]), NewMsg(c, "URGENT", ctemp[c])) /\ ~SendAttach(c)
    BY <1>3 DEF SendUrgent, SendAttach
  <2>2. ReadingPrio(ctemp[c]) \in Prio /\ "URGENT" \in MsgTypes
    BY <1>t, ReadingPrioType DEF MsgTypes
  <2> QED
    BY <1>t, <1>m, <2>1, <2>2
<1>4. CASE SendDetach(c)
  <2>1. Send(0, NewMsg(c, "DETACH", 0)) /\ ~SendAttach(c)
    BY <1>4 DEF SendDetach, DetachPrio, SendAttach
  <2>2. 0 \in Prio /\ "DETACH" \in MsgTypes /\ 0 \in 0..99
    BY DEF MsgTypes, Prio
  <2> QED
    BY <1>4, <1>m, <2>1, <2>2
<1>5. CASE ~SendAttach(c) /\ ~Reply(c) /\ ~SendUrgent(c) /\ ~SendDetach(c)
  BY <1>5 DEF ClientStep, ClientDisturbed, Start, StartFails, AttachRejected, Poll,
              LeaveLoop, Unlink, Interrupt, InterruptSend, Crash, queueVars
<1> QED
  BY <1>1, <1>2, <1>3, <1>4, <1>5

LEMMA CountClient ==
  ASSUME TypeOK, CountInv, NoAttachLost, NEW c \in Clients,
         ClientStep(c) \/ ClientDisturbed(c), UNCHANGED serverVars
  PROVE  CountInv'
<1>t. QueuesTypeOK /\ cpc \in [Clients -> ClientPc]
  BY DEF TypeOK, ClientTypeOK
<1>u. UNCHANGED <<attached, activeNum, spc, smsg>>
  BY DEF serverVars, receiverVars, tableVars
<1>m. {"ATTACH"} \in SUBSET MsgTypes /\ {"DETACH"} \in SUBSET MsgTypes
  BY DEF MsgTypes
<1>1. DetachInv'
  BY DetachClient DEF CountInv
<1>2. Detaching' /\ CountExact'
  BY <1>u DEF CountInv, Detaching, CountExact, CountedSlots, ActiveSlots
<1>3. ASSUME NEW d \in Clients
      PROVE  /\ Known(d) => Known(d)'
             /\ InQueue(d, {"DETACH"})' => InQueue(d, {"DETACH"}) \/ (d = c /\ SendDetach(c))
             /\ SendAttach(c) => Known(c)'
  <2>1. CASE sq' = sq /\ ~SendAttach(c) /\ ~SendDetach(c)
    BY <1>u, <2>1 DEF Known, InQueue
  <2>2. CASE \E p \in Prio, m \in Msg :
              /\ Send(p, m) /\ m.from = c
              /\ m.type = "DETACH" => SendDetach(c)
              /\ SendAttach(c) => m.type = "ATTACH"
    <3>1. PICK p \in Prio, m \in Msg :
              /\ Send(p, m) /\ m.from = c
              /\ m.type = "DETACH" => SendDetach(c)
              /\ SendAttach(c) => m.type = "ATTACH"
      BY <2>2
    <3>2. InQueue(d, {"ATTACH"}) => InQueue(d, {"ATTACH"})'
      BY <1>t, <1>m, <3>1, SendInQueue
    <3>3. InQueue(d, {"DETACH"})' =>
            InQueue(d, {"DETACH"}) \/ (m.from = d /\ m.type \in {"DETACH"})
      BY <1>t, <1>m, <3>1, SendInQueue
    <3>4. SendAttach(c) => InQueue(c, {"ATTACH"})'
      BY <1>t, <1>m, <3>1, SendInQueue
    <3> QED
      BY <1>u, <3>1, <3>2, <3>3, <3>4 DEF Known
  <2> QED
    BY <2>1, <2>2, ClientSends
<1>4. ASSUME NEW d \in Clients, cpc'[d] \in InLoop
      PROVE  cpc[d] \in InLoop \/ SendAttach(d)
  <2>1. CASE d # c
    BY <1>t, <1>4, <2>1
    DEF ClientStep, ClientDisturbed, Start, StartFails, SendAttach, AttachRejected, Poll,
        Reply, SendUrgent, LeaveLoop, SendDetach, Unlink, Interrupt, InterruptSend, Crash,
        Goto
  <2>2. CASE d = c
    BY <1>t, <1>4, <2>2
    DEF NoAttachLost, ClientStep, ClientDisturbed, Start, StartFails, AttachRejected, Poll,
        Reply, SendUrgent, LeaveLoop, SendDetach, Unlink, Interrupt, InterruptSend, Crash,
        Goto, InLoop
  <2> QED
    BY <2>1, <2>2
<1>5. ASSUME NEW d \in Clients, SendAttach(d), d # c
      PROVE  cpc'[d] \notin InLoop
  BY <1>t, <1>5
  DEF ClientStep, ClientDisturbed, Start, StartFails, SendAttach, AttachRejected, Poll,
      Reply, SendUrgent, LeaveLoop, SendDetach, Unlink, Interrupt, InterruptSend, Crash,
      Goto, InLoop
<1>6. Announced'
  BY <1>3, <1>4, <1>5 DEF CountInv, Announced
<1>7. DetachKnown'
  <2>1. SendDetach(c) => Known(c)
    BY DEF SendDetach, CountInv, Announced, InLoop
  <2> QED
    BY <1>3, <2>1 DEF CountInv, DetachKnown
<1> QED
  BY <1>1, <1>2, <1>6, <1>7 DEF CountInv

-----------------------------------------------------------------------------
(* The steps of the server. *)

LEMMA CountReceive ==
  ASSUME TypeOK, CountInv, Receive, cpc' = cpc
  PROVE  CountInv'
<1>t. /\ QueuesTypeOK /\ attached \in [Slots -> BOOLEAN] /\ activeNum \in Nat
      /\ ActiveSlots \subseteq Slots
  BY DEF TypeOK, ServerTypeOK, TableTypeOK, ActiveSlots
<1>m. {"ATTACH"} \in SUBSET MsgTypes /\ {"DETACH"} \in SUBSET MsgTypes
  BY DEF MsgTypes
<1>1. DetachInv'
  BY ReceiveKeeps DEF CountInv
<1>2. PICK p \in Prio :
        /\ IsTop(p)
        /\ sq' = [sq EXCEPT ![p] = Tail(@)]
        /\ ReceiveOther(Head(sq[p])) \/ ReceiveDetach(Head(sq[p]))
  BY DEF Receive
<1> DEFINE m == Head(sq[p])
<1> DEFINE s == Slot(m.from)
<1>3. m \in Msg /\ Tail(sq[p]) \in Seq(Msg)
  BY <1>t, <1>2, HeadType
<1>4. /\ \A d \in Clients : InQueue(d, {"DETACH"})' => InQueue(d, {"DETACH"})
      /\ \A d \in Clients : InQueue(d, {"ATTACH"}) => InQueue(d, {"ATTACH"})' \/ d = m.from
  BY <1>t, <1>m, <1>2, ReceiveInQueue
<1>5. m.type = "DETACH" => InQueue(m.from, {"DETACH"})
  <2>1. 1 \in 1..Len(sq[p]) /\ m = sq[p][1]
    BY <1>t, <1>2 DEF QueuesTypeOK, IsTop
  <2> HIDE DEF m
  <2> QED
    BY <2>1 DEF InQueue
<1>6. CountedSlots = ActiveSlots
  BY DEF Receive, CountedSlots
<1>7. ReceiveOther(m) \/ ReceiveDetach(m)
  BY <1>2
<1>h. s \in Slots /\ m.from \in Clients
  <2> HIDE DEF m
  <2> QED
    BY <1>3, MsgFields, SlotType
<1> HIDE DEF m
<1>8. /\ Cardinality(ActiveSlots) \in Nat /\ Cardinality(ActiveSlots \ {s}) \in Nat
      /\ Cardinality(ActiveSlots \union {s}) =
           IF s \in ActiveSlots THEN Cardinality(ActiveSlots) ELSE Cardinality(ActiveSlots) + 1
      /\ Cardinality(ActiveSlots \ {s}) =
           IF s \in ActiveSlots THEN Cardinality(ActiveSlots) - 1 ELSE Cardinality(ActiveSlots)
  BY <1>t, SlotSets
<1>9. CASE ReceiveOther(m)
  <2>1. spc' \notin {"close", "clear"} /\ Attach(s)
    BY <1>9 DEF ReceiveOther, AfterOpen
  <2>2. attached'[s] /\ \A r \in Slots : attached[r] => attached'[r]
    BY <1>t, <1>h, <2>1 DEF Attach
  <2>3. \A d \in Clients : Known(d) => Known(d)'
    BY <1>4, <2>2, SlotType DEF Known
  <2>4. Announced' /\ DetachKnown' /\ Detaching'
    BY <1>4, <2>1, <2>3 DEF CountInv, Announced, DetachKnown, Detaching
  <2>5. /\ ActiveSlots' = ActiveSlots \union {s}
        /\ activeNum' = IF s \in ActiveSlots THEN activeNum ELSE activeNum + 1
        /\ CountedSlots' = ActiveSlots'
    BY <1>t, <1>h, <2>1 DEF Attach, ActiveSlots, CountedSlots
  <2>6. CountExact'
    BY <1>6, <1>8, <2>5 DEF CountInv, CountExact
  <2> QED
    BY <1>1, <2>4, <2>6 DEF CountInv
<1>10. CASE ReceiveDetach(m)
  <2>1. /\ m.type = "DETACH" /\ spc' = "close" /\ smsg' = m /\ attached' = attached
        /\ activeNum' = Uncount(activeNum)
    BY <1>10 DEF ReceiveDetach
  <2>2. attached[s]
    <3>1. smsg' # NoMsg
      BY <1>3, <2>1, NoMsgAssumption
    <3>0. PICK c \in Clients : c = m.from
      BY <1>h
    <3>2. ~InQueue(c, {"ATTACH"})'
      <4>1. ~InQueue(smsg.from, MsgTypes)'
        BY <1>1, <2>1, <3>1 DEF DetachInv, DetachLast
      <4>2. \A q \in Prio : \A i \in 1..Len(sq'[q]) :
              ~(sq'[q][i].from = c /\ sq'[q][i].type \in MsgTypes)
        BY <2>1, <3>0, <4>1 DEF InQueue
      <4> QED
        BY <1>m, <4>2 DEF InQueue
    <3>3. InQueue(c, {"ATTACH"}) => InQueue(c, {"ATTACH"})' \/ m.type \in {"ATTACH"}
      BY <1>t, <1>m, <1>2, ReceiveInQueue DEF m
    <3>4. Known(c)
      BY <1>5, <2>1, <3>0 DEF CountInv, DetachKnown
    <3> QED
      BY <2>1, <3>0, <3>2, <3>3, <3>4 DEF Known
  <2>3. \A d \in Clients : Known(d) => Known(d)'
    BY <1>4, <2>1, <2>2 DEF Known
  <2>4. Announced' /\ DetachKnown' /\ Detaching'
    BY <1>4, <2>1, <2>2, <2>3 DEF CountInv, Announced, DetachKnown, Detaching
  <2>5. CountedSlots' = ActiveSlots \ {s} /\ s \in ActiveSlots
    BY <1>h, <2>1, <2>2 DEF CountedSlots, ActiveSlots
  <2>6. CountExact'
    BY <1>6, <1>8, <2>1, <2>5 DEF CountInv, CountExact, Uncount
  <2> QED
    BY <1>1, <2>4, <2>6 DEF CountInv
<1> QED
  BY <1>7, <1>9, <1>10

LEMMA CountClear ==
  ASSUME TypeOK, CountInv, OwnSlots, ClearModule, cpc' = cpc
  PROVE  CountInv'
<1>1. smsg \in Msg /\ smsg # NoMsg /\ attached \in [Slots -> BOOLEAN]
  BY DEF ClearModule, TypeOK, ServerTypeOK, ReceiverTypeOK, TableTypeOK, Handling
<1>c. PICK c \in Clients : c = smsg.from
  BY <1>1, MsgFields
<1>2. Slot(c) \in Slots
  BY SlotType
<1>3. smsg.type = "DETACH"
  BY DEF ClearModule, CountInv, Detaching
<1>4. cpc[c] \in Gone /\ ~InQueue(c, MsgTypes)
  BY <1>1, <1>3, <1>c DEF CountInv, DetachInv, DetachHandled, DetachLast
<1>5. sq' = sq /\ smsg' = NoMsg /\ spc' = "loop"
  BY DEF ClearModule, ReturnToLoop, queueVars
<1>6. DetachInv'
  BY <1>5, QuietKeeps DEF CountInv
<1>7. \A d \in Clients \ {c} : Known(d) => Known(d)'
  <2>1. \A d \in Clients \ {c} : attached'[Slot(d)] = attached[Slot(d)]
    BY <1>1, <1>2, <1>c, SlotType DEF ClearModule, OwnSlots
  <2> QED
    BY <1>5, <2>1 DEF Known, InQueue
<1>8. Announced'
  BY <1>4, <1>7 DEF CountInv, Announced, InLoop, Gone
<1>9. DetachKnown'
  <2>1. ~InQueue(c, {"DETACH"})'
    BY <1>4, <1>5 DEF InQueue, MsgTypes
  <2>2. \A d \in Clients : InQueue(d, {"DETACH"})' => InQueue(d, {"DETACH"})
    BY <1>5 DEF InQueue
  <2> QED
    BY <1>7, <2>1, <2>2 DEF CountInv, DetachKnown
<1>10. CountExact'
  <2>1. CountedSlots' = CountedSlots /\ activeNum' = activeNum
    BY <1>1, <1>2, <1>5, <1>c DEF ClearModule, CountedSlots, ActiveSlots
  <2> QED
    BY <2>1 DEF CountInv, CountExact
<1>11. Detaching'
  BY <1>5 DEF Detaching
<1> QED
  BY <1>6, <1>8, <1>9, <1>10, <1>11 DEF CountInv

\* Every other step leaves the count, the table and the messages alone.
LEMMA CountQuiet ==
  ASSUME TypeOK, CountInv, [Next]_vars, ~Receive, ~ClearModule, UNCHANGED <<cpc, sq>>, DetachInv'
  PROVE  CountInv'
<1>1. UNCHANGED <<activeNum, attached>>
  BY CountUntouched
<1>2. /\ spc' \in {"close", "clear"} <=> spc \in {"close", "clear"}
      /\ spc \in {"close", "clear"} => smsg' = smsg
  BY DetachingUntouched
<1>3. CountExact' /\ Detaching'
  BY <1>1, <1>2 DEF CountInv, CountExact, CountedSlots, ActiveSlots, Detaching
<1>4. Announced' /\ DetachKnown'
  BY <1>1 DEF CountInv, Announced, DetachKnown, Known, InQueue
<1> QED
  BY <1>3, <1>4 DEF CountInv

LEMMA CountInvariance ==
  ASSUME NoAttachLost, OwnSlots
  PROVE  Spec => []CountInv
<1>1. Init => CountInv
  <2> SUFFICES ASSUME Init PROVE CountInv
    OBVIOUS
  <2>1. DetachInv
    BY DEF Init, QueuesInit, ServerInit, DetachInv, DetachesWait, DetachHandled, DetachLast
  <2>2. Announced /\ DetachKnown /\ Detaching
    BY DEF Init, QueuesInit, ClientInit, ServerInit, Announced, DetachKnown, Detaching,
           InLoop, InQueue
  <2>3. CountedSlots = {} /\ activeNum = 0
    BY DEF Init, ServerInit, CountedSlots, ActiveSlots
  <2> QED
    BY <2>1, <2>2, <2>3, FS_EmptySet DEF CountInv, CountExact
<1>2. TypeOK /\ CountInv /\ [Next]_vars => CountInv'
  <2> SUFFICES ASSUME TypeOK, CountInv, [Next]_vars
               PROVE  CountInv'
    OBVIOUS
  <2>1. CASE ClientNext /\ UNCHANGED serverVars
    BY <2>1, CountClient DEF ClientNext
  <2>2. CASE \/ ServerNext /\ UNCHANGED clientVars
             \/ \E t \in Timers : ExpireBeside(t)
    <3>1. cpc' = cpc /\ DetachInv'
      BY <2>2, ServerLeaves, DetachServer DEF CountInv
    <3>2. CASE ~Receive /\ ~ClearModule
      BY <2>2, <3>1, <3>2, QueueUntouched, CountQuiet
    <3> QED
      BY <3>1, <3>2, CountReceive, CountClear
  <2>3. CASE UNCHANGED vars
    BY <2>3 DEF vars, queueVars, clientVars, serverVars, receiverVars, tableVars, CountInv,
                DetachInv, DetachesWait, DetachHandled, DetachLast, LastOf, InQueue,
                Announced, DetachKnown, Known, Detaching, CountExact, CountedSlots,
                ActiveSlots
  <2> QED
    BY <2>1, <2>2, <2>3 DEF Next
<1>3. Spec => []TypeOK
  BY TypeCorrect
<1> QED
  BY <1>1, <1>2, <1>3, PTL DEF Spec

\* If no client's ATTACH is lost to a signal or to its uninitialised priority,
\* and no two processes use one entry of the table, active_fan_num is always
\* the number of modules in the table, whatever crashes and however the
\* priorities reorder the messages.
THEOREM CountIsExact ==
  ASSUME NoAttachLost, OwnSlots
  PROVE  Spec => []CountExact
<1>1. CountInv => CountExact
  BY DEF CountInv
<1> QED
  BY CountInvariance, <1>1, PTL

-----------------------------------------------------------------------------
(***************************************************************************)
(* The descriptors.  The server opens the queue whose name is the number   *)
(* of the module.  The client accepts the id MAX_MODULE_NUM and gives its  *)
(* queue the name 0, whatever module the server takes it for.              *)
(***************************************************************************)
IdInRange == \A c \in Clients : Mid[c] # MaxModule

\* A name is linked to the queue of a process that uses that name.
NamesOwn ==
  \A q \in QNames : names[q] # NoClient => names[q] \in Clients /\ QName(names[q]) = q

LEMMA NameIsSlot ==
  ASSUME IdInRange, NEW c \in Clients, QName(c) \in Slots
  PROVE  Slot(c) = QName(c)
<1>1. /\ Mid[c] \in 0..(MaxModule - 1) /\ MaxModule \in Nat \ {0}
      /\ ModuleNumber \in Nat \ {0}
  BY FanAssumption DEF IdInRange
<1>2. \A m \in Nat, n \in Nat \ {0} : m < n => m % n = m
  OBVIOUS
<1>3. QName(c) = Mid[c]
  BY <1>1, <1>2 DEF QName
<1>4. Mid[c] < ModuleNumber
  BY <1>1, <1>3 DEF Slots
<1> QED
  BY <1>1, <1>2, <1>3, <1>4 DEF Slot

LEMMA NamesStep ==
  ASSUME TypeOK, NamesOwn, [Next]_vars  PROVE  NamesOwn'
<1>1. ASSUME NEW c \in Clients, ClientStep(c) \/ ClientDisturbed(c)
      PROVE  \/ names' = names
             \/ names' = [names EXCEPT ![QName(c)] = c]
             \/ names' = [names EXCEPT ![QName(c)] = NoClient]
  BY <1>1
  DEF ClientStep, ClientDisturbed, Start, StartFails, SendAttach, AttachRejected, Poll,
      Reply, SendUrgent, LeaveLoop, SendDetach, Unlink, Interrupt, InterruptSend, Crash,
      queueVars
<1>2. names \in [QNames -> Clients \union {NoClient}]
  BY DEF TypeOK, QueuesTypeOK
<1>3. CASE ClientNext
  BY <1>1, <1>2, <1>3, SlotType DEF ClientNext, NamesOwn
<1>4. CASE names' = names
  BY <1>4 DEF NamesOwn
<1> QED
  BY <1>3, <1>4, ServerLeaves DEF Next, vars, queueVars

\* The entry is being opened or has just been closed.
InTransit(s) == spc \in {"open", "clear"} /\ Slot(smsg.from) = s

\* A step that touches no descriptor and ends no opening or closing.
LEMMA DescriptorsQuiet ==
  ASSUME DescriptorsOwned, UNCHANGED <<clientQ, fds>>,
         \A s \in Slots : attached'[s] => attached[s] \/ InTransit(s)',
         \A s \in Slots : attached'[s] /\ InTransit(s) => InTransit(s)'
  PROVE  DescriptorsOwned'
BY DEF DescriptorsOwned, InTransit

LEMMA DescriptorsQuietStep ==
  ASSUME [Next]_vars, ~Receive, ~OpenQueue, ~CloseQueue, ~ClearModule
  PROVE  /\ UNCHANGED <<attached, clientQ, fds>>
         /\ spc \in {"open", "clear"} => spc' = spc /\ smsg' = smsg
BY DEF Next, ServerNext, ReceiverStep, StartServer, EnterLoop, Shutdown, Block,
       Store, SetUrgentSpeed, InterruptServer, ReturnToLoop, tableVars, receiverVars,
       serverVars, vars, ExpireBeside, TimerStep, Expire, CheckActive, Compare, Take,
       SetSpeed, TestModule, Query, QueryUnblocked

LEMMA DescriptorsStep ==
  ASSUME TypeOK, CountInv, NamesOwn, DescriptorsOwned, IdInRange, [Next]_vars
  PROVE  DescriptorsOwned'
<1>t. /\ attached \in [Slots -> BOOLEAN] /\ clientQ \in [Slots -> Fds \union {-1}]
      /\ fds \in [Fds -> Clients \union {NoClient, Stdin}]
      /\ -1 \notin Fds
      /\ spc \in Handling => smsg \in Msg /\ smsg.from \in Clients /\ Slot(smsg.from) \in Slots
  <2>1. spc \in Handling => smsg \in Msg
    BY DEF TypeOK, ServerTypeOK, ReceiverTypeOK
  <2>2. -1 \notin Fds
    BY FanAssumption DEF Fds
  <2> QED
    BY <2>1, <2>2, MsgFields, SlotType DEF TypeOK, ServerTypeOK, TableTypeOK
<1>1. CASE ~Receive /\ ~OpenQueue /\ ~CloseQueue /\ ~ClearModule
  BY <1>1, DescriptorsQuietStep, DescriptorsQuiet DEF InTransit
<1>2. CASE Receive
  <2>1. UNCHANGED <<clientQ, fds>> /\ spc \notin {"open", "clear"}
    BY <1>2 DEF Receive
  <2>2. PICK p \in Prio : IsTop(p) /\ (ReceiveOther(Head(sq[p])) \/ ReceiveDetach(Head(sq[p])))
    BY <1>2 DEF Receive
  <2>3. PICK m \in Msg : ReceiveOther(m) \/ ReceiveDetach(m)
    BY <2>2, HeadType DEF TypeOK
  <2>4. Slot(m.from) \in Slots
    BY MsgFields, SlotType
  <2>5. ASSUME NEW s \in Slots, attached'[s]  PROVE attached[s] \/ InTransit(s)'
    BY <1>t, <2>3, <2>4, <2>5 DEF ReceiveOther, ReceiveDetach, Attach, InTransit
  <2> QED
    BY <2>1, <2>5, DescriptorsQuiet DEF InTransit
<1>3. CASE OpenQueue
  <2> DEFINE o == Slot(smsg.from)
  <2>1. o \in Slots /\ spc = "open" /\ attached' = attached
    BY <1>t, <1>3 DEF OpenQueue, Handling
  <2>2. ASSUME NEW s \in Slots, attached[s], s # o, clientQ[s] # -1
        PROVE  clientQ[s] \in Fds /\ fds[clientQ[s]] \in {c \in Clients : Slot(c) = s}
    BY <1>t, <2>1, <2>2 DEF DescriptorsOwned
  <2>3. CASE names[o] = NoClient
    <3>1. clientQ' = [clientQ EXCEPT ![o] = -1] /\ fds' = fds
      BY <1>3, <2>3 DEF OpenQueue
    <3>2. ASSUME NEW s \in Slots, attached[s]
          PROVE  clientQ'[s] = -1 \/ fds'[clientQ'[s]] \in {c \in Clients : Slot(c) = s}
      BY <1>t, <2>1, <2>2, <3>1, <3>2
    <3> QED
      BY <2>1, <3>2 DEF DescriptorsOwned
  <2>4. CASE names[o] # NoClient
    <3>1. PICK f \in Fds : /\ fds[f] = NoClient
                           /\ fds' = [fds EXCEPT ![f] = names[o]]
                           /\ clientQ' = [clientQ EXCEPT ![o] = f]
      BY <1>3, <2>4 DEF OpenQueue
    <3>2. names[o] \in {c \in Clients : Slot(c) = o}
      BY <2>1, <2>4, SlotsAreNames, NameIsSlot DEF NamesOwn
    <3>3. ASSUME NEW s \in Slots, attached[s]
          PROVE  clientQ'[s] = -1 \/ fds'[clientQ'[s]] \in {c \in Clients : Slot(c) = s}
      <4>1. CASE s = o
        BY <1>t, <2>1, <3>1, <3>2, <4>1
      <4>2. CASE s # o
        BY <1>t, <2>1, <2>2, <3>1, <3>3, <4>2, FanAssumption
      <4> QED
        BY <4>1, <4>2
    <3> QED
      BY <2>1, <3>3 DEF DescriptorsOwned
  <2> QED
    BY <2>3, <2>4
<1>4. CASE CloseQueue
  <2> DEFINE o == Slot(smsg.from)
             f == clientQ[o]
  <2>1. /\ o \in Slots /\ spc = "close" /\ spc' = "clear" /\ smsg' = smsg
        /\ UNCHANGED <<attached, clientQ>>
        /\ fds' = IF f = -1 THEN fds ELSE [fds EXCEPT ![f] = NoClient]
    BY <1>t, <1>4 DEF CloseQueue, Handling
  <2>2. attached[o]
    BY <2>1 DEF CountInv, Detaching
  <2>3. \A s \in Slots : attached[s] =>
          clientQ[s] = -1 \/ fds[clientQ[s]] \in {c \in Clients : Slot(c) = s}
    BY <2>1 DEF DescriptorsOwned
  <2>4. ASSUME NEW s \in Slots, attached[s], s # o
        PROVE  clientQ[s] = -1 \/ fds'[clientQ[s]] \in {c \in Clients : Slot(c) = s}
    <3>1. clientQ[s] # -1 => clientQ[s] \in Fds /\ (f # -1 => clientQ[s] # f)
      BY <1>t, <2>1, <2>2, <2>3, <2>4
    <3> QED
      BY <1>t, <2>1, <2>3, <2>4, <3>1
  <2> QED
    BY <2>1, <2>4 DEF DescriptorsOwned
<1>5. CASE ClearModule
  <2>1. /\ Slot(smsg.from) \in Slots /\ attached' = [attached EXCEPT ![Slot(smsg.from)] = FALSE]
        /\ UNCHANGED <<clientQ, fds>>
    BY <1>t, <1>5 DEF ClearModule, Handling
  <2>2. \A s \in Slots : attached'[s] => attached[s] /\ s # Slot(smsg.from)
    BY <1>t, <2>1
  <2> QED
    BY <2>1, <2>2, DescriptorsQuiet DEF InTransit
<1> QED
  BY <1>1, <1>2, <1>3, <1>4, <1>5

\* With those conditions and an id below MAX_MODULE_NUM, the descriptor through
\* which the timer queries an attached module is open on a queue of that module,
\* and not on one that reuses the descriptor.  The conditions are needed: a
\* DETACH without an ATTACH of its own closes client_q as some earlier DETACH
\* left it, a number that by now may be another module's.
THEOREM QueriesGoHome ==
  ASSUME NoAttachLost, OwnSlots, IdInRange
  PROVE  Spec => []DescriptorsOwned
<1>1. Init => DescriptorsOwned /\ NamesOwn
  BY DEF Init, QueuesInit, ServerInit, DescriptorsOwned, NamesOwn
<1>2. /\ TypeOK /\ CountInv /\ DescriptorsOwned /\ NamesOwn /\ [Next]_vars
      => DescriptorsOwned' /\ NamesOwn'
  BY NamesStep, DescriptorsStep
<1> QED
  BY <1>1, <1>2, TypeCorrect, CountInvariance, PTL DEF Spec

=============================================================================

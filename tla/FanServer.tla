----------------------------- MODULE FanServer -----------------------------
(***************************************************************************)
(* The server process of the fan control demo, fan_control_server.c: the   *)
(* receiver (main's loop), which owns the module table, and the threads    *)
(* SIGEV_THREAD starts at every expiry of the timer, which read that table *)
(* without a lock.  The receiver takes one step per access to the table    *)
(* that a timer thread can tell apart; a timer thread takes one step per   *)
(* module and pass, two where MAX reads the volatile cur_temp twice.       *)
(***************************************************************************)
EXTENDS FanQueues

CONSTANT Timers    \* the timer threads that may exist at the same time

ASSUME TimersAssumption == IsFiniteSet(Timers)

VARIABLES
  spc,        \* what the receiver does next
  smsg,       \* the message being handled, NoMsg between messages
  sdone,      \* the server's "done" flag
  attached,   \* attached[s]: modules[s].module_id # -1
  curTemp,    \* curTemp[s]: modules[s].cur_temp
  clientQ,    \* clientQ[s]: modules[s].client_q, a descriptor
  activeNum,  \* active_fan_num
  maxTemp,    \* max_temp, shared by all timer threads
  pwm,        \* pwm[r]: the last PWM count written to write register r
  fds         \* fds[f]: the queue descriptor f is open on

VARIABLES
  tpc,        \* tpc[t]: what timer thread t does next, "idle" if it is not there
  tidx,       \* tidx[t]: the module its current pass is at
  ttarget,    \* ttarget[t]: the queue it is blocked on in mq_send
  steady      \* steady[t]: history: the modules that stayed attached, with
              \* the same cur_temp, since the thread began its first pass

tableVars == <<attached, curTemp, clientQ, activeNum, fds>>
receiverVars == <<spc, smsg, sdone>>
timerVars == <<tpc, tidx, ttarget, steady, maxTemp>>
serverVars == <<receiverVars, tableVars, timerVars, pwm>>

NoMsg == NoClient
ASSUME NoMsgAssumption == NoMsg \notin Msg

Stdin == "stdin"

\* Descriptor 0 is standard input.  Descriptor k > 0 is the k-th one after the
\* server's own queue; a module never needs more than one.
Fds == 0..ModuleNumber

Regs == 0..4
PwmMax == 65535

Handling == {"open", "store", "setspeed", "close", "clear"}
ServerPc == Handling \union {"start", "loop", "recv", "blocked", "stopped"}
TimerPc == {"idle", "check", "compare", "take", "speed", "query", "send", "blocked"}

ReceiverTypeOK ==
  /\ spc \in ServerPc
  /\ smsg \in Msg \union {NoMsg}
  /\ (smsg # NoMsg) <=> (spc \in Handling)
  /\ sdone \in BOOLEAN

TableTypeOK ==
  /\ attached \in [Slots -> BOOLEAN]
  /\ curTemp \in [Slots -> 0..99]
  /\ clientQ \in [Slots -> Fds \union {-1}]
  /\ activeNum \in Nat
  /\ pwm \in [Regs -> 0..PwmMax]
  /\ fds \in [Fds -> Clients \union {NoClient, Stdin}]

TimersTypeOK ==
  /\ maxTemp \in 0..99
  /\ tpc \in [Timers -> TimerPc]
  /\ tidx \in [Timers -> Slots]
  /\ ttarget \in [Timers -> Clients \union {NoClient}]
  /\ \A t \in Timers : (ttarget[t] # NoClient) <=> (tpc[t] = "blocked")
  /\ steady \in [Timers -> SUBSET Slots]

ServerTypeOK == ReceiverTypeOK /\ TableTypeOK /\ TimersTypeOK

\* fan_group_init; client_q is 0 because the group is a zeroed global.
ServerInit ==
  /\ spc = "start" /\ smsg = NoMsg /\ sdone = FALSE
  /\ attached = [s \in Slots |-> FALSE]
  /\ curTemp = [s \in Slots |-> 0]
  /\ clientQ = [s \in Slots |-> 0]
  /\ activeNum = 0
  /\ maxTemp = 0
  /\ pwm = [r \in Regs |-> 0]
  /\ fds = [f \in Fds |-> IF f = 0 THEN Stdin ELSE NoClient]
  /\ tpc = [t \in Timers |-> "idle"]
  /\ tidx = [t \in Timers |-> 0]
  /\ ttarget = [t \in Timers |-> NoClient]
  /\ steady = [t \in Timers |-> {}]

(***************************************************************************)
(* Fan hardware: the conversion of a temperature into a duty cycle and of  *)
(* a duty cycle into PWM counts, and the register of each fan.             *)
(***************************************************************************)
temp2speed(v) == IF v <= 20 THEN 0 ELSE IF v >= 70 THEN 100 ELSE (v - 20) * 2

\* A 16-bit product of the duty cycle and the counts per percent.
PwmStep == PwmMax \div 100
general_set_speed(duty) == (duty * PwmStep) % (PwmMax + 1)

\* general_fan_list gives two neighbours, and every tenth fan, one register.
WrtReg(s) == (s % 10) \div 2

module_fan_op(s, temp) ==
  pwm' = [pwm EXCEPT ![WrtReg(s)] = general_set_speed(temp2speed(temp))]

(***************************************************************************)
(* The receiver.                                                           *)
(***************************************************************************)
ReturnToLoop == spc' = "loop" /\ smsg' = NoMsg

\* A module leaves the steady set when the receiver writes its entry.
Unsteady(s) == steady' = [t \in Timers |-> steady[t] \ {s}]

StartServer ==
  /\ spc = "start"
  /\ ~srvLinked
  /\ srvLinked' = TRUE
  /\ spc' = "loop"
  /\ UNCHANGED <<sq, cq, names, smsg, sdone, tableVars, timerVars, pwm>>

EnterLoop ==
  /\ spc = "loop" /\ ~sdone
  /\ spc' = "recv"
  /\ UNCHANGED <<queueVars, smsg, sdone, tableVars, timerVars, pwm>>

\* mq_close, mq_unlink, and the return from main that ends every thread.
Shutdown ==
  /\ spc = "loop" /\ sdone
  /\ spc' = "stopped"
  /\ srvLinked' = FALSE
  /\ tpc' = [t \in Timers |-> "idle"]
  /\ tidx' = [t \in Timers |-> 0]
  /\ ttarget' = [t \in Timers |-> NoClient]
  /\ steady' = [t \in Timers |-> {}]
  /\ UNCHANGED <<sq, cq, names, smsg, sdone, tableVars, maxTemp, pwm>>

\* mq_receive on an empty queue waits.
Block ==
  /\ spc = "recv"
  /\ Waiting = 0
  /\ spc' = "blocked"
  /\ UNCHANGED <<queueVars, smsg, sdone, tableVars, timerVars, pwm>>

\* Where the handler goes after the test "module_id == -1".
AfterOpen(m) == IF m.type = "ATTACH" THEN "loop" ELSE "store"

\* Mutant of Attach: a message of an attached module is counted again.
AttachAgain(s) ==
  /\ attached' = [attached EXCEPT ![s] = TRUE]
  /\ activeNum' = activeNum + 1

\* "if (module->module_id == -1)": the module becomes attached and is counted.
Attach(s) ==
  IF attached[s]
  THEN UNCHANGED <<attached, activeNum>>
  ELSE /\ attached' = [attached EXCEPT ![s] = TRUE]
       /\ activeNum' = activeNum + 1

\* Mutants of Uncount: no test for zero; the decrement is forgotten.
UncountBlind(n) == n - 1
UncountNever(n) == n

\* The count of attached modules after one left.
Uncount(n) == IF n > 0 THEN n - 1 ELSE 0

\* MSG_NORMAL, MSG_ATTACH, MSG_URGENT up to the opening of the client's queue.
ReceiveOther(m) ==
  LET s == Slot(m.from)
      next == IF attached[s] THEN AfterOpen(m) ELSE "open"
  IN  /\ m.type # "DETACH"
      /\ Attach(s)
      /\ spc' = next
      /\ smsg' = IF next = "loop" THEN NoMsg ELSE m

\* MSG_DETACH up to the closing of the client's queue.
ReceiveDetach(m) ==
  /\ m.type = "DETACH"
  /\ activeNum' = Uncount(activeNum)
  /\ spc' = "close"
  /\ smsg' = m
  /\ UNCHANGED attached

Receive ==
  /\ spc \in {"recv", "blocked"}
  /\ \E p \in Prio :
       /\ IsTop(p)
       /\ sq' = [sq EXCEPT ![p] = Tail(@)]
       /\ ReceiveOther(Head(sq[p])) \/ ReceiveDetach(Head(sq[p]))
  /\ UNCHANGED <<cq, names, srvLinked, sdone, curTemp, clientQ, fds,
                 timerVars, pwm>>

\* mq_open by the module's name: -1 when no queue has the name, otherwise
\* the lowest free descriptor.
OpenQueue ==
  LET s == Slot(smsg.from)
      next == AfterOpen(smsg)
  IN  /\ spc = "open"
      /\ \/ /\ names[s] = NoClient
            /\ clientQ' = [clientQ EXCEPT ![s] = -1]
            /\ UNCHANGED fds
         \/ /\ names[s] # NoClient
            /\ \E f \in Fds :
                 /\ fds[f] = NoClient
                 /\ \A g \in Fds : g < f => fds[g] # NoClient
                 /\ fds' = [fds EXCEPT ![f] = names[s]]
                 /\ clientQ' = [clientQ EXCEPT ![s] = f]
      /\ spc' = next
      /\ smsg' = IF next = "loop" THEN NoMsg ELSE smsg
      /\ UNCHANGED <<queueVars, sdone, attached, curTemp, activeNum,
                     timerVars, pwm>>

\* Mutant of Store: MSG_URGENT only stores the reading, as MSG_NORMAL does.
StoreOnly ==
  LET s == Slot(smsg.from)
  IN  /\ spc = "store"
      /\ curTemp' = [curTemp EXCEPT ![s] = smsg.temp]
      /\ Unsteady(s)
      /\ ReturnToLoop
      /\ UNCHANGED <<queueVars, sdone, attached, clientQ, activeNum, fds,
                     tpc, tidx, ttarget, maxTemp, pwm>>

\* module->cur_temp = client_msg.temp_val
Store ==
  LET s == Slot(smsg.from)
  IN  /\ spc = "store"
      /\ curTemp' = [curTemp EXCEPT ![s] = smsg.temp]
      /\ Unsteady(s)
      /\ IF smsg.type = "URGENT"
         THEN spc' = "setspeed" /\ UNCHANGED smsg
         ELSE ReturnToLoop
      /\ UNCHANGED <<queueVars, sdone, attached, clientQ, activeNum, fds,
                     tpc, tidx, ttarget, maxTemp, pwm>>

\* MSG_URGENT: the fan of this module at once, from its own reading.
SetUrgentSpeed ==
  /\ spc = "setspeed"
  /\ module_fan_op(Slot(smsg.from), curTemp[Slot(smsg.from)])
  /\ ReturnToLoop
  /\ UNCHANGED <<queueVars, sdone, tableVars, timerVars>>

\* MSG_DETACH: mq_close(module->client_q), whatever that descriptor now is.
CloseQueue ==
  LET f == clientQ[Slot(smsg.from)]
  IN  /\ spc = "close"
      /\ fds' = IF f = -1 THEN fds ELSE [fds EXCEPT ![f] = NoClient]
      /\ spc' = "clear"
      /\ UNCHANGED <<queueVars, smsg, sdone, attached, curTemp, clientQ,
                     activeNum, timerVars, pwm>>

\* Mutant of ClearModule: the module keeps its id, and its closed descriptor.
ClearModuleKeepsId ==
  LET s == Slot(smsg.from)
  IN  /\ spc = "clear"
      /\ curTemp' = [curTemp EXCEPT ![s] = 0]
      /\ Unsteady(s)
      /\ ReturnToLoop
      /\ UNCHANGED <<queueVars, sdone, attached, clientQ, activeNum, fds,
                     tpc, tidx, ttarget, maxTemp, pwm>>

\* MSG_DETACH: module_id = -1, cur_temp = 0.
ClearModule ==
  LET s == Slot(smsg.from)
  IN  /\ spc = "clear"
      /\ attached' = [attached EXCEPT ![s] = FALSE]
      /\ curTemp' = [curTemp EXCEPT ![s] = 0]
      /\ Unsteady(s)
      /\ ReturnToLoop
      /\ UNCHANGED <<queueVars, sdone, clientQ, activeNum, fds,
                     tpc, tidx, ttarget, maxTemp, pwm>>

\* SIGINT at the server.  A blocked mq_receive returns EINTR; between the test
\* of the flag and mq_receive the signal wakes nothing up.
InterruptServer ==
  /\ "stop" \in Faults
  /\ spc \notin {"start", "stopped"}
  /\ ~sdone
  /\ sdone' = TRUE
  /\ spc' = IF spc = "blocked" THEN "loop" ELSE spc
  /\ UNCHANGED <<queueVars, smsg, tableVars, timerVars, pwm>>

(***************************************************************************)
(* A timer thread: timer_handler, which calls group_set_spd (the passes    *)
(* "compare"/"take" and "speed") and group_send_temp_query ("query").      *)
(***************************************************************************)

\* Mutant of Advance: every pass leaves out the last module.
AdvanceShort(t, pass, nextPass) ==
  IF tidx[t] + 2 < ModuleNumber
  THEN tidx' = [tidx EXCEPT ![t] = @ + 1] /\ tpc' = [tpc EXCEPT ![t] = pass]
  ELSE tidx' = [tidx EXCEPT ![t] = 0] /\ tpc' = [tpc EXCEPT ![t] = nextPass]

\* The next module of the pass, or the first one of the next pass.
Advance(t, pass, nextPass) ==
  IF tidx[t] + 1 < ModuleNumber
  THEN tidx' = [tidx EXCEPT ![t] = @ + 1] /\ tpc' = [tpc EXCEPT ![t] = pass]
  ELSE tidx' = [tidx EXCEPT ![t] = 0] /\ tpc' = [tpc EXCEPT ![t] = nextPass]

\* Mutant of Expire: the signal handler stops the timer, too.
ExpireUnlessDone(t) ==
  /\ tpc[t] = "idle"
  /\ spc \notin {"start", "stopped"} /\ ~sdone
  /\ tpc' = [tpc EXCEPT ![t] = "check"]
  /\ UNCHANGED <<queueVars, receiverVars, tableVars, tidx, ttarget, steady,
                 maxTemp, pwm>>

Expire(t) ==
  /\ tpc[t] = "idle"
  /\ spc \notin {"start", "stopped"}
  /\ tpc' = [tpc EXCEPT ![t] = "check"]
  /\ UNCHANGED <<queueVars, receiverVars, tableVars, tidx, ttarget, steady,
                 maxTemp, pwm>>

\* "return if no active module"; otherwise max_temp = 0 and the first pass.
CheckActive(t) ==
  /\ tpc[t] = "check"
  /\ IF activeNum = 0
     THEN /\ tpc' = [tpc EXCEPT ![t] = "idle"]
          /\ UNCHANGED <<maxTemp, steady>>
     ELSE /\ tpc' = [tpc EXCEPT ![t] = "compare"]
          /\ maxTemp' = 0
          /\ steady' = [steady EXCEPT ![t] = {s \in Slots : attached[s]}]
  /\ UNCHANGED <<queueVars, receiverVars, tableVars, tidx, ttarget, pwm>>

\* The pass over the temperatures forgets its history when it ends.
EndSteady(t) ==
  steady' = IF tidx[t] + 1 < ModuleNumber THEN steady
            ELSE [steady EXCEPT ![t] = {}]

\* The test of MAX: the larger of two, read again when it is cur_temp.
Exceeds(t) == attached[tidx[t]] /\ ~(maxTemp > curTemp[tidx[t]])

Compare(t) ==
  /\ tpc[t] = "compare"
  /\ \/ /\ Exceeds(t)
        /\ tpc' = [tpc EXCEPT ![t] = "take"]
        /\ UNCHANGED <<tidx, steady>>
     \/ /\ ~Exceeds(t)
        /\ Advance(t, "compare", "speed")
        /\ EndSteady(t)
  /\ UNCHANGED <<queueVars, receiverVars, tableVars, ttarget, maxTemp, pwm>>

Take(t) ==
  /\ tpc[t] = "take"
  /\ maxTemp' = curTemp[tidx[t]]
  /\ Advance(t, "compare", "speed")
  /\ EndSteady(t)
  /\ UNCHANGED <<queueVars, receiverVars, tableVars, ttarget, pwm>>

SetSpeed(t) ==
  /\ tpc[t] = "speed"
  /\ IF attached[tidx[t]] THEN module_fan_op(tidx[t], maxTemp)
                          ELSE UNCHANGED pwm
  /\ Advance(t, "speed", "query")
  /\ UNCHANGED <<queueVars, receiverVars, tableVars, ttarget, steady, maxTemp>>

\* The queue a query of thread t would go to: the one module->client_q is open
\* on; NoClient when that descriptor is closed, or no queue at all.
QueryTarget(t) ==
  LET f == clientQ[tidx[t]]
  IN  IF f = -1 THEN NoClient
      ELSE IF fds[f] = Stdin THEN NoClient ELSE fds[f]

Deliver(c) ==
  /\ cq[c] < MaxMsgs
  /\ cq' = [cq EXCEPT ![c] = @ + 1]

\* One turn of group_send_temp_query: the test of module_id.
TestModule(t) ==
  /\ tpc[t] = "query"
  /\ IF attached[tidx[t]]
     THEN tpc' = [tpc EXCEPT ![t] = "send"] /\ UNCHANGED tidx
     ELSE Advance(t, "query", "idle")
  /\ UNCHANGED <<queueVars, receiverVars, tableVars, ttarget, steady, maxTemp, pwm>>

\* ... and the mq_send through whatever client_q is by then: a failed one, a
\* query sent, or a full queue to wait for (the server's descriptor blocks).
Query(t) ==
  LET c == QueryTarget(t)
  IN  /\ tpc[t] = "send"
      /\ \/ /\ c = NoClient
            /\ Advance(t, "query", "idle")
            /\ UNCHANGED <<cq, ttarget>>
         \/ /\ c # NoClient
            /\ Deliver(c)
            /\ Advance(t, "query", "idle")
            /\ UNCHANGED ttarget
         \/ /\ c # NoClient
            /\ cq[c] >= MaxMsgs
            /\ tpc' = [tpc EXCEPT ![t] = "blocked"]
            /\ ttarget' = [ttarget EXCEPT ![t] = c]
            /\ UNCHANGED <<cq, tidx>>
      /\ UNCHANGED <<sq, names, srvLinked, receiverVars, tableVars, steady,
                     maxTemp, pwm>>

\* The blocked mq_send returns when the client has taken a message.
QueryUnblocked(t) ==
  /\ tpc[t] = "blocked"
  /\ Deliver(ttarget[t])
  /\ ttarget' = [ttarget EXCEPT ![t] = NoClient]
  /\ Advance(t, "query", "idle")
  /\ UNCHANGED <<sq, names, srvLinked, receiverVars, tableVars, steady,
                 maxTemp, pwm>>

ReceiverStep ==
  \/ StartServer \/ EnterLoop \/ Shutdown \/ Block \/ Receive
  \/ OpenQueue \/ Store \/ SetUrgentSpeed \/ CloseQueue \/ ClearModule

TimerStep(t) ==
  \/ Expire(t) \/ CheckActive(t) \/ Compare(t) \/ Take(t)
  \/ SetSpeed(t) \/ TestModule(t) \/ Query(t) \/ QueryUnblocked(t)

ServerNext == ReceiverStep \/ InterruptServer \/ \E t \in Timers : TimerStep(t)

=============================================================================

------------------------- MODULE MqttManagerProofs -------------------------
(***************************************************************************)
(* Proofs about MqttManager, for any number of outstanding messages.       *)
(*                                                                         *)
(* The invariant has one part per question.  Control: where the tasks can  *)
(* be together.  Flag: mqtt_connected is right once the events that are    *)
(* still to be dispatched are dispatched.  Messages: an acknowledgement    *)
(* or an empty place in the outbox means that the broker has the message.  *)
(***************************************************************************)
EXTENDS MqttManager, SequenceTheorems, TLAPS

Control ==
    /\ main_pc # "done" => pc = "off"
    /\ main_pc \in {"init", "register", "start"} => client = "stopped"
    /\ main_pc \in {"register", "start"} \/ client # "stopped" => mqtt_client
    /\ lock = "telemetry" <=> pc = "unlock"

Settled == mqtt_connected <=> registered /\ client = "connected"

Flag ==
    /\ mqtt_connected => registered /\ client # "stopped"
    /\ \/ events = <<>> /\ Settled
       \/ events = <<"CONNECTED">> /\ client = "connected" /\ lock # Free
       \/ events = <<"DISCONNECTED">> /\ client = "waiting" /\ lock # Free
       \/ events = <<"ERROR", "DISCONNECTED">> /\ client = "waiting" /\ lock # Free

Messages ==
    /\ acks \subseteq received
    /\ \A s \in Slots : s \in wire /\ box[s] = "done" => s \in received

IInv ==
    /\ TypeOK /\ Control /\ Flag /\ NoPayloadLeaks
    /\ OnlyAStartedClientPublishes /\ Messages /\ AcceptedIsKept

(* What is left to dispatch once the first event is dispatched.            *)
LEMMA LastOfOne == ASSUME NEW e PROVE Tail(<<e>>) = <<>>
<1>1. <<e>> \in Seq({e}) /\ <<e>> # <<>> /\ Len(<<e>>) = 1
  OBVIOUS
<1>2. Tail(<<e>>) \in Seq({e}) /\ Len(Tail(<<e>>)) = 0
  BY <1>1, HeadTailProperties
<1>3. QED
  BY <1>2, EmptySeq

(* And once the first of two is.                                           *)
LEMMA LastOfTwo == ASSUME NEW d, NEW e PROVE Tail(<<d, e>>) = <<e>>
<1>1. <<d, e>> \in Seq({d, e}) /\ <<d, e>> # <<>> /\ Len(<<d, e>>) = 2
  OBVIOUS
<1>2. /\ Tail(<<d, e>>) \in Seq({d, e}) /\ Len(Tail(<<d, e>>)) = 1
      /\ Tail(<<d, e>>)[1] = e
  BY <1>1, HeadTailProperties
<1>3. <<e>> \in Seq({d, e}) /\ Len(<<e>>) = 1 /\ <<e>>[1] = e
  OBVIOUS
<1>4. QED
  BY <1>2, <1>3, SeqEqual

(* Types are kept; that the payload is freed once only is part of it.      *)
LEMMA TypeStep ==
    ASSUME TypeOK, NoPayloadLeaks, [Next]_vars
    PROVE  TypeOK'
<1>. USE DEF TypeOK, NoPayloadLeaks, QoS, vars, initVars, taskVars, msgVars, Free
<1>1. CASE Main
  BY <1>1 DEF Main, ClientInit, RegisterEvent, ClientStart, CreateTask
<1>2. CASE Connect
  BY <1>2 DEF Connect
<1>3. CASE ConnectFails
  BY <1>3 DEF ConnectFails
<1>4. CASE Drop
  BY <1>4 DEF Drop
<1>5. CASE DispatchEvent
  <2>1. events' \in Seq({"CONNECTED", "DISCONNECTED", "ERROR"})
    <3>1. events \in Seq({"CONNECTED", "DISCONNECTED", "ERROR"}) /\ events # <<>>
      BY <1>5 DEF DispatchEvent
    <3>2. events' = Tail(events)
      BY <1>5 DEF DispatchEvent
    <3>3. QED
      BY <3>1, <3>2, HeadTailProperties
  <2>2. mqtt_connected' \in BOOLEAN
    BY <1>5 DEF DispatchEvent, MqttEventHandler
  <2>3. QED
    BY <1>5, <2>1, <2>2 DEF DispatchEvent
<1>6. CASE ClientUnlock
  BY <1>6 DEF ClientUnlock
<1>7. ASSUME NEW s \in Slots, Resend(s) \/ Acked(s) \/ Expire(s) \/ BrokerReceives(s)
      PROVE  TypeOK'
  BY <1>7 DEF Resend, Acked, Expire, BrokerReceives
<1>8. CASE Telemetry
  BY <1>8 DEF Telemetry, Check, BuildOk, BuildFails, PublishChecks,
              TelemetryUnlock, Release, Delay
<1>9. CASE SendNoMemory
  BY <1>9 DEF SendNoMemory
<1>10. ASSUME NEW s \in Slots, SendOnline(s) \/ SendOffline(s) \/ SendFails(s)
       PROVE  TypeOK'
  <2>1. /\ box' \in [Slots -> {"queued", "transmitted", "done", "expired"}]
        /\ told' \in [Slots -> {"none", "sent", "failed"}]
    BY <1>10 DEF SendOnline, SendOffline, SendFails, Store
  <2>2. events' \in Seq({"CONNECTED", "DISCONNECTED", "ERROR"})
    <3>1. events' = events \/ events' = <<"DISCONNECTED">>
      BY <1>10 DEF SendOnline, SendOffline, SendFails
    <3>2. <<"DISCONNECTED">> \in Seq({"CONNECTED", "DISCONNECTED", "ERROR"})
      OBVIOUS
    <3>3. QED
      BY <3>1, <3>2
  <2>3. {wire', acks', received'} \subseteq SUBSET Slots
    BY <1>10 DEF SendOnline, SendOffline, SendFails, Store
  <2>4. QED
    BY <1>10, <2>1, <2>2, <2>3 DEF SendOnline, SendOffline, SendFails, Store
<1>11. CASE UNCHANGED vars
  BY <1>11
<1>12. QED
  BY <1>1, <1>2, <1>3, <1>4, <1>5, <1>6, <1>7, <1>8, <1>9, <1>10, <1>11
     DEF Next, Send

(* The main task starts the others in order; the telemetry task has the    *)
(* lock across a step only to dispatch the event of a failed write.        *)
LEMMA ControlStep ==
    ASSUME TypeOK, Control, [Next]_vars
    PROVE  Control'
<1>. USE DEF TypeOK, Control, vars, initVars, taskVars, msgVars, Free
<1>1. CASE Main
  BY <1>1 DEF Main, ClientInit, RegisterEvent, ClientStart, CreateTask
<1>2. CASE Connect
  BY <1>2 DEF Connect
<1>3. CASE ConnectFails
  BY <1>3 DEF ConnectFails
<1>4. CASE Drop
  BY <1>4 DEF Drop
<1>5. CASE DispatchEvent
  BY <1>5 DEF DispatchEvent, MqttEventHandler
<1>6. CASE ClientUnlock
  BY <1>6 DEF ClientUnlock
<1>7. ASSUME NEW s \in Slots, Resend(s) \/ Acked(s) \/ Expire(s) \/ BrokerReceives(s)
      PROVE  Control'
  BY <1>7 DEF Resend, Acked, Expire, BrokerReceives
<1>8. CASE Telemetry
  BY <1>8 DEF Telemetry, Check, BuildOk, BuildFails, PublishChecks,
              TelemetryUnlock, Release, Delay
<1>9. CASE SendNoMemory
  BY <1>9 DEF SendNoMemory
<1>10. ASSUME NEW s \in Slots, SendOnline(s) \/ SendOffline(s) \/ SendFails(s)
       PROVE  Control'
  BY <1>10 DEF SendOnline, SendOffline, SendFails, Store, Reusable
<1>11. CASE UNCHANGED vars
  BY <1>11
<1>12. QED
  BY <1>1, <1>2, <1>3, <1>4, <1>5, <1>6, <1>7, <1>8, <1>9, <1>10, <1>11
     DEF Next, Send

(* Each event is dispatched before the lock that orders it is released.    *)
LEMMA FlagStep ==
    ASSUME TypeOK, Control, Flag, [Next]_vars
    PROVE  Flag'
<1>. USE DEF TypeOK, Control, Flag, Settled, vars, initVars, taskVars, msgVars, Free
<1>1. CASE Main
  BY <1>1 DEF Main, ClientInit, RegisterEvent, ClientStart, CreateTask
<1>2. CASE Connect
  BY <1>2 DEF Connect
<1>3. CASE ConnectFails
  BY <1>3 DEF ConnectFails
<1>4. CASE Drop
  BY <1>4 DEF Drop
<1>5. CASE DispatchEvent
  <2>1. CASE events = <<"CONNECTED">> /\ client = "connected"
    <3>1. Head(events) = "CONNECTED" /\ events' = <<>>
      BY <1>5, <2>1, LastOfOne DEF DispatchEvent
    <3>2. QED
      BY <1>5, <2>1, <3>1 DEF DispatchEvent, MqttEventHandler
  <2>2. CASE events = <<"DISCONNECTED">> /\ client = "waiting"
    <3>1. Head(events) = "DISCONNECTED" /\ events' = <<>>
      BY <1>5, <2>2, LastOfOne DEF DispatchEvent
    <3>2. QED
      BY <1>5, <2>2, <3>1 DEF DispatchEvent, MqttEventHandler
  <2>3. CASE events = <<"ERROR", "DISCONNECTED">> /\ client = "waiting" /\ lock # Free
    <3>1. Head(events) = "ERROR" /\ events' = <<"DISCONNECTED">>
      BY <1>5, <2>3, LastOfTwo DEF DispatchEvent
    <3>2. QED
      BY <1>5, <2>3, <3>1 DEF DispatchEvent, MqttEventHandler
  <2>4. QED
    BY <1>5, <2>1, <2>2, <2>3 DEF DispatchEvent
<1>6. CASE ClientUnlock
  BY <1>6 DEF ClientUnlock
<1>7. ASSUME NEW s \in Slots, Resend(s) \/ Acked(s) \/ Expire(s) \/ BrokerReceives(s)
      PROVE  Flag'
  BY <1>7 DEF Resend, Acked, Expire, BrokerReceives
<1>8. CASE Telemetry
  <2>1. CASE TelemetryUnlock
    BY <2>1 DEF TelemetryUnlock
  <2>2. CASE ~ TelemetryUnlock
    <3>1. UNCHANGED <<mqtt_connected, registered, client, lock, events>>
      BY <1>8, <2>2 DEF Telemetry, Check, BuildOk, BuildFails, PublishChecks,
                        Release, Delay
    <3>2. QED
      BY <3>1
  <2>3. QED
    BY <2>1, <2>2
<1>9. CASE SendNoMemory
  BY <1>9 DEF SendNoMemory
<1>10. ASSUME NEW s \in Slots, SendOnline(s) \/ SendOffline(s) \/ SendFails(s)
       PROVE  Flag'
  BY <1>10 DEF SendOnline, SendOffline, SendFails, Store, Reusable
<1>11. CASE UNCHANGED vars
  BY <1>11
<1>12. QED
  BY <1>1, <1>2, <1>3, <1>4, <1>5, <1>6, <1>7, <1>8, <1>9, <1>10, <1>11
     DEF Next, Send

(* One payload between its building and its release.                       *)
LEMMA HeapStep ==
    ASSUME TypeOK, Control, NoPayloadLeaks, [Next]_vars
    PROVE  NoPayloadLeaks'
<1>. USE DEF TypeOK, Control, NoPayloadLeaks, vars, initVars, taskVars, msgVars, Free
<1>1. CASE Main
  BY <1>1 DEF Main, ClientInit, RegisterEvent, ClientStart, CreateTask
<1>2. CASE Connect
  BY <1>2 DEF Connect
<1>3. CASE ConnectFails
  BY <1>3 DEF ConnectFails
<1>4. CASE Drop
  BY <1>4 DEF Drop
<1>5. CASE DispatchEvent
  BY <1>5 DEF DispatchEvent, MqttEventHandler
<1>6. CASE ClientUnlock
  BY <1>6 DEF ClientUnlock
<1>7. ASSUME NEW s \in Slots, Resend(s) \/ Acked(s) \/ Expire(s) \/ BrokerReceives(s)
      PROVE  NoPayloadLeaks'
  BY <1>7 DEF Resend, Acked, Expire, BrokerReceives
<1>8. CASE Telemetry
  BY <1>8 DEF Telemetry, Check, BuildOk, BuildFails, PublishChecks,
              TelemetryUnlock, Release, Delay
<1>9. CASE SendNoMemory
  BY <1>9 DEF SendNoMemory
<1>10. ASSUME NEW s \in Slots, SendOnline(s) \/ SendOffline(s) \/ SendFails(s)
       PROVE  NoPayloadLeaks'
  BY <1>10 DEF SendOnline, SendOffline, SendFails, Store, Reusable
<1>11. CASE UNCHANGED vars
  BY <1>11
<1>12. QED
  BY <1>1, <1>2, <1>3, <1>4, <1>5, <1>6, <1>7, <1>8, <1>9, <1>10, <1>11
     DEF Next, Send

(* Only the flag lets the task out of its loop's first check.              *)
LEMMA StartedStep ==
    ASSUME TypeOK, Control, Flag, OnlyAStartedClientPublishes, [Next]_vars
    PROVE  OnlyAStartedClientPublishes'
<1>. USE DEF TypeOK, Control, Flag,
           OnlyAStartedClientPublishes, Started,
           vars, initVars, taskVars, msgVars, Free
<1>1. CASE Main
  BY <1>1 DEF Main, ClientInit, RegisterEvent, ClientStart, CreateTask
<1>2. CASE Connect
  BY <1>2 DEF Connect
<1>3. CASE ConnectFails
  BY <1>3 DEF ConnectFails
<1>4. CASE Drop
  BY <1>4 DEF Drop
<1>5. CASE DispatchEvent
  BY <1>5 DEF DispatchEvent, MqttEventHandler
<1>6. CASE ClientUnlock
  BY <1>6 DEF ClientUnlock
<1>7. ASSUME NEW s \in Slots, Resend(s) \/ Acked(s) \/ Expire(s) \/ BrokerReceives(s)
      PROVE  OnlyAStartedClientPublishes'
  BY <1>7 DEF Resend, Acked, Expire, BrokerReceives
<1>8. CASE Telemetry
  BY <1>8 DEF Telemetry, Check, BuildOk, BuildFails, PublishChecks,
              TelemetryUnlock, Release, Delay
<1>9. CASE SendNoMemory
  BY <1>9 DEF SendNoMemory
<1>10. ASSUME NEW s \in Slots, SendOnline(s) \/ SendOffline(s) \/ SendFails(s)
       PROVE  OnlyAStartedClientPublishes'
  BY <1>10 DEF SendOnline, SendOffline, SendFails, Store, Reusable
<1>11. CASE UNCHANGED vars
  BY <1>11
<1>12. QED
  BY <1>1, <1>2, <1>3, <1>4, <1>5, <1>6, <1>7, <1>8, <1>9, <1>10, <1>11
     DEF Next, Send

(* Acknowledgements come from the broker, and are what empties the outbox. *)
LEMMA MessagesStep ==
    ASSUME TypeOK, Messages, [Next]_vars
    PROVE  Messages'
<1>. USE DEF TypeOK, Messages, QoS, vars, initVars, taskVars, msgVars, Free
<1>1. CASE Main
  BY <1>1 DEF Main, ClientInit, RegisterEvent, ClientStart, CreateTask
<1>2. CASE Connect
  BY <1>2 DEF Connect
<1>3. CASE ConnectFails
  BY <1>3 DEF ConnectFails
<1>4. CASE Drop
  BY <1>4 DEF Drop
<1>5. CASE DispatchEvent
  BY <1>5 DEF DispatchEvent, MqttEventHandler
<1>6. CASE ClientUnlock
  BY <1>6 DEF ClientUnlock
<1>7. ASSUME NEW s \in Slots, Resend(s) \/ Acked(s) \/ Expire(s) \/ BrokerReceives(s)
      PROVE  Messages'
  BY <1>7 DEF Resend, Acked, Expire, BrokerReceives
<1>8. CASE Telemetry
  BY <1>8 DEF Telemetry, Check, BuildOk, BuildFails, PublishChecks,
              TelemetryUnlock, Release, Delay
<1>9. CASE SendNoMemory
  BY <1>9 DEF SendNoMemory
<1>10. ASSUME NEW s \in Slots, SendOnline(s) \/ SendOffline(s) \/ SendFails(s)
       PROVE  Messages'
  BY <1>10 DEF SendOnline, SendOffline, SendFails, Store, Reusable
<1>11. CASE UNCHANGED vars
  BY <1>11
<1>12. QED
  BY <1>1, <1>2, <1>3, <1>4, <1>5, <1>6, <1>7, <1>8, <1>9, <1>10, <1>11
     DEF Next, Send

(* A slot reported as sent is not emptied but by an acknowledgement.       *)
LEMMA AcceptedStep ==
    ASSUME TypeOK, Messages, AcceptedIsKept, [Next]_vars
    PROVE  AcceptedIsKept'
<1>. USE DEF TypeOK, Messages, AcceptedIsKept, QoS,
           vars, initVars, taskVars, msgVars, Free
<1>1. CASE Main
  BY <1>1 DEF Main, ClientInit, RegisterEvent, ClientStart, CreateTask
<1>2. CASE Connect
  BY <1>2 DEF Connect
<1>3. CASE ConnectFails
  BY <1>3 DEF ConnectFails
<1>4. CASE Drop
  BY <1>4 DEF Drop
<1>5. CASE DispatchEvent
  BY <1>5 DEF DispatchEvent, MqttEventHandler
<1>6. CASE ClientUnlock
  BY <1>6 DEF ClientUnlock
<1>7. ASSUME NEW s \in Slots, Resend(s) \/ Acked(s) \/ Expire(s) \/ BrokerReceives(s)
      PROVE  AcceptedIsKept'
  BY <1>7 DEF Resend, Acked, Expire, BrokerReceives
<1>8. CASE Telemetry
  BY <1>8 DEF Telemetry, Check, BuildOk, BuildFails, PublishChecks,
              TelemetryUnlock, Release, Delay
<1>9. CASE SendNoMemory
  BY <1>9 DEF SendNoMemory
<1>10. ASSUME NEW s \in Slots, SendOnline(s) \/ SendOffline(s) \/ SendFails(s)
       PROVE  AcceptedIsKept'
  BY <1>10 DEF SendOnline, SendOffline, SendFails, Store, Reusable
<1>11. CASE UNCHANGED vars
  BY <1>11
<1>12. QED
  BY <1>1, <1>2, <1>3, <1>4, <1>5, <1>6, <1>7, <1>8, <1>9, <1>10, <1>11
     DEF Next, Send

(* The inductive invariant: at the start, and from step to step.           *)
LEMMA Begin == Init => IInv
<1>. SUFFICES ASSUME Init PROVE IInv
  OBVIOUS
<1>. USE DEF Init, Free
<1>1. TypeOK
  <2>1. events \in Seq({"CONNECTED", "DISCONNECTED", "ERROR"})
    OBVIOUS
  <2>2. box \in [Slots -> {"queued", "transmitted", "done", "expired"}]
    OBVIOUS
  <2>3. QED
    BY <2>1, <2>2 DEF TypeOK
<1>2. Control /\ Flag
  BY DEF Control, Flag, Settled
<1>3. NoPayloadLeaks /\ OnlyAStartedClientPublishes
  BY DEF NoPayloadLeaks, OnlyAStartedClientPublishes
<1>4. Messages /\ AcceptedIsKept
  BY DEF Messages, AcceptedIsKept
<1>5. QED
  BY <1>1, <1>2, <1>3, <1>4 DEF IInv

(* Every step keeps it: one lemma above for each of its parts.             *)
LEMMA Step == IInv /\ [Next]_vars => IInv'
<1>. SUFFICES ASSUME IInv, [Next]_vars PROVE IInv'
  OBVIOUS
<1>1. TypeOK' /\ Control'
  BY TypeStep, ControlStep DEF IInv
<1>2. Flag' /\ NoPayloadLeaks'
  BY FlagStep, HeapStep DEF IInv
<1>3. OnlyAStartedClientPublishes' /\ Messages' /\ AcceptedIsKept'
  BY StartedStep, MessagesStep, AcceptedStep DEF IInv
<1>4. QED
  BY <1>1, <1>2, <1>3 DEF IInv

(* The invariant holds of every behaviour, fair or not.                    *)
THEOREM Inductive == Spec => []IInv
BY Begin, Step, PTL DEF Spec

(* The variables keep their types.                                         *)
THEOREM TypeCorrect == Spec => []TypeOK
<1>1. IInv => TypeOK
  BY DEF IInv
<1>2. QED
  BY <1>1, Inductive, PTL

(* mqtt_connected is right whenever the client's lock is free              *)
(* (mqtt_manager.c:40, 48), in whichever task the event was dispatched.    *)
THEOREM FlagIsRight == Spec => []FlagMatchesClient
<1>1. IInv => FlagMatchesClient
  BY DEF IInv, TypeOK, Flag, Settled, FlagMatchesClient
<1>2. QED
  BY <1>1, Inductive, PTL

(* A payload is freed exactly once, whatever mqtt_publish made of it       *)
(* (app_main.c:42).                                                        *)
THEOREM FreedOnce == Spec => []NoPayloadLeaks
<1>1. IInv => NoPayloadLeaks
  BY DEF IInv
<1>2. QED
  BY <1>1, Inductive, PTL

(* No payload is built before the client is created, registered and        *)
(* started (app_main.c:29, mqtt_manager.c:71-83).                          *)
THEOREM StartedFirst == Spec => []OnlyAStartedClientPublishes
<1>1. IInv => OnlyAStartedClientPublishes
  BY DEF IInv
<1>2. QED
  BY <1>1, Inductive, PTL

(* A message reported as sent is with the broker, in the outbox, or has    *)
(* expired (mqtt_manager.c:108-119), for any number outstanding.           *)
THEOREM SentIsKept == Spec => []AcceptedIsKept
<1>1. IInv => AcceptedIsKept
  BY DEF IInv
<1>2. QED
  BY <1>1, Inductive, PTL

----------------------------------------------------------------------------
(* The refinement: MqttManager implements Delivery.                        *)

(* What storing a message does to the fate of a slot, its own or another.  *)
LEMMA FateAccepted ==
    ASSUME TypeOK, NEW s \in Slots, SendOnline(s) \/ SendOffline(s) \/ SendFails(s),
           NEW t \in Slots
    PROVE  /\ taken' = 1 - taken
           /\ t = s => Fate(t) # "pending" /\ Fate(t)' = "pending"
           /\ t # s => Fate(t)' = Fate(t)
<1>. USE DEF TypeOK, Fate, QoS, SendOnline, SendOffline, SendFails, Store
<1>1. taken' = 1 - taken
  OBVIOUS
<1>2. ASSUME t = s PROVE Fate(t) # "pending" /\ Fate(t)' = "pending"
  BY <1>2 DEF Reusable
<1>3. ASSUME t # s PROVE Fate(t)' = Fate(t)
  BY <1>3
<1>4. QED
  BY <1>1, <1>2, <1>3

(* How any other step moves the fate of one slot.                          *)
LEMMA FateSettles ==
    ASSUME TypeOK, Messages, [Next]_vars, NEW t \in Slots,
           ~ \E s \in Slots : SendOnline(s) \/ SendOffline(s) \/ SendFails(s)
    PROVE  /\ taken' = taken
           /\ \/ Fate(t)' = Fate(t)
              \/ Fate(t) = "pending" /\ Fate(t)' \in {"delivered", "lost"}
<1>. USE DEF TypeOK, Messages, Fate, QoS, vars, initVars, taskVars, msgVars, Free
<1>1. CASE UNCHANGED msgVars
  BY <1>1
<1>2. CASE Connect
  BY <1>2 DEF Connect
<1>3. CASE Drop
  BY <1>3 DEF Drop
<1>4. ASSUME NEW s \in Slots, Resend(s) \/ Acked(s) \/ Expire(s) \/ BrokerReceives(s)
      PROVE  /\ taken' = taken
             /\ \/ Fate(t)' = Fate(t)
                \/ Fate(t) = "pending" /\ Fate(t)' \in {"delivered", "lost"}
  <2>1. CASE Resend(s)
    BY <2>1 DEF Resend
  <2>2. CASE Acked(s)
    BY <2>2 DEF Acked
  <2>3. CASE Expire(s)
    BY <2>3 DEF Expire
  <2>4. CASE BrokerReceives(s)
    BY <2>4 DEF BrokerReceives
  <2>5. QED
    BY <1>4, <2>1, <2>2, <2>3, <2>4
<1>5. Main \/ ConnectFails \/ DispatchEvent \/ ClientUnlock => UNCHANGED msgVars
  BY DEF Main, ClientInit, RegisterEvent, ClientStart, CreateTask,
         ConnectFails, DispatchEvent, ClientUnlock
<1>6. Telemetry \/ SendNoMemory => UNCHANGED msgVars
  BY DEF Telemetry, Check, BuildOk, BuildFails, PublishChecks,
         TelemetryUnlock, Release, Delay, SendNoMemory
<1>7. UNCHANGED vars => UNCHANGED msgVars
  OBVIOUS
<1>8. QED
  BY <1>1, <1>2, <1>3, <1>4, <1>5, <1>6, <1>7 DEF Next, Send

(* At the start no slot holds a publication.                               *)
LEMMA PromiseBegins == Init => Promise!Init
<1>. SUFFICES ASSUME Init
              PROVE  [s \in Slots |-> Fate(s)] = [s \in Slots |-> "none"] /\ taken = 0
  BY DEF Promise!Init
<1>1. ASSUME NEW s \in Slots PROVE Fate(s) = "none"
  BY DEF Init, Fate
<1>2. QED
  BY <1>1 DEF Init

(* Every step of the firmware and its client is one of Delivery.           *)
LEMMA PromiseSteps ==
    IInv /\ [Next]_vars => Promise!Next
<1>. SUFFICES ASSUME IInv, [Next]_vars PROVE Promise!Next
  OBVIOUS
<1>1. TypeOK /\ Messages
  BY DEF IInv
<1>2. ASSUME NEW s \in Slots, SendOnline(s) \/ SendOffline(s) \/ SendFails(s)
      PROVE  Promise!Accept(s)
  <2>1. /\ taken' = 1 - taken
        /\ Fate(s) # "pending" /\ Fate(s)' = "pending"
        /\ \A t \in Slots : t # s => Fate(t)' = Fate(t)
    BY <1>1, <1>2, FateAccepted
  <2>2. ([t \in Slots |-> Fate(t)])'
            = [[t \in Slots |-> Fate(t)] EXCEPT ![s] = "pending"]
    BY <2>1
  <2>3. QED
    BY <2>1, <2>2 DEF Promise!Accept
<1>3. CASE ~ \E s \in Slots : SendOnline(s) \/ SendOffline(s) \/ SendFails(s)
  <2>1. taken' = taken
    <3>1. CASE Slots # {}
      BY <1>1, <1>3, <3>1, FateSettles
    <3>2. CASE Slots = {}
      BY <1>3, <3>2 DEF Next, vars, Main, ClientInit, RegisterEvent, ClientStart,
         CreateTask, Connect, ConnectFails, Drop, DispatchEvent, ClientUnlock,
         Telemetry, Check, BuildOk, BuildFails, PublishChecks, TelemetryUnlock,
         Release, Delay, Send, SendNoMemory, msgVars
    <3>3. QED
      BY <3>1, <3>2
  <2>2. ([s \in Slots |-> Fate(s)])' \in [Slots -> Promise!Fates]
    BY DEF Promise!Fates, Fate
  <2>3. ASSUME NEW t \in Slots
        PROVE  \/ ([s \in Slots |-> Fate(s)])'[t] = [s \in Slots |-> Fate(s)][t]
               \/ /\ [s \in Slots |-> Fate(s)][t] = "pending"
                  /\ ([s \in Slots |-> Fate(s)])'[t] \in {"delivered", "lost"}
    <3>1. /\ [s \in Slots |-> Fate(s)][t] = Fate(t)
          /\ ([s \in Slots |-> Fate(s)])'[t] = Fate(t)'
      OBVIOUS
    <3>2. QED
      BY <1>1, <1>3, <3>1, FateSettles
  <2>4. QED
    BY <2>1, <2>2, <2>3 DEF Promise!Next, Promise!Settle
<1>4. QED
  BY <1>2, <1>3 DEF Promise!Next

(* Telemetry keeps the promise of Delivery: a publication the client has   *)
(* stored (mqtt_manager.c:108) is pending at once, is delivered or given   *)
(* up but once and keeps that fate until another takes its slot, whatever  *)
(* is resent, lost, acknowledged late or expires.                          *)
THEOREM Implements == Spec => KeepsItsPromise
BY PromiseBegins, PromiseSteps, Inductive, PTL
   DEF Spec, KeepsItsPromise, Promise!Spec

=============================================================================

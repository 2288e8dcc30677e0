------------------------ MODULE WifiManagerProofs --------------------------
(***************************************************************************)
(* Proofs about WifiManager, for every size of the event queue and every   *)
(* number of other events that leaves four of its places.                  *)
(*                                                                         *)
(* NeverStranded, RoomForOwnEvents and BoundIsAnnounced are not inductive: *)
(* none of them says which events may be outstanding together.  QueueShape *)
(* does, as a table over the states of the radio and the DHCP client.      *)
(***************************************************************************)
EXTENDS WifiManager, SequenceTheorems, TLAPS

START == "STA_START"
CONN == "STA_CONNECTED"
DISC == "STA_DISCONNECTED"
GOTIP == "STA_GOT_IP"

(* The event whose handler is running, and the events waiting behind it,   *)
(* for each state of the radio and the DHCP client.  A GOTIP may be        *)
(* outstanding long after the link it belongs to is gone.  A refused       *)
(* esp_wifi_connect leaves the radio idle with no trigger outstanding.     *)
QueueShape ==
    \/ /\ radio = "off" /\ dhcp = "off"
       /\ handling = None /\ evq = <<>>
    \/ /\ radio = "connecting" /\ dhcp = "off"
       /\ \/ handling = None /\ evq \in {<<>>, <<GOTIP>>}
          \/ handling = GOTIP /\ evq = <<>>
    \/ /\ radio = "associated" /\ dhcp = "off"
       /\ \/ handling = None /\ evq \in {<<CONN>>, <<GOTIP, CONN>>}
          \/ handling = GOTIP /\ evq = <<CONN>>
    \/ /\ radio = "associated" /\ dhcp = "running"
       /\ handling \in {None, CONN} /\ evq = <<>>
    \/ /\ radio = "associated" /\ dhcp = "bound"
       /\ \/ handling \in {None, CONN} /\ evq = <<GOTIP>>
          \/ handling = GOTIP /\ evq = <<>>
          \/ handling = None /\ evq = <<>> /\ wifi_connected
    \/ /\ radio = "idle" /\ dhcp = "off"
       /\ \/ handling = None
             /\ evq \in {<<START>>, <<DISC>>, <<GOTIP, DISC>>, <<CONN, DISC>>, <<GOTIP, CONN, DISC>>}
          \/ handling = START /\ evq = <<>>
          \/ handling = DISC /\ evq \in {<<>>, <<GOTIP>>}
          \/ handling = GOTIP /\ evq \in {<<DISC>>, <<CONN, DISC>>}
    \/ /\ radio = "idle" /\ dhcp = "off" /\ ConnectCanFail
       /\ \/ handling = None /\ evq \in {<<>>, <<GOTIP>>}
          \/ handling = GOTIP /\ evq = <<>>
    \/ /\ radio = "idle" /\ dhcp = "running"
       /\ handling \in {None, CONN} /\ evq = <<DISC>>
    \/ /\ radio = "idle" /\ dhcp = "bound"
       /\ \/ handling \in {None, CONN} /\ evq \in {<<GOTIP, DISC>>, <<DISC, GOTIP>>}
          \/ handling = GOTIP /\ evq = <<DISC>>
          \/ handling = None /\ evq = <<DISC>> /\ wifi_connected

(* The handlers are in place before the radio can post its first event.    *)
RegisteredBeforeStart ==
    /\ radio # "off" => init_step = Done
    /\ init_step \in 5..Done => "WIFI_EVENT" \in registered
    /\ init_step \in 6..Done => "IP_EVENT" \in registered

IInv == TypeOK /\ RegisteredBeforeStart /\ QueueShape

----------------------------------------------------------------------------
LEMMA InitSteps == Done = 9 /\ Aborted = 10
BY DEF Done, Aborted, InitCalls

LEMMA EventNames == START \in Events /\ CONN \in Events /\ DISC \in Events /\ GOTIP \in Events
BY DEF START, CONN, DISC, GOTIP, Events

(* The types at the start.                                                 *)
LEMMA TypeBegin == Init => TypeOK
<1>. USE WifiAssumption, InitSteps, EventNames DEF START, CONN, DISC, GOTIP, TypeOK
<1>. SUFFICES ASSUME Init PROVE TypeOK
  OBVIOUS
<1>1. wifi_connected \in BOOLEAN /\ ready \in BOOLEAN
  BY DEF Init
<1>2. init_step \in 0..Aborted
  BY DEF Init
<1>3. evq \in Seq(Events) /\ others \in 0..OtherEvents
  BY DEF Init
<1>4. QED
  BY <1>1, <1>2, <1>3 DEF Init

(* And from step to step.                                                  *)
LEMMA TypeStep == TypeOK /\ [Next]_vars => TypeOK'
<1>. USE WifiAssumption, InitSteps, EventNames DEF START, CONN, DISC, GOTIP, TypeOK
<1>. SUFFICES ASSUME TypeOK, [Next]_vars PROVE TypeOK'
  OBVIOUS
<1>. USE DEF Post
<1>1. CASE InitCall
  BY <1>1 DEF InitCall
<1>2. CASE InitAbort
  BY <1>2 DEF InitAbort
<1>3. CASE Reboot
  <2>1. wifi_connected' \in BOOLEAN /\ ready' \in BOOLEAN
    BY <1>3 DEF Reboot
  <2>2. init_step' \in 0..Aborted
    BY <1>3 DEF Reboot
  <2>3. evq' \in Seq(Events) /\ others' \in 0..OtherEvents
    BY <1>3 DEF Reboot
  <2>4. QED
    BY <1>3, <2>1, <2>2, <2>3 DEF Reboot
<1>4. CASE WaitEnds
  BY <1>4 DEF WaitEnds
<1>5. CASE TakeEvent
  BY <1>5 DEF TakeEvent, DefaultWifiHandlers
<1>6. CASE HandleEvent
  BY <1>6 DEF HandleEvent, WifiEventHandler, EspWifiConnect
<1>7. CASE Associate
  BY <1>7 DEF Associate
<1>8. CASE LinkDown
  BY <1>8 DEF LinkDown
<1>9. CASE DhcpBind
  BY <1>9 DEF DhcpBind
<1>10. CASE LeaseLapse
  BY <1>10 DEF LeaseLapse
<1>11. CASE PostOther \/ TakeOther
  <2>1. UNCHANGED <<wifi_connected, init_step, ready, registered, evq, handling, radio, dhcp>>
    BY <1>11 DEF PostOther, TakeOther
  <2>2. others' \in 0..OtherEvents
    <3>1. others \in Nat /\ OtherEvents \in Nat /\ others <= OtherEvents
      OBVIOUS
    <3>2. \/ others < OtherEvents /\ others' = others + 1
          \/ others > 0 /\ others' = others - 1
      BY <1>11 DEF PostOther, TakeOther
    <3>3. QED
      BY <3>1, <3>2
  <2>3. QED
    BY <2>1, <2>2
<1>12. CASE UNCHANGED vars
  BY <1>12 DEF vars
<1>13. QED
  BY <1>1, <1>2, <1>3, <1>4, <1>5, <1>6, <1>7, <1>8, <1>9, <1>10, <1>11,
     <1>12 DEF Next

(* Every variable keeps its type, whatever the network does.               *)
THEOREM TypeCorrect == Spec => []TypeOK
BY TypeBegin, TypeStep, PTL DEF Spec

(* The conjuncts about one step, kept apart from the typing of the queue.  *)
LEMMA HandlersFirst ==
    TypeOK /\ RegisteredBeforeStart /\ [Next]_vars => RegisteredBeforeStart'
<1>. SUFFICES ASSUME TypeOK, RegisteredBeforeStart, [Next]_vars
              PROVE  RegisteredBeforeStart'
  OBVIOUS
<1>. USE InitSteps DEF TypeOK, RegisteredBeforeStart
<1>1. CASE InitCall
  <2>1. init_step \in 0..8 /\ init_step' = init_step + 1
    BY <1>1 DEF InitCall
  <2>2. radio' # "off" => init_step' = Done
    BY <1>1, <2>1 DEF InitCall, InitCalls
  <2>3. init_step' = 5 => "WIFI_EVENT" \in registered'
    BY <1>1, <2>1 DEF InitCall, InitCalls
  <2>4. init_step' = 6 => "IP_EVENT" \in registered'
    BY <1>1, <2>1 DEF InitCall, InitCalls
  <2>5. registered \subseteq registered'
    BY <1>1 DEF InitCall
  <2>6. QED
    BY <2>1, <2>2, <2>3, <2>4, <2>5
<1>2. CASE InitAbort
  BY <1>2 DEF InitAbort
<1>3. CASE Reboot
  BY <1>3 DEF Reboot
<1>4. CASE WaitEnds
  BY <1>4 DEF WaitEnds
<1>5. CASE TakeEvent
  BY <1>5 DEF TakeEvent
<1>6. CASE HandleEvent
  BY <1>6 DEF HandleEvent, WifiEventHandler, EspWifiConnect
<1>7. CASE Associate \/ LinkDown
  BY <1>7 DEF Associate, LinkDown
<1>8. CASE DhcpBind \/ LeaseLapse
  BY <1>8 DEF DhcpBind, LeaseLapse
<1>9. CASE PostOther \/ TakeOther
  BY <1>9 DEF PostOther, TakeOther
<1>10. CASE UNCHANGED vars
  BY <1>10 DEF vars
<1>11. QED
  BY <1>1, <1>2, <1>3, <1>4, <1>5, <1>6, <1>7, <1>8, <1>9, <1>10 DEF Next

(* What the queue operations make of queues of up to three events.         *)
LEMMA AppendedToNone == \A e : Append(<<>>, e) = <<e>>
OBVIOUS

LEMMA AppendedToOne ==
    ASSUME NEW T, NEW a \in T, NEW e \in T
    PROVE  Append(<<a>>, e) = <<a, e>>
<1>1. /\ <<a>> \in Seq(T) /\ Len(<<a>>) = 1
      /\ <<a, e>> \in Seq(T) /\ Len(<<a, e>>) = 2
  OBVIOUS
<1>2. /\ Append(<<a>>, e) \in Seq(T) /\ Len(Append(<<a>>, e)) = 2
      /\ Append(<<a>>, e)[1] = a /\ Append(<<a>>, e)[2] = e
  BY <1>1, AppendProperties
<1>3. \A i \in 1..2 : Append(<<a>>, e)[i] = <<a, e>>[i]
  BY <1>2
<1>4. QED
  BY <1>1, <1>2, <1>3, SeqEqual

LEMMA AppendedToTwo ==
    ASSUME NEW T, NEW a \in T, NEW b \in T, NEW e \in T
    PROVE  Append(<<a, b>>, e) = <<a, b, e>>
<1>1. /\ <<a, b>> \in Seq(T) /\ Len(<<a, b>>) = 2
      /\ <<a, b, e>> \in Seq(T) /\ Len(<<a, b, e>>) = 3
  OBVIOUS
<1>2. /\ Append(<<a, b>>, e) \in Seq(T) /\ Len(Append(<<a, b>>, e)) = 3
      /\ Append(<<a, b>>, e)[1] = a /\ Append(<<a, b>>, e)[2] = b
      /\ Append(<<a, b>>, e)[3] = e
  BY <1>1, AppendProperties
<1>3. \A i \in 1..3 : Append(<<a, b>>, e)[i] = <<a, b, e>>[i]
  BY <1>2
<1>4. QED
  BY <1>1, <1>2, <1>3, SeqEqual

(* Others leave room for a fourth event behind three.                      *)
LEMMA RoomForFour ==
    ASSUME Len(evq) \in 0..3, others \in 0..OtherEvents
    PROVE  ~ Full
<1>1. EventQueueSize \in Nat /\ OtherEvents \in Nat /\ EventQueueSize >= OtherEvents + 4
  BY WifiAssumption
<1>2. PICK n \in 0..3 : Len(evq) = n
  OBVIOUS
<1>3. PICK m \in 0..OtherEvents : others = m
  OBVIOUS
<1>4. ~ (n + m >= EventQueueSize)
  BY <1>1
<1>5. QED
  BY <1>2, <1>3, <1>4 DEF Full

(* Posting behind at most two events: the others leave room for a third.   *)
LEMMA Posted ==
    ASSUME NEW e \in Events, others \in 0..OtherEvents, Post(e)
    PROVE  /\ evq = <<>> => evq' = <<e>>
           /\ \A a \in Events : evq = <<a>> => evq' = <<a, e>>
           /\ \A a, b \in Events : evq = <<a, b>> => evq' = <<a, b, e>>
<1>1. Len(evq) \in 0..2 => evq' = Append(evq, e)
  BY RoomForFour DEF Post
<1>2. evq = <<>> => evq' = <<e>>
  <2>1. Len(<<>>) = 0
    OBVIOUS
  <2>2. QED
    BY <1>1, <2>1, AppendedToNone
<1>3. ASSUME NEW a \in Events, evq = <<a>> PROVE evq' = <<a, e>>
  <2>1. Len(evq) = 1
    BY <1>3
  <2>2. QED
    BY <1>1, <1>3, <2>1, AppendedToOne
<1>4. ASSUME NEW a \in Events, NEW b \in Events, evq = <<a, b>>
      PROVE  evq' = <<a, b, e>>
  <2>1. Len(evq) = 2
    BY <1>4
  <2>2. QED
    BY <1>1, <1>4, <2>1, AppendedToTwo
<1>5. QED
  BY <1>2, <1>3, <1>4

LEMMA Taken ==
    /\ \A a : Head(<<a>>) = a /\ Tail(<<a>>) = <<>>
    /\ \A a, b : Head(<<a, b>>) = a /\ Tail(<<a, b>>) = <<b>>
    /\ \A a, b, c : Head(<<a, b, c>>) = a /\ Tail(<<a, b, c>>) = <<b, c>>
OBVIOUS

LEMMA ShapeKept ==
    IInv /\ [Next]_vars => QueueShape'
<1>. SUFFICES ASSUME IInv, [Next]_vars PROVE QueueShape'
  OBVIOUS
<1>. USE WifiAssumption DEF IInv, QueueShape, START, CONN, DISC, GOTIP, None
<1>0. others \in 0..OtherEvents
  BY DEF TypeOK
<1>1. CASE InitCall
  <2>1. radio = "off" /\ evq = <<>> /\ dhcp = "off" /\ handling = None
    BY <1>1, InitSteps DEF InitCall, RegisteredBeforeStart
  <2>2. CASE InitCalls[init_step + 1] = "esp_wifi_start"
    <3>1. radio' = "idle" /\ Post(START)
      BY <1>1, <2>2 DEF InitCall
    <3>2. evq' = <<START>>
      BY <2>1, <3>1, <1>0, EventNames, Posted
    <3>3. QED
      BY <1>1, <2>1, <3>1, <3>2 DEF InitCall
  <2>3. CASE InitCalls[init_step + 1] # "esp_wifi_start"
    BY <1>1, <2>1, <2>3 DEF InitCall
  <2>4. QED
    BY <2>2, <2>3
<1>2. CASE InitAbort
  BY <1>2 DEF InitAbort
<1>3. CASE Reboot
  BY <1>3 DEF Reboot
<1>4. CASE WaitEnds
  BY <1>4 DEF WaitEnds
<1>5. CASE TakeEvent
  <2>1. evq # <<>> /\ handling = None /\ evq' = Tail(evq)
        /\ handling' = Head(evq) /\ UNCHANGED <<radio, wifi_connected>>
    BY <1>5 DEF TakeEvent
  <2>2. /\ Head(evq) = CONN => dhcp' = "running"
        /\ Head(evq) = DISC => dhcp' = "off"
        /\ Head(evq) \in {START, GOTIP} => dhcp' = dhcp
    BY <1>5 DEF TakeEvent, DefaultWifiHandlers
  <2>3. CASE radio \in {"off", "connecting"}
    BY <2>1, <2>2, <2>3, Taken
  <2>4. CASE radio = "associated"
    <3>1. CASE evq = <<CONN>>
      <4>1. handling' = CONN /\ evq' = <<>>
        BY <2>1, <3>1, Taken
      <4>2. QED
        BY <2>1, <2>2, <2>4, <3>1, <4>1
    <3>2. CASE evq = <<GOTIP>>
      <4>1. handling' = GOTIP /\ evq' = <<>>
        BY <2>1, <3>2, Taken
      <4>2. QED
        BY <2>1, <2>2, <2>4, <3>2, <4>1
    <3>3. CASE evq = <<GOTIP, CONN>>
      <4>1. handling' = GOTIP /\ evq' = <<CONN>>
        BY <2>1, <3>3, Taken
      <4>2. QED
        BY <2>1, <2>2, <2>4, <3>3, <4>1
    <3>4. QED
      BY <2>1, <2>4, <3>1, <3>2, <3>3
  <2>5. CASE radio = "idle"
    <3>1. CASE evq = <<START>>
      <4>1. handling' = START /\ evq' = <<>>
        BY <2>1, <3>1, Taken
      <4>2. QED
        BY <2>1, <2>2, <2>5, <3>1, <4>1
    <3>2. CASE evq = <<DISC>>
      <4>1. handling' = DISC /\ evq' = <<>>
        BY <2>1, <3>2, Taken
      <4>2. QED
        BY <2>1, <2>2, <2>5, <3>2, <4>1
    <3>3. CASE evq = <<GOTIP>>
      <4>1. handling' = GOTIP /\ evq' = <<>>
        BY <2>1, <3>3, Taken
      <4>2. QED
        BY <2>1, <2>2, <2>5, <3>3, <4>1
    <3>4. CASE evq = <<GOTIP, DISC>>
      <4>1. handling' = GOTIP /\ evq' = <<DISC>>
        BY <2>1, <3>4, Taken
      <4>2. QED
        BY <2>1, <2>2, <2>5, <3>4, <4>1
    <3>5. CASE evq = <<CONN, DISC>>
      <4>1. handling' = CONN /\ evq' = <<DISC>>
        BY <2>1, <3>5, Taken
      <4>2. QED
        BY <2>1, <2>2, <2>5, <3>5, <4>1
    <3>6. CASE evq = <<DISC, GOTIP>>
      <4>1. handling' = DISC /\ evq' = <<GOTIP>>
        BY <2>1, <3>6, Taken
      <4>2. QED
        BY <2>1, <2>2, <2>5, <3>6, <4>1
    <3>7. CASE evq = <<GOTIP, CONN, DISC>>
      <4>1. handling' = GOTIP /\ evq' = <<CONN, DISC>>
        BY <2>1, <3>7, Taken
      <4>2. QED
        BY <2>1, <2>2, <2>5, <3>7, <4>1
    <3>8. QED
      BY <2>1, <2>5, <3>1, <3>2, <3>3, <3>4, <3>5, <3>6, <3>7
  <2>6. QED
    BY <2>3, <2>4, <2>5
<1>6. CASE HandleEvent
  BY <1>6, InitSteps DEF HandleEvent, WifiEventHandler, EspWifiConnect, Base,
     RegisteredBeforeStart
<1>7. CASE Associate
  <2>1. Post(CONN)
    BY <1>7 DEF Associate
  <2>2. QED
    BY <1>7, <2>1, <1>0, EventNames, Posted DEF Associate
<1>8. CASE LinkDown
  <2>1. Post(DISC)
    BY <1>8 DEF LinkDown
  <2>2. QED
    BY <1>8, <2>1, <1>0, EventNames, Posted DEF LinkDown
<1>9. CASE DhcpBind
  <2>1. Post(GOTIP)
    BY <1>9 DEF DhcpBind
  <2>2. QED
    BY <1>9, <2>1, <1>0, EventNames, Posted DEF DhcpBind
<1>10. CASE LeaseLapse
  BY <1>10 DEF LeaseLapse, Pending, Queued
<1>11. CASE PostOther \/ TakeOther
  BY <1>11 DEF PostOther, TakeOther
<1>12. CASE UNCHANGED vars
  BY <1>12 DEF vars
<1>13. QED
  BY <1>1, <1>2, <1>3, <1>4, <1>5, <1>6, <1>7, <1>8, <1>9, <1>10, <1>11,
     <1>12 DEF Next

(* The inductive invariant, at the start and from step to step.            *)
LEMMA Begin == Init => IInv
BY TypeBegin, InitSteps DEF IInv, Init, RegisteredBeforeStart, QueueShape

LEMMA Step == IInv /\ [Next]_vars => IInv'
BY TypeStep, HandlersFirst, ShapeKept DEF IInv

(* IInv is an inductive invariant, whatever esp_wifi_connect returns.      *)
THEOREM Inductive == Spec => []IInv
BY Begin, Step, PTL DEF Spec

----------------------------------------------------------------------------
(* What the table says, one invariant at a time.                           *)

LEMMA Lengths ==
    \A a, b, c : Len(<<>>) = 0 /\ Len(<<a>>) = 1 /\ Len(<<a, b>>) = 2
                /\ Len(<<a, b, c>>) = 3
OBVIOUS

LEMMA ShapeStrandsNobody ==
    ASSUME ~ ConnectCanFail
    PROVE  QueueShape => NeverStranded
<1>. SUFFICES ASSUME QueueShape, radio = "idle"
              PROVE  handling \in Triggers \/ \E i \in 1..Len(evq) : evq[i] \in Triggers
  BY DEF NeverStranded, Pending, Queued
<1>. USE DEF Triggers, START, CONN, DISC, GOTIP
<1>1. CASE handling \in Triggers
  BY <1>1
<1>2. CASE evq \in {<<START>>, <<DISC>>}
  BY <1>2
<1>3. CASE evq \in {<<GOTIP, DISC>>, <<CONN, DISC>>, <<DISC, GOTIP>>}
  BY <1>3
<1>4. CASE evq = <<GOTIP, CONN, DISC>>
  BY <1>4
<1>5. QED
  BY <1>1, <1>2, <1>3, <1>4 DEF QueueShape

(* Unless esp_wifi_connect fails, the idle radio of a started station      *)
(* always has a retry outstanding (wifi_manager.c:32), for every queue in  *)
(* which others leave four places.                                         *)
THEOREM NotStranded ==
    ASSUME ~ ConnectCanFail
    PROVE  Spec => []NeverStranded
BY ShapeStrandsNobody, Inductive, PTL DEF IInv

(* The running radio has its handlers, since a failed call ends the boot.  *)
LEMMA StartedListens == TypeOK /\ RegisteredBeforeStart => HandlersInPlace
<1>. SUFFICES ASSUME TypeOK, RegisteredBeforeStart, radio # "off"
              PROVE  init_step = Done /\ registered = {"WIFI_EVENT", "IP_EVENT"}
  BY DEF HandlersInPlace
<1>1. init_step = Done /\ Done \in 5..Done /\ Done \in 6..Done
  BY InitSteps DEF RegisteredBeforeStart
<1>2. "WIFI_EVENT" \in registered /\ "IP_EVENT" \in registered
  BY <1>1 DEF RegisteredBeforeStart
<1>3. registered \subseteq {"WIFI_EVENT", "IP_EVENT"}
  BY DEF TypeOK
<1>4. QED
  BY <1>1, <1>2, <1>3

(* Whichever call of wifi_init_sta fails, the radio never runs without     *)
(* both handlers (wifi_manager.c:67-90).                                   *)
THEOREM Listens == Spec => []HandlersInPlace
BY StartedListens, Inductive, PTL DEF IInv

LEMMA ShapeHasRoom == TypeOK /\ QueueShape => RoomForOwnEvents
<1>. SUFFICES ASSUME TypeOK, QueueShape PROVE RoomForOwnEvents
  OBVIOUS
<1>1. Len(evq) \in 0..3
  BY Lengths DEF QueueShape
<1>2. others \in 0..OtherEvents
  BY DEF TypeOK
<1>3. QED
  BY <1>1, <1>2, RoomForFour DEF RoomForOwnEvents

(* At most three of the station's events wait in the default loop: where   *)
(* the loop's other users leave four places, none of its events is lost,   *)
(* for every size of the queue and every number of others that does.       *)
THEOREM QueueHasRoom == Spec => []RoomForOwnEvents
BY ShapeHasRoom, Inductive, PTL DEF IInv

LEMMA ShapeAnnounces == QueueShape => BoundIsAnnounced
<1>. SUFFICES ASSUME QueueShape, dhcp = "bound", ~ wifi_connected
              PROVE  handling = GOTIP \/ \E i \in 1..Len(evq) : evq[i] = GOTIP
  BY DEF BoundIsAnnounced, Pending, Queued, GOTIP
<1>1. CASE handling = GOTIP
  BY <1>1
<1>2. CASE evq \in {<<GOTIP>>, <<GOTIP, DISC>>}
  BY <1>2
<1>3. CASE evq = <<DISC, GOTIP>>
  BY <1>3
<1>4. QED
  BY <1>1, <1>2, <1>3 DEF QueueShape

(* A bound DHCP client is known to the application, or about to be.        *)
THEOREM BoundAnnounced == Spec => []BoundIsAnnounced
BY ShapeAnnounces, Inductive, PTL DEF IInv

(* The events of a queue, by its places: for each shape of QueueShape a    *)
(* trigger is the last event but for a late GOTIP, and there is only one.  *)
LEMMA OneTrigger ==
    ASSUME QueueShape
    PROVE  \E k \in 0..3 :
              /\ \A i \in 1..Len(evq) : evq[i] \in Triggers => i = k
              /\ k \in 1..Len(evq) => radio = "idle"
              /\ handling \in Triggers => radio = "idle" /\ k = 0
<1>. USE DEF Triggers, START, CONN, DISC, GOTIP, None
<1>1. CASE evq \in {<<>>, <<GOTIP>>, <<CONN>>, <<GOTIP, CONN>>}
  <2>1. \A i \in 1..Len(evq) : evq[i] \notin Triggers
    <3>1. CASE evq = <<>>
      BY <3>1
    <3>2. CASE evq \in {<<GOTIP>>, <<CONN>>}
      BY <3>2
    <3>3. CASE evq = <<GOTIP, CONN>>
      BY <3>3
    <3>4. QED
      BY <1>1, <3>1, <3>2, <3>3
  <2>2. handling \in Triggers => radio = "idle"
    BY DEF QueueShape
  <2>3. WITNESS 0 \in 0..3
  <2>4. QED
    BY <2>1, <2>2
<1>2. CASE evq \in {<<START>>, <<DISC>>, <<DISC, GOTIP>>}
  <2>1. /\ evq[1] \in Triggers
        /\ \A i \in 1..Len(evq) : evq[i] \in Triggers => i = 1
    BY <1>2
  <2>2. radio = "idle" /\ handling \notin Triggers
    BY <1>2, Lengths DEF QueueShape
  <2>3. WITNESS 1 \in 0..3
  <2>4. QED
    BY <2>1, <2>2
<1>3. CASE evq \in {<<GOTIP, DISC>>, <<CONN, DISC>>}
  <2>1. \A i \in 1..Len(evq) : evq[i] \in Triggers => i = 2
    BY <1>3
  <2>2. radio = "idle" /\ handling \notin Triggers
    BY <1>3, Lengths DEF QueueShape
  <2>3. WITNESS 2 \in 0..3
  <2>4. QED
    BY <2>1, <2>2
<1>4. CASE evq = <<GOTIP, CONN, DISC>>
  <2>1. \A i \in 1..Len(evq) : evq[i] \in Triggers => i = 3
    BY <1>4
  <2>2. radio = "idle" /\ handling \notin Triggers
    BY <1>4, Lengths DEF QueueShape
  <2>3. WITNESS 3 \in 0..3
  <2>4. QED
    BY <2>1, <2>2
<1>5. QED
  BY <1>1, <1>2, <1>3, <1>4 DEF QueueShape

LEMMA ShapeConnectsIdle == QueueShape => ConnectOnlyWhenIdle
<1>. SUFFICES ASSUME QueueShape PROVE ConnectOnlyWhenIdle
  OBVIOUS
<1>1. PICK k \in 0..3 :
            /\ \A i \in 1..Len(evq) : evq[i] \in Triggers => i = k
            /\ k \in 1..Len(evq) => radio = "idle"
            /\ handling \in Triggers => radio = "idle" /\ k = 0
  BY OneTrigger
<1>2. handling \in Triggers =>
        radio = "idle" /\ ~ \E e \in Triggers : Queued(e)
  <2>. SUFFICES ASSUME handling \in Triggers,
                       NEW e \in Triggers, NEW i \in 1..Len(evq), evq[i] = e
                PROVE  FALSE
    BY <1>1 DEF Queued
  <2>1. i = 0
    BY <1>1
  <2>2. QED
    BY <2>1
<1>3. ASSUME NEW i \in 1..Len(evq), evq[i] \in Triggers
      PROVE  radio = "idle" /\ \A j \in 1..Len(evq) : evq[j] \in Triggers => j = i
  BY <1>1, <1>3
<1>4. QED
  BY <1>2, <1>3 DEF ConnectOnlyWhenIdle

(* No call of esp_wifi_connect (wifi_manager.c:27, 33) finds the radio     *)
(* busy, and no two triggers are ever outstanding, even when an earlier    *)
(* call was refused.                                                       *)
THEOREM ConnectsWhenIdle == Spec => []ConnectOnlyWhenIdle
BY ShapeConnectsIdle, Inductive, PTL DEF IInv

=============================================================================

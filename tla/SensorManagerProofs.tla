------------------------ MODULE SensorManagerProofs ------------------------
(***************************************************************************)
(* Proofs about SensorManager, for every set of drivers, every boot and    *)
(* every size of registry and buffer that SensorAssumption allows.         *)
(*                                                                         *)
(* NoOverrun rests on index <= i * KvMax (Budget): the i drivers read so   *)
(* far used at most their share, so the next one still has a share left.   *)
(* OutIsExact and NoneSkipped rest on History: each iteration has one      *)
(* entry, index is where the last one ends, and no later read comes back   *)
(* to the cells before it.                                                 *)
(***************************************************************************)
EXTENDS SensorManager, SequenceTheorems, TLAPS

Collecting == pc \in {"collect", "full", "collected"}

(* Before its (k+1)-th read a collection holds at most k shares.           *)
Budget ==
    Collecting => /\ index <= i * KvMax
                  /\ pc = "full" => i = sensor_count

(* The arithmetic of the shares: a driver read within the registry stays   *)
(* within the buffer, and only the last possible one can fill it.          *)
LEMMA Share ==
    ASSUME NEW k \in Nat, k < MaxSensors, NEW x \in Nat, x <= k * KvMax,
           NEW n \in 0..KvMax
    PROVE  /\ x + n <= (k + 1) * KvMax
           /\ x + n <= MaxSensorKV
           /\ x + n >= MaxSensorKV => k + 1 = MaxSensors
<1>. USE SensorAssumption
<1>1. (k + 1) * KvMax = k * KvMax + KvMax
  OBVIOUS
<1>2. x + n <= (k + 1) * KvMax
  BY <1>1
<1>3. (k + 1) * KvMax <= MaxSensors * KvMax
  OBVIOUS
<1>4. x + n <= MaxSensorKV
  BY <1>2, <1>3
<1>5. ASSUME x + n >= MaxSensorKV, k + 1 # MaxSensors PROVE FALSE
  <2>1. k + 2 <= MaxSensors
    BY <1>5
  <2>2. (k + 2) * KvMax <= MaxSensors * KvMax
    BY <2>1
  <2>3. (k + 2) * KvMax = (k + 1) * KvMax + KvMax
    OBVIOUS
  <2>4. KvMax = 0
    BY <1>2, <1>5, <2>2, <2>3
  <2>5. (k + 1) * KvMax = 0
    BY <2>4
  <2>6. QED
    BY <1>2, <1>5, <2>5
<1>6. QED
  BY <1>2, <1>4, <1>5

(* What a read does to the buffer: cells outside its own share are kept.   *)
LEMMA StoredCells ==
    ASSUME TypeOK, NEW d \in Drivers, NEW n \in 0..KvMax
    PROVE  /\ Stored(d, n) \in [Cells -> Reading \cup {Junk}]
           /\ \A c \in Cells : c < index \/ c >= index + n =>
                 Stored(d, n)[c] = out[c]
           /\ \A m \in 1..n : index + m - 1 \in Cells =>
                 Stored(d, n)[index + m - 1] = <<d, m>>
<1>. USE SensorAssumption DEF TypeOK, Stored, Cells
<1>1. ASSUME NEW c \in Cells, c \in index..(index + n - 1)
      PROVE  <<d, c - index + 1>> \in Reading
  BY <1>1 DEF Reading
<1>2. Stored(d, n) \in [Cells -> Reading \cup {Junk}]
  BY <1>1
<1>3. \A c \in Cells : c < index \/ c >= index + n => Stored(d, n)[c] = out[c]
  OBVIOUS
<1>4. \A m \in 1..n : index + m - 1 \in Cells =>
        Stored(d, n)[index + m - 1] = <<d, m>>
  OBVIOUS
<1>5. QED
  BY <1>2, <1>3, <1>4

(* The types at the start.                                                 *)
LEMMA TypeBegin == Init => TypeOK
<1>. SUFFICES ASSUME Init PROVE TypeOK
  OBVIOUS
<1>. USE SensorAssumption DEF Init, sensor_count
<1>1. calls \in Seq(Drivers)
  OBVIOUS
<1>2. registered_sensors \in Seq(Drivers) /\ sensor_count = 0
  OBVIOUS
<1>3. log \in Seq([at : Nat, got : 0..KvMax])
  OBVIOUS
<1>4. QED
  BY <1>1, <1>2, <1>3 DEF TypeOK

(* And from step to step.                                                  *)
LEMMA TypeStep == TypeOK /\ [Next]_vars => TypeOK'
<1>. SUFFICES ASSUME TypeOK, [Next]_vars PROVE TypeOK'
  OBVIOUS
<1>. USE SensorAssumption DEF TypeOK, sensor_count
<1>1. CASE Register
  <2>1. Head(calls) \in Drivers /\ calls' \in Seq(Drivers)
    BY <1>1 DEF Register
  <2>2. CASE sensor_count < MaxSensors
    <3>1. /\ registered_sensors' = Append(registered_sensors, Head(calls))
          /\ initialized' = [initialized EXCEPT ![Head(calls)] = FALSE]
      BY <1>1, <2>2 DEF Register
    <3>2. registered_sensors' \in Seq(Drivers) /\ sensor_count' = sensor_count + 1
      BY <2>1, <3>1
    <3>3. i' \in 0..sensor_count' /\ sensor_count' <= MaxSensors
      BY <1>1, <2>2, <3>2 DEF Register
    <3>4. initialized' \in [Drivers -> BOOLEAN]
      BY <2>1, <3>1
    <3>5. QED
      BY <1>1, <2>1, <3>2, <3>3, <3>4 DEF Register, outVars
  <2>3. CASE ~ (sensor_count < MaxSensors)
    BY <1>1, <2>1, <2>3 DEF Register, outVars
  <2>4. QED
    BY <2>2, <2>3
<1>2. CASE StartInit
  BY <1>2 DEF StartInit, bootVars, outVars
<1>3. CASE InitOne
  <2>1. registered_sensors[i + 1] \in Drivers
    BY <1>3 DEF InitOne
  <2>2. initialized' \in [Drivers -> BOOLEAN]
    BY <1>3, <2>1 DEF InitOne
  <2>3. QED
    BY <1>3, <2>2 DEF InitOne, outVars
<1>4. CASE InitDone
  BY <1>4 DEF InitDone, bootVars, outVars
<1>5. CASE StartCollect
  BY <1>5 DEF StartCollect, bootVars
<1>6. CASE Skip
  BY <1>6 DEF Skip, bootVars
<1>7. CASE ReadOk
  <2>. DEFINE d == registered_sensors[i + 1]
  <2>1. d \in Drivers /\ Readings[d] \in 0..KvMax
    BY <1>7 DEF ReadOk
  <2>2. out' \in [Cells -> Reading \cup {Junk}]
    BY <1>7, <2>1, StoredCells DEF ReadOk
  <2>3. QED
    BY <1>7, <2>1, <2>2 DEF ReadOk, bootVars
<1>8. CASE ReadFailed
  <2>. DEFINE d == registered_sensors[i + 1]
  <2>1. d \in Drivers /\ Readings[d] \in 0..KvMax
    BY <1>8 DEF ReadFailed
  <2>2. PICK n \in 0..Readings[d] : out' = Stored(d, n)
    BY <1>8 DEF ReadFailed
  <2>3. n \in 0..KvMax
    BY <2>1
  <2>4. out' \in [Cells -> Reading \cup {Junk}]
    BY <2>1, <2>2, <2>3, StoredCells
  <2>5. QED
    BY <1>8, <2>1, <2>4 DEF ReadFailed, bootVars
<1>9. CASE CollectDone
  BY <1>9 DEF CollectDone, bootVars
<1>10. CASE UNCHANGED vars
  BY <1>10 DEF vars
<1>11. QED
  BY <1>1, <1>2, <1>3, <1>4, <1>5, <1>6, <1>7, <1>8, <1>9, <1>10 DEF Next

(* Every variable keeps its type, and the registry stays within its array. *)
THEOREM TypeCorrect == Spec => []TypeOK
BY TypeBegin, TypeStep, PTL DEF Spec

----------------------------------------------------------------------------
BInv == TypeOK /\ Budget /\ NoOverrun

(* A step from a type-correct state ends in one.                           *)
LEMMA BudgetKept == BInv /\ TypeOK' /\ [Next]_vars => Budget' /\ NoOverrun'
<1>. SUFFICES ASSUME BInv, TypeOK', [Next]_vars PROVE Budget' /\ NoOverrun'
  OBVIOUS
<1>. USE SensorAssumption DEF BInv, Budget, Collecting, sensor_count
<1>0. TypeOK /\ Budget /\ NoOverrun /\ i \in Nat /\ sensor_count \in Nat
  BY DEF TypeOK
<1>1. CASE Register \/ StartInit \/ InitOne \/ InitDone
  BY <1>0, <1>1
     DEF Register, StartInit, InitOne, InitDone, bootVars, outVars, NoOverrun
<1>2. CASE StartCollect
  BY <1>0, <1>2 DEF StartCollect, bootVars, NoOverrun, Cells
<1>3. CASE Skip
  <2>1. index <= i * KvMax /\ index \in Nat
    BY <1>0, <1>3 DEF Skip, TypeOK
  <2>2. index <= (i + 1) * KvMax
    <3>1. i < MaxSensors /\ 0 \in 0..KvMax
      BY <1>0, <1>3 DEF Skip, TypeOK
    <3>2. QED
      BY <1>0, <2>1, <3>1, Share
  <2>3. QED
    BY <1>0, <1>3, <2>2 DEF Skip, bootVars, NoOverrun
<1>4. CASE ReadOk
  <2>. DEFINE d == registered_sensors[i + 1]
              n == Readings[d]
  <2>1. d \in Drivers /\ n \in 0..KvMax /\ i < MaxSensors /\ index \in Nat
    BY <1>4 DEF ReadOk, TypeOK
  <2>2. index <= i * KvMax
    BY <1>0, <1>4 DEF ReadOk
  <2>3. /\ index + n <= (i + 1) * KvMax
        /\ index + n <= MaxSensorKV
        /\ index + n >= MaxSensorKV => i + 1 = MaxSensors
    BY <1>0, <2>1, <2>2, Share
  <2>4. /\ out' = Stored(d, n) /\ index' = index + n /\ i' = i + 1
        /\ pc' = "full" => index + n >= MaxSensorKV
        /\ registered_sensors' = registered_sensors /\ i < sensor_count
    BY <1>4 DEF ReadOk, bootVars
  <2>5. sensor_count <= MaxSensors
    BY DEF TypeOK
  <2>6. Budget'
    BY <1>0, <2>3, <2>4, <2>5
  <2>7. \A c \in Cells : c >= MaxSensorKV => out'[c] = out[c]
    <3>1. \A c \in Cells : c < index \/ c >= index + n => out'[c] = out[c]
      BY <1>0, <2>1, <2>4, StoredCells
    <3>2. \A c \in Cells : c \in Nat
      BY DEF Cells
    <3>3. index + n \in Nat /\ MaxSensorKV \in Nat
      BY <2>1, SensorAssumption
    <3>4. QED
      BY <2>3, <3>1, <3>2, <3>3
  <2>8. QED
    BY <1>0, <2>6, <2>7 DEF NoOverrun
<1>5. CASE ReadFailed
  <2>. DEFINE d == registered_sensors[i + 1]
  <2>1. d \in Drivers /\ Readings[d] \in 0..KvMax /\ i < MaxSensors /\ index \in Nat
    <3>1. i < Len(registered_sensors) /\ pc = "collect"
      BY <1>5 DEF ReadFailed, sensor_count
    <3>2. /\ registered_sensors \in Seq(Drivers) /\ Len(registered_sensors) <= MaxSensors
          /\ i \in Nat /\ index \in Nat
      BY DEF TypeOK, sensor_count
    <3>3. d \in Drivers
      BY <3>1, <3>2
    <3>4. i < MaxSensors
      BY <3>1, <3>2
    <3>5. QED
      BY <3>2, <3>3, <3>4
  <2>2. index <= i * KvMax
    BY <1>0, <1>5 DEF ReadFailed
  <2>3. PICK n \in 0..Readings[d] : out' = Stored(d, n)
    BY <1>5 DEF ReadFailed
  <2>4. n \in 0..KvMax
    BY <2>1
  <2>5. index + n <= MaxSensorKV
    BY <1>0, <2>1, <2>2, <2>4, Share
  <2>6. index <= (i + 1) * KvMax
    <3>1. 0 \in 0..KvMax
      OBVIOUS
    <3>2. QED
      BY <1>0, <2>1, <2>2, <3>1, Share
  <2>7. Budget'
    BY <1>0, <1>5, <2>6 DEF ReadFailed, bootVars
  <2>8. \A c \in Cells : c >= MaxSensorKV => out'[c] = out[c]
    <3>1. \A c \in Cells : c < index \/ c >= index + n => out'[c] = out[c]
      BY <1>0, <2>1, <2>3, <2>4, StoredCells
    <3>2. \A c \in Cells : c \in Nat
      BY DEF Cells
    <3>3. index + n \in Nat /\ MaxSensorKV \in Nat
      BY <2>1, <2>4, SensorAssumption
    <3>4. QED
      BY <2>5, <3>1, <3>2, <3>3
  <2>9. QED
    BY <1>0, <2>7, <2>8 DEF NoOverrun
<1>6. CASE CollectDone
  BY <1>0, <1>6 DEF CollectDone, bootVars, NoOverrun
<1>7. CASE UNCHANGED vars
  BY <1>0, <1>7 DEF vars, NoOverrun
<1>8. QED
  BY <1>1, <1>2, <1>3, <1>4, <1>5, <1>6, <1>7 DEF Next

----------------------------------------------------------------------------
(* The buffer against the history of the reads.                            *)

(* What the k-th driver of a collection has left in the buffer: where the  *)
(* one before it ended, and in full when it had to succeed.                *)
Told(k) ==
    /\ log[k].at = IF k = 1 THEN 0 ELSE End(log[k - 1])
    /\ End(log[k]) <= index
    /\ \A n \in 1..log[k].got :
          out[log[k].at + n - 1] = <<registered_sensors[k], n>>
    /\ Readable(registered_sensors[k]) /\ registered_sensors[k] \notin ReadCanFail =>
          log[k].got = Readings[registered_sensors[k]]

(* Every iteration so far has its entry, and index is where the last ends. *)
History ==
    Collecting =>
        /\ Len(log) = i
        /\ index = IF log = <<>> THEN 0 ELSE End(log[Len(log)])
        /\ \A k \in 1..Len(log) : Told(k)
        /\ pc = "collected" => i = sensor_count /\ total_count = index

(* One more entry in the log.                                              *)
LEMMA Appended ==
    ASSUME TypeOK, NEW e \in [at : Nat, got : 0..KvMax]
    PROVE  /\ Append(log, e) # <<>> /\ Len(Append(log, e)) = Len(log) + 1
           /\ \A k \in 1..Len(log) : Append(log, e)[k] = log[k]
           /\ Append(log, e)[Len(log) + 1] = e
<1>1. log \in Seq([at : Nat, got : 0..KvMax])
  BY DEF TypeOK
<1>2. QED
  BY <1>1

(* The cells of an entry that ends in time.                                *)
LEMMA StoredBefore ==
    ASSUME NEW r \in [at : Nat, got : 0..KvMax], NEW n \in 1..r.got, NEW end \in Nat,
           r.at + r.got <= end
    PROVE  r.at + n - 1 \in 0..(end - 1)
<1>1. KvMax \in Nat
  BY SensorAssumption
<1>2. r.at \in Nat /\ r.got \in Nat
  BY <1>1
<1>3. QED
  BY <1>2

(* An iteration that adds its entry behind the last one, keeps the cells   *)
(* before it and tells the truth about its own keeps the history.          *)
LEMMA OneMore ==
    ASSUME TypeOK, History, pc = "collect", i < sensor_count,
           NEW g \in 0..KvMax,
           log' = Append(log, [at |-> index, got |-> g]),
           i' = i + 1, index' = index + g, pc' \in {"collect", "full"},
           UNCHANGED <<registered_sensors, initialized>>,
           \A c \in 0..(index - 1) : out'[c] = out[c],
           \A n \in 1..g : out'[index + n - 1] = <<registered_sensors[i + 1], n>>,
           Readable(registered_sensors[i + 1])
               /\ registered_sensors[i + 1] \notin ReadCanFail =>
               g = Readings[registered_sensors[i + 1]]
    PROVE  History'
<1>. DEFINE e == [at |-> index, got |-> g]
<1>0. index \in Nat /\ i \in Nat /\ Len(log) = i
  BY DEF TypeOK, History, Collecting
<1>1. e \in [at : Nat, got : 0..KvMax]
  BY <1>0
<1>2. /\ log' # <<>> /\ Len(log') = i + 1
      /\ \A k \in 1..i : log'[k] = log[k]
      /\ log'[i + 1] = e
  BY <1>0, <1>1, Appended
<1>3. index' = End(log'[Len(log')])
  BY <1>2 DEF End
<1>4. ASSUME NEW k \in 1..i PROVE Told(k)'
  <2>0. Told(k)
    BY <1>0 DEF History, Collecting
  <2>1. log'[k] = log[k] /\ log[k] \in [at : Nat, got : 0..KvMax]
    <3>1. log \in Seq([at : Nat, got : 0..KvMax])
      BY DEF TypeOK
    <3>2. log[k] \in [at : Nat, got : 0..KvMax]
      BY <1>0, <3>1, ElementOfSeq
    <3>3. QED
      BY <1>2, <3>2
  <2>2. log'[k].at = IF k = 1 THEN 0 ELSE End(log'[k - 1])
    <3>1. k # 1 => k - 1 \in 1..i
      BY <1>0
    <3>2. QED
      BY <1>2, <2>0, <2>1, <3>1 DEF Told
  <2>3. End(log'[k]) <= index'
    BY <1>0, <2>0, <2>1 DEF Told, End
  <2>4. ASSUME NEW n \in 1..log'[k].got
        PROVE  out'[log'[k].at + n - 1] = <<registered_sensors[k], n>>
    <3>1. log[k].at + n - 1 \in 0..(index - 1)
      <4>1. log[k].at + log[k].got <= index
        BY <2>0 DEF Told, End
      <4>2. n \in 1..log[k].got
        BY <2>1
      <4>3. QED
        BY <1>0, <2>1, <4>1, <4>2, StoredBefore
    <3>2. QED
      BY <2>0, <2>1, <3>1 DEF Told
  <2>5. QED
    BY <2>0, <2>1, <2>2, <2>3, <2>4 DEF Told, Readable
<1>5. ASSUME NEW k \in Nat, k = i + 1 PROVE Told(k)'
  <2>1. e.at = IF k = 1 THEN 0 ELSE End(log'[k - 1])
    <3>1. CASE i = 0
      <4>1. log = <<>>
        BY <1>0, <3>1 DEF TypeOK
      <4>2. QED
        BY <1>5, <3>1, <4>1 DEF History, Collecting
    <3>2. CASE i # 0
      <4>1. log # <<>> /\ log'[i] = log[i] /\ k - 1 = i
        BY <1>0, <1>2, <1>5, <3>2
      <4>2. QED
        BY <1>0, <1>5, <3>2, <4>1 DEF History, Collecting
    <3>3. QED
      BY <3>1, <3>2
  <2>2. End(e) <= index'
    BY <1>0 DEF End
  <2>3. log'[k] = e /\ e.at = index /\ e.got = g
    BY <1>2, <1>5
  <2>4. \A n \in 1..log'[k].got :
          out'[log'[k].at + n - 1] = <<registered_sensors'[k], n>>
    BY <1>5, <2>3
  <2>5. Readable(registered_sensors[k])'
            /\ registered_sensors'[k] \notin ReadCanFail =>
            log'[k].got = Readings[registered_sensors'[k]]
    BY <1>5, <2>3 DEF Readable
  <2>6. QED
    BY <2>1, <2>2, <2>3, <2>4, <2>5 DEF Told
<1>6. ASSUME NEW k \in 1..Len(log') PROVE Told(k)'
  <2>1. CASE k \in 1..i
    BY <1>4, <2>1
  <2>2. CASE k = i + 1
    BY <1>5, <2>2
  <2>3. QED
    BY <1>0, <1>2, <2>1, <2>2
<1>7. QED
  BY <1>2, <1>3, <1>6 DEF History, Collecting

(* The cells of the readings so far are cells of the buffer.               *)
LEMMA InBuffer ==
    ASSUME BInv, pc = "collect", i < sensor_count, NEW n \in 0..KvMax
    PROVE  /\ 0..(index - 1) \subseteq Cells /\ index + n <= MaxSensorKV
           /\ \A m \in 1..n : index + m - 1 \in Cells
<1>1. /\ sensor_count \in Nat /\ i \in Nat /\ index \in Nat
      /\ sensor_count <= MaxSensors /\ index <= i * KvMax
  BY DEF BInv, TypeOK, Budget, Collecting, sensor_count
<1>2. index + n <= MaxSensorKV
  BY <1>1, Share, SensorAssumption
<1>3. KvMax \in Nat /\ MaxSensorKV \in Nat /\ n \in Nat
  BY SensorAssumption
<1>4. \A c \in Nat : c < MaxSensorKV => c \in Cells
  BY <1>3 DEF Cells
<1>5. QED
  BY <1>1, <1>2, <1>3, <1>4

LEMMA HistoryKept == BInv /\ History /\ [Next]_vars => History'
<1>. SUFFICES ASSUME BInv, History, [Next]_vars PROVE History'
  OBVIOUS
<1>0. TypeOK
  BY DEF BInv
<1>1. CASE Register \/ StartInit \/ InitOne \/ InitDone
  BY <1>1 DEF Register, StartInit, InitOne, InitDone, History, Collecting
<1>2. CASE StartCollect
  BY <1>2 DEF StartCollect, History
<1>3. CASE Skip
  <2>1. 0 \in 0..KvMax
    BY SensorAssumption
  <2>2. index' = index + 0
    BY <1>0, <1>3 DEF Skip, TypeOK
  <2>3. QED
    BY <1>0, <1>3, <2>1, <2>2, OneMore DEF Skip, bootVars
<1>4. CASE ReadOk
  <2>. DEFINE d == registered_sensors[i + 1]
              n == Readings[d]
  <2>1. d \in Drivers /\ n \in 0..KvMax
    BY <1>0, <1>4, SensorAssumption DEF ReadOk, TypeOK, sensor_count
  <2>2. pc = "collect" /\ i < sensor_count /\ out' = Stored(d, n)
    BY <1>4 DEF ReadOk
  <2>3. /\ 0..(index - 1) \subseteq Cells
        /\ \A m \in 1..n : index + m - 1 \in Cells
    BY <2>1, <2>2, InBuffer
  <2>4. /\ \A c \in 0..(index - 1) : out'[c] = out[c]
        /\ \A m \in 1..n : out'[index + m - 1] = <<d, m>>
    <3>1. \A c \in Cells : c < index => out'[c] = out[c]
      BY <1>0, <2>1, <2>2, StoredCells
    <3>2. \A m \in 1..n : index + m - 1 \in Cells => out'[index + m - 1] = <<d, m>>
      BY <1>0, <2>1, <2>2, StoredCells
    <3>3. index \in Nat
      BY <1>0 DEF TypeOK
    <3>4. QED
      BY <2>3, <3>1, <3>2, <3>3
  <2>5. /\ log' = Append(log, [at |-> index, got |-> n])
        /\ i' = i + 1 /\ index' = index + n /\ pc' \in {"collect", "full"}
        /\ UNCHANGED <<registered_sensors, initialized>>
    BY <1>4 DEF ReadOk, bootVars
  <2>6. QED
    BY <1>0, <2>1, <2>2, <2>4, <2>5, OneMore
<1>5. CASE ReadFailed
  <2>. DEFINE d == registered_sensors[i + 1]
  <2>1. d \in Drivers /\ Readings[d] \in 0..KvMax /\ 0 \in 0..KvMax
    BY <1>0, <1>5, SensorAssumption DEF ReadFailed, TypeOK, sensor_count
  <2>2. PICK m \in 0..Readings[d] : out' = Stored(d, m)
    BY <1>5 DEF ReadFailed
  <2>3. m \in 0..KvMax
    BY <2>1, SensorAssumption
  <2>4. pc = "collect" /\ i < sensor_count /\ d \in ReadCanFail
    BY <1>5 DEF ReadFailed
  <2>5. \A c \in 0..(index - 1) : out'[c] = out[c]
    <3>1. 0..(index - 1) \subseteq Cells
      BY <2>3, <2>4, InBuffer
    <3>2. \A c \in Cells : c < index => out'[c] = out[c]
      BY <1>0, <2>1, <2>2, <2>3, StoredCells
    <3>3. index \in Nat
      BY <1>0 DEF TypeOK
    <3>4. QED
      BY <3>1, <3>2, <3>3
  <2>6. index' = index + 0
    BY <1>0, <1>5 DEF ReadFailed, TypeOK
  <2>7. /\ log' = Append(log, [at |-> index, got |-> 0])
        /\ i' = i + 1 /\ pc' \in {"collect", "full"}
        /\ UNCHANGED <<registered_sensors, initialized>>
    BY <1>5 DEF ReadFailed, bootVars
  <2>8. QED
    BY <1>0, <2>1, <2>4, <2>5, <2>6, <2>7, OneMore
<1>6. CASE CollectDone
  <2>1. i' = i /\ i = sensor_count /\ pc' = "collected" /\ total_count' = index
    BY <1>6 DEF CollectDone, BInv, Budget, Collecting
  <2>2. UNCHANGED <<registered_sensors, initialized, out, index, log>>
    BY <1>6 DEF CollectDone, bootVars
  <2>3. Collecting
    BY <1>6 DEF CollectDone, Collecting
  <2>4. \A k \in 1..Len(log) : Told(k)' <=> Told(k)
    BY <2>2 DEF Told, Readable
  <2>5. QED
    BY <2>1, <2>2, <2>3, <2>4 DEF History, sensor_count
<1>7. CASE UNCHANGED vars
  BY <1>7 DEF vars, History, Collecting, Told, Readable, sensor_count
<1>8. QED
  BY <1>1, <1>2, <1>3, <1>4, <1>5, <1>6, <1>7 DEF Next

(* The inductive invariant, at the start and from step to step.            *)
IInv == BInv /\ History

LEMMA Begin == Init => IInv
BY TypeBegin DEF Init, IInv, BInv, Budget, History, Collecting, NoOverrun

LEMMA Step == IInv /\ [Next]_vars => IInv'
BY TypeStep, BudgetKept, HistoryKept DEF IInv, BInv

(* It holds of every behaviour.                                            *)
THEOREM Inductive == Spec => []IInv
BY Begin, Step, PTL DEF Spec

(* No read ever stores behind the caller's buffer, for every registry and  *)
(* buffer with MAX_SENSORS shares in MAX_SENSOR_KV (sensor_manager.c:75).  *)
THEOREM BufferSafe == Spec => []NoOverrun
BY Inductive, PTL DEF IInv, BInv

(* The history of a complete collection.                                   *)
LEMMA HistoryTells == History => OutIsExact /\ NoneSkipped
<1>1. History => OutIsExact
  BY DEF History, Collecting, Told, OutIsExact
<1>2. History => NoneSkipped
  BY DEF History, Collecting, Told, NoneSkipped
<1>3. QED
  BY <1>1, <1>2

(* What a collection reports is what the drivers that succeeded gave, in   *)
(* the order of registration and without a gap (sensor_manager.c:61-89),   *)
(* for any drivers, of which any may fail half way.                        *)
THEOREM ReportIsExact == Spec => []OutIsExact
BY HistoryTells, Inductive, PTL DEF IInv

(* No registered driver loses its turn to a full buffer                    *)
(* (sensor_manager.c:83).                                                  *)
THEOREM EveryoneIsRead == Spec => []NoneSkipped
BY HistoryTells, Inductive, PTL DEF IInv

=============================================================================

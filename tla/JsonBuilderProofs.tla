------------------------- MODULE JsonBuilderProofs -------------------------
(***************************************************************************)
(* The properties of JsonBuilder, for every number of sensors, health      *)
(* items and ports.                                                        *)
(*                                                                         *)
(* Both are about the end of a build, and a build takes many steps: the    *)
(* invariant says at each step what is already there (Groups, Opened) and  *)
(* how much is still to be added to each array (Due).  An item is added or *)
(* lost, and in either case no longer due; it is lost, or lacks a field,   *)
(* only when an allocation fails, which full remembers.                    *)
(***************************************************************************)
EXTENDS JsonBuilder, TLAPS

Stages == {"collect", "root", "static", "dynamic", "array", "items", "attach",
           "status", "check", "print"}

Types ==
    /\ pc \in Stages /\ kind \in Kinds /\ array \subseteq Kinds
    /\ sensor_count \in Nat /\ left \in Nat /\ orphans \in Nat
    /\ static_obj \in BOOLEAN /\ dynamic_obj \in BOOLEAN /\ full \in BOOLEAN
    /\ items \in [Kinds -> Nat] /\ whole \in [Kinds -> Nat]
    /\ result \in {NULL, "payload"}

(* The arrays that are finished, by the step the build is at.              *)
Earlier ==
    IF kind = "sensors" THEN {}
    ELSE IF kind = "health" THEN {"sensors"} ELSE {"sensors", "health"}

Finished ==
    IF pc \in {"root", "static", "dynamic"} THEN {}
    ELSE IF pc \in {"array", "items"} THEN Earlier ELSE Kinds

(* The arrays that exist, and the groups of fields, when nothing failed.   *)
Opened == IF pc = "items" THEN Finished \cup {kind} ELSE Finished

Groups ==
    IF pc \in {"root", "static"} THEN {}
    ELSE IF pc = "dynamic" THEN {"static"}
    ELSE IF pc \in {"array", "items", "attach", "status"}
         THEN {"static", "sensor_count"}
    ELSE {"static", "sensor_count", "status"}

(* What is still to be added to array k.                                   *)
Due(k) == IF k \in Finished THEN 0
          ELSE IF pc = "items" /\ k = kind THEN left ELSE Count(k)

(* A build adds no more than was collected, and nothing to what is not     *)
(* there.                                                                  *)
Sizes ==
    \A k \in Kinds :
        /\ whole[k] <= items[k] /\ items[k] + Due(k) <= Count(k)
        /\ k \notin array => items[k] = 0

(* A build that has met no full heap: it has what its stage asks for,      *)
Whole ==
    sensor_count > 0 /\ ~ full =>
        /\ fields = Groups /\ array = Opened
        /\ pc \notin {"root", "static"} => static_obj
        /\ pc \notin {"root", "static", "dynamic"} => dynamic_obj
        /\ pc = "collect" => result = "payload"

(* and what it has is all that is not still due.                           *)
Exact ==
    sensor_count > 0 /\ ~ full =>
        /\ orphans = 0
        /\ \A k \in Kinds : whole[k] + Due(k) = Count(k)

(* Only the last step of a build makes a payload.                          *)
Results ==
    /\ pc = "root" => kind = "sensors" /\ fields = {} /\ array = {}
    /\ pc \in {"static", "dynamic"} => kind = "sensors"
    /\ pc # "collect" => sensor_count > 0 /\ result = NULL
    /\ pc = "print" \/ result = "payload" => static_obj /\ dynamic_obj

IInv == Types /\ Results /\ Sizes /\ Whole /\ Exact

----------------------------------------------------------------------------
(* The arrays are sized by the collected data, whatever the build does.    *)
LEMMA CountIs ==
    /\ Count("sensors") = sensor_count
    /\ Count("health") = HealthCount
    /\ Count("ports") = PortCount
BY DEF Count

(* A size is a number, and the readings' is the only one that changes.     *)
LEMMA CountType ==
    ASSUME Types, NEW k \in Kinds
    PROVE  Count(k) \in Nat
BY CountIs, JsonAssumption DEF Types, Kinds

(* So a step that leaves the readings alone leaves every size alone.       *)
LEMMA CountStays ==
    ASSUME UNCHANGED sensor_count, NEW k \in Kinds
    PROVE  Count(k)' = Count(k)
BY DEF Count

(* The three arrays.                                                       *)
LEMMA Names == "sensors" \in Kinds /\ "health" \in Kinds /\ "ports" \in Kinds
BY DEF Kinds

(* What is due to an array: all of it before the array's turn, what the    *)
(* loop has left in its turn, nothing after.                               *)
LEMMA DueIs ==
    ASSUME Types, NEW k \in Kinds
    PROVE  /\ Due(k) \in Nat
           /\ pc \in {"root", "static", "dynamic"} => Due(k) = Count(k)
           /\ pc = "array" /\ k = kind => Due(k) = Count(k)
           /\ pc = "items" /\ k = kind => Due(k) = left
           /\ pc \in {"collect", "attach", "status", "check", "print"} =>
                 Due(k) = 0
<1>1. Count(k) \in Nat
  BY CountType
<1>2. kind \notin Earlier
  BY DEF Earlier
<1>3. QED
  BY <1>1, <1>2 DEF Due, Finished, Types, Stages

(* And in the next state.                                                  *)
LEMMA DueIsNext ==
    ASSUME Types', NEW k \in Kinds
    PROVE  /\ Due(k)' \in Nat /\ Count(k)' \in Nat
           /\ pc' = "root" => Due(k)' = Count(k)'
           /\ pc' = "collect" => Due(k)' = 0
<1>1. Count(k)' \in Nat
  BY JsonAssumption DEF Count, Types, Kinds
<1>2. kind' \notin Earlier'
  BY DEF Earlier
<1>3. QED
  BY <1>1, <1>2 DEF Due, Finished, Types, Stages

(* Only AddItem, and a build's first and last steps, change what is due.   *)
LEMMA DueStays ==
    ASSUME Types, Results, NEW k \in Kinds,
           \/ CreateRoot /\ pc' # "collect"
           \/ AddStatic \/ AddDynamic \/ OpenArray \/ CloseArray
           \/ AttachPorts \/ AddStatus \/ FinalCheck \/ PrintRoot
           \/ UNCHANGED vars
    PROVE  Due(k)' = Due(k) /\ Count(k)' = Count(k)
<1>. USE DEF Types, Results, Due, Finished, Earlier, Stages, NULL, Kinds,
             vars, objVars, listVars
<1>1. CASE CreateRoot /\ pc' # "collect"
  BY <1>1, CountStays DEF CreateRoot, Return
<1>2. CASE AddStatic
  BY <1>2, CountStays DEF AddStatic
<1>3. CASE AddDynamic
  BY <1>3, CountStays DEF AddDynamic
<1>4. CASE OpenArray
  BY <1>4, CountStays DEF OpenArray
<1>5. CASE CloseArray
  BY <1>5, CountStays DEF CloseArray
<1>6. CASE AttachPorts
  BY <1>6, CountStays DEF AttachPorts
<1>7. CASE AddStatus
  BY <1>7, CountStays DEF AddStatus
<1>8. CASE FinalCheck
  BY <1>8, CountStays DEF FinalCheck, Return
<1>9. CASE PrintRoot
  BY <1>9, CountStays DEF PrintRoot, Return
<1>10. CASE UNCHANGED vars
  BY <1>10, CountStays
<1>11. QED
  BY <1>1, <1>2, <1>3, <1>4, <1>5, <1>6, <1>7, <1>8, <1>9, <1>10

(* An iteration takes one from what is due to its array.                   *)
LEMMA DueFalls ==
    ASSUME Types, AddItem, NEW k \in Kinds
    PROVE  /\ Due(k)' = (IF k = kind THEN Due(k) - 1 ELSE Due(k))
           /\ Count(k)' = Count(k)
<1>1. Count(k)' = Count(k)
  BY CountStays DEF AddItem, objVars
<1>2. kind \notin Earlier /\ Earlier' = Earlier
  BY DEF Earlier, AddItem
<1>3. QED
  BY <1>1, <1>2 DEF AddItem, Due, Finished, Types

(* Types are kept.                                                         *)
LEMMA TypesStep ==
    ASSUME Types, [Next]_vars
    PROVE  Types'
<1>. USE DEF Types, Stages, NULL, vars, objVars, listVars
<1>1. CASE Collect
  <2>1. sensor_count' \in Nat
    BY <1>1, JsonAssumption DEF Collect
  <2>2. items' \in [Kinds -> Nat] /\ whole' \in [Kinds -> Nat]
    BY <1>1 DEF Collect, Zero
  <2>3. QED
    BY <1>1, <2>1, <2>2, Names DEF Collect, Return
<1>2. CASE CreateRoot
  BY <1>2 DEF CreateRoot, Return
<1>3. CASE AddStatic
  BY <1>3 DEF AddStatic, AddFields
<1>4. CASE AddDynamic
  BY <1>4 DEF AddDynamic, AddFields
<1>5. CASE OpenArray
  <2>1. left' \in Nat
    BY <1>5, CountType DEF OpenArray
  <2>2. array' \subseteq Kinds /\ full' \in BOOLEAN
    BY <1>5 DEF OpenArray
  <2>3. QED
    BY <1>5, <2>1, <2>2 DEF OpenArray
<1>6. CASE AddItem
  <2>1. left' \in Nat /\ orphans' \in Nat /\ full' \in BOOLEAN
    <3>1. left' \in Nat /\ orphans' \in Nat
      BY <1>6 DEF AddItem
    <3>2. full' \in BOOLEAN
      BY <1>6, Zenon DEF AddItem
    <3>3. QED
      BY <3>1, <3>2
  <2>2. items' \in [Kinds -> Nat]
    BY <1>6 DEF AddItem
  <2>3. whole' \in [Kinds -> Nat]
    BY <1>6 DEF AddItem
  <2>4. QED
    BY <1>6, <2>1, <2>2, <2>3 DEF AddItem
<1>7. CASE CloseArray
  BY <1>7, Names DEF CloseArray
<1>8. CASE AttachPorts
  <2>1. orphans' \in Nat
    BY <1>8, Names DEF AttachPorts
  <2>2. items' \in [Kinds -> Nat] /\ whole' \in [Kinds -> Nat]
    BY <1>8, Names DEF AttachPorts
  <2>3. QED
    BY <1>8, <2>1, <2>2 DEF AttachPorts
<1>9. CASE AddStatus
  BY <1>9 DEF AddStatus, AddFields
<1>10. CASE FinalCheck
  BY <1>10 DEF FinalCheck, Return
<1>11. CASE PrintRoot
  BY <1>11 DEF PrintRoot, Return
<1>12. CASE UNCHANGED vars
  BY <1>12
<1>13. QED
  BY <1>1, <1>2, <1>3, <1>4, <1>5, <1>6, <1>7, <1>8, <1>9, <1>10, <1>11, <1>12
     DEF Next

(* A payload comes out of the last step only, behind the final check.      *)
LEMMA ResultsStep ==
    ASSUME Types, Results, [Next]_vars
    PROVE  Results'
<1>. USE DEF Types, Results, Stages, NULL, vars, objVars, listVars
<1>1. CASE Collect
  BY <1>1 DEF Collect, Return, Zero
<1>2. CASE CreateRoot
  BY <1>2 DEF CreateRoot, Return
<1>3. CASE AddStatic
  BY <1>3 DEF AddStatic, AddFields
<1>4. CASE AddDynamic
  BY <1>4 DEF AddDynamic, AddFields
<1>5. CASE OpenArray
  BY <1>5 DEF OpenArray
<1>6. CASE AddItem
  BY <1>6 DEF AddItem
<1>7. CASE CloseArray
  BY <1>7 DEF CloseArray
<1>8. CASE AttachPorts
  BY <1>8 DEF AttachPorts
<1>9. CASE AddStatus
  BY <1>9 DEF AddStatus, AddFields
<1>10. CASE FinalCheck
  BY <1>10 DEF FinalCheck, Return
<1>11. CASE PrintRoot
  BY <1>11 DEF PrintRoot, Return
<1>12. CASE UNCHANGED vars
  BY <1>12
<1>13. QED
  BY <1>1, <1>2, <1>3, <1>4, <1>5, <1>6, <1>7, <1>8, <1>9, <1>10, <1>11, <1>12
     DEF Next

(* What a step does not add, the full heap excuses.                        *)
LEMMA WholeStep ==
    ASSUME Types, Results, Whole, [Next]_vars
    PROVE  Whole'
<1>. USE DEF Types, Results, Whole, Groups, Opened,
           Finished, Earlier, Stages, Kinds, NULL, vars, objVars, listVars
<1>1. CASE Collect
  BY <1>1 DEF Collect, Return, Zero
<1>2. CASE CreateRoot
  BY <1>2 DEF CreateRoot, Return
<1>3. CASE AddStatic
  BY <1>3 DEF AddStatic, AddFields
<1>4. CASE AddDynamic
  BY <1>4 DEF AddDynamic, AddFields
<1>5. CASE OpenArray
  BY <1>5 DEF OpenArray
<1>6. CASE AddItem
  BY <1>6 DEF AddItem
<1>7. CASE CloseArray
  BY <1>7 DEF CloseArray
<1>8. CASE AttachPorts
  BY <1>8 DEF AttachPorts
<1>9. CASE AddStatus
  BY <1>9 DEF AddStatus, AddFields
<1>10. CASE FinalCheck
  BY <1>10 DEF FinalCheck, Return
<1>11. CASE PrintRoot
  BY <1>11 DEF PrintRoot, Return
<1>12. CASE UNCHANGED vars
  BY <1>12
<1>13. QED
  BY <1>1, <1>2, <1>3, <1>4, <1>5, <1>6, <1>7, <1>8, <1>9, <1>10, <1>11, <1>12
     DEF Next

(* What is added was due.                                                  *)
LEMMA SizesStep ==
    ASSUME Types, Types', Results, Sizes, [Next]_vars
    PROVE  Sizes'
<1>. SUFFICES ASSUME NEW k \in Kinds
              PROVE  /\ whole'[k] <= items'[k]
                     /\ items'[k] + Due(k)' <= Count(k)'
                     /\ k \notin array' => items'[k] = 0
  BY DEF Sizes
<1>1. /\ whole[k] <= items[k] /\ items[k] + Due(k) <= Count(k)
      /\ k \notin array => items[k] = 0
  BY DEF Sizes
<1>2. /\ whole[k] \in Nat /\ items[k] \in Nat /\ left \in Nat /\ kind \in Kinds
      /\ Due(k) \in Nat /\ Count(k) \in Nat
  BY DueIs, CountType DEF Types
<1>3. CASE Collect
  <2>1. items'[k] = 0 /\ whole'[k] = 0
    BY <1>3 DEF Collect, Zero
  <2>2. pc' \in {"root", "collect"}
    BY <1>3 DEF Collect, Return
  <2>3. QED
    BY <2>1, <2>2, DueIsNext
<1>4. CASE CreateRoot /\ pc' = "collect"
  <2>1. UNCHANGED <<items, whole, array>> /\ Count(k)' = Count(k)
    BY <1>4, CountStays DEF CreateRoot, objVars, listVars
  <2>2. Due(k)' = 0
    BY <1>4, DueIsNext
  <2>3. QED
    BY <1>1, <1>2, <2>1, <2>2
<1>5. CASE OpenArray
  <2>1. UNCHANGED <<items, whole>> /\ array \subseteq array'
    BY <1>5 DEF OpenArray
  <2>2. QED
    BY <1>1, <1>5, <2>1, DueStays
<1>6. CASE AddItem
  <2>1. CASE k = kind
    <3>1. \/ items'[k] = items[k] /\ whole'[k] = whole[k]
          \/ /\ k \in array /\ items'[k] = items[k] + 1
             /\ whole'[k] \in {whole[k], whole[k] + 1}
      BY <1>2, <1>6, <2>1 DEF AddItem, Types
    <3>2. UNCHANGED array
      BY <1>6 DEF AddItem
    <3>3. Due(k)' = Due(k) - 1 /\ Count(k)' = Count(k)
      BY <1>6, <2>1, DueFalls
    <3>4. QED
      BY <1>1, <1>2, <3>1, <3>2, <3>3
  <2>2. CASE k # kind
    <3>1. UNCHANGED array /\ items'[k] = items[k] /\ whole'[k] = whole[k]
      BY <1>2, <1>6, <2>2 DEF AddItem, Types
    <3>2. Due(k)' = Due(k) /\ Count(k)' = Count(k)
      BY <1>6, <2>2, DueFalls
    <3>3. QED
      BY <1>1, <3>1, <3>2
  <2>3. QED
    BY <2>1, <2>2
<1>7. CASE AttachPorts
  <2>1. \/ UNCHANGED <<items, whole, array>>
        \/ k = "ports" /\ items'[k] = 0 /\ whole'[k] = 0
        \/ /\ k # "ports" /\ items'[k] = items[k] /\ whole'[k] = whole[k]
           /\ k \in array => k \in array'
    BY <1>2, <1>7 DEF AttachPorts, Types
  <2>2. QED
    BY <1>1, <1>2, <1>7, <2>1, DueStays
<1>8. ASSUME \/ CreateRoot /\ pc' # "collect"
             \/ AddStatic \/ AddDynamic \/ CloseArray \/ AddStatus
             \/ FinalCheck \/ PrintRoot \/ UNCHANGED vars
      PROVE  /\ whole'[k] <= items'[k] /\ items'[k] + Due(k)' <= Count(k)'
             /\ k \notin array' => items'[k] = 0
  <2>1. UNCHANGED <<items, whole, array>>
    BY <1>8 DEF CreateRoot, AddStatic, AddDynamic, CloseArray, AddStatus,
                FinalCheck, PrintRoot, vars, listVars
  <2>2. Due(k)' = Due(k) /\ Count(k)' = Count(k)
    BY <1>8, DueStays
  <2>3. QED
    BY <1>1, <2>1, <2>2
<1>9. QED
  BY <1>3, <1>4, <1>5, <1>6, <1>7, <1>8 DEF Next

(* An item that is not added whole is one the heap had no room for.        *)
LEMMA ExactStep ==
    ASSUME Types, Types', Results, Sizes, Whole, Exact, [Next]_vars
    PROVE  Exact'
<1>. SUFFICES ASSUME sensor_count' > 0, ~ full', NEW k \in Kinds
              PROVE  orphans' = 0 /\ whole'[k] + Due(k)' = Count(k)'
  BY Names DEF Exact
<1>1. ASSUME sensor_count > 0, ~ full
      PROVE  orphans = 0 /\ whole[k] + Due(k) = Count(k)
  BY <1>1 DEF Exact
<1>2. /\ whole[k] \in Nat /\ items[k] \in Nat /\ left \in Nat /\ kind \in Kinds
      /\ Due(k) \in Nat /\ Count(k) \in Nat /\ full \in BOOLEAN
  BY DueIs, CountType DEF Types
<1>3. CASE Collect
  <2>1. whole'[k] = 0 /\ orphans' = 0
    BY <1>3 DEF Collect, Zero
  <2>2. pc' = "root"
    BY <1>3 DEF Collect, Return
  <2>3. QED
    BY <2>1, <2>2, DueIsNext
<1>4. CASE AddItem
  <2>1. sensor_count > 0 /\ ~ full
    BY <1>2, <1>4 DEF AddItem, objVars
  <2>2. kind \in array
    BY <1>4, <2>1 DEF AddItem, Whole, Opened
  <2>3. /\ orphans' = 0
        /\ whole'[k] = (IF k = kind THEN whole[k] + 1 ELSE whole[k])
    BY <1>1, <1>2, <1>4, <2>1, <2>2 DEF AddItem, Types
  <2>4. QED
    BY <1>1, <1>2, <1>4, <2>1, <2>3, DueFalls
<1>5. ASSUME \/ CreateRoot \/ AddStatic \/ AddDynamic \/ OpenArray
             \/ CloseArray \/ AttachPorts \/ AddStatus \/ FinalCheck
             \/ PrintRoot \/ UNCHANGED vars
      PROVE  orphans' = 0 /\ whole'[k] + Due(k)' = Count(k)'
  <2>1. /\ sensor_count > 0 /\ ~ full /\ UNCHANGED <<whole, orphans>>
        /\ CreateRoot => pc' # "collect"
    BY <1>2, <1>5 DEF CreateRoot, AddStatic, AddDynamic, AddFields, OpenArray,
                      CloseArray, AttachPorts, AddStatus, FinalCheck,
                      PrintRoot, Return, vars, objVars, listVars
  <2>2. Due(k)' = Due(k) /\ Count(k)' = Count(k)
    BY <1>5, <2>1, DueStays
  <2>3. QED
    BY <1>1, <2>1, <2>2
<1>6. QED
  BY <1>3, <1>4, <1>5 DEF Next

(* The inductive invariant at the start.                                   *)
LEMMA Begin == Init => IInv
<1>. SUFFICES ASSUME Init PROVE IInv
  OBVIOUS
<1>. USE DEF Init, Kinds, NULL, Zero, Stages
<1>1. Types
  BY DEF Types
<1>2. Sizes
  BY CountIs, JsonAssumption DEF Sizes, Due, Finished
<1>3. Results /\ Whole /\ Exact
  BY DEF Whole, Exact, Results
<1>4. QED
  BY <1>1, <1>2, <1>3 DEF IInv

(* And from step to step: one lemma above for each of its parts.           *)
LEMMA Step == IInv /\ [Next]_vars => IInv'
BY TypesStep, ResultsStep, SizesStep, WholeStep, ExactStep DEF IInv

(* The invariant holds of every behaviour, fair or not.                    *)
THEOREM Inductive == Spec => []IInv
BY Begin, Step, PTL DEF Spec

(* With room on the heap a build returns a payload with all that was       *)
(* collected (json_builder.c:26-178), and leaves nothing behind.           *)
THEOREM GoodHeap == Spec => []GoodHeapGoodPayload
<1>1. IInv => GoodHeapGoodPayload
  <2>. SUFFICES ASSUME IInv, pc = "collect", sensor_count > 0, ~ full
       PROVE  result = "payload" /\ Complete /\ orphans = 0
    BY DEF GoodHeapGoodPayload
  <2>1. /\ orphans = 0 /\ fields = Groups /\ array = Opened
        /\ result = "payload"
        /\ \A k \in Kinds : whole[k] + Due(k) = Count(k)
    BY DEF IInv, Whole, Exact
  <2>2. Groups = {"static", "sensor_count", "status"} /\ Opened = Kinds
    BY DEF Groups, Opened, Finished
  <2>3. \A k \in Kinds : whole[k] = Count(k)
    BY <2>1, CountIs, JsonAssumption DEF IInv, Types, Due, Finished, Kinds
  <2>4. QED
    BY <2>1, <2>2, <2>3 DEF Complete
<1>2. QED
  BY <1>1, Inductive, PTL

(* On any heap a payload has its two main parts (json_builder.c:164-169),  *)
(* and what is added to NULL parents stays out of it.                      *)
THEOREM Parts == Spec => []PayloadHasItsParts
<1>1. IInv => PayloadHasItsParts
  <2>. SUFFICES ASSUME IInv, result = "payload" PROVE PayloadHasItsParts
    BY DEF PayloadHasItsParts
  <2>1. static_obj /\ dynamic_obj /\ pc = "collect"
    BY DEF IInv, Results, NULL
  <2>2. \A k \in Kinds : whole[k] <= items[k] /\ items[k] <= Count(k)
    BY <2>1, CountIs, JsonAssumption
       DEF IInv, Types, Sizes, Due, Finished, Kinds
  <2>3. QED
    BY <2>1, <2>2 DEF PayloadHasItsParts, IInv, Sizes
<1>2. QED
  BY <1>1, Inductive, PTL

=============================================================================

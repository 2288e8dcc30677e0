---------------------------- MODULE JsonBuilder ----------------------------
(***************************************************************************)
(* build_device_json of src/main/json_builder.c on a heap that may be full *)
(* at any allocation, called by the telemetry task again and again.        *)
(*                                                                         *)
(* cJSON, external, is modelled by what the code relies on: a constructor  *)
(* returns NULL when the heap is full, adding to a missing object adds     *)
(* nothing, an item that could not be added stays with the caller, and     *)
(* cJSON_Delete frees what is reachable from the root.  The code looks at  *)
(* no result but root, static_obj, dynamic_obj and the printed string.     *)
(* The fields of one object are added in one step.                         *)
(***************************************************************************)
EXTENDS Integers

CONSTANTS
    MaxSensorCount,   \* a bound on ddata.sensor_count
    HealthCount,      \* ddata.health_count
    PortCount         \* ddata.port_count

ASSUME JsonAssumption == {MaxSensorCount, HealthCount, PortCount} \subseteq Nat

VARIABLES
    pc,            \* the next step of build_device_json
    kind,          \* the array it is at
    sensor_count,  \* of the collected data
    static_obj, dynamic_obj,   \* was the object created and added?
    fields,        \* groups of an object's own fields that are complete
    array,         \* the arrays that exist
    items,         \* objects added to each array
    whole,         \* of these, the ones with all their fields
    left,          \* items the running loop has still to add
    orphans,       \* objects nothing refers to any more
    full,          \* history: has an allocation of this build failed?
    result         \* what the last build returned

vars == <<pc, kind, sensor_count, static_obj, dynamic_obj, fields, array,
          items, whole, left, orphans, full, result>>
objVars  == <<sensor_count, static_obj, dynamic_obj, fields>>
listVars == <<kind, array, items, whole, left, orphans>>

Kinds == {"sensors", "health", "ports"}
NULL == "NULL"
Zero == [k \in Kinds |-> 0]

Count(k) == [sensors |-> sensor_count, health |-> HealthCount, ports |-> PortCount][k]

Init ==
    /\ pc = "collect" /\ kind = "sensors" /\ sensor_count = 0
    /\ static_obj = FALSE /\ dynamic_obj = FALSE /\ fields = {}
    /\ array = {} /\ items = Zero /\ whole = Zero
    /\ left = 0 /\ orphans = 0 /\ full = FALSE /\ result = NULL

(* The build ends; its caller publishes and frees what it returned.        *)
Return(r) == pc' = "collect" /\ result' = r

----------------------------------------------------------------------------
(* A new build.  Without a reading there is no payload.                    *)
Collect ==
    /\ pc = "collect"
    /\ sensor_count' \in 0..MaxSensorCount
    /\ IF sensor_count' = 0 THEN Return(NULL) ELSE pc' = "root" /\ result' = NULL
    /\ static_obj' = FALSE /\ dynamic_obj' = FALSE /\ fields' = {}
    /\ kind' = "sensors" /\ array' = {} /\ items' = Zero /\ whole' = Zero
    /\ left' = 0 /\ orphans' = 0 /\ full' = FALSE

CreateRoot ==
    /\ pc = "root"
    /\ \/ pc' = "static" /\ UNCHANGED <<result, full>>
       \/ Return(NULL) /\ full' = TRUE
    /\ UNCHANGED <<objVars, listVars>>

(* Some fields of an object are added: all of them, or not.                *)
AddFields(name, parent) ==
    \/ parent /\ fields' = fields \cup {name} /\ UNCHANGED full
    \/ UNCHANGED fields /\ full' = TRUE

AddStatic ==
    /\ pc = "static" /\ pc' = "dynamic"
    /\ static_obj' \in BOOLEAN
    /\ AddFields("static", static_obj')
    /\ UNCHANGED <<sensor_count, dynamic_obj, listVars, result>>

AddDynamic ==
    /\ pc = "dynamic" /\ pc' = "array"
    /\ dynamic_obj' \in BOOLEAN
    /\ AddFields("sensor_count", dynamic_obj')
    /\ UNCHANGED <<sensor_count, static_obj, listVars, result>>

(* cJSON_AddArrayToObject, or for the ports cJSON_CreateArray: the ports   *)
(* are gathered aside and added to dynamic_obj at the end.                 *)
OpenArray ==
    /\ pc = "array" /\ pc' = "items"
    /\ left' = Count(kind)
    /\ \/ /\ kind = "ports" \/ dynamic_obj
          /\ array' = array \cup {kind} /\ UNCHANGED full
       \/ UNCHANGED array /\ full' = TRUE
    /\ UNCHANGED <<objVars, kind, items, whole, orphans, result>>

(* A mistake: an object that lacks a field is thrown away.                 *)
AddItem_Drops ==
    /\ pc = "items" /\ left > 0
    /\ left' = left - 1
    /\ \/ /\ kind \in array
          /\ items' = [items EXCEPT ![kind] = @ + 1]
          /\ whole' = [whole EXCEPT ![kind] = @ + 1]
          /\ UNCHANGED <<orphans, full>>
       \/ orphans' = orphans + 1 /\ UNCHANGED <<items, whole, full>>
    /\ UNCHANGED <<pc, objVars, kind, array, result>>

(* One iteration: the object cannot be created, or it is created with all  *)
(* or some of its fields and added to the array, when there is one.        *)
AddItem ==
    /\ pc = "items" /\ left > 0
    /\ left' = left - 1
    /\ \/ full' = TRUE /\ UNCHANGED <<items, whole, orphans>>
       \/ \E complete \in BOOLEAN :
             /\ full' = (full \/ ~ complete)
             /\ IF kind \in array
                THEN /\ items' = [items EXCEPT ![kind] = @ + 1]
                     /\ whole' = [whole EXCEPT ![kind] = @ + (IF complete THEN 1 ELSE 0)]
                     /\ UNCHANGED orphans
                ELSE orphans' = orphans + 1 /\ UNCHANGED <<items, whole>>
    /\ UNCHANGED <<pc, objVars, kind, array, result>>

CloseArray ==
    /\ pc = "items" /\ left = 0
    /\ \/ kind = "sensors" /\ kind' = "health" /\ pc' = "array"
       \/ kind = "health"  /\ kind' = "ports"  /\ pc' = "array"
       \/ kind = "ports"   /\ pc' = "attach"   /\ UNCHANGED kind
    /\ UNCHANGED <<objVars, array, items, whole, left, orphans, full, result>>

(* cJSON_AddItemToObject(dynamic_obj, "ports", ports): when it fails, the  *)
(* array and its items are left behind.                                    *)
AttachPorts ==
    /\ pc = "attach" /\ pc' = "status"
    /\ \/ /\ "ports" \notin array \/ dynamic_obj
          /\ UNCHANGED <<array, items, whole, orphans, full>>
       \/ /\ "ports" \in array
          /\ orphans' = orphans + 1 + items["ports"]
          /\ array' = array \ {"ports"}
          /\ items' = [items EXCEPT !["ports"] = 0]
          /\ whole' = [whole EXCEPT !["ports"] = 0]
          /\ full' = TRUE
    /\ UNCHANGED <<objVars, kind, left, result>>

AddStatus ==
    /\ pc = "status" /\ pc' = "check"
    /\ AddFields("status", TRUE)
    /\ UNCHANGED <<sensor_count, static_obj, dynamic_obj, listVars, result>>

(* A mistake: only the first of the two objects is looked at.              *)
FinalCheck_StaticOnly ==
    /\ pc = "check"
    /\ IF static_obj THEN pc' = "print" /\ UNCHANGED result ELSE Return(NULL)
    /\ UNCHANGED <<objVars, listVars, full>>

FinalCheck ==
    /\ pc = "check"
    /\ IF static_obj /\ dynamic_obj
       THEN pc' = "print" /\ UNCHANGED result
       ELSE Return(NULL)
    /\ UNCHANGED <<objVars, listVars, full>>

(* The string is printed, or not; the tree is deleted.                     *)
PrintRoot ==
    /\ pc = "print"
    /\ \/ Return("payload") /\ UNCHANGED full
       \/ Return(NULL) /\ full' = TRUE
    /\ UNCHANGED <<objVars, listVars>>

Next ==
    \/ Collect \/ CreateRoot \/ AddStatic \/ AddDynamic
    \/ OpenArray \/ AddItem \/ CloseArray \/ AttachPorts
    \/ AddStatus \/ FinalCheck \/ PrintRoot

Spec == Init /\ [][Next]_vars /\ WF_vars(Next)

----------------------------------------------------------------------------
Complete ==
    /\ fields = {"static", "sensor_count", "status"}
    /\ array = Kinds
    /\ \A k \in Kinds : whole[k] = Count(k)

(* As long as the heap is not full, a build of collected readings returns  *)
(* a payload with every one of them, and leaves nothing behind.            *)
GoodHeapGoodPayload ==
    pc = "collect" /\ sensor_count > 0 /\ ~ full =>
        result = "payload" /\ Complete /\ orphans = 0

(* Even on a full heap a payload is never sent without its two main parts, *)
(* and what the code adds to NULL parents never shows up in it.            *)
PayloadHasItsParts ==
    result = "payload" =>
        /\ static_obj /\ dynamic_obj
        /\ \A k \in Kinds : k \notin array => items[k] = 0
        /\ \A k \in Kinds : whole[k] <= items[k] /\ items[k] <= Count(k)

=============================================================================

------------------------------ MODULE Delivery ------------------------------
(***************************************************************************)
(* What telemetry promises of its publications, whatever happens to tasks, *)
(* connections and acknowledgements: one is pending from the moment the    *)
(* client takes it until it is delivered or given up, and what has become  *)
(* of it then stands.  Abstract specification of src/main/mqtt_manager.c,  *)
(* which MqttManager is shown to implement.                                *)
(***************************************************************************)
EXTENDS Naturals

CONSTANT Slots   \* a slot holds one publication after another

VARIABLES
    fate,   \* of the publication each slot holds
    taken   \* publications taken so far, modulo 2

vars == <<fate, taken>>

Fates == {"none", "pending", "delivered", "lost"}

Init == fate = [s \in Slots |-> "none"] /\ taken = 0

(* One publication is taken, and nothing else happens: no step but this    *)
(* makes a slot pending, and it is counted.                                *)
Accept(s) ==
    /\ taken' = 1 - taken
    /\ fate[s] # "pending" /\ fate' = [fate EXCEPT ![s] = "pending"]

(* Without another being taken, a publication settles or keeps its fate.   *)
(* The end of a connection may settle several at once.                     *)
Settle ==
    /\ taken' = taken
    /\ fate' \in [Slots -> Fates]
    /\ \A s \in Slots :
          \/ fate'[s] = fate[s]
          \/ fate[s] = "pending" /\ fate'[s] \in {"delivered", "lost"}

Next == Settle \/ \E s \in Slots : Accept(s)

Spec == Init /\ [][Next]_vars

(* What a publisher may hope for while nothing goes wrong: nothing stays   *)
(* pending for ever.                                                       *)
AllSettled == \A s \in Slots : fate[s] = "pending" ~> fate[s] # "pending"

=============================================================================

---------------------------- MODULE CallDelivery ----------------------------
(* What the library promises about calls, whatever the wire does: a call is   *)
(* processed at most once, by the object it was made on, and the calls made   *)
(* on one object are processed in the order they were made.  A call that a    *)
(* listener makes may go ahead of earlier ones: it is sent at once when the   *)
(* object has just got its id, while earlier calls wait for the end of the    *)
(* batch.                                                                     *)
EXTENDS Naturals, Sequences

CONSTANT Objects    \* the names the two peers know an object by

VARIABLES
    made,   \* the calls made: on which object, and whether in a listener
    done    \* the calls processed, in order: their numbers and the object

DeliveryInit == made = <<>> /\ done = <<>>

Processed == {done[i].n : i \in DOMAIN done}

MakeCall(object, nested) ==
    /\ made' = Append(made, [to |-> object, nested |-> nested])
    /\ UNCHANGED done

(* The calls on the same object that were made before call n.                 *)
Earlier(n) == {m \in 1..n - 1 : made[m].to = made[n].to}

Process(n) ==
    /\ n \notin Processed
    /\ made[n].nested \/ \A m \in Earlier(n) : m \in Processed
    /\ done' = Append(done, [n |-> n, on |-> made[n].to])
    /\ UNCHANGED made

DeliveryNext ==
    \/ \E object \in Objects, nested \in BOOLEAN : MakeCall(object, nested)
    \/ \E n \in DOMAIN made : Process(n)

DeliverySpec == DeliveryInit /\ [][DeliveryNext]_<<made, done>>
=============================================================================

----------------------------- MODULE ApiServer -----------------------------
(***************************************************************************)
(* What the Kubernetes API server does with the writes of the operator.    *)
(*                                                                         *)
(* All of them are JSON merge patches without a resource version, made     *)
(* from the object as it was read and the object as it was changed in      *)
(* memory: a field that the reconciler left alone keeps whatever value the *)
(* server has, a field that it changed overwrites the server's value, and  *)
(* a list (finalizers, the private endpoints of a subnet) is one field.    *)
(***************************************************************************)

CONSTANT
    Absent      \* what a Get of an object that does not exist returns

\* One field of a merge patch: sent only when the reconciler changed it.
Merged(before, after, current) == IF after = before THEN current ELSE after

\* The API server refuses a new finalizer on an object that is being deleted.
Accepted(current, new) ==
    current.deleting => new.finalizers \subseteq current.finalizers

\* A deletion sets the object's DeletionTimestamp.
Marked(object) == [object EXCEPT !.deleting = TRUE]

\* An object that is being deleted goes away with its last finalizer.
Stored(new) == IF new.deleting /\ new.finalizers = {} THEN Absent ELSE new
=============================================================================

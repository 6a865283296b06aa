------------------------------ MODULE Registry ------------------------------
(***************************************************************************)
(* What ofec::InstanceManager promises to the threads that use it: a set of *)
(* objects, each under an id of its own kind.  An object is added under an *)
(* id that nothing else has, on top of objects that are there, and is      *)
(* removed only when nothing uses it any more.                             *)
(***************************************************************************)
VARIABLES
    objects,    \* the objects there are
    uses        \* pairs of a user and an object it uses

registry == <<objects, uses>>

RegistryInit == objects = {} /\ uses = {}

\* A new object, on top of others that are there.
Add(x) ==
    /\ x \notin objects
    /\ objects' = objects \cup {x}
    /\ uses \subseteq uses'
    /\ uses' \ uses \subseteq {x} \X objects

\* A new object for the use of one that is there.
AddPart(x) ==
    /\ x \notin objects
    /\ objects' = objects \cup {x}
    /\ \E user \in objects : uses' = uses \cup {<<user, x>>}

\* An object nobody uses goes.
Remove(x) ==
    /\ x \in objects
    /\ objects' = objects \ {x}
    /\ \A u \in uses : u[2] # x
    /\ uses' = {u \in uses : u[1] # x}

RegistryNext ==
    \/ \E x \in objects' \ objects : Add(x) \/ AddPart(x)
    \/ \E x \in objects \ objects' : Remove(x)

RegistrySpec == RegistryInit /\ [][RegistryNext]_registry
=============================================================================

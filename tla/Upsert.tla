-------------------------------- MODULE Upsert --------------------------------
(***************************************************************************)
(* What createOrUpdate of packages/shared promises the callers that write  *)
(* one Kubernetes object at the same time: each call puts its caller's     *)
(* change on the object as it is at that instant, at most once, and then   *)
(* returns saying whether the object was there, or else throws.            *)
(***************************************************************************)
CONSTANTS
    Client,    \* the calls
    Replacing, \* the calls whose mutate ignores the object it is given
    Foreign    \* a change by a controller or another program

VARIABLES
    obj,   \* whose changes the object bears, or {} when there is none
    result \* how each call ended

uvars == <<obj, result>>

\* The object with the change of c.
Mutated(o, c) == IF c \in Replacing THEN {c} ELSE o \cup {c}

Init == /\ obj \in {{}, {Foreign}}
        /\ result = [c \in Client |-> "none"]

Put(c) == /\ result[c] = "none"
          /\ obj' = Mutated(obj, c)
          /\ result' = [result EXCEPT ![c] = IF obj = {} THEN "created" ELSE "updated"]

\* The change is made, but the caller gets an error.
PutUnheard(c) == /\ result[c] = "none"
                 /\ obj' = Mutated(obj, c)
                 /\ result' = [result EXCEPT ![c] = "thrown"]

GiveUp(c) == /\ result[c] = "none"
             /\ result' = [result EXCEPT ![c] = "thrown"]
             /\ UNCHANGED obj

\* Somebody else edits or deletes the object.
Meddle == obj' \in {{}, obj \cup {Foreign}} /\ UNCHANGED result

Next == Meddle \/ \E c \in Client : Put(c) \/ PutUnheard(c) \/ GiveUp(c)

Spec == Init /\ [][Next]_uvars
=============================================================================

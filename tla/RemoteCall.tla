------------------------------ MODULE RemoteCall ------------------------------
(***************************************************************************)
(* What a ManagedClusterView or a ManagedClusterAction promises to its     *)
(* caller in the hub's console: the call is carried out on the managed     *)
(* cluster only once it has been made, and the promise resolves only when  *)
(* it has been.  A rejection promises nothing: the cluster may have done   *)
(* the work before it, and may still do it after it.                       *)
(***************************************************************************)
CONSTANT Request \* the calls

VARIABLES
    effect, \* the calls that the managed cluster has carried out
    answer  \* what the caller knows of each call

rvars == <<effect, answer>>

Init == effect = {} /\ answer = [r \in Request |-> "idle"]

Answer(r, from, to) == answer[r] = from /\ answer' = [answer EXCEPT ![r] = to]

Fire(r) == Answer(r, "idle", "called") /\ UNCHANGED effect

CarryOut(r) == /\ answer[r] # "idle" /\ r \notin effect
               /\ effect' = effect \cup {r}
               /\ UNCHANGED answer

Resolve(r) == r \in effect /\ Answer(r, "called", "resolved") /\ UNCHANGED effect
Reject(r) == Answer(r, "called", "rejected") /\ UNCHANGED effect

Next == \E r \in Request : Fire(r) \/ CarryOut(r) \/ Resolve(r) \/ Reject(r)

Spec == Init /\ [][Next]_rvars
=============================================================================

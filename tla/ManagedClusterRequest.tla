------------------------- MODULE ManagedClusterRequest -------------------------
(***************************************************************************)
(* How the console reaches a managed cluster (packages/mco, utils/managed- *)
(* cluster-view.ts and managed-cluster-action.ts, which poll alike): it    *)
(* creates a ManagedClusterView or ManagedClusterAction on the hub, polls  *)
(* it until the agent of the cluster has written a status, deletes it and  *)
(* settles its promise.                                                    *)
(*                                                                         *)
(* The hub's API server and the agent are external.  The agent takes a     *)
(* request up, acts and reports, each at a time of its own and maybe never;*)
(* what it has taken up it does not drop when the request is deleted.      *)
(***************************************************************************)
EXTENDS Naturals, FiniteSets

CONSTANTS
    Request,    \* the calls of fireManagedClusterView and -Action
    MaxRetries, \* MAX_RETRIES
    MaxFaults   \* bound: rejected calls, lost answers and foreign deletions

ASSUME RetriesAssumption == MaxRetries \in Nat \ {0}
ASSUME FaultsAssumption == MaxFaults \in Nat

VARIABLES
    pc,      \* the await at which each request stands, or how it ended
    retries, \* retries
    verdict, \* what the poll does once the request is deleted
    hub,     \* the requests that exist on the hub
    status,  \* the condition that the agent has written
    agent,   \* how far the agent is with each request
    effect,  \* the requests that the managed cluster has carried out
    faulty,  \* history: the requests that met a fault
    faults

client == <<pc, retries, verdict>>
cluster == <<status, agent, effect>>
vars == <<client, hub, cluster, faulty, faults>>

Ended == {"resolved", "rejected"}
\* success: the type and the reason the poll waits for.  failure: that type
\* with another reason.  unknown: another type, or a status without condition.
Statuses == {"none", "success", "failure", "unknown"}

Init ==
    /\ pc = [r \in Request |-> "idle"]
    /\ retries = [r \in Request |-> 0]
    /\ verdict = [r \in Request |-> "none"]
    /\ hub = {}
    /\ status = [r \in Request |-> "none"]
    /\ agent = [r \in Request |-> "idle"]
    /\ effect = {} /\ faulty = {} /\ faults = 0

Goto(r, step) == pc' = [pc EXCEPT ![r] = step]

\* A call that is rejected, or an object that is gone, is for the request r.
Fault(r) == /\ faults < MaxFaults /\ faults' = faults + 1
            /\ faulty' = faulty \cup {r}
NoFault == UNCHANGED <<faults, faulty>>

-----------------------------------------------------------------------------
(* The caller.                                                             *)

Fire(r) ==
    /\ pc[r] = "idle" /\ Goto(r, "create")
    /\ UNCHANGED <<retries, verdict, hub, cluster, faulty, faults>>

\* generateName: the create meets no other object.
Create(r) ==
    /\ pc[r] = "create"
    /\ \/ hub' = hub \cup {r} /\ Goto(r, "get") /\ NoFault
          /\ retries' = [retries EXCEPT ![r] = 1]
       \/ /\ Fault(r) /\ hub' \in {hub, hub \cup {r}} /\ Goto(r, "rejected")
          /\ UNCHANGED retries
    /\ UNCHANGED <<verdict, cluster>>

\* Mutant: the request is left on the hub when there was no status.
DecideM(r, v) == /\ verdict' = [verdict EXCEPT ![r] = v]
                 /\ Goto(r, IF v = "timeout" THEN "rejected" ELSE "delete")
Decide(r, v) == verdict' = [verdict EXCEPT ![r] = v] /\ Goto(r, "delete")

\* Mutant: every status resolves.
JudgedM(s) == "success"
\* What a status makes of the promise.
Judged(s) == s

\* Mutant: the last try gives up without a look at the status.
AnsweredM(r) == status[r] # "none" /\ retries[r] < MaxRetries
\* response?.status
Answered(r) == status[r] # "none"

\* Mutant: the poll goes on for as long as there is no status.
PatientM(r) == TRUE
Patient(r) == retries[r] < MaxRetries

\* Mutant: retries++ for ++retries.
TryAgainM(r) == UNCHANGED retries
\* setTimeout(poll, TIMEOUT_MS, ++retries)
TryAgain(r) == retries' = [retries EXCEPT ![r] = @ + 1]

\* One round of poll; the setTimeout between two rounds is the time between
\* two of these steps.
Poll(r) ==
    /\ pc[r] = "get"
    /\ \/ /\ r \in hub /\ Answered(r) /\ Decide(r, Judged(status[r]))
          /\ UNCHANGED retries /\ NoFault
       \/ /\ r \in hub /\ ~Answered(r) /\ Patient(r) /\ TryAgain(r)
          /\ UNCHANGED <<pc, verdict>> /\ NoFault
       \/ /\ r \in hub /\ ~Answered(r) /\ ~Patient(r) /\ Decide(r, "timeout")
          /\ UNCHANGED retries /\ NoFault
       \/ r \notin hub /\ Goto(r, "rejected") /\ UNCHANGED <<retries, verdict>> /\ NoFault
       \/ Fault(r) /\ Goto(r, "rejected") /\ UNCHANGED <<retries, verdict>>
    /\ UNCHANGED <<hub, cluster>>

\* The delete and then the resolve or the reject that follows it.  A 404 is
\* rethrown like any other error: the NotFoundError that the catch asks for is
\* not what k8sDelete throws.
Delete(r) ==
    /\ pc[r] = "delete"
    /\ \/ /\ r \in hub /\ hub' = hub \ {r} /\ NoFault
          /\ Goto(r, IF verdict[r] = "success" THEN "resolved" ELSE "rejected")
       \/ r \notin hub /\ Goto(r, "rejected") /\ UNCHANGED hub /\ NoFault
       \/ Fault(r) /\ hub' \in {hub, hub \ {r}} /\ Goto(r, "rejected")
    /\ UNCHANGED <<retries, verdict, cluster>>

-----------------------------------------------------------------------------
(* The agent, and the hub's other clients.                                 *)

TakeUp(r) ==
    /\ agent[r] = "idle" /\ r \in hub
    /\ agent' = [agent EXCEPT ![r] = "taken"]
    /\ UNCHANGED <<client, hub, status, effect, faulty, faults>>

Act(r) ==
    /\ agent[r] = "taken"
    /\ \/ agent' = [agent EXCEPT ![r] = "acted"] /\ effect' = effect \cup {r}
       \/ agent' = [agent EXCEPT ![r] = "failed"] /\ UNCHANGED effect
    /\ UNCHANGED <<client, hub, status, faulty, faults>>

\* The agent tells of a success only what it did, of a failure also what it
\* may have done; before it acts it may write a status without a verdict.
Report(r, s) ==
    /\ agent[r] # "idle" /\ r \in hub /\ status[r] \in {"none", "unknown"}
    /\ agent[r] = "taken" => s = "unknown"
    /\ agent[r] = "failed" => s # "success"
    /\ status' = [status EXCEPT ![r] = s]
    /\ UNCHANGED <<client, hub, agent, effect, faulty, faults>>

\* Another client deletes the request.
Collect(r) ==
    /\ r \in hub /\ hub' = hub \ {r} /\ Fault(r)
    /\ UNCHANGED <<client, cluster>>

Call(r) == Create(r) \/ Poll(r) \/ Delete(r)
Agent(r) == TakeUp(r) \/ Act(r) \/ \E s \in Statuses \ {"none"} : Report(r, s)
Next == \E r \in Request : Fire(r) \/ Call(r) \/ Agent(r) \/ Collect(r)

Spec == Init /\ [][Next]_vars

\* The browser goes on with every call it has begun; the agent owes nothing.
FairSpec == Spec /\ \A r \in Request : WF_vars(Call(r))
-----------------------------------------------------------------------------
(* Properties.                                                             *)

\* Every variable stays in its set, and no request is polled more than
\* MAX_RETRIES times.
TypeOK ==
    /\ pc \in [Request -> {"idle", "create", "get", "delete"} \cup Ended]
    /\ retries \in [Request -> 0..MaxRetries]
    /\ verdict \in [Request -> Statuses \cup {"timeout"}]
    /\ hub \in SUBSET Request
    /\ status \in [Request -> Statuses]
    /\ agent \in [Request -> {"idle", "taken", "acted", "failed"}]
    /\ effect \in SUBSET Request /\ faulty \in SUBSET Request
    /\ faults \in 0..MaxFaults

\* The hub does not fill up with views and actions: one whose promise has
\* settled, in time, late or with an error, is there only if a call for it
\* was rejected.
OnlyFaultsLeak == \A r \in hub : pc[r] \in Ended => r \in faulty

\* What the caller knows of each call.
Told == [r \in Request |-> IF pc[r] \in Ended \cup {"idle"} THEN pc[r] ELSE "called"]

\* A promise resolves only for what the managed cluster did on its behalf.
R == INSTANCE RemoteCall WITH answer <- Told
RefinesRemoteCall == R!Spec

\* Every call that has begun settles, whether the agent lives or not.
EveryRequestSettles == \A r \in Request : pc[r] = "create" ~> pc[r] \in Ended

\* An answer that is there at the last poll is still heard.
AnswerInTimeIsHeard ==
    \A r \in Request :
        pc[r] = "get" /\ status[r] = "success" ~> pc[r] = "resolved" \/ r \in faulty
=============================================================================

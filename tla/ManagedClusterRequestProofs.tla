---------------------- MODULE ManagedClusterRequestProofs ----------------------
(***************************************************************************)
(* Proofs about ManagedClusterRequest, for any set of requests, any        *)
(* MAX_RETRIES and any number of faults: types, that only faults leave a   *)
(* request on the hub, and that the requests implement RemoteCall.         *)
(***************************************************************************)
EXTENDS ManagedClusterRequest, TLAPS

\* Nothing happens to a request before it has been created.
NotBefore(r) == pc[r] \in {"idle", "create"} => r \notin hub /\ agent[r] = "idle"

\* A success, on the hub or in the hands of the poll, is one the cluster did.
Truthful(r) ==
    /\ r \in effect <=> agent[r] = "acted"
    /\ status[r] = "success" => r \in effect
    /\ pc[r] = "delete" /\ verdict[r] = "success" => r \in effect

\* A poll goes on only while a try is left.
Counting(r) == pc[r] = "get" => retries[r] \in 1..MaxRetries

IInv ==
    /\ TypeOK
    /\ OnlyFaultsLeak
    /\ \A r \in Request : NotBefore(r) /\ Truthful(r) /\ Counting(r)

USE RetriesAssumption, FaultsAssumption

LEMMA InitIInv == Init => IInv
BY DEF Init, IInv, TypeOK, OnlyFaultsLeak, NotBefore, Truthful, Counting, Ended, Statuses

\* A step for one request leaves every other request as it is.
Local(r) ==
    /\ \A q \in Request \ {r} :
          /\ pc'[q] = pc[q] /\ retries'[q] = retries[q] /\ verdict'[q] = verdict[q]
          /\ status'[q] = status[q] /\ agent'[q] = agent[q]
          /\ q \in hub' <=> q \in hub
          /\ q \in effect' <=> q \in effect
    /\ faulty \subseteq faulty'

Step(r) == Fire(r) \/ Call(r) \/ Agent(r) \/ Collect(r)

LEMMA NextIsStep == Next <=> \E r \in Request : Step(r)
BY DEF Next, Step

\* What a step for r does to r.
Kept(r) == NotBefore(r) /\ Truthful(r) /\ Counting(r) /\ (r \in hub /\ pc[r] \in Ended => r \in faulty)

LEMMA CallerStep ==
    ASSUME IInv, NEW r \in Request, Fire(r) \/ Call(r)
    PROVE  TypeOK' /\ Local(r) /\ Kept(r)'
<1> USE DEF IInv, TypeOK, OnlyFaultsLeak, Ended, Statuses, Local, Kept, NotBefore, Truthful,
            Counting, Goto, Fault, NoFault, client, cluster
<1>1. CASE Fire(r)
  BY <1>1 DEF Fire
<1>2. CASE Create(r)
  BY <1>2 DEF Create
<1>3. CASE Poll(r)
  BY <1>3 DEF Poll, Answered, Decide, Judged, Patient, TryAgain
<1>4. CASE Delete(r)
  BY <1>4 DEF Delete
<1> QED BY <1>1, <1>2, <1>3, <1>4 DEF Call

LEMMA AgentStep ==
    ASSUME IInv, NEW r \in Request, Agent(r) \/ Collect(r)
    PROVE  TypeOK' /\ Local(r) /\ Kept(r)'
<1> USE DEF IInv, TypeOK, OnlyFaultsLeak, Ended, Statuses, Local, Kept, NotBefore, Truthful,
            Counting, Fault, NoFault, client, cluster
<1>1. CASE TakeUp(r)
  BY <1>1 DEF TakeUp
<1>2. CASE Act(r)
  BY <1>2 DEF Act
<1>3. ASSUME NEW s \in Statuses \ {"none"}, Report(r, s) PROVE TypeOK' /\ Local(r) /\ Kept(r)'
  BY <1>3 DEF Report
<1>4. CASE Collect(r)
  BY <1>4 DEF Collect
<1> QED BY <1>1, <1>2, <1>3, <1>4 DEF Agent

LEMMA StepIInv ==
    ASSUME IInv, [Next]_vars PROVE IInv'
<1>1. CASE UNCHANGED vars
  BY <1>1 DEF IInv, TypeOK, OnlyFaultsLeak, NotBefore, Truthful, Counting, vars, client, cluster
<1>2. ASSUME NEW r \in Request, Step(r) PROVE IInv'
  <2>1. TypeOK' /\ Local(r) /\ Kept(r)'
    BY <1>2, CallerStep, AgentStep DEF Step
  <2>2. ASSUME NEW q \in Request \ {r} PROVE Kept(q)'
    <3>1. Kept(q) BY <2>2 DEF IInv, Kept, OnlyFaultsLeak
    <3>2. \/ q \notin faulty
          \/ q \in faulty'
      BY <2>1 DEF Local
    <3> QED BY <2>1, <2>2, <3>1, <3>2 DEF Local, Kept, NotBefore, Truthful, Counting
  <2>3. \A q \in Request : Kept(q)'
    BY <2>1, <2>2
  <2>4. hub' \subseteq Request
    BY <2>1 DEF TypeOK
  <2> QED BY <2>1, <2>3, <2>4 DEF IInv, Kept, OnlyFaultsLeak
<1> QED BY <1>1, <1>2, NextIsStep

LEMMA Inductive == Spec => []IInv
BY InitIInv, StepIInv, PTL DEF Spec

\* Types, with the bound MAX_RETRIES on the polls of a request.
THEOREM TypeCorrect == Spec => []TypeOK
<1>1. IInv => TypeOK BY DEF IInv
<1> QED BY Inductive, <1>1, PTL

\* A request whose promise has settled is on the hub only when a call for it
\* was rejected or lost: the poll cleans up on every path of its own.
THEOREM NothingLeaks == Spec => []OnlyFaultsLeak
<1>1. IInv => OnlyFaultsLeak BY DEF IInv
<1> QED BY Inductive, <1>1, PTL

-----------------------------------------------------------------------------
(* The refinement.                                                         *)

\* What a step for r does to what callers know.
LEMMA ToldStep ==
    ASSUME TypeOK, TypeOK', NEW r \in Request, Local(r)
    PROVE  Told' = [Told EXCEPT ![r] = Told[r]']
BY DEF Told, Local, Ended, TypeOK

LEMMA CallerRefines ==
    ASSUME IInv, IInv', NEW r \in Request, Fire(r) \/ Call(r), Local(r)
    PROVE  R!Fire(r) \/ R!Resolve(r) \/ R!Reject(r) \/ UNCHANGED <<effect, Told>>
<1>1. Told' = [Told EXCEPT ![r] = Told[r]'] /\ effect' = effect
  BY ToldStep DEF IInv, Fire, Call, Create, Poll, Delete, cluster
<1>2. CASE Fire(r)
  BY <1>1, <1>2 DEF Fire, Goto, IInv, TypeOK, Told, R!Fire, R!Answer, Ended
<1>3. CASE Call(r)
  <2>1. Told[r] = "called"
    BY <1>3 DEF Call, Create, Poll, Delete, Told, Ended
  <2>2. CASE pc'[r] \notin Ended
    <3>1. Told[r]' = "called"
      BY <1>3, <2>2 DEF Call, Create, Poll, Delete, Told, Goto, Decide, IInv, TypeOK, Ended
    <3>2. Told' = Told
      BY <1>1, <2>1, <3>1 DEF Told
    <3> QED BY <1>1, <3>2
  <2>3. CASE pc'[r] = "rejected"
    BY <1>1, <2>1, <2>3 DEF Told, Ended, R!Reject, R!Answer
  <2>4. CASE pc'[r] = "resolved"
    <3>1. pc[r] = "delete" /\ verdict[r] = "success"
      BY <1>3, <2>4 DEF Call, Create, Poll, Delete, Goto, Decide, IInv, TypeOK
    <3>2. r \in effect
      BY <3>1 DEF IInv, Truthful
    <3> QED BY <1>1, <2>1, <2>4, <3>2 DEF Told, Ended, R!Resolve, R!Answer
  <2> QED BY <2>2, <2>3, <2>4 DEF Ended
<1> QED BY <1>2, <1>3

LEMMA AgentRefines ==
    ASSUME IInv, NEW r \in Request, Agent(r) \/ Collect(r)
    PROVE  R!CarryOut(r) \/ UNCHANGED <<effect, Told>>
<1>1. Told' = Told
  BY DEF Agent, TakeUp, Act, Report, Collect, client, Told
<1>2. CASE UNCHANGED effect
  BY <1>1, <1>2
<1>3. CASE effect' # effect
  <2>1. agent[r] = "taken" /\ effect' = effect \cup {r} /\ r \notin effect
    BY <1>3 DEF Agent, TakeUp, Act, Report, Collect, cluster
  <2>2. Told[r] # "idle"
    BY <2>1 DEF IInv, NotBefore, Told, Ended
  <2> QED BY <1>1, <2>1, <2>2 DEF R!CarryOut
<1> QED BY <1>2, <1>3

LEMMA NextRefines == IInv /\ IInv' /\ [Next]_vars => [R!Next]_(R!rvars)
<1> SUFFICES ASSUME IInv, IInv', [Next]_vars PROVE R!Next \/ UNCHANGED <<effect, Told>>
  BY DEF R!rvars
<1>1. CASE UNCHANGED vars
  BY <1>1 DEF vars, client, cluster, Told
<1>2. ASSUME NEW r \in Request, Step(r) PROVE R!Next \/ UNCHANGED <<effect, Told>>
  <2>1. Local(r)
    BY <1>2, CallerStep, AgentStep DEF Step
  <2> QED BY <1>2, <2>1, CallerRefines, AgentRefines DEF Step, R!Next
<1> QED BY <1>1, <1>2, NextIsStep

LEMMA InitRefines == Init => R!Init
BY DEF Init, R!Init, Told, Ended

\* A promise of fireManagedClusterView or fireManagedClusterAction resolves
\* only after the managed cluster has done what was asked, and the cluster
\* does nothing that was not asked.
THEOREM Refinement == Spec => RefinesRemoteCall
BY Inductive, InitRefines, NextRefines, PTL DEF Spec, RefinesRemoteCall, R!Spec
=============================================================================

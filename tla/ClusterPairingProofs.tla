------------------------- MODULE ClusterPairingProofs -------------------------
(***************************************************************************)
(* Proofs about ClusterPairing, for any number of submits, faults, foreign *)
(* writes, remounts and retries: the type invariant, that the wizard only  *)
(* deletes the MirrorPeer its run has made, that Cancel never takes it     *)
(* from under the DRPolicy the run has written, and what a completed       *)
(* Cancel and a failed run leave behind.                                   *)
(***************************************************************************)
EXTENDS ClusterPairing, TLAPS

\* The MirrorPeer a run may delete is the one it makes: it has the run's own
\* number, which no MirrorPeer had when Create was clicked.
Ownership ==
    /\ \A p \in Peer : p > submits => peers[p] = "none" /\ seen[p] = "none"
    /\ newPeer \/ pc = "peer" => peer = submits /\ submits \notin was.peers
    /\ pc = "undoPeer" => newPeer
    /\ \A m \in Mount : "mirrorPeer" \in pending[m] => newPeer

Writing == {"peer", "get", "update", "create"}

\* Who may have written the policy, and the copy of its spec a run took.
Authors ==
    /\ policy \in 0..submits \/ policy \in {Old, Other}
    /\ prev \in 0..submits \/ prev \in {Old, Other}
    /\ pc \in Writing => policy # submits
    /\ pc # "idle" \/ page \in {"pairing", "success"} => submits > 0
    /\ \A m \in Mount : cancel[m] # "idle" => submits > 0
    /\ prev # Absent => prev # submits
    /\ pc = "update" => prev # Absent

\* The pairing page is shown, or was until it was Ready.
Paired == page = "pairing" \/ (page = "success" /\ ~skip)
\* Mount m of the page is shown, or its Cancel is at work.
Live(m) == (m = mount /\ page = "pairing") \/ cancel[m] # "idle"

\* A run and a Cancel are never at work together, and no mount is ahead of its
\* time.
Stages ==
    /\ pc # "idle" => page = "busy"
    /\ page \in {"busy", "failed"} => \A m \in Mount : cancel[m] = "idle"
    /\ \A m \in Mount : cancel[m] # "idle" => m <= mount
    /\ Paired => prev # Absent \/ isNew

\* What mount m has left to clean up covers the policy as long as it is the run's.
CoveredBy(m) ==
    /\ ~("restorePolicy" \in pending[m] /\ "drPolicy" \in pending[m])
    /\ "restorePolicy" \in pending[m] => prev # Absent
    /\ cancel[m] \in {"restoreGet", "restorePut"} => "restorePolicy" \in pending[m]
    /\ cancel[m] = "deletePolicy" => "drPolicy" \in pending[m]
    /\ cancel[m] = "deletePeer" =>
           "restorePolicy" \notin pending[m] /\ "drPolicy" \notin pending[m]
    /\ Live(m) => \/ "restorePolicy" \in pending[m] \/ "drPolicy" \in pending[m]
                  \/ policy # submits
Covered == \A m \in Mount : CoveredBy(m)

IInv == TypeOK /\ Ownership /\ Authors /\ Stages /\ Covered

\* The type invariant in parts, one for each kind of reasoning.
Flags ==
    /\ newPeer \in BOOLEAN /\ skip \in BOOLEAN
    /\ isNew \in BOOLEAN /\ insist \in BOOLEAN
    /\ lost \in BOOLEAN /\ meddled \in BOOLEAN
Ranges ==
    /\ policy \in PolicyState /\ prev \in PolicyState /\ replaced \in PolicyState
    /\ peers \in Phases /\ seen \in Phases /\ peer \in Peer
    /\ page \in {"form", "failed", "busy", "pairing", "success"}
    /\ pc \in {"idle"} \cup RunSteps
    /\ attempt \in Nat
    /\ was \in [policy : PolicyState, peers : SUBSET Peer]
    /\ outcome \in {"none", "written", "failed", "undoFailed", "cancelled"}
    /\ submits \in 0..MaxSubmits /\ remounts \in 0..MaxRemounts
    /\ faults \in Nat /\ others \in Nat
Tables ==
    /\ stale \in SUBSET Mount
    /\ cancel \in [Mount -> {"idle"} \cup CancelSteps]
    /\ pending \in [Mount -> SUBSET Task]

LEMMA TypeParts == Flags /\ Ranges /\ Tables => TypeOK
BY ZenonT(60) DEF TypeOK, Flags, Ranges, Tables

USE BoundAssumption
USE DEF run, history, bounds, hub, vars, Peer, Phase, Phases, Writer, Absent, Old, Other,
        PolicyState, RunSteps, CancelSteps, IInv

LEMMA InitIInv == Init => IInv
<1> SUFFICES ASSUME Init PROVE IInv
  OBVIOUS
<1>1. Flags
  BY Zenon DEF Init, Flags
<1>2. Ranges
  BY DEF Init, Ranges, Kept
<1>3. Tables
  BY DEF Init, Tables
<1>4. Ownership
  BY <1>2 DEF Init, Ownership, Ranges
<1>5. Authors
  BY <1>2 DEF Init, Authors, Ranges, Writing
<1>6. Stages
  BY DEF Init, Stages, Paired
<1>7. Covered
  BY DEF Init, Covered, CoveredBy, Live
<1> QED BY <1>1, <1>2, <1>3, <1>4, <1>5, <1>6, <1>7, TypeParts, Zenon

\* An onCancel takes one of its steps, or is over.
LEMMA GoesType ==
    ASSUME TypeOK, NEW m \in Mount, NEW step \in {"idle"} \cup CancelSteps, Goes(m, step)
    PROVE  cancel' \in [Mount -> {"idle"} \cup CancelSteps]
BY DEF TypeOK, Goes

LEMMA DoneType ==
    ASSUME TypeOK, NEW m \in Mount, NEW task, Done(m, task)
    PROVE  pending' \in [Mount -> SUBSET Task]
BY DEF TypeOK, Done

LEMMA CleanupType ==
    ASSUME NEW spec, NEW new, NEW made PROVE Cleanup(spec, new, made) \in SUBSET Task
BY DEF Cleanup

-----------------------------------------------------------------------------
(* Each part of the invariant is preserved by each action.                 *)

\* Every action keeps every variable in its set.
LEMMA TypeStep ==
    ASSUME IInv, Next PROVE TypeOK'
<1>1. CASE Submit
  <2>1. Flags'
    BY <1>1, Zenon DEF Flags, TypeOK, Submit, Exists, Kept, mount
  <2>2. Ranges'
    BY <1>1, SMTT(40) DEF Ranges, TypeOK, Ownership, Submit, Exists, Kept, mount
  <2>3. Tables'
    <3>1. stale' \in SUBSET Mount
      BY <1>1 DEF Submit, TypeOK
    <3>2. cancel' \in [Mount -> {"idle"} \cup CancelSteps]
      BY <1>1 DEF Submit, TypeOK
    <3>3. pending' \in [Mount -> SUBSET Task]
      BY <1>1 DEF Submit, TypeOK
    <3> QED BY <3>1, <3>2, <3>3 DEF Tables
  <2> QED BY <2>1, <2>2, <2>3, TypeParts DEF TypeOK, Flags, Ranges, Tables
<1>2. CASE CreateMirrorPeer
  <2>1. Flags'
    BY <1>2, Zenon DEF Flags, TypeOK, CreateMirrorPeer, NoFault, Fault, PeerFault,
       Throw, mount
  <2>2. Ranges'
    BY <1>2, SMTT(40) DEF Ranges, TypeOK, Ownership, CreateMirrorPeer, NoFault, Fault,
       PeerFault, Throw, mount
  <2>3. Tables'
    <3>1. stale' \in SUBSET Mount
      BY <1>2 DEF CreateMirrorPeer, PeerFault, TypeOK
    <3>2. cancel' \in [Mount -> {"idle"} \cup CancelSteps]
      BY <1>2 DEF CreateMirrorPeer, TypeOK
    <3>3. pending' \in [Mount -> SUBSET Task]
      BY <1>2 DEF CreateMirrorPeer, TypeOK
    <3> QED BY <3>1, <3>2, <3>3 DEF Tables
  <2> QED BY <2>1, <2>2, <2>3, TypeParts DEF TypeOK, Flags, Ranges, Tables
<1>3. CASE GetPolicy
  <2>1. Flags'
    BY <1>3, Zenon DEF Flags, TypeOK, GetPolicy, NoFault, Fault, Retry, Throw, mount
  <2>2. Ranges'
    BY <1>3, SMTT(40) DEF Ranges, TypeOK, Ownership, GetPolicy, NoFault, Fault, Retry,
       Throw, mount
  <2>3. Tables'
    <3>1. stale' \in SUBSET Mount
      BY <1>3 DEF GetPolicy, TypeOK
    <3>2. cancel' \in [Mount -> {"idle"} \cup CancelSteps]
      BY <1>3 DEF GetPolicy, TypeOK
    <3>3. pending' \in [Mount -> SUBSET Task]
      BY <1>3 DEF GetPolicy, TypeOK
    <3> QED BY <3>1, <3>2, <3>3 DEF Tables
  <2> QED BY <2>1, <2>2, <2>3, TypeParts DEF TypeOK, Flags, Ranges, Tables
<1>4. CASE UpdatePolicy
  <2>1. Flags'
    BY <1>4, Zenon DEF Flags, TypeOK, UpdatePolicy, NoFault, Fault, PolicyFault, Write,
       Retry, Throw, Written, Cleanup, mount
  <2>2. Ranges'
    BY <1>4, SMTT(40) DEF Ranges, TypeOK, Ownership, UpdatePolicy, NoFault, Fault,
       PolicyFault, Write, Retry, Throw, Written, Cleanup, mount
  <2>3. Tables'
    <3>1. stale' \in SUBSET Mount
      BY <1>4 DEF UpdatePolicy, Write, PolicyFault, TypeOK
    <3>2. cancel' \in [Mount -> {"idle"} \cup CancelSteps]
      BY <1>4 DEF UpdatePolicy, TypeOK
    <3>3. pending' \in [Mount -> SUBSET Task]
      <4>1. \/ pending' = pending
            \/ pending' = [pending EXCEPT ![mount] = Cleanup(prev, FALSE, newPeer)]
        BY <1>4 DEF UpdatePolicy, Written
      <4>2. Cleanup(prev, FALSE, newPeer) \in SUBSET Task
        BY DEF Cleanup
      <4> QED BY <4>1, <4>2 DEF TypeOK
    <3> QED BY <3>1, <3>2, <3>3 DEF Tables
  <2> QED BY <2>1, <2>2, <2>3, TypeParts DEF TypeOK, Flags, Ranges, Tables
<1>5. CASE CreatePolicy
  <2>1. Flags'
    BY <1>5, Zenon DEF Flags, TypeOK, CreatePolicy, NoFault, Fault, PolicyFault, Write,
       Retry, Throw, Written, Cleanup, mount
  <2>2. Ranges'
    BY <1>5, SMTT(40) DEF Ranges, TypeOK, Ownership, CreatePolicy, NoFault, Fault,
       PolicyFault, Write, Retry, Throw, Written, Cleanup, mount
  <2>3. Tables'
    <3>1. stale' \in SUBSET Mount
      BY <1>5 DEF CreatePolicy, Write, PolicyFault, TypeOK
    <3>2. cancel' \in [Mount -> {"idle"} \cup CancelSteps]
      BY <1>5 DEF CreatePolicy, TypeOK
    <3>3. pending' \in [Mount -> SUBSET Task]
      <4>1. \/ pending' = pending
            \/ pending' = [pending EXCEPT ![mount] = Cleanup(prev, TRUE, newPeer)]
        BY <1>5 DEF CreatePolicy, Written
      <4>2. Cleanup(prev, TRUE, newPeer) \in SUBSET Task
        BY DEF Cleanup
      <4> QED BY <4>1, <4>2 DEF TypeOK
    <3> QED BY <3>1, <3>2, <3>3 DEF Tables
  <2> QED BY <2>1, <2>2, <2>3, TypeParts DEF TypeOK, Flags, Ranges, Tables
<1>6. CASE UndoMirrorPeer
  <2>1. Flags'
    BY <1>6, Zenon DEF Flags, TypeOK, UndoMirrorPeer, NoFault, Fault, PeerFault, mount
  <2>2. Ranges'
    BY <1>6, SMTT(40) DEF Ranges, TypeOK, Ownership, UndoMirrorPeer, NoFault, Fault,
       PeerFault, mount
  <2>3. Tables'
    <3>1. stale' \in SUBSET Mount
      BY <1>6 DEF UndoMirrorPeer, PeerFault, TypeOK
    <3>2. cancel' \in [Mount -> {"idle"} \cup CancelSteps]
      BY <1>6 DEF UndoMirrorPeer, TypeOK
    <3>3. pending' \in [Mount -> SUBSET Task]
      BY <1>6 DEF UndoMirrorPeer, TypeOK
    <3> QED BY <3>1, <3>2, <3>3 DEF Tables
  <2> QED BY <2>1, <2>2, <2>3, TypeParts DEF TypeOK, Flags, Ranges, Tables
<1>7. CASE ClickCancel
  <2>1. Flags'
    BY <1>7, Zenon DEF Flags, TypeOK, ClickCancel, Goes, mount
  <2>2. Ranges'
    BY <1>7, SMTT(40) DEF Ranges, TypeOK, Ownership, ClickCancel, Goes, mount
  <2>3. Tables'
    <3>1. stale' \in SUBSET Mount
      BY <1>7 DEF ClickCancel, TypeOK
    <3>2. cancel' \in [Mount -> {"idle"} \cup CancelSteps]
      BY <1>7 DEF ClickCancel, Goes, TypeOK
    <3>3. pending' \in [Mount -> SUBSET Task]
      BY <1>7 DEF ClickCancel, TypeOK
    <3> QED BY <3>1, <3>2, <3>3 DEF Tables
  <2> QED BY <2>1, <2>2, <2>3, TypeParts DEF TypeOK, Flags, Ranges, Tables
<1>8. ASSUME NEW m \in Mount, RestoreGet(m) PROVE TypeOK'
  <2>1. Flags'
    BY <1>8, Zenon DEF Flags, TypeOK, RestoreGet, NoFault, Fault, Goes, Done,
       PolicyCleanupFailed, StayOnPage, PolicyClean, Cancelled, mount
  <2>2. Ranges'
    BY <1>8, SMTT(40) DEF Ranges, TypeOK, Ownership, RestoreGet, NoFault, Fault, Goes,
       Done, PolicyCleanupFailed, StayOnPage, PolicyClean, Cancelled, mount
  <2>3. Tables'
    <3>1. stale' \in SUBSET Mount
      BY <1>8 DEF RestoreGet, TypeOK
    <3>2. cancel' \in [Mount -> {"idle"} \cup CancelSteps]
      <4>1. \E step \in {"idle"} \cup CancelSteps : Goes(m, step)
        BY <1>8 DEF RestoreGet, PolicyClean, PolicyCleanupFailed, StayOnPage, Cancelled
      <4> QED BY <4>1, GoesType
    <3>3. pending' \in [Mount -> SUBSET Task]
      BY <1>8 DEF RestoreGet, TypeOK
    <3> QED BY <3>1, <3>2, <3>3 DEF Tables
  <2> QED BY <2>1, <2>2, <2>3, TypeParts DEF TypeOK, Flags, Ranges, Tables
<1>9. ASSUME NEW m \in Mount, RestorePut(m) PROVE TypeOK'
  <2>1. Flags'
    BY <1>9, Zenon DEF Flags, TypeOK, RestorePut, NoFault, Fault, Goes, Done,
       PolicyCleanupFailed, StayOnPage, PolicyClean, Cancelled, PolicyFault, Write,
       Restored, mount
  <2>2. Ranges'
    BY <1>9, SMTT(40) DEF Ranges, TypeOK, Ownership, RestorePut, NoFault, Fault, Goes,
       Done, PolicyCleanupFailed, StayOnPage, PolicyClean, Cancelled, PolicyFault,
       Write, Restored, mount
  <2>3. Tables'
    <3>1. stale' \in SUBSET Mount
      BY <1>9 DEF RestorePut, Write, PolicyFault, TypeOK
    <3>2. cancel' \in [Mount -> {"idle"} \cup CancelSteps]
      <4>1. \E step \in {"idle"} \cup CancelSteps : Goes(m, step)
        BY <1>9 DEF RestorePut, PolicyClean, PolicyCleanupFailed, StayOnPage, Cancelled
      <4> QED BY <4>1, GoesType
    <3>3. pending' \in [Mount -> SUBSET Task]
      <4>1. pending' = pending \/ Done(m, "restorePolicy")
        BY <1>9 DEF RestorePut
      <4> QED BY <4>1, DoneType DEF TypeOK
    <3> QED BY <3>1, <3>2, <3>3 DEF Tables
  <2> QED BY <2>1, <2>2, <2>3, TypeParts DEF TypeOK, Flags, Ranges, Tables
<1>10. ASSUME NEW m \in Mount, DeletePolicy(m) PROVE TypeOK'
  <2>1. Flags'
    BY <1>10, Zenon DEF Flags, TypeOK, DeletePolicy, NoFault, Fault, Goes, Done,
       PolicyCleanupFailed, StayOnPage, PolicyClean, Cancelled, PolicyFault, Write,
       mount
  <2>2. Ranges'
    BY <1>10, SMTT(40) DEF Ranges, TypeOK, Ownership, DeletePolicy, NoFault, Fault,
       Goes, Done, PolicyCleanupFailed, StayOnPage, PolicyClean, Cancelled, PolicyFault,
       Write, mount
  <2>3. Tables'
    <3>1. stale' \in SUBSET Mount
      BY <1>10 DEF DeletePolicy, Write, PolicyFault, TypeOK
    <3>2. cancel' \in [Mount -> {"idle"} \cup CancelSteps]
      <4>1. \E step \in {"idle"} \cup CancelSteps : Goes(m, step)
        BY <1>10 DEF DeletePolicy, PolicyClean, PolicyCleanupFailed, StayOnPage,
           Cancelled
      <4> QED BY <4>1, GoesType
    <3>3. pending' \in [Mount -> SUBSET Task]
      <4>1. pending' = pending \/ Done(m, "drPolicy")
        BY <1>10 DEF DeletePolicy
      <4> QED BY <4>1, DoneType DEF TypeOK
    <3> QED BY <3>1, <3>2, <3>3 DEF Tables
  <2> QED BY <2>1, <2>2, <2>3, TypeParts DEF TypeOK, Flags, Ranges, Tables
<1>11. ASSUME NEW m \in Mount, DeleteMirrorPeer(m) PROVE TypeOK'
  <2>1. Flags'
    BY <1>11, Zenon DEF Flags, TypeOK, DeleteMirrorPeer, NoFault, Fault, Goes, Done,
       PolicyCleanupFailed, StayOnPage, PolicyClean, Cancelled, PeerFault, mount
  <2>2. Ranges'
    BY <1>11, SMTT(40) DEF Ranges, TypeOK, Ownership, DeleteMirrorPeer, NoFault, Fault,
       Goes, Done, PolicyCleanupFailed, StayOnPage, PolicyClean, Cancelled, PeerFault,
       mount
  <2>3. Tables'
    <3>1. stale' \in SUBSET Mount
      BY <1>11 DEF DeleteMirrorPeer, PeerFault, TypeOK
    <3>2. cancel' \in [Mount -> {"idle"} \cup CancelSteps]
      <4>1. \E step \in {"idle"} \cup CancelSteps : Goes(m, step)
        BY <1>11 DEF DeleteMirrorPeer, PolicyClean, PolicyCleanupFailed, StayOnPage,
           Cancelled
      <4> QED BY <4>1, GoesType
    <3>3. pending' \in [Mount -> SUBSET Task]
      <4>1. pending' = pending \/ Done(m, "mirrorPeer")
        BY <1>11 DEF DeleteMirrorPeer
      <4> QED BY <4>1, DoneType DEF TypeOK
    <3> QED BY <3>1, <3>2, <3>3 DEF Tables
  <2> QED BY <2>1, <2>2, <2>3, TypeParts DEF TypeOK, Flags, Ranges, Tables
<1>12. CASE ShowSuccess
  <2>1. Flags'
    BY <1>12, Zenon DEF Flags, TypeOK, ShowSuccess, mount
  <2>2. Ranges'
    BY <1>12, SMTT(40) DEF Ranges, TypeOK, Ownership, ShowSuccess, mount
  <2>3. Tables'
    <3>1. stale' \in SUBSET Mount
      BY <1>12 DEF ShowSuccess, TypeOK
    <3>2. cancel' \in [Mount -> {"idle"} \cup CancelSteps]
      BY <1>12 DEF ShowSuccess, TypeOK
    <3>3. pending' \in [Mount -> SUBSET Task]
      BY <1>12 DEF ShowSuccess, TypeOK
    <3> QED BY <3>1, <3>2, <3>3 DEF Tables
  <2> QED BY <2>1, <2>2, <2>3, TypeParts DEF TypeOK, Flags, Ranges, Tables
<1>13. CASE Remount
  <2>1. Flags'
    BY <1>13, Zenon DEF Flags, TypeOK, Remount, Cleanup, mount
  <2>2. Ranges'
    BY <1>13, SMTT(40) DEF Ranges, TypeOK, Ownership, Remount, Cleanup, mount
  <2>3. Tables'
    <3>1. stale' \in SUBSET Mount
      BY <1>13 DEF Remount, TypeOK
    <3>2. cancel' \in [Mount -> {"idle"} \cup CancelSteps]
      BY <1>13 DEF Remount, TypeOK
    <3>3. pending' \in [Mount -> SUBSET Task]
      <4>1. \/ pending' = pending
            \/ pending' = [pending EXCEPT ![mount + 1] = Cleanup(prev, isNew, newPeer)]
        BY <1>13 DEF Remount
      <4>2. Cleanup(prev, isNew, newPeer) \in SUBSET Task
        BY DEF Cleanup
      <4> QED BY <4>1, <4>2 DEF TypeOK
    <3> QED BY <3>1, <3>2, <3>3 DEF Tables
  <2> QED BY <2>1, <2>2, <2>3, TypeParts DEF TypeOK, Flags, Ranges, Tables
<1>14. CASE WatchDelivers
  <2>1. Flags'
    BY <1>14, Zenon DEF Flags, TypeOK, WatchDelivers, mount
  <2>2. Ranges'
    BY <1>14, SMTT(40) DEF Ranges, TypeOK, Ownership, WatchDelivers, mount
  <2>3. Tables'
    <3>1. stale' \in SUBSET Mount
      BY <1>14 DEF WatchDelivers, TypeOK
    <3>2. cancel' \in [Mount -> {"idle"} \cup CancelSteps]
      BY <1>14 DEF WatchDelivers, TypeOK
    <3>3. pending' \in [Mount -> SUBSET Task]
      BY <1>14 DEF WatchDelivers, TypeOK
    <3> QED BY <3>1, <3>2, <3>3 DEF Tables
  <2> QED BY <2>1, <2>2, <2>3, TypeParts DEF TypeOK, Flags, Ranges, Tables
<1>15. CASE PeerProgresses
  <2>1. Flags'
    BY <1>15, Zenon DEF Flags, TypeOK, PeerProgresses, mount
  <2>2. Ranges'
    BY <1>15, SMTT(40) DEF Ranges, TypeOK, Ownership, PeerProgresses, mount
  <2>3. Tables'
    <3>1. stale' \in SUBSET Mount
      BY <1>15 DEF PeerProgresses, TypeOK
    <3>2. cancel' \in [Mount -> {"idle"} \cup CancelSteps]
      BY <1>15 DEF PeerProgresses, TypeOK
    <3>3. pending' \in [Mount -> SUBSET Task]
      BY <1>15 DEF PeerProgresses, TypeOK
    <3> QED BY <3>1, <3>2, <3>3 DEF Tables
  <2> QED BY <2>1, <2>2, <2>3, TypeParts DEF TypeOK, Flags, Ranges, Tables
<1>16. CASE OtherClient
  <2>1. Flags'
    BY <1>16, Zenon DEF Flags, TypeOK, OtherClient, Write, mount
  <2>2. Ranges'
    BY <1>16, SMTT(40) DEF Ranges, TypeOK, Ownership, OtherClient, Write, mount
  <2>3. Tables'
    <3>1. stale' \in SUBSET Mount
      BY <1>16 DEF OtherClient, Write, TypeOK
    <3>2. cancel' \in [Mount -> {"idle"} \cup CancelSteps]
      BY <1>16 DEF OtherClient, TypeOK
    <3>3. pending' \in [Mount -> SUBSET Task]
      BY <1>16 DEF OtherClient, TypeOK
    <3> QED BY <3>1, <3>2, <3>3 DEF Tables
  <2> QED BY <2>1, <2>2, <2>3, TypeParts DEF TypeOK, Flags, Ranges, Tables
<1> QED
  BY <1>1, <1>2, <1>3, <1>4, <1>5, <1>6, <1>7, <1>8, <1>9, <1>10, <1>11, <1>12, <1>13,
     <1>14, <1>15, <1>16
  DEF Next, Create, Cancel

\* A MirrorPeer appears under the number of the run that makes it.
LEMMA OwnershipStep ==
    ASSUME IInv, Next PROVE Ownership'
<1>1. CASE Submit
  BY <1>1, SMTT(40) DEF Submit, Exists, Kept, mount, TypeOK, Ownership, Authors
<1>2. CASE CreateMirrorPeer
  BY <1>2, SMTT(40) DEF CreateMirrorPeer, NoFault, Fault, PeerFault, Throw, mount,
     TypeOK, Ownership, Authors
<1>3. CASE GetPolicy
  BY <1>3, SMTT(40) DEF GetPolicy, NoFault, Fault, Retry, Throw, mount, TypeOK,
     Ownership, Authors
<1>4. CASE UpdatePolicy
  BY <1>4, SMTT(40) DEF UpdatePolicy, NoFault, Fault, PolicyFault, Write, Retry, Throw,
     Written, Cleanup, mount, TypeOK, Ownership, Authors
<1>5. CASE CreatePolicy
  BY <1>5, SMTT(40) DEF CreatePolicy, NoFault, Fault, PolicyFault, Write, Retry, Throw,
     Written, Cleanup, mount, TypeOK, Ownership, Authors
<1>6. CASE UndoMirrorPeer
  BY <1>6, SMTT(40) DEF UndoMirrorPeer, NoFault, Fault, PeerFault, mount, TypeOK,
     Ownership, Authors
<1>7. CASE ClickCancel
  BY <1>7, SMTT(40) DEF ClickCancel, Goes, mount, TypeOK, Ownership, Authors
<1>8. ASSUME NEW m \in Mount, RestoreGet(m) PROVE Ownership'
  BY <1>8, SMTT(40) DEF RestoreGet, NoFault, Fault, Goes, Done, PolicyCleanupFailed,
     StayOnPage, PolicyClean, Cancelled, mount, TypeOK, Ownership, Authors
<1>9. ASSUME NEW m \in Mount, RestorePut(m) PROVE Ownership'
  BY <1>9, SMTT(40) DEF RestorePut, NoFault, Fault, Goes, Done, PolicyCleanupFailed,
     StayOnPage, PolicyClean, Cancelled, PolicyFault, Write, Restored, mount, TypeOK,
     Ownership, Authors
<1>10. ASSUME NEW m \in Mount, DeletePolicy(m) PROVE Ownership'
  BY <1>10, SMTT(40) DEF DeletePolicy, NoFault, Fault, Goes, Done, PolicyCleanupFailed,
     StayOnPage, PolicyClean, Cancelled, PolicyFault, Write, mount, TypeOK, Ownership,
     Authors
<1>11. ASSUME NEW m \in Mount, DeleteMirrorPeer(m) PROVE Ownership'
  BY <1>11, SMTT(40) DEF DeleteMirrorPeer, NoFault, Fault, Goes, Done,
     PolicyCleanupFailed, StayOnPage, PolicyClean, Cancelled, PeerFault, mount, TypeOK,
     Ownership, Authors
<1>12. CASE ShowSuccess
  BY <1>12, SMTT(40) DEF ShowSuccess, mount, TypeOK, Ownership, Authors
<1>13. CASE Remount
  BY <1>13, SMTT(40) DEF Remount, Cleanup, mount, TypeOK, Ownership, Authors
<1>14. CASE WatchDelivers
  BY <1>14, SMTT(40) DEF WatchDelivers, mount, TypeOK, Ownership, Authors
<1>15. CASE PeerProgresses
  BY <1>15, SMTT(40) DEF PeerProgresses, mount, TypeOK, Ownership, Authors
<1>16. CASE OtherClient
  BY <1>16, SMTT(40) DEF OtherClient, Write, mount, TypeOK, Ownership, Authors
<1> QED
  BY <1>1, <1>2, <1>3, <1>4, <1>5, <1>6, <1>7, <1>8, <1>9, <1>10, <1>11, <1>12, <1>13,
     <1>14, <1>15, <1>16
  DEF Next, Create, Cancel

\* Only a run in its last call, or another client, writes the policy.
LEMMA AuthorsStep ==
    ASSUME IInv, Next PROVE Authors'
<1>1. CASE Submit
  BY <1>1, SMTT(40) DEF Submit, TypeOK, Stages, Authors, Writing
<1>2. CASE CreateMirrorPeer
  BY <1>2, SMTT(40) DEF CreateMirrorPeer, PeerFault, Throw, TypeOK, Stages, Authors,
     Writing
<1>3. CASE GetPolicy
  BY <1>3, SMTT(40) DEF GetPolicy, Retry, Throw, TypeOK, Stages, Authors, Writing
<1>4. CASE UpdatePolicy
  <2>1. UNCHANGED <<prev, cancel, submits>> /\ pc \in Writing
    BY <1>4 DEF UpdatePolicy, Writing
  <2>2. /\ policy' \in {policy, submits} /\ pc' # "update"
        /\ pc' \in Writing => policy' = policy
    BY <1>4 DEF UpdatePolicy, PolicyFault, Write, Retry, Throw, Written, Writing
  <2> QED BY <2>1, <2>2 DEF TypeOK, Authors, Writing
<1>5. CASE CreatePolicy
  <2>1. UNCHANGED <<prev, cancel, submits>> /\ pc \in Writing
    BY <1>5 DEF CreatePolicy, Writing
  <2>2. /\ policy' \in {policy, submits} /\ pc' # "update"
        /\ pc' \in Writing => policy' = policy
    BY <1>5 DEF CreatePolicy, PolicyFault, Write, Retry, Throw, Written, Writing
  <2> QED BY <2>1, <2>2 DEF TypeOK, Authors, Writing
<1>6. CASE UndoMirrorPeer
  BY <1>6 DEF UndoMirrorPeer, PeerFault, TypeOK, Stages, Authors, Writing
<1>7. CASE ClickCancel
  BY <1>7, SMTT(40) DEF ClickCancel, Goes, TypeOK, Stages, Authors, Writing
<1>8. ASSUME NEW m \in Mount, RestoreGet(m) PROVE Authors'
  BY <1>8, SMTT(40) DEF RestoreGet, Goes, PolicyCleanupFailed, StayOnPage, PolicyClean,
     Cancelled, TypeOK, Stages, Authors, Writing
<1>9. ASSUME NEW m \in Mount, RestorePut(m) PROVE Authors'
  BY <1>9, SMTT(40) DEF RestorePut, PolicyFault, Write, Restored, PolicyClean, PolicyCleanupFailed,
     StayOnPage, Cancelled, Goes, TypeOK, Stages, Authors, Covered, CoveredBy, Writing
<1>10. ASSUME NEW m \in Mount, DeletePolicy(m) PROVE Authors'
  BY <1>10, SMTT(40) DEF DeletePolicy, PolicyFault, Write, PolicyClean, PolicyCleanupFailed,
     StayOnPage, Cancelled, Goes, TypeOK, Stages, Authors, Covered, CoveredBy, Writing
<1>11. ASSUME NEW m \in Mount, DeleteMirrorPeer(m) PROVE Authors'
  BY <1>11, SMTT(40) DEF DeleteMirrorPeer, Goes, PolicyCleanupFailed, StayOnPage,
     PolicyClean, Cancelled, PeerFault, TypeOK, Stages, Authors, Writing
<1>12. CASE ShowSuccess
  BY <1>12, SMTT(40) DEF ShowSuccess, TypeOK, Stages, Authors, Writing
<1>13. CASE Remount
  BY <1>13, SMTT(40) DEF Remount, TypeOK, Stages, Authors, Writing
<1>14. CASE WatchDelivers
  BY <1>14, SMTT(40) DEF WatchDelivers, TypeOK, Stages, Authors, Writing
<1>15. CASE PeerProgresses
  BY <1>15, SMTT(40) DEF PeerProgresses, TypeOK, Stages, Authors, Writing
<1>16. CASE OtherClient
  BY <1>16, SMTT(40) DEF OtherClient, Write, TypeOK, Stages, Authors, Writing
<1> QED
  BY <1>1, <1>2, <1>3, <1>4, <1>5, <1>6, <1>7, <1>8, <1>9, <1>10, <1>11, <1>12, <1>13,
     <1>14, <1>15, <1>16
  DEF Next, Create, Cancel

\* A run and a Cancel exclude each other.
LEMMA StagesStep ==
    ASSUME IInv, Next PROVE Stages'
<1>1. CASE Submit
  BY <1>1, SMTT(40) DEF Submit, Exists, Kept, mount, TypeOK, Authors, Stages, Paired,
     Writing
<1>2. CASE CreateMirrorPeer
  BY <1>2, SMTT(40) DEF CreateMirrorPeer, NoFault, Fault, PeerFault, Throw, mount,
     TypeOK, Authors, Stages, Paired, Writing
<1>3. CASE GetPolicy
  BY <1>3, SMTT(40) DEF GetPolicy, NoFault, Fault, Retry, Throw, mount, TypeOK, Authors,
     Stages, Paired, Writing
<1>4. CASE UpdatePolicy
  BY <1>4, SMTT(40) DEF UpdatePolicy, NoFault, Fault, PolicyFault, Write, Retry, Throw,
     Written, Cleanup, mount, TypeOK, Authors, Stages, Paired, Writing
<1>5. CASE CreatePolicy
  BY <1>5, SMTT(40) DEF CreatePolicy, NoFault, Fault, PolicyFault, Write, Retry, Throw,
     Written, Cleanup, mount, TypeOK, Authors, Stages, Paired, Writing
<1>6. CASE UndoMirrorPeer
  BY <1>6, SMTT(40) DEF UndoMirrorPeer, NoFault, Fault, PeerFault, mount, TypeOK,
     Authors, Stages, Paired, Writing
<1>7. CASE ClickCancel
  BY <1>7, SMTT(40) DEF ClickCancel, Goes, mount, TypeOK, Authors, Stages, Paired,
     Writing
<1>8. ASSUME NEW m \in Mount, RestoreGet(m) PROVE Stages'
  BY <1>8, SMTT(40) DEF RestoreGet, NoFault, Fault, Goes, Done, PolicyCleanupFailed,
     StayOnPage, PolicyClean, Cancelled, mount, TypeOK, Authors, Stages, Paired, Writing
<1>9. ASSUME NEW m \in Mount, RestorePut(m) PROVE Stages'
  BY <1>9, SMTT(40) DEF RestorePut, NoFault, Fault, Goes, Done, PolicyCleanupFailed,
     StayOnPage, PolicyClean, Cancelled, PolicyFault, Write, Restored, mount, TypeOK,
     Authors, Stages, Paired, Writing
<1>10. ASSUME NEW m \in Mount, DeletePolicy(m) PROVE Stages'
  BY <1>10, SMTT(40) DEF DeletePolicy, NoFault, Fault, Goes, Done, PolicyCleanupFailed,
     StayOnPage, PolicyClean, Cancelled, PolicyFault, Write, mount, TypeOK, Authors,
     Stages, Paired, Writing
<1>11. ASSUME NEW m \in Mount, DeleteMirrorPeer(m) PROVE Stages'
  BY <1>11, SMTT(40) DEF DeleteMirrorPeer, NoFault, Fault, Goes, Done,
     PolicyCleanupFailed, StayOnPage, PolicyClean, Cancelled, PeerFault, mount, TypeOK,
     Authors, Stages, Paired, Writing
<1>12. CASE ShowSuccess
  BY <1>12, SMTT(40) DEF ShowSuccess, mount, TypeOK, Authors, Stages, Paired, Writing
<1>13. CASE Remount
  <2>1. Paired /\ UNCHANGED <<pc, cancel, prev, isNew>> /\ page' = "pairing"
    BY <1>13, Zenon DEF Remount, Paired
  <2>2. mount' = mount + 1
    BY <1>13 DEF Remount, mount, TypeOK
  <2>3. prev' # Absent \/ isNew'
    BY <2>1, Zenon DEF Stages
  <2>4. pc' = "idle"
    BY <2>1 DEF Stages, Paired
  <2>5. \A m \in Mount : cancel'[m] # "idle" => m <= mount'
    BY <2>1, <2>2 DEF Stages, TypeOK, mount, Mount
  <2> QED BY <2>1, <2>3, <2>4, <2>5 DEF Stages
<1>14. CASE WatchDelivers
  BY <1>14, SMTT(40) DEF WatchDelivers, mount, TypeOK, Authors, Stages, Paired, Writing
<1>15. CASE PeerProgresses
  BY <1>15, SMTT(40) DEF PeerProgresses, mount, TypeOK, Authors, Stages, Paired, Writing
<1>16. CASE OtherClient
  BY <1>16, SMTT(40) DEF OtherClient, Write, mount, TypeOK, Authors, Stages, Paired,
     Writing
<1> QED
  BY <1>1, <1>2, <1>3, <1>4, <1>5, <1>6, <1>7, <1>8, <1>9, <1>10, <1>11, <1>12, <1>13,
     <1>14, <1>15, <1>16
  DEF Next, Create, Cancel

\* A task leaves the list only when the policy is not the run's any more.
LEMMA CoveredStep ==
    ASSUME IInv, Next PROVE Covered'
<1>1. CASE Submit
  BY <1>1, SMTT(40) DEF Submit, Exists, Kept, mount, TypeOK, Authors, Stages, Paired,
     Covered, CoveredBy, Live, Writing, Task, Mount
<1>2. CASE CreateMirrorPeer
  BY <1>2, SMTT(40) DEF CreateMirrorPeer, NoFault, Fault, PeerFault, Throw, mount,
     TypeOK, Authors, Stages, Paired, Covered, CoveredBy, Live, Writing, Task, Mount
<1>3. CASE GetPolicy
  BY <1>3, SMTT(40) DEF GetPolicy, NoFault, Fault, Retry, Throw, mount, TypeOK, Authors,
     Stages, Paired, Covered, CoveredBy, Live, Writing, Task, Mount
<1>4. CASE UpdatePolicy
  <2> SUFFICES ASSUME NEW m \in Mount PROVE CoveredBy(m)'
    BY DEF Covered
  <2>1. /\ page = "busy" /\ cancel[m] = "idle" /\ mount \in Mount
        /\ UNCHANGED <<cancel, prev, submits, remounts>>
    BY <1>4 DEF UpdatePolicy, Stages, Authors, TypeOK, mount, Mount
  <2>2. CASE page' # "pairing"
    <3>1. pending'[m] = pending[m] \/ pending'[m] = Cleanup(prev, FALSE, newPeer)
      BY <1>4, <2>1 DEF UpdatePolicy, Written, TypeOK
    <3> QED BY <2>1, <2>2, <3>1 DEF Covered, CoveredBy, Live, Cleanup
  <2>3. CASE page' = "pairing"
    <3>1. pending'[m] = IF m = mount THEN Cleanup(prev, FALSE, newPeer) ELSE pending[m]
      BY <1>4, <2>1, <2>3 DEF UpdatePolicy, Written, Retry, Throw, TypeOK
    <3>2. mount' = mount /\ (prev # Absent \/ FALSE)
      BY <1>4, <2>1 DEF UpdatePolicy, Authors, mount
    <3> QED BY <2>1, <3>1, <3>2 DEF Covered, CoveredBy, Live, Cleanup, Task
  <2> QED BY <2>2, <2>3
<1>5. CASE CreatePolicy
  <2> SUFFICES ASSUME NEW m \in Mount PROVE CoveredBy(m)'
    BY DEF Covered
  <2>1. /\ page = "busy" /\ cancel[m] = "idle" /\ mount \in Mount
        /\ UNCHANGED <<cancel, prev, submits, remounts>>
    BY <1>5 DEF CreatePolicy, Stages, Authors, TypeOK, mount, Mount
  <2>2. CASE page' # "pairing"
    <3>1. pending'[m] = pending[m] \/ pending'[m] = Cleanup(prev, TRUE, newPeer)
      BY <1>5, <2>1 DEF CreatePolicy, Written, TypeOK
    <3> QED BY <2>1, <2>2, <3>1 DEF Covered, CoveredBy, Live, Cleanup
  <2>3. CASE page' = "pairing"
    <3>1. pending'[m] = IF m = mount THEN Cleanup(prev, TRUE, newPeer) ELSE pending[m]
      BY <1>5, <2>1, <2>3 DEF CreatePolicy, Written, Retry, Throw, TypeOK
    <3>2. mount' = mount /\ (prev # Absent \/ TRUE)
      BY <1>5, <2>1 DEF CreatePolicy, Authors, mount
    <3> QED BY <2>1, <3>1, <3>2 DEF Covered, CoveredBy, Live, Cleanup, Task
  <2> QED BY <2>2, <2>3
<1>6. CASE UndoMirrorPeer
  BY <1>6, SMTT(40) DEF UndoMirrorPeer, NoFault, Fault, PeerFault, mount, TypeOK,
     Authors, Stages, Paired, Covered, CoveredBy, Live, Writing, Task, Mount
<1>7. CASE ClickCancel
  <2> SUFFICES ASSUME NEW m \in Mount PROVE CoveredBy(m)'
    BY DEF Covered
  <2>1. UNCHANGED <<page, pending, prev, policy, submits, mount>> /\ page = "pairing"
    BY <1>7 DEF ClickCancel, mount
  <2>2. CASE m # mount
    <3>1. cancel'[m] = cancel[m]
      BY <1>7, <2>2 DEF ClickCancel, Goes, TypeOK
    <3> QED BY <2>1, <2>2, <3>1 DEF Covered, CoveredBy, Live
  <2>3. CASE m = mount
    <3>1. cancel'[m] = IF "restorePolicy" \in pending[m] THEN "restoreGet"
                       ELSE IF "drPolicy" \in pending[m] THEN "deletePolicy"
                       ELSE "deletePeer"
      BY <1>7, <2>3 DEF ClickCancel, Goes, TypeOK
    <3> QED BY <2>1, <2>3, <3>1 DEF Covered, CoveredBy, Live
  <2> QED BY <2>2, <2>3
<1>8. ASSUME NEW m \in Mount, RestoreGet(m) PROVE Covered'
  BY <1>8, SMTT(40) DEF RestoreGet, NoFault, Fault, Goes, Done, PolicyCleanupFailed,
     StayOnPage, PolicyClean, Cancelled, mount, TypeOK, Authors, Stages, Paired,
     Covered, CoveredBy, Live, Writing, Task, Mount
<1>9. ASSUME NEW m \in Mount, RestorePut(m) PROVE Covered'
  BY <1>9, SMTT(40) DEF RestorePut, NoFault, Fault, Goes, Done, PolicyCleanupFailed,
     StayOnPage, PolicyClean, Cancelled, PolicyFault, Write, Restored, mount, TypeOK,
     Authors, Stages, Paired, Covered, CoveredBy, Live, Writing, Task, Mount
<1>10. ASSUME NEW m \in Mount, DeletePolicy(m) PROVE Covered'
  BY <1>10, SMTT(40) DEF DeletePolicy, NoFault, Fault, Goes, Done, PolicyCleanupFailed,
     StayOnPage, PolicyClean, Cancelled, PolicyFault, Write, mount, TypeOK, Authors,
     Stages, Paired, Covered, CoveredBy, Live, Writing, Task, Mount
<1>11. ASSUME NEW m \in Mount, DeleteMirrorPeer(m) PROVE Covered'
  <2> SUFFICES ASSUME NEW n \in Mount PROVE CoveredBy(n)'
    BY DEF Covered
  <2>1. UNCHANGED <<prev, policy, submits, mount>> /\ page' \in {page, "form"}
    BY <1>11 DEF DeleteMirrorPeer, PeerFault, StayOnPage, Cancelled, mount
  <2>2. cancel'[n] = IF n = m THEN "idle" ELSE cancel[n]
    BY <1>11 DEF DeleteMirrorPeer, StayOnPage, Cancelled, Goes, TypeOK
  <2>3. pending'[n] = pending[n] \/ pending'[n] = pending[n] \ {"mirrorPeer"}
    BY <1>11 DEF DeleteMirrorPeer, Done, TypeOK
  <2>4. cancel[m] = "deletePeer" /\ (Live(n)' => Live(n))
    BY <1>11, <2>1, <2>2 DEF DeleteMirrorPeer, Live
  <2> QED BY <2>1, <2>2, <2>3, <2>4 DEF Covered, CoveredBy
<1>12. CASE ShowSuccess
  BY <1>12, SMTT(40) DEF ShowSuccess, mount, TypeOK, Authors, Stages, Paired, Covered,
     CoveredBy, Live, Writing, Task, Mount
<1>13. CASE Remount
  BY <1>13, SMTT(40) DEF Remount, Cleanup, mount, TypeOK, Authors, Stages, Paired,
     Covered, CoveredBy, Live, Writing, Task, Mount
<1>14. CASE WatchDelivers
  BY <1>14, SMTT(40) DEF WatchDelivers, mount, TypeOK, Authors, Stages, Paired, Covered,
     CoveredBy, Live, Writing, Task, Mount
<1>15. CASE PeerProgresses
  BY <1>15, SMTT(40) DEF PeerProgresses, mount, TypeOK, Authors, Stages, Paired,
     Covered, CoveredBy, Live, Writing, Task, Mount
<1>16. CASE OtherClient
  BY <1>16, SMTT(40) DEF OtherClient, Write, mount, TypeOK, Authors, Stages, Paired,
     Covered, CoveredBy, Live, Writing, Task, Mount
<1> QED
  BY <1>1, <1>2, <1>3, <1>4, <1>5, <1>6, <1>7, <1>8, <1>9, <1>10, <1>11, <1>12, <1>13,
     <1>14, <1>15, <1>16
  DEF Next, Create, Cancel

LEMMA StutterIInv == IInv /\ UNCHANGED vars => IInv'
BY DEF TypeOK, Ownership, Authors, Stages, Paired, Covered, CoveredBy, Live, mount, Writing

THEOREM Invariance == Spec => []IInv
<1>1. IInv /\ [Next]_vars => IInv'
  BY TypeStep, OwnershipStep, AuthorsStep, StagesStep, CoveredStep, StutterIInv
<1> QED BY InitIInv, <1>1, PTL DEF Spec

-----------------------------------------------------------------------------

\* Every variable stays in its set.
THEOREM TypeCorrect == Spec => []TypeOK
<1>1. IInv => TypeOK
  OBVIOUS
<1> QED BY Invariance, <1>1, PTL

\* Only the rollback of the run and the last step of Cancel delete a MirrorPeer,
\* and it is the run's own; Cancel does so when its policy has been taken back.
LEMMA Deletions ==
    ASSUME IInv, Next, NEW p \in Kept(peers), p \notin Kept(peers)'
    PROVE  /\ p = peer /\ newPeer
           /\ pc = "idle" => policy # submits
<1>1. /\ p \in Peer /\ peers[p] \notin {"none", "deleting"}
      /\ peers'[p] \in {"none", "deleting"}
  BY DEF Kept
<1>2. CASE UndoMirrorPeer
  BY <1>1, <1>2 DEF UndoMirrorPeer, NoFault, PeerFault, TypeOK, Ownership
<1>3. ASSUME NEW m \in Mount, DeleteMirrorPeer(m)
      PROVE  p = peer /\ newPeer /\ policy # submits
  <2>1. "mirrorPeer" \in pending[m] /\ p = peer
    BY <1>1, <1>3 DEF DeleteMirrorPeer, NoFault, PeerFault, TypeOK
  <2> QED BY <1>3, <2>1 DEF DeleteMirrorPeer, Ownership, Covered, CoveredBy, Live
<1>4. CASE CreateMirrorPeer
  BY <1>1, <1>4 DEF CreateMirrorPeer, NoFault, PeerFault, TypeOK
<1>5. CASE PeerProgresses
  BY <1>1, <1>5 DEF PeerProgresses, TypeOK
<1>6. CASE UNCHANGED peers
  BY <1>1, <1>6
<1> QED
  BY <1>2, <1>3, <1>4, <1>5, <1>6
     DEF Next, Create, Cancel, Submit, GetPolicy, UpdatePolicy, CreatePolicy, PolicyFault,
         ClickCancel, RestoreGet, RestorePut, DeletePolicy, ShowSuccess, Remount,
         WatchDelivers, OtherClient

\* No step of the wizard deletes a MirrorPeer that was there when Create was
\* clicked, whatever fails, is retried or is written by others.
THEOREM OwnPeerOnly == Spec => OnlyOwnPeerDeleted
<1>1. IInv /\ [Next]_vars =>
          [\A p \in Kept(peers) \ Kept(peers)' : p \notin was.peers]_vars
  <2> SUFFICES ASSUME IInv, Next, NEW p \in Kept(peers), p \notin Kept(peers)'
               PROVE  p \notin was.peers
    BY Zenon
  <2>1. p = peer /\ newPeer
    BY Deletions
  <2> QED BY <2>1 DEF Ownership
<1> QED BY Invariance, <1>1, PTL DEF Spec, OnlyOwnPeerDeleted

\* A MirrorPeer appears only while its run is at work.
LEMMA Additions ==
    ASSUME IInv, Next, pc = "idle", NEW p \in Kept(peers)' PROVE p \in Kept(peers)
<1>1. p \in Peer /\ peers'[p] \notin {"none", "deleting"}
  BY DEF Kept
<1>2. CASE PeerProgresses
  BY <1>1, <1>2 DEF PeerProgresses, TypeOK, Kept
<1>3. ASSUME NEW m \in Mount, DeleteMirrorPeer(m) PROVE p \in Kept(peers)
  BY <1>1, <1>3 DEF DeleteMirrorPeer, PeerFault, TypeOK, Kept
<1>4. CASE UNCHANGED peers
  BY <1>4 DEF Kept
<1> QED
  BY <1>2, <1>3, <1>4
     DEF Next, Create, Cancel, Submit, CreateMirrorPeer, GetPolicy, UpdatePolicy,
         CreatePolicy, UndoMirrorPeer, PolicyFault, ClickCancel, RestoreGet, RestorePut,
         DeletePolicy, ShowSuccess, Remount, WatchDelivers, OtherClient

\* Cancel deletes the MirrorPeer only when the DRPolicy is no more the one the
\* run has written, though its clean-up be retried any number of times, by one
\* page or by two.
THEOREM PolicyGoesFirst == Spec => PeerGoesLast
<1>1. IInv /\ [Next]_vars =>
          [(pc = "idle" /\ Kept(peers)' # Kept(peers)) => (policy # submits)]_vars
  <2> SUFFICES ASSUME IInv, Next, pc = "idle", Kept(peers)' # Kept(peers)
               PROVE  policy # submits
    BY Zenon
  <2>1. PICK p \in Kept(peers) : p \notin Kept(peers)'
    BY Additions
  <2> QED BY <2>1, Deletions
<1> QED BY Invariance, <1>1, PTL DEF Spec, PeerGoesLast

-----------------------------------------------------------------------------
(* What a run may have left behind, at each of its stages.                 *)

Ends ==
    /\ outcome = "cancelled" => pc = "idle" /\ page = "form"
    /\ outcome = "failed" => pc = "undoPeer" \/ (pc = "idle" /\ page = "failed")
    /\ page \in {"pairing", "success"} => outcome = "written"
    /\ \A m \in Mount : cancel[m] # "idle" => outcome \in {"written", "cancelled"}
    /\ pc # "idle" => outcome \in {"none", "failed"}

\* The policy is what it was at the click, or the clean-up of the run's own is
\* pending and knows what it was.
PolicyKnown(m) ==
    /\ Live(m) => /\ prev = was.policy
                  /\ \/ policy = was.policy
                     \/ "restorePolicy" \in pending[m] \/ "drPolicy" \in pending[m]
    /\ "drPolicy" \in pending[m] => was.policy = Absent
PolicyTraced ==
    ~meddled =>
        /\ pc \in Writing => policy = was.policy /\ prev \in {Absent, was.policy}
        /\ Paired => prev = was.policy /\ (isNew => was.policy = Absent)
        /\ \A m \in Mount : PolicyKnown(m)
        /\ outcome = "cancelled" \/ (outcome = "failed" /\ ~lost) => policy = was.policy

\* The MirrorPeers are those of the click, and perhaps the run's own, whose
\* deletion is pending.
PeersTraced ==
    /\ was.peers \subseteq Kept(peers) /\ Kept(peers) \subseteq was.peers \cup {peer}
    /\ pc = "peer" => ~newPeer
    /\ ~newPeer /\ (pc \in Writing \/ Paired \/ \E m \in Mount : cancel[m] # "idle") =>
           Kept(peers) = was.peers
    /\ \A m \in Mount : Live(m) /\ "mirrorPeer" \notin pending[m] => Kept(peers) = was.peers
    /\ outcome = "cancelled" => Kept(peers) = was.peers
    /\ outcome = "failed" /\ ~lost /\ pc # "undoPeer" => Kept(peers) = was.peers

TInv == IInv /\ Ends /\ PolicyTraced /\ PeersTraced

LEMMA InitTInv == Init => TInv
<1> SUFFICES ASSUME Init PROVE TInv
  OBVIOUS
<1>1. Ends
  BY DEF Init, Ends
<1>2. PolicyTraced
  BY DEF Init, PolicyTraced, PolicyKnown, Paired, Live, Writing
<1>3. PeersTraced
  BY DEF Init, PeersTraced, Paired, Live, Writing
<1> QED BY <1>1, <1>2, <1>3, InitIInv DEF TInv

\* An outcome is known only when the run, or the Cancel, is over.
LEMMA EndsStep ==
    ASSUME TInv, Next PROVE Ends'
<1>1. CASE Submit
  BY <1>1, SMTT(40) DEF Submit, Exists, mount, TInv, Authors, Stages, Paired, TypeOK,
     Ends
<1>2. CASE CreateMirrorPeer
  BY <1>2, SMTT(40) DEF CreateMirrorPeer, NoFault, Fault, PeerFault, Throw, mount, TInv,
     Authors, Stages, Paired, TypeOK, Ends
<1>3. CASE GetPolicy
  BY <1>3, SMTT(40) DEF GetPolicy, NoFault, Fault, Retry, Throw, mount, TInv, Authors,
     Stages, Paired, TypeOK, Ends
<1>4. CASE UpdatePolicy
  BY <1>4, SMTT(40) DEF UpdatePolicy, NoFault, Fault, PolicyFault, Write, Retry, Throw,
     Written, Cleanup, mount, TInv, Authors, Stages, Paired, TypeOK, Ends
<1>5. CASE CreatePolicy
  BY <1>5, SMTT(40) DEF CreatePolicy, NoFault, Fault, PolicyFault, Write, Retry, Throw,
     Written, Cleanup, mount, TInv, Authors, Stages, Paired, TypeOK, Ends
<1>6. CASE UndoMirrorPeer
  BY <1>6, SMTT(40) DEF UndoMirrorPeer, NoFault, Fault, PeerFault, mount, TInv, Authors,
     Stages, Paired, TypeOK, Ends
<1>7. CASE ClickCancel
  BY <1>7, SMTT(40) DEF ClickCancel, Goes, mount, TInv, Authors, Stages, Paired, TypeOK,
     Ends
<1>8. ASSUME NEW m \in Mount, RestoreGet(m) PROVE Ends'
  BY <1>8, SMTT(40) DEF RestoreGet, NoFault, Fault, Goes, Done, PolicyCleanupFailed,
     StayOnPage, PolicyClean, Cancelled, mount, TInv, Authors, Stages, Paired, TypeOK,
     Ends
<1>9. ASSUME NEW m \in Mount, RestorePut(m) PROVE Ends'
  BY <1>9, SMTT(40) DEF RestorePut, NoFault, Fault, Goes, Done, PolicyCleanupFailed,
     StayOnPage, PolicyClean, Cancelled, PolicyFault, Write, Restored, mount, TInv,
     Authors, Stages, Paired, TypeOK, Ends
<1>10. ASSUME NEW m \in Mount, DeletePolicy(m) PROVE Ends'
  BY <1>10, SMTT(40) DEF DeletePolicy, NoFault, Fault, Goes, Done, PolicyCleanupFailed,
     StayOnPage, PolicyClean, Cancelled, PolicyFault, Write, mount, TInv, Authors,
     Stages, Paired, TypeOK, Ends
<1>11. ASSUME NEW m \in Mount, DeleteMirrorPeer(m) PROVE Ends'
  BY <1>11, SMTT(40) DEF DeleteMirrorPeer, NoFault, Fault, Goes, Done,
     PolicyCleanupFailed, StayOnPage, PolicyClean, Cancelled, PeerFault, mount, TInv,
     Authors, Stages, Paired, TypeOK, Ends
<1>12. CASE ShowSuccess
  BY <1>12, SMTT(40) DEF ShowSuccess, mount, TInv, Authors, Stages, Paired, TypeOK, Ends
<1>13. CASE Remount
  BY <1>13, SMTT(40) DEF Remount, Cleanup, mount, TInv, Authors, Stages, Paired, TypeOK,
     Ends
<1>14. CASE WatchDelivers
  BY <1>14, SMTT(40) DEF WatchDelivers, mount, TInv, Authors, Stages, Paired, TypeOK,
     Ends
<1>15. CASE PeerProgresses
  BY <1>15, SMTT(40) DEF PeerProgresses, mount, TInv, Authors, Stages, Paired, TypeOK,
     Ends
<1>16. CASE OtherClient
  BY <1>16, SMTT(40) DEF OtherClient, Write, mount, TInv, Authors, Stages, Paired,
     TypeOK, Ends
<1> QED
  BY <1>1, <1>2, <1>3, <1>4, <1>5, <1>6, <1>7, <1>8, <1>9, <1>10, <1>11, <1>12, <1>13,
     <1>14, <1>15, <1>16
  DEF Next, Create, Cancel

\* The copy of the spec is the one of the click.
LEMMA PolicyTracedStep ==
    ASSUME TInv, Next PROVE PolicyTraced'
<1>1. CASE Submit
  BY <1>1, SMTT(40) DEF Submit, Exists, mount, TInv, TypeOK, Authors, Stages, Covered,
     CoveredBy, Ends, PolicyTraced, PolicyKnown, Paired, Live, Writing, Task
<1>2. CASE CreateMirrorPeer
  BY <1>2, SMTT(40) DEF CreateMirrorPeer, NoFault, Fault, PeerFault, Throw, mount, TInv,
     TypeOK, Authors, Stages, Covered, CoveredBy, Ends, PolicyTraced, PolicyKnown,
     Paired, Live, Writing, Task
<1>3. CASE GetPolicy
  BY <1>3, SMTT(40) DEF GetPolicy, NoFault, Fault, Retry, Throw, mount, TInv, TypeOK,
     Authors, Stages, Covered, CoveredBy, Ends, PolicyTraced, PolicyKnown, Paired, Live,
     Writing, Task
<1>4. CASE UpdatePolicy
  <2> SUFFICES ASSUME ~meddled PROVE PolicyTraced'
    BY <1>4 DEF UpdatePolicy, PolicyTraced
  <2>1. /\ pc \in Writing /\ page = "busy" /\ mount \in Mount
        /\ \A m \in Mount : cancel[m] = "idle"
    BY <1>4 DEF UpdatePolicy, TInv, TypeOK, Authors, Stages, Writing, mount, Mount
  <2>2. /\ policy = was.policy /\ prev \in {Absent, was.policy}
        /\ \A m \in Mount : "drPolicy" \in pending[m] => was.policy = Absent
    BY <2>1 DEF TInv, PolicyTraced, PolicyKnown
  <2>3. UNCHANGED <<was, prev, cancel, submits, remounts, mount, skip>>
    BY <1>4 DEF UpdatePolicy, mount
  <2>4. CASE outcome' = "written"
    <3>1. Written(FALSE) /\ Write(submits) /\ policy # Absent
      BY <1>4, <2>1, <2>4 DEF UpdatePolicy, Retry, Throw, TInv, Ends, Writing
    <3>2. /\ pc' = "idle" /\ isNew' = FALSE /\ policy' = submits
          /\ pending' = [pending EXCEPT ![mount] = Cleanup(prev, FALSE, newPeer)]
      BY <3>1 DEF Written, Write
    <3>4. prev # Absent /\ prev = was.policy
      BY <1>4, <2>2, <3>1 DEF UpdatePolicy, TInv, Authors
    <3>3. ASSUME NEW m \in Mount PROVE PolicyKnown(m)'
      <4>1. pending'[m] = IF m = mount THEN Cleanup(prev, FALSE, newPeer) ELSE pending[m]
        BY <3>2, <2>1 DEF TInv, TypeOK
      <4> QED BY <2>1, <2>2, <2>3, <3>4, <4>1 DEF PolicyKnown, Live, Cleanup, Task
    <3> QED BY <2>2, <2>3, <2>4, <3>2, <3>3, <3>4 DEF PolicyTraced, Paired, Writing
  <2>5. CASE outcome' # "written"
    <3>1. ~Paired' /\ outcome' # "cancelled" /\ UNCHANGED pending
      BY <1>4, <2>1, <2>5 DEF UpdatePolicy, Written, Retry, Throw, Paired, TInv, Ends
    <3>2. policy' = policy \/ (lost' /\ pc' \notin Writing)
      BY <1>4, <2>5 DEF UpdatePolicy, PolicyFault, Write, Written, Throw, Writing
    <3>3. ASSUME NEW m \in Mount PROVE PolicyKnown(m)'
      BY <2>1, <2>2, <2>3, <3>1 DEF PolicyKnown, Live, Paired
    <3> QED BY <2>2, <2>3, <3>1, <3>2, <3>3 DEF PolicyTraced
  <2> QED BY <2>4, <2>5
<1>5. CASE CreatePolicy
  <2> SUFFICES ASSUME ~meddled PROVE PolicyTraced'
    BY <1>5 DEF CreatePolicy, PolicyTraced
  <2>1. /\ pc \in Writing /\ page = "busy" /\ mount \in Mount
        /\ \A m \in Mount : cancel[m] = "idle"
    BY <1>5 DEF CreatePolicy, TInv, TypeOK, Authors, Stages, Writing, mount, Mount
  <2>2. /\ policy = was.policy /\ prev \in {Absent, was.policy}
        /\ \A m \in Mount : "drPolicy" \in pending[m] => was.policy = Absent
    BY <2>1 DEF TInv, PolicyTraced, PolicyKnown
  <2>3. UNCHANGED <<was, prev, cancel, submits, remounts, mount, skip>>
    BY <1>5 DEF CreatePolicy, mount
  <2>4. CASE outcome' = "written"
    <3>1. Written(TRUE) /\ Write(submits) /\ policy = Absent
      BY <1>5, <2>1, <2>4 DEF CreatePolicy, Retry, Throw, TInv, Ends, Writing
    <3>2. /\ pc' = "idle" /\ isNew' = TRUE /\ policy' = submits
          /\ pending' = [pending EXCEPT ![mount] = Cleanup(prev, TRUE, newPeer)]
      BY <3>1 DEF Written, Write
    <3>4. prev = was.policy /\ was.policy = Absent
      BY <1>5, <2>2, <3>1 DEF CreatePolicy, TInv, Authors
    <3>3. ASSUME NEW m \in Mount PROVE PolicyKnown(m)'
      <4>1. pending'[m] = IF m = mount THEN Cleanup(prev, TRUE, newPeer) ELSE pending[m]
        BY <3>2, <2>1 DEF TInv, TypeOK
      <4> QED BY <2>1, <2>2, <2>3, <3>4, <4>1 DEF PolicyKnown, Live, Cleanup, Task
    <3> QED BY <2>2, <2>3, <2>4, <3>2, <3>3, <3>4 DEF PolicyTraced, Paired, Writing
  <2>5. CASE outcome' # "written"
    <3>1. ~Paired' /\ outcome' # "cancelled" /\ UNCHANGED pending
      BY <1>5, <2>1, <2>5 DEF CreatePolicy, Written, Retry, Throw, Paired, TInv, Ends
    <3>2. policy' = policy \/ (lost' /\ pc' \notin Writing)
      BY <1>5, <2>5 DEF CreatePolicy, PolicyFault, Write, Written, Throw, Writing
    <3>3. ASSUME NEW m \in Mount PROVE PolicyKnown(m)'
      BY <2>1, <2>2, <2>3, <3>1 DEF PolicyKnown, Live, Paired
    <3> QED BY <2>2, <2>3, <3>1, <3>2, <3>3 DEF PolicyTraced
  <2> QED BY <2>4, <2>5
<1>6. CASE UndoMirrorPeer
  BY <1>6, SMTT(40) DEF UndoMirrorPeer, NoFault, Fault, PeerFault, mount, TInv, TypeOK,
     Authors, Stages, Covered, CoveredBy, Ends, PolicyTraced, PolicyKnown, Paired, Live,
     Writing, Task
<1>7. CASE ClickCancel
  BY <1>7, SMTT(40) DEF ClickCancel, Goes, mount, TInv, TypeOK, Authors, Stages,
     Covered, CoveredBy, Ends, PolicyTraced, PolicyKnown, Paired, Live, Writing, Task
<1>8. ASSUME NEW m \in Mount, RestoreGet(m) PROVE PolicyTraced'
  BY <1>8, SMTT(40) DEF RestoreGet, NoFault, Fault, Goes, Done, PolicyCleanupFailed,
     StayOnPage, PolicyClean, Cancelled, mount, TInv, TypeOK, Authors, Stages, Covered,
     CoveredBy, Ends, PolicyTraced, PolicyKnown, Paired, Live, Writing, Task
<1>9. ASSUME NEW m \in Mount, RestorePut(m) PROVE PolicyTraced'
  BY <1>9, SMTT(40) DEF RestorePut, NoFault, Fault, Goes, Done, PolicyCleanupFailed,
     StayOnPage, PolicyClean, Cancelled, PolicyFault, Write, Restored, mount, TInv,
     TypeOK, Authors, Stages, Covered, CoveredBy, Ends, PolicyTraced, PolicyKnown,
     Paired, Live, Writing, Task
<1>10. ASSUME NEW m \in Mount, DeletePolicy(m) PROVE PolicyTraced'
  BY <1>10, SMTT(40) DEF DeletePolicy, NoFault, Fault, Goes, Done, PolicyCleanupFailed,
     StayOnPage, PolicyClean, Cancelled, PolicyFault, Write, mount, TInv, TypeOK,
     Authors, Stages, Covered, CoveredBy, Ends, PolicyTraced, PolicyKnown, Paired, Live,
     Writing, Task
<1>11. ASSUME NEW m \in Mount, DeleteMirrorPeer(m) PROVE PolicyTraced'
  BY <1>11, SMTT(40) DEF DeleteMirrorPeer, NoFault, Fault, Goes, Done,
     PolicyCleanupFailed, StayOnPage, PolicyClean, Cancelled, PeerFault, mount, TInv,
     TypeOK, Authors, Stages, Covered, CoveredBy, Ends, PolicyTraced, PolicyKnown,
     Paired, Live, Writing, Task
<1>12. CASE ShowSuccess
  BY <1>12, SMTT(40) DEF ShowSuccess, mount, TInv, TypeOK, Authors, Stages, Covered,
     CoveredBy, Ends, PolicyTraced, PolicyKnown, Paired, Live, Writing, Task
<1>13. CASE Remount
  BY <1>13, SMTT(40) DEF Remount, Cleanup, mount, TInv, TypeOK, Authors, Stages,
     Covered, CoveredBy, Ends, PolicyTraced, PolicyKnown, Paired, Live, Writing, Task
<1>14. CASE WatchDelivers
  BY <1>14, SMTT(40) DEF WatchDelivers, mount, TInv, TypeOK, Authors, Stages, Covered,
     CoveredBy, Ends, PolicyTraced, PolicyKnown, Paired, Live, Writing, Task
<1>15. CASE PeerProgresses
  BY <1>15, SMTT(40) DEF PeerProgresses, mount, TInv, TypeOK, Authors, Stages, Covered,
     CoveredBy, Ends, PolicyTraced, PolicyKnown, Paired, Live, Writing, Task
<1>16. CASE OtherClient
  BY <1>16, SMTT(40) DEF OtherClient, Write, mount, TInv, TypeOK, Authors, Stages,
     Covered, CoveredBy, Ends, PolicyTraced, PolicyKnown, Paired, Live, Writing, Task
<1> QED
  BY <1>1, <1>2, <1>3, <1>4, <1>5, <1>6, <1>7, <1>8, <1>9, <1>10, <1>11, <1>12, <1>13,
     <1>14, <1>15, <1>16
  DEF Next, Create, Cancel

\* Only the run's own MirrorPeer comes and goes.
LEMMA PeersTracedStep ==
    ASSUME TInv, Next PROVE PeersTraced'
<1>1. CASE Submit
  BY <1>1, SMTT(40) DEF Submit, Exists, mount, TInv, TypeOK, Ownership, Stages, Ends,
     PeersTraced, Paired, Live, Writing, Task, Kept
<1>2. CASE CreateMirrorPeer
  <2>1. /\ Kept(peers) = was.peers /\ peer \in Peer /\ page = "busy" /\ ~newPeer
        /\ \A m \in Mount : cancel[m] = "idle"
    BY <1>2 DEF CreateMirrorPeer, TInv, TypeOK, Stages, PeersTraced, Writing, Ownership
  <2>2. UNCHANGED <<was, peer, cancel, pending, mount, skip>>
    BY <1>2 DEF CreateMirrorPeer, mount
  <2>3. \/ newPeer' /\ pc' = "get" /\ UNCHANGED <<page, outcome>>
        \/ ~newPeer' /\ pc' = "idle" /\ page' = "failed" /\ outcome' = "failed"
           /\ (peers' = peers \/ lost')
    BY <1>2, <2>1 DEF CreateMirrorPeer, PeerFault, Throw
  <2>4. Kept(peers)' \in {Kept(peers), Kept(peers) \cup {peer}}
    BY <1>2, <2>1 DEF CreateMirrorPeer, PeerFault, TInv, TypeOK, Kept
  <2>5. outcome \notin {"cancelled", "failed"}
    BY <1>2 DEF CreateMirrorPeer, TInv, Ends
  <2>6. ~Paired' /\ \A m \in Mount : ~Live(m)'
    BY <2>1, <2>2, <2>3 DEF Paired, Live
  <2> QED BY <2>1, <2>2, <2>3, <2>4, <2>5, <2>6 DEF PeersTraced, Writing, Kept
<1>3. CASE GetPolicy
  BY <1>3, SMTT(40) DEF GetPolicy, NoFault, Fault, Retry, Throw, mount, TInv, TypeOK,
     Ownership, Stages, Ends, PeersTraced, Paired, Live, Writing, Task, Kept
<1>4. CASE UpdatePolicy
  BY <1>4, SMTT(40) DEF UpdatePolicy, NoFault, Fault, PolicyFault, Write, Retry, Throw,
     Written, Cleanup, mount, TInv, TypeOK, Ownership, Stages, Ends, PeersTraced,
     Paired, Live, Writing, Task, Kept
<1>5. CASE CreatePolicy
  BY <1>5, SMTT(40) DEF CreatePolicy, NoFault, Fault, PolicyFault, Write, Retry, Throw,
     Written, Cleanup, mount, TInv, TypeOK, Ownership, Stages, Ends, PeersTraced,
     Paired, Live, Writing, Task, Kept
<1>6. CASE UndoMirrorPeer
  BY <1>6, SMTT(40) DEF UndoMirrorPeer, NoFault, Fault, PeerFault, mount, TInv, TypeOK,
     Ownership, Stages, Ends, PeersTraced, Paired, Live, Writing, Task, Kept
<1>7. CASE ClickCancel
  BY <1>7, SMTT(40) DEF ClickCancel, Goes, mount, TInv, TypeOK, Ownership, Stages, Ends,
     PeersTraced, Paired, Live, Writing, Task, Kept
<1>8. ASSUME NEW m \in Mount, RestoreGet(m) PROVE PeersTraced'
  BY <1>8, SMTT(40) DEF RestoreGet, NoFault, Fault, Goes, Done, PolicyCleanupFailed,
     StayOnPage, PolicyClean, Cancelled, mount, TInv, TypeOK, Ownership, Stages, Ends,
     PeersTraced, Paired, Live, Writing, Task, Kept
<1>9. ASSUME NEW m \in Mount, RestorePut(m) PROVE PeersTraced'
  BY <1>9, SMTT(40) DEF RestorePut, NoFault, Fault, Goes, Done, PolicyCleanupFailed,
     StayOnPage, PolicyClean, Cancelled, PolicyFault, Write, Restored, mount, TInv,
     TypeOK, Ownership, Stages, Ends, PeersTraced, Paired, Live, Writing, Task, Kept
<1>10. ASSUME NEW m \in Mount, DeletePolicy(m) PROVE PeersTraced'
  BY <1>10, SMTT(40) DEF DeletePolicy, NoFault, Fault, Goes, Done, PolicyCleanupFailed,
     StayOnPage, PolicyClean, Cancelled, PolicyFault, Write, mount, TInv, TypeOK,
     Ownership, Stages, Ends, PeersTraced, Paired, Live, Writing, Task, Kept
<1>11. ASSUME NEW m \in Mount, DeleteMirrorPeer(m) PROVE PeersTraced'
  BY <1>11, SMTT(40) DEF DeleteMirrorPeer, NoFault, Fault, Goes, Done,
     PolicyCleanupFailed, StayOnPage, PolicyClean, Cancelled, PeerFault, mount, TInv,
     TypeOK, Ownership, Stages, Ends, PeersTraced, Paired, Live, Writing, Task, Kept
<1>12. CASE ShowSuccess
  BY <1>12, SMTT(40) DEF ShowSuccess, mount, TInv, TypeOK, Ownership, Stages, Ends,
     PeersTraced, Paired, Live, Writing, Task, Kept
<1>13. CASE Remount
  BY <1>13, SMTT(40) DEF Remount, Cleanup, mount, TInv, TypeOK, Ownership, Stages, Ends,
     PeersTraced, Paired, Live, Writing, Task, Kept
<1>14. CASE WatchDelivers
  BY <1>14, SMTT(40) DEF WatchDelivers, mount, TInv, TypeOK, Ownership, Stages, Ends,
     PeersTraced, Paired, Live, Writing, Task, Kept
<1>15. CASE PeerProgresses
  BY <1>15, SMTT(40) DEF PeerProgresses, mount, TInv, TypeOK, Ownership, Stages, Ends,
     PeersTraced, Paired, Live, Writing, Task, Kept
<1>16. CASE OtherClient
  BY <1>16, SMTT(40) DEF OtherClient, Write, mount, TInv, TypeOK, Ownership, Stages,
     Ends, PeersTraced, Paired, Live, Writing, Task, Kept
<1> QED
  BY <1>1, <1>2, <1>3, <1>4, <1>5, <1>6, <1>7, <1>8, <1>9, <1>10, <1>11, <1>12, <1>13,
     <1>14, <1>15, <1>16
  DEF Next, Create, Cancel

LEMMA StutterTInv == TInv /\ UNCHANGED vars => TInv'
BY StutterIInv DEF TInv, Ends, PolicyTraced, PolicyKnown, PeersTraced, Paired, Live, mount,
   Writing, Kept

\* What onCreate and onCancel have left on the hub at each of their steps is
\* known, and what they keep to take it back is enough.
THEOREM Traces == Spec => []TInv
<1>1. TInv /\ [Next]_vars => TInv'
  <2> SUFFICES ASSUME TInv, Next PROVE TInv'
    BY StutterTInv
  <2>1. IInv'
    BY TypeStep, OwnershipStep, AuthorsStep, StagesStep, CoveredStep DEF TInv
  <2> QED BY <2>1, EndsStep, PolicyTracedStep, PeersTracedStep DEF TInv
<1> QED BY InitTInv, <1>1, PTL DEF Spec

\* A completed Cancel has taken the whole run back, the DRPolicy and the
\* MirrorPeers, however often onCancel failed, lost its answer and was retried, on
\* a page mounted any number of times with the Cancels of several mounts at work,
\* as long as nobody else wrote the policy.
THEOREM CancelTakesBack == Spec => []CancelUndoesRun
<1>1. TInv => CancelUndoesRun
  BY DEF TInv, PolicyTraced, PeersTraced, CancelUndoesRun
<1> QED BY Traces, <1>1, PTL

\* The catch of createPolicyPromises leaves neither a MirrorPeer nor a DRPolicy of
\* its run, unless an answer was lost or its own deletion was rejected.
THEOREM FailureTakesBack == Spec => []FailedRunLeavesNothing
<1>1. TInv => FailedRunLeavesNothing
  BY DEF TInv, PolicyTraced, PeersTraced, Stages, FailedRunLeavesNothing
<1> QED BY Traces, <1>1, PTL
=============================================================================

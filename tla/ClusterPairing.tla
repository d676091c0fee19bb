---------------------------- MODULE ClusterPairing ----------------------------
(***************************************************************************)
(* The Data Foundation branch of the "Create DRPolicy" wizard of           *)
(* packages/mco: createPolicyPromises makes or reuses a MirrorPeer and     *)
(* creates or updates the DRPolicy; ClusterPairingProgress then follows    *)
(* the MirrorPeer and offers Cancel, which takes the run back.             *)
(*                                                                         *)
(* The API server is external.  A call is answered, rejected without       *)
(* effect, or takes effect and is rejected all the same (the answer was    *)
(* lost).  Other clients may write the DRPolicy in between.                *)
(*                                                                         *)
(* A remount of the pairing page leaves its Cancel at work behind it; the  *)
(* new page offers one of its own.  Left out: a new run submitted while a  *)
(* Cancel of the one before is still at work.                              *)
(***************************************************************************)
EXTENDS Naturals, FiniteSets

CONSTANTS
    MaxSubmits,  \* bound: clicks on Create
    MaxFaults,   \* bound: rejected API calls
    MaxOthers,   \* bound: writes of the DRPolicy by other clients
    MaxRemounts, \* bound: times the pairing page is mounted again
    MaxRetries   \* maxRetries of createOrUpdate

ASSUME BoundAssumption ==
    /\ MaxSubmits \in Nat /\ MaxFaults \in Nat /\ MaxOthers \in Nat
    /\ MaxRemounts \in Nat /\ MaxRetries \in Nat

VARIABLES
    policy,   \* spec of the DRPolicy: who wrote it, or Absent
    stale,    \* the mounts whose copy of it has an old resourceVersion
    peers,    \* the MirrorPeers of the pair, by identity: phase or "none"
    seen,     \* the MirrorPeers the watch has delivered
    page,     \* what the wizard shows
    pc,       \* the await at which the run stands
    cancel,   \* for each mount of the pairing page, the await of its onCancel
    attempt,  \* attempts of createOrUpdate
    newPeer,  \* createdMirrorPeer: the run made one
    peer,     \* peering.mirrorPeer, then pairingMirrorPeerName
    skip,     \* skipPairingProgress
    prev,     \* previousPolicySpec
    isNew,    \* isNewPolicy
    pending,  \* pendingCleanupRef.current of each mount
    insist,   \* the user wants out: Cancel was clicked in this pairing
    was,      \* history: policy and peers when Create was clicked
    replaced, \* history: the spec the run's write of the DRPolicy replaced
    outcome,  \* history: how the last run ended
    lost,     \* history: a call of this run took effect and was rejected
    meddled,  \* history: another client wrote the DRPolicy since the click
    submits, faults, others, remounts

run == <<attempt, newPeer, peer, skip, prev, isNew>>
history == <<was, replaced, outcome, lost, meddled>>
bounds == <<submits, faults, others, remounts>>
hub == <<policy, stale, peers>>
vars == <<hub, seen, page, pc, cancel, run, pending, insist, history, bounds>>

\* MirrorPeer 0 was there before; a run creates the one with its own number.
Peer == 0..MaxSubmits
Phase == {"none", "configuring", "ready", "failed", "deleting"}
Phases == [Peer -> Phase]
Exists(list) == {p \in Peer : list[p] # "none"}
\* Those nobody has deleted: a deleted one is listed until the operator is done.
Kept(list) == {p \in Peer : list[p] \notin {"none", "deleting"}}
\* The spec of the DRPolicy is named by its writer: a run of the wizard by its
\* number, whoever wrote it first, another client later; Absent if there is none.
Writer == 1..MaxSubmits
Absent == 0
Old == MaxSubmits + 1
Other == MaxSubmits + 2
PolicyState == Writer \cup {Absent, Old, Other}
\* The flags of pendingCleanupRef.
Task == {"restorePolicy", "drPolicy", "mirrorPeer"}
\* The mounts of the pairing page, and the latest; a run reads the DRPolicy under
\* the number its page will have.
Mount == 1..(MaxSubmits + MaxRemounts)
mount == submits + remounts

RunSteps == {"peer", "get", "update", "create", "undoPeer"}
CancelSteps == {"restoreGet", "restorePut", "deletePolicy", "deletePeer"}

Init ==
    /\ policy \in {Absent, Old} /\ stale = {}
    /\ peers \in {f \in Phases : f[0] \in {"none", "configuring", "ready", "deleting"}
                                 /\ \A p \in Writer : f[p] = "none"}
    /\ seen = peers
    /\ page = "form" /\ pc = "idle" /\ cancel = [m \in Mount |-> "idle"]
    /\ attempt = 0 /\ newPeer = FALSE /\ peer = 0 /\ skip = FALSE
    /\ prev = Absent /\ isNew = FALSE
    /\ pending = [m \in Mount |-> {}] /\ insist = FALSE
    /\ was = [policy |-> policy, peers |-> Kept(peers)]
    /\ replaced = Absent /\ outcome = "none" /\ lost = FALSE /\ meddled = FALSE
    /\ submits = 0 /\ faults = 0 /\ others = 0 /\ remounts = 0

-----------------------------------------------------------------------------
(* API calls.                                                              *)

Fault == faults < MaxFaults /\ faults' = faults + 1
NoFault == UNCHANGED <<faults, lost>>

\* A write of the DRPolicy: every copy of it is old now, if it has changed.
Write(to) == policy' = to /\ stale' = IF to = policy THEN stale ELSE Mount
\* A rejected write of the DRPolicy, or of a MirrorPeer, that would leave it as
\* given.
PolicyFault(to) == /\ Fault /\ (Write(policy) \/ Write(to))
                   /\ lost' = (lost \/ policy' # policy)
                   /\ UNCHANGED peers
PeerFault(p, phase) == /\ Fault /\ peers' \in {peers, [peers EXCEPT ![p] = phase]}
                       /\ lost' = (lost \/ peers' # peers)
                       /\ UNCHANGED <<policy, stale>>

-----------------------------------------------------------------------------
(* createPolicyPromises.                                                   *)

\* Mutant: the MirrorPeer is left behind.
ThrowM == outcome' = "failed" /\ pc' = "idle" /\ page' = "failed"
\* The run is over: throw, or undo the MirrorPeer first when it made one.
Throw == /\ outcome' = "failed"
         /\ IF newPeer THEN pc' = "undoPeer" /\ UNCHANGED page
                       ELSE pc' = "idle" /\ page' = "failed"

\* onCreate -> prepareOdfPeering: a MirrorPeer of the pair among the ones the
\* watch has delivered is reused.
Submit ==
    /\ page \in {"form", "failed"} /\ submits < MaxSubmits
    /\ pc = "idle" /\ \A m \in Mount : cancel[m] = "idle"
    /\ submits' = submits + 1
    /\ page' = "busy" /\ attempt' = 0 /\ newPeer' = FALSE
    /\ prev' = Absent /\ isNew' = FALSE
    /\ \/ \E p \in Exists(seen) : /\ peer' = p /\ skip' = (seen[p] = "ready")
                                  /\ pc' = "get"
       \/ /\ Exists(seen) = {}
          /\ peer' = submits' /\ skip' = FALSE /\ pc' = "peer"
    /\ was' = [policy |-> policy, peers |-> Kept(peers)]
    /\ replaced' = Absent /\ outcome' = "none" /\ lost' = FALSE /\ meddled' = FALSE
    /\ insist' = FALSE /\ pending' = [m \in Mount |-> {}]
    /\ UNCHANGED <<hub, seen, cancel, faults, others, remounts>>

\* createMirrorPeer.
CreateMirrorPeer ==
    /\ pc = "peer"
    /\ \/ /\ peers' = [peers EXCEPT ![peer] = "configuring"]
          /\ newPeer' = TRUE /\ pc' = "get"
          /\ NoFault /\ UNCHANGED <<policy, stale, page, outcome>>
       \/ PeerFault(peer, "configuring") /\ Throw /\ UNCHANGED newPeer
    /\ UNCHANGED <<seen, cancel, attempt, peer, skip, prev, isNew, pending, insist,
                   was, replaced, meddled, submits, others, remounts>>

\* createOrUpdate asks for another attempt, if it has one left.
Retry == IF attempt + 1 < MaxRetries
         THEN attempt' = attempt + 1 /\ pc' = "get" /\ UNCHANGED <<page, outcome>>
         ELSE Throw /\ UNCHANGED attempt

\* k8sGet of the DRPolicy; mutate(current) keeps a copy of its spec.
GetPolicy ==
    /\ pc = "get"
    /\ \/ /\ policy = Absent /\ pc' = "create"
          /\ NoFault /\ UNCHANGED <<hub, page, attempt, prev, outcome>>
       \/ /\ policy # Absent /\ pc' = "update" /\ prev' = policy
          /\ stale' = stale \ {mount}
          /\ NoFault /\ UNCHANGED <<policy, peers, page, attempt, outcome>>
       \/ /\ Fault /\ (Retry \/ (Throw /\ UNCHANGED attempt))
          /\ UNCHANGED <<hub, lost, prev>>
    /\ UNCHANGED <<seen, cancel, newPeer, peer, skip, isNew, pending, insist,
                   was, replaced, meddled, submits, others, remounts>>

\* Mutant: Cancel takes a MirrorPeer that was reused for the run's own.
CleanupM(spec, new, made) ==
    {t \in Task : \/ t = "restorePolicy" /\ spec # Absent
                  \/ t = "drPolicy" /\ new /\ spec = Absent
                  \/ t = "mirrorPeer"}
\* What Cancel has to do: restore the previous spec, or delete the policy if it
\* is new, and delete the MirrorPeer if the run made it.
Cleanup(spec, new, made) ==
    {t \in Task : \/ t = "restorePolicy" /\ spec # Absent
                  \/ t = "drPolicy" /\ new /\ spec = Absent
                  \/ t = "mirrorPeer" /\ made}
Written(new) ==
    /\ page' = IF skip THEN "success" ELSE "pairing"
    /\ pc' = "idle" /\ outcome' = "written" /\ replaced' = policy
    /\ isNew' = new
    /\ pending' = [pending EXCEPT ![mount] = Cleanup(prev, new, newPeer)]

\* k8sUpdate with the resourceVersion that was read: a conflict is retried, a
\* DRPolicy that has gone is created.
UpdatePolicy ==
    /\ pc = "update"
    /\ \/ /\ policy # Absent /\ mount \notin stale
          /\ Write(submits) /\ Written(FALSE)
          /\ NoFault /\ UNCHANGED <<peers, attempt>>
       \/ /\ policy # Absent /\ mount \in stale /\ Retry
          /\ NoFault /\ UNCHANGED <<hub, isNew, pending, replaced>>
       \/ /\ policy = Absent /\ pc' = "create"
          /\ NoFault /\ UNCHANGED <<hub, page, attempt, isNew, pending, replaced, outcome>>
       \/ /\ policy # Absent /\ mount \notin stale
          /\ PolicyFault(submits) /\ Throw /\ UNCHANGED <<attempt, isNew, pending, replaced>>
    /\ UNCHANGED <<seen, cancel, newPeer, peer, skip, prev, insist, was, meddled,
                   submits, others, remounts>>

\* k8sCreate(mutate(null)): the copy of an earlier attempt's spec stays.
CreatePolicy ==
    /\ pc = "create"
    /\ \/ /\ policy = Absent /\ Write(submits) /\ Written(TRUE)
          /\ NoFault /\ UNCHANGED <<peers, attempt>>
       \/ /\ policy # Absent /\ Retry
          /\ NoFault /\ UNCHANGED <<hub, isNew, pending, replaced>>
       \/ /\ policy = Absent
          /\ PolicyFault(submits) /\ Throw /\ UNCHANGED <<attempt, isNew, pending, replaced>>
    /\ UNCHANGED <<seen, cancel, newPeer, peer, skip, prev, insist, was, meddled,
                   submits, others, remounts>>

\* The catch block: the created MirrorPeer is deleted, a failure is logged.
UndoMirrorPeer ==
    /\ pc = "undoPeer"
    /\ \/ /\ peers' = [peers EXCEPT ![peer] = "deleting"]
          /\ NoFault /\ UNCHANGED <<policy, stale, outcome>>
       \/ PeerFault(peer, "deleting") /\ outcome' = "undoFailed"
    /\ pc' = "idle" /\ page' = "failed"
    /\ UNCHANGED <<seen, cancel, run, pending, insist, was, replaced, meddled,
                   submits, others, remounts>>

-----------------------------------------------------------------------------
(* ClusterPairingProgress.                                                 *)

Ready == seen[peer] = "ready"

\* onCancel of mount m goes on with its next call.
Goes(m, step) == cancel' = [cancel EXCEPT ![m] = step]

\* Cancel is offered until the MirrorPeer is Ready, and not while cancelling.
ClickCancel ==
    /\ page = "pairing" /\ cancel[mount] = "idle" /\ ~Ready
    /\ insist' = TRUE
    /\ Goes(mount, IF "restorePolicy" \in pending[mount] THEN "restoreGet"
                   ELSE IF "drPolicy" \in pending[mount] THEN "deletePolicy"
                   ELSE "deletePeer")
    /\ UNCHANGED <<hub, seen, page, pc, run, pending, history, bounds>>

Done(m, task) == pending' = [pending EXCEPT ![m] = @ \ {task}]

\* onCancelPairing: back to the Clusters step, also from a page that is gone.
Cancelled(m) == Goes(m, "idle") /\ page' = "form" /\ outcome' = "cancelled"
\* Mutant: isCancelling is not reset.
StayOnPageM(m) == Goes(m, "cancelling") /\ UNCHANGED <<page, outcome>>
\* An error is shown, if the page is still there, and Cancel is offered again.
StayOnPage(m) == Goes(m, "idle") /\ UNCHANGED <<page, outcome>>

\* Mutant: the MirrorPeer goes whatever became of the policy.
PolicyCleanupFailedM(m) == Goes(m, "deletePeer") /\ UNCHANGED <<page, outcome>>
\* policyCleanupFailed: the MirrorPeer is kept so that a retry can remove it.
PolicyCleanupFailed(m) == StayOnPage(m)

\* The policy is clean: the MirrorPeer is next when it is the run's own.
PolicyClean(m) == IF "mirrorPeer" \in pending[m]
                  THEN Goes(m, "deletePeer") /\ UNCHANGED <<page, outcome>>
                  ELSE Cancelled(m)

\* Mutant: the page's own copy of the policy is written back.
RestoredM == submits
\* The spec that Cancel puts back.
Restored == prev

\* restoreDRPolicySpec: a get, then an update with what was read.
RestoreGet(m) ==
    /\ cancel[m] = "restoreGet"
    /\ \/ /\ policy # Absent /\ Goes(m, "restorePut") /\ stale' = stale \ {m}
          /\ NoFault /\ UNCHANGED <<policy, peers, page, outcome>>
       \/ policy = Absent /\ NoFault /\ PolicyCleanupFailed(m) /\ UNCHANGED hub
       \/ Fault /\ PolicyCleanupFailed(m) /\ UNCHANGED <<hub, lost>>
    /\ UNCHANGED <<seen, pc, run, pending, insist, was, replaced, meddled,
                   submits, others, remounts>>

RestorePut(m) ==
    /\ cancel[m] = "restorePut"
    /\ \/ /\ policy # Absent /\ m \notin stale
          /\ Write(Restored) /\ Done(m, "restorePolicy")
          /\ PolicyClean(m) /\ NoFault /\ UNCHANGED peers
       \/ /\ policy = Absent \/ m \in stale
          /\ PolicyCleanupFailed(m) /\ NoFault /\ UNCHANGED <<hub, pending>>
       \/ /\ policy # Absent /\ m \notin stale /\ PolicyFault(Restored)
          /\ PolicyCleanupFailed(m) /\ UNCHANGED pending
    /\ UNCHANGED <<seen, pc, run, insist, was, replaced, meddled,
                   submits, others, remounts>>

\* deleteDRPolicyByName: a 404 is an error like any other.
DeletePolicy(m) ==
    /\ cancel[m] = "deletePolicy"
    /\ \/ /\ policy # Absent /\ Write(Absent) /\ Done(m, "drPolicy")
          /\ PolicyClean(m) /\ NoFault /\ UNCHANGED peers
       \/ /\ policy = Absent
          /\ PolicyCleanupFailed(m) /\ NoFault /\ UNCHANGED <<hub, pending>>
       \/ /\ policy # Absent /\ PolicyFault(Absent)
          /\ PolicyCleanupFailed(m) /\ UNCHANGED pending
    /\ UNCHANGED <<seen, pc, run, insist, was, replaced, meddled,
                   submits, others, remounts>>

\* deleteMirrorPeerByName: one that is being deleted already is no error.
DeleteMirrorPeer(m) ==
    /\ cancel[m] = "deletePeer"
    /\ \/ /\ "mirrorPeer" \notin pending[m]
          /\ Cancelled(m) /\ NoFault /\ UNCHANGED <<hub, pending>>
       \/ /\ "mirrorPeer" \in pending[m] /\ peers[peer] # "none"
          /\ peers' = [peers EXCEPT ![peer] = "deleting"] /\ Done(m, "mirrorPeer")
          /\ Cancelled(m) /\ NoFault /\ UNCHANGED <<policy, stale>>
       \/ /\ "mirrorPeer" \in pending[m] /\ peers[peer] = "none"
          /\ StayOnPage(m) /\ NoFault /\ UNCHANGED <<hub, pending>>
       \/ /\ "mirrorPeer" \in pending[m] /\ peers[peer] # "none"
          /\ PeerFault(peer, "deleting") /\ StayOnPage(m) /\ UNCHANGED pending
    /\ UNCHANGED <<seen, pc, run, insist, was, replaced, meddled,
                   submits, others, remounts>>

\* Ready at 100 % for SUCCESS_HOLD_MS: the success page.  A cancel in flight
\* goes on behind it.
ShowSuccess ==
    /\ page = "pairing" /\ Ready
    /\ page' = "success"
    /\ UNCHANGED <<hub, seen, pc, cancel, run, pending, insist, history, bounds>>

\* The wizard shows a StatusBox as long as the MirrorPeers or the DRClusters are
\* not loaded; then the page is mounted again.  Its pendingCleanupRef starts from
\* the props and its Cancel can be clicked, while a Cancel of the page before it
\* goes on.
Remount ==
    /\ page = "pairing" \/ (page = "success" /\ ~skip)
    /\ remounts < MaxRemounts /\ remounts' = remounts + 1
    /\ page' = "pairing"
    /\ pending' = [pending EXCEPT ![mount + 1] = Cleanup(prev, isNew, newPeer)]
    /\ UNCHANGED <<hub, seen, pc, cancel, run, insist, history, submits, faults, others>>

-----------------------------------------------------------------------------
(* The environment.                                                        *)

WatchDelivers == /\ seen' = peers /\ seen' # seen
                 /\ UNCHANGED <<hub, page, pc, cancel, run, pending, insist,
                                history, bounds>>

\* The operator moves a MirrorPeer on, or is done with deleting it: external.
PeerProgresses ==
    /\ \E p \in Peer, phase \in {"ready", "failed", "none"} :
          /\ peers[p] = IF phase = "none" THEN "deleting" ELSE "configuring"
          /\ peers' = [peers EXCEPT ![p] = phase]
    /\ UNCHANGED <<policy, stale, seen, page, pc, cancel, run, pending, insist,
                   history, bounds>>

\* Another client creates, edits or deletes the DRPolicy.
OtherClient ==
    /\ others < MaxOthers /\ others' = others + 1
    /\ \E to \in {Absent, Other} \ {policy} : Write(to)
    /\ meddled' = TRUE
    /\ UNCHANGED <<peers, seen, page, pc, cancel, run, pending, insist,
                   was, replaced, outcome, lost, submits, faults, remounts>>

Create == \/ CreateMirrorPeer \/ GetPolicy \/ UpdatePolicy \/ CreatePolicy
          \/ UndoMirrorPeer
Cancel(m) == RestoreGet(m) \/ RestorePut(m) \/ DeletePolicy(m) \/ DeleteMirrorPeer(m)

Next == \/ Submit \/ Create \/ ClickCancel \/ ShowSuccess \/ Remount
        \/ \E m \in Mount : Cancel(m)
        \/ WatchDelivers \/ PeerProgresses \/ OtherClient

Spec == Init /\ [][Next]_vars

\* Calls settle, the watch delivers, the success timer fires, and a user who has
\* clicked Cancel clicks it again as long as it is offered.
FairSpec == /\ Spec
            /\ WF_vars(Create) /\ \A m \in Mount : WF_vars(Cancel(m))
            /\ WF_vars(WatchDelivers)
            /\ WF_vars(ShowSuccess) /\ WF_vars(insist /\ ClickCancel)
-----------------------------------------------------------------------------
(* Properties.                                                             *)

\* Every variable stays in its set.
TypeOK ==
    /\ policy \in PolicyState /\ prev \in PolicyState /\ replaced \in PolicyState
    /\ stale \in SUBSET Mount /\ newPeer \in BOOLEAN /\ skip \in BOOLEAN
    /\ isNew \in BOOLEAN /\ insist \in BOOLEAN
    /\ lost \in BOOLEAN /\ meddled \in BOOLEAN
    /\ peers \in Phases /\ seen \in Phases /\ peer \in Peer
    /\ page \in {"form", "failed", "busy", "pairing", "success"}
    /\ pc \in {"idle"} \cup RunSteps
    /\ cancel \in [Mount -> {"idle"} \cup CancelSteps]
    /\ attempt \in Nat /\ pending \in [Mount -> SUBSET Task]
    /\ was \in [policy : PolicyState, peers : SUBSET Peer]
    /\ outcome \in {"none", "written", "failed", "undoFailed", "cancelled"}
    /\ submits \in 0..MaxSubmits /\ remounts \in 0..MaxRemounts
    /\ faults \in Nat /\ others \in Nat

\* A completed Cancel has taken the whole run back: the DRPolicy is what it was
\* when Create was clicked, absent or with its previous spec, and so are the
\* MirrorPeers that nobody has deleted, however often Cancel failed and was
\* retried, by one page or by two at once, as long as nobody else wrote the policy
\* (onCancel of ClusterPairingProgress).
CancelUndoesRun ==
    outcome = "cancelled" /\ ~meddled =>
        policy = was.policy /\ Kept(peers) = was.peers

\* A run that ends in an error leaves neither a MirrorPeer nor a DRPolicy of its
\* own, unless an answer was lost or its rollback was rejected
\* (createPolicyPromises).
FailedRunLeavesNothing ==
    page = "failed" /\ outcome = "failed" /\ ~lost /\ ~meddled =>
        policy = was.policy /\ Kept(peers) = was.peers

\* "keeps resources this run did not create when Cancel is clicked": no step of
\* the wizard deletes a MirrorPeer that was there when Create was clicked.
OnlyOwnPeerDeleted ==
    [][\A p \in Kept(peers) \ Kept(peers)' : p \notin was.peers]_vars

\* "Only delete MirrorPeer after policy cleanup succeeds": Cancel never deletes
\* a MirrorPeer from under the DRPolicy the run wrote, not even when the
\* clean-up of the policy failed first.
PeerGoesLast ==
    [][(pc = "idle" /\ Kept(peers)' # Kept(peers)) => (policy # submits)]_vars

\* A user who wants out gets out: once API errors stop, Cancel returns to the
\* form or the pairing succeeds after all, or what Cancel has to delete is
\* already gone.
CancelEventuallyCompletes ==
    insist /\ page = "pairing"
        ~> page \in {"form", "success"} \/ policy = Absent \/ peers[peer] = "none"

\* "so retry can still remove the peer once restore/delete has completed": when
\* Cancel is clicked until it works, the MirrorPeer the run made goes, unless the
\* pairing succeeds first.
RetryRemovesPeer ==
    insist /\ page = "pairing" /\ newPeer
        ~> page \in {"form", "success"} \/ peer \notin Kept(peers)
=============================================================================

# A verification development for odf-console

odf-console is the set of OpenShift Console plugins for OpenShift Data
Foundation: `packages/odf` (storage systems and object browser), `packages/mco`
(regional disaster recovery across managed clusters), `packages/ocs`,
`packages/client` and the library `packages/shared` they rest on. It runs in
the browser and keeps no state of its own on a server. What can go wrong in it
is what happens *between* its calls: a wizard makes five calls and the third is
rejected, two users write one object, a watch is behind, a file is cancelled
while its batch is still waiting, an answer gets lost. The modules here model
the parts of the code that make several calls and take them back, that retry,
or that keep state which several callbacks write.

## Inventory

| component | state it keeps | operations | interacts with | hard behaviour |
|---|---|---|---|---|
| third-party DR policy creation (`mco/components/create-dr-policy`, `mco/utils/tps-payload-creator.ts`) | reducer state of the wizard, `CreatedResources` of a run | select clusters, edit S3 details, prefill, create, roll back | hub API server through `createOrUpdate` and the Ramen ConfigMap, DRCluster watch, hub operator | failure half way, rollback in any order, stale watch, lost answers, details of another pair |
| Data Foundation DR policy creation and pairing progress (same wizard, `cluster-pairing-progress`) | `policyPeerRef`, `pendingCleanupRef`, what the page shows | create or reuse a MirrorPeer, create or update the DRPolicy, follow, cancel, retry the cancel | hub API server, MirrorPeer watch and controller, timers | cancel of several calls, retries, concurrent writers, remount of the page |
| `createOrUpdate` (`shared/src/utils/k8s.ts`) | attempt, the object that was read | get, mutate, update, create, retry | API server; called by the DRPolicy, DRCluster, Secret, ConfigMap writers | conflicts, deletion between calls, statuses that are or are not retried |
| S3 uploads (`odf/components/s3-browser/upload-objects`) | `UploadStore.uploads` (global), status of the alert, the batches of each drop | drop, upload a batch, progress, cancel one, cancel all, dismiss | SDK uploader, alert, list, AbortUploadsModal | interleaving of callbacks, overlapping drops, cleared store |
| emptying, deleting and listing of buckets (`s3-browser`, `modals/s3-browser`) | markers of a delete loop, continuation tokens and data of two lists | empty, delete rows or an object for good, delete the bucket; next, previous, refresh, toggle of versions, search | S3 API, SWR hooks; a finished deletion refreshes the lists | failure on a later page, keys that are prefixes of others, overlapping requests, modals at work under the page |
| requests to managed clusters (`mco/utils/managed-cluster-*.ts`) | number of the poll | create, poll, delete a ManagedClusterView or -Action | hub API server, agent of the managed cluster; called by the policy assignment | timeouts, answers after the last poll, requests left on the hub |
| policy assignment and VM protection (`app-manage-policies`) | flags of what was labelled, the copied list of protected VMs | assign (alone, in a group, managed), unassign | hub API server, managed cluster through the requests above | partial failure, calls that go on after a rejection, lost update of the VM list |
| LUN groups and SAN connection (`modals/lun-group`, `CreateSANSystem`, `utils/retry.ts`) | selected LUNs, progress and error of a form | connect, create, expand, delete | API server, storage operator, LocalDisk watch | partial failure of parallel creations, retries of deletions by name, several forms at a time |
| fetch and poll hooks | last response, error | tick, fetch | proxies | late answers |
| storage system creation | wizard state | create resources in order | API server | partial failure without undo |
| everything else (dashboards, topology, forms over one call, shared components) | component state | display, one create or patch | watches | little; see `PROJECT.json` |

What makes each correct: a creation that reports success leaves everything its
result needs in place; one that reports failure, or is cancelled, leaves what
it found; nothing that was there before is deleted; writers do not overwrite
each other; every operation ends; what the user is shown of a file is what
became of it.

## Plan

1. *Done*: `ThirdPartyPeering`, `ClusterPairing`, `Uploads`, and `Upsert` with
   its implementation `CreateOrUpdate`; proofs of all.
2. *Done*: `RemoteCall` with its implementation `ManagedClusterRequest` and proofs;
   `PolicyAssignment`, whose labels are written by such calls, and proofs; `BucketCleanup`
   and on top of it `ObjectsList`, and proofs; `LunGroups` and proofs.
3. *Open*: `FetchHooks` (the answer shown is the answer to the present query) and
   the storage system wizard, whose hazards are listed in `PROJECT.json`.
4. *Done*: every type invariant, safety invariant and action property that a passing
   run checks is a theorem; what is left to the runs is liveness.

`ThirdPartyPeering` and `ClusterPairing` treat one call of `createOrUpdate`
respectively its get, update and create as steps; `CreateOrUpdate` justifies
the first: an upsert is atomic or throws.

## The modules

### ThirdPartyPeering
The branch of `createPolicyPromises` (`create-dr-policy/utils/k8s-utils.ts`) for
clusters without Data Foundation. `hub` holds the DRClusters with their profile
name, the profiles of the Ramen ConfigMap, the Secrets and the DRPolicy; `slot`
is `cluster1S3Details`/`cluster2S3Details`; `pc`, `at`, `sel`, `created` and `undo`
are the local variables of the run. One action per await of
`prepareThirdPartyPeering` (`RecreateDRCluster`, `PutSecret`, `PutProfile`,
`PutDRCluster`), `PutDRPolicy` for `createDRPolicy`, three actions for the
calls of `rollbackThirdPartyResources`, which settle in any order, and one
action for each edit of the form. A call is answered, rejected without effect,
or takes effect and loses its answer. DRClusters have finalizers: a deleted one
stays, dying, until `FinalizeDRCluster`. Details are reduced to the cluster they
are about, their profile name and whether the rest is filled in, which is all the
code compares; a Secret is named by a hash of the details and so by the first two.
`PrefillDetails` shows the profiles found, with their names and without credentials.
`updateRamenHubOperatorConfig` repeats a get and an update of one profile with
`retryWithBackoff`; it is one await here.

### ClusterPairing
The Data Foundation branch and `ClusterPairingProgress`. The DRPolicy's spec is
named by its writer, MirrorPeers by identity, so that "what was there before"
can be told from what the run made. The get, update and create of the DRPolicy
are separate steps here, because another client may write in between and
`previousPolicySpec` is taken in the first of them. The wizard unmounts the pairing
page while the MirrorPeers or DRClusters are not loaded and mounts it again
(`Remount`), also while a Cancel is at work: that one goes on, and the new page,
whose `pendingCleanupRef` starts from the props, can begin a second. So `cancel`,
`pending` and the copies of the policy (`stale`) are those of each mount. A deleted
MirrorPeer is listed as "deleting" until the operator is done with it; `Kept` are
those nobody has deleted. `ShowSuccess` may replace the page while a cancel is on its
way, as in the code. Left out is a new run submitted while a Cancel of the run before
is still at work, which a page mounted anew makes possible.

### Uploads
`UploadStore`, `uploadFile` and `FileUploadComponent`. JavaScript runs one task at
a time: `Launch`, `Settle` and `Finish` are continuations and go before any task
(`Quiet`). The i-th settled promise is matched with the i-th file of the batch as
the code does, also when cancelled files were filtered out before. `owner` of an
entry is the drop whose aborter it holds; an entry that `uploadCompleted` makes
after the store was cleared does not know its own key (`keyed`). The last byte
reported makes a file complete (`store.ts:120`) before its upload is resolved, and
a rejection after that changes nothing (`uploads.ts:50`); the history `reported`
keeps these files, and `ShownAs` says what may be shown of each.

### Upsert and CreateOrUpdate
`Upsert` says what a set of concurrent `createOrUpdate` calls promises: each
change is made at once, on the object as it is then, at most once, and the caller
hears what became of it or gets an error. `CreateOrUpdate` is the loop of
`shared/src/utils/k8s.ts` with resource versions, 404s, 409s, refusals by status
and lost answers. The object is the set of the changes it bears, so an overwritten
change is visible. The calls of `Replacing` are those whose `mutate` returns an
object of its own (`external-systems/common/payload.ts`,
`enableScaleEncryption.ts`); `dirty` says that a first attempt has left a
resourceVersion in it, and then the server refuses to create it.

### RemoteCall and ManagedClusterRequest
`RemoteCall` is what a caller of `fireManagedClusterView` or `fireManagedClusterAction`
may rely on: the promise settles once, it resolves only for a request that the
managed cluster has carried out, and a rejected one may still be carried out
later. `ManagedClusterRequest` is the two functions, which differ in names only:
the create, the poll with its twenty tries, the delete, and what is made of the
status. The agent of the managed cluster takes a request up, acts, and writes a
status when it likes or never. The delete rethrows a 404: the `NotFoundError` its
catch asks for is not what the SDK throws (and `!a || !b` is true for every other
error), so a request that somebody else deletes rejects the promise.

### PolicyAssignment
`assignPromises` and `unAssignPromises`. An operation is a sequence of awaits
(`Stages`), each a set of tasks that go on in parallel; `Work` and `Reject` settle
one task, `Advance` goes on to the next await, and `Cleanup` is what the catch does,
from the flags at that moment. The tasks left over by a rejection are in `late`
and take effect or not. A label is a `RemoteCall`: rejected, it may still be
written. The deletion of a DRPC is one step: one that is still listed because of its
finalizers, and a user who picks it meanwhile, are left out. `copy` is the list of protected VMs as it was when the group's row was
selected or the modal was opened. Two histories say which runs a property is
about: `overlap`, two operations met on one VM, group or application, and
`unrepaired`, a call failed where no catch undoes what went before, or an assignment was
tried again for a VM that another user had protected meanwhile (`Outdated`): the wizard
does not look again, and protects it a second time. Not undone are
a label whose rejected task was carried out, a Promise.all over several volumes
(the flag `pvcsLabeled` is only ever set by the last statement of the `try`, so the
branches that take labels off PVCs are never reached), all of a managed
application, and a failed catch.

### BucketCleanup and ObjectsList
`BucketCleanup` is a versioned bucket and the operations that delete from it.
Versions and delete markers are numbered in the order of a listing, `KeyAt` is the
key of each, and `HasPrefix` says which keys begin with which: the listing of
`DeleteObjectsModal` is by prefix, and the code must pick its own. One step lists a
page, one deletes it; what the service keeps (`Locked`) comes back as Errors. An
empty list of keys may be refused by the service. `ObjectsList` adds the page: two
lists, each with its SWR hook, its tokens and its calls on their way. As in SWR
only the newest call of a hook sets `data` and `error`, but each caller gets its
answer and sets the tokens from it (`NewTokens`). A modal remembers the
`refreshTokens` of the list it was opened from, also when the page shows the other
one when it ends; a failed deletion does not refresh. The list is mounted anew by
the Refresh button, the end of an upload, another tab and back (`Remount`) and the
end of EmptyBucketModal (`FinishEmpty`), with new hooks and the list of objects. A
modal that is at work keeps the `refreshTokens` of the list that is gone (`opener` is
"gone") and refreshes nothing: the new list keeps what it fetched before the end of the
deletion, deleted rows too.

### LunGroups
The forms that connect a SAN, with the test of the image registry before it, create a
group of LUNs and expand it, and the modal that deletes one. A LocalDisk has the name of its device; a FileSystem names its
disks. `Promise.all` over the creations of LocalDisks is one action for each, and
after the first rejection the others are in `late`. A deletion labels the
FileSystem, deletes it and then, with `retryWithBackoff`, each of the disks it had
when the modal was opened, by name; the operator may refuse that until it is done
with the FileSystem (`Finalize`). A LocalDisk whose deletion was accepted counts as gone:
as long as finalizers keep it listed its device is not offered, a creation is refused
as by a fault, and a second deletion is as good as a NotFound. The modal looks for PVCs of a StorageClass with
the name of the group, and those of a group are named otherwise, so no PVC is in
the model. `crossed` tells of deletions by name that met the LocalDisk somebody
had made after the first was gone.

`MCThirdPartyPeering`, `MCUploads`, `MCCreateOrUpdate`, `MCPolicyAssignment`,
`MCObjectsList` and `MCLunGroups` only give the small sets, and the symmetry where
there is one.

## The runs

| run | instance | shows |
|---|---|---|
| `third_party` | 2 clusters, 2 profile names, 2 clicks on Create, 2 rejected calls, 1 change of the pair | `PolicyOverBackedClusters`, `RollbackRestoresHub`, `DRClusterComesLast`, `EveryStepIsProgress` |
| `third_party_profiles` | 4 clusters, no fault | violation: two DRClusters with one profile |
| `pairing` | 2 clicks, 2 rejected calls, 1 foreign write, 1 remount, also beside a Cancel at work, 3 attempts | `CancelUndoesRun`, `FailedRunLeavesNothing`, `OnlyOwnPeerDeleted`, `PeerGoesLast`, `CancelEventuallyCompletes` |
| `pairing_retry` | 1 click, 1 lost answer | violation: a retry of Cancel does not remove the MirrorPeer |
| `uploads` | 3 files, batches of 2, 2 drops of `<<>>`, `<<k1,k2,k3>>` or `<<k3,k1>>` | `CancelAllIsFinal`, `EveryFileAccountedFor`, `CompletedStays`, `DropFinishes` |
| `uploads_cancel` | the same | violation: "Yes, cancel" does not stop the uploads of an earlier drop |
| `upsert` | 3 calls, one replacing, 3 attempts, 1 fault, 1 foreign change | `RefinesUpsert`, `ExhaustedOnlyByRivals`, `EveryCallEnds` |
| `upsert_server_errors` | the same without the foreign change | violation: a 5xx is not retried |
| `managed_cluster_request` | 2 requests, 3 polls, 2 faults | `RefinesRemoteCall`, `OnlyFaultsLeak`, `EveryRequestSettles`, `AnswerInTimeIsHeard` |
| `policy_assignment` | 2 users, 2 VMs, one with two volumes, a managed application, 2 operations, 1 rejected call | `QuietIsConsistent`, `DoneMeansDone`, `OthersStayProtected`, `VolumesOutliveDRPC`, `EveryRunEnds` |
| `objects_list` | 4 versions and markers of 2 keys, pages of one and of two, 2 deletions, 1 rejected call, 3 calls by the user (pages, searches, remounts) and 2 refreshes, of which 2 overlap | `DeletesExactlyItsOwn`, `TokensMatchPage`, `DeletedRowsDisappear`, `DeletionEnds` |
| `lun_groups` | 2 forms, 2 names, 2 devices, 2 attempts, 1 rejected call | `GroupsKeepTheirDisks`, `ClosedMeansGone`, `EverySubmitEnds` |

*Bounds.* A DRPolicy pairs two clusters, so two clusters and one change of their
order exercise the form; the second click meets what the first one left, and
with two faults one can end the first run and one its rollback or the second
run. Two submits of the pairing give a reused and an own MirrorPeer. Three files
in batches of two give a full and a partial batch, and the second list shares
files with the first at other positions. Three calls are enough for one to meet
two rivals, which with a foreign change exhausts `maxRetries = 3`. Three polls have a
first, a middle and a last one. Two operations of two users on two VMs give a group
of two, a removal that meets an assignment, and a retry after a failure. Four places
of two keys give pages that hold both keys, a page without the own key, and a
second page of the list; with two deletions a row of the first can come back, as an
older version that the second reveals or as a marker put in again. Two forms are one that deletes or is half way and one
that takes its devices.

*Conditions inside the properties.* `PolicyOverBackedClusters` speaks of runs that
start from a current view of the hub with details of the selected clusters:
from details of another pair the code does end in a policy without DRClusters.
`RollbackRestoresHub` leaves out lost answers, rejected rollback calls and
resources that were there before and were only updated, which the rollback
deletes. `EveryFileAccountedFor` leaves out stores cleared under a drop. It says of
the rest exactly what the code does, which is not all a user would wish: a file is
complete if and only if its upload was resolved or its last byte reported, so one
whose upload is rejected after full progress stays complete; and where a cancelled
file has shifted the positions of a batch, a failed one may stay in progress. `QuietIsConsistent` and the
action properties of `PolicyAssignment` leave out `overlap`, the first also
`unrepaired`, with the outdated assignments in it. `TokensMatchPage` leaves out lists whose calls overlapped (`crossed`):
two answers then shift the tokens one after the other while `data` is of one of
them; that the rows shown are those of the present query holds there, too.
`DeletedRowsDisappear` speaks of lists that stayed mounted until the deletion was over,
and of no list that was mounted anew under it. `CancelUndoesRun` leaves out runs in
which another client wrote the policy. `ClosedMeansGone` is about the disks that the
group had when the modal was opened: one that an expansion adds meanwhile is left
behind in silence, although the modal says "All associated LocalDisks"
(`DeleteLUNModal.tsx:310`). `DeletesExactlyItsOwn` makes no claim about the alert after a rejected call.
`GroupsKeepTheirDisks` leaves out `crossed`: a deletion by name has no UID to tell
the disk it means from its successor. Each of these is a hazard in `PROJECT.json`. Where
the code goes wrong there, the hazard says so and lists no property.

*Deadlock* is not checked: once the bounds on clicks, drops and faults are used
up, the user is done.

*Fairness.* `ClusterPairing`: calls settle, the watch delivers, the success timer
fires, and a user who clicked Cancel clicks it again while it is offered (the
one assumption about a user; the property is about such a user). `Uploads`:
continuations run and the SDK settles each upload. `CreateOrUpdate`: the browser
goes on with each call. `ManagedClusterRequest`: the browser goes on with every call
it has begun; the agent owes nothing. `PolicyAssignment`, `ObjectsList` and
`LunGroups`: the calls of an operation are answered or rejected, as the browser's
are, so each is a weak fairness of the steps of one run; nobody has to click, no
list has to be answered, no operator has to finalize, and no call that nobody
awaits has to take effect. No fairness is assumed of other clients or operators.

## Proofs

Proved for all values of the constants, with TLAPS:

`CreateOrUpdateProofs`. The inductive invariant `IInv` is the type invariant with
- `Snapshot`: what a call holds as `current` is the object if its revision is still
  the server's, and is empty before a create. Without it an update that passes the
  resourceVersion check could still write back old data.
- `Counting`: each attempt behind a call is matched by a write of the object since
  the call began or by a retried refusal.

`TypeCorrect`, `NobodyStarves` (`ExhaustedOnlyByRivals`) and `Refinement`
(`RefinesUpsert`) follow. For the last, a write that succeeds is `Put`, a lost
answer is `PutUnheard`, the end of the attempts or a refusal is `GiveUp`, and all
other steps stutter. It needs the assumptions that `Foreign` is not a client, that
`Replacing` are clients and that `MaxRetries > 0`.

`ClusterPairingProofs`. `IInv` is the type invariant with
- `Ownership`: a MirrorPeer with the run's number is the run's own and was not there
  before; only such a one is ever in `pending` or undone;
- `Authors`: who may have written the policy, so that the spec a cancel restores is
  never the run's own;
- `Stages`: a run and a Cancel are never at work together, and no mount of the page is
  ahead of its time;
- `Covered`, for each mount that is shown or whose Cancel is at work: as long as the
  policy is the run's, its clean-up is pending there, and the deletion of the MirrorPeer
  is only reached when none is. So two Cancels may overlap: what one has done the other
  finds done, or repeats without harm.

`TypeCorrect`, `OwnPeerOnly` (`OnlyOwnPeerDeleted`) and `PolicyGoesFirst`
(`PeerGoesLast`) follow. For what is left behind, `TInv` adds to it
- `Ends`: on which page a run that was cancelled or has failed has come to rest;
- `PolicyTraced`: as long as nobody else wrote it, the policy is the one of the
  click, or its clean-up is pending at every mount at work and `prev` is the spec of
  the click;
- `PeersTraced`: the MirrorPeers nobody has deleted are those of the click and perhaps
  the run's own, whose deletion is then pending at every mount at work.

Without the last two a retry of Cancel, or a page mounted anew, would begin from a
`pending` that says nothing of the hub. `CancelTakesBack` (`CancelUndoesRun`) and
`FailureTakesBack` (`FailedRunLeavesNothing`) follow.

`ThirdPartyPeeringProofs`. `IInv` is the type invariant with
- `Named`, `Recreated`: the loop calls only for a cluster that has details, and
  deletes a DRCluster only to make it anew under another name;
- `Written`: what the awaits before the present one have left on the hub for this
  cluster;
- `DyingExist`: what is marked for deletion is still there;
- `SoundRun`, for a run whose view was sound at the click: the forms keep to their
  own clusters and names (`FormsApart`), the clusters done are backed under their
  own names (`Done`), those to come are still as the run has seen them, but for the
  one it has just deleted (`ToCome`), and at the policy both are (`BothBacked`,
  `PolicyThere`). Without `FormsApart` the profile of the second cluster could
  replace that of the first, which `Done` would not survive.

`TypeCorrect`, `PolicyStands` (`PolicyOverBackedClusters`) and `DRClusterLast`
(`DRClusterComesLast`) follow; for the last, `Written` is all that is needed, so it
holds of runs from any view. For `RollbackRestoresHub`, `RInv` adds to it
- `Traced`: as long as no fault hid a write and the run overwrote nothing, the hub is
  that of the click and what is owed to the rollback (`Owed`: what the run has recorded,
  or what the rollback has still to undo);
- `Idle`: a run that has failed owes nothing, so the next begins from its own click.

`RollbackRestores` follows: at the end nothing is owed, and the hub is that of the click.
For `EveryStepIsProgress`, `PInv` adds to `IInv` that a run records at most one Secret,
profile and DRCluster for each cluster of the pair (`FewRecorded`): a rejected call then
leaves at most six resources to undo, fewer than the steps that any run may still have
before it, so that going over to the rollback is progress too (`RunEnds`).

`ManagedClusterRequestProofs`. `IInv` is the type invariant with what is known at each
await (`NotBefore`, `Truthful`, `Counting`): a settled request, or one not yet created, is
not on the hub unless a fault was for it; whatever has the verdict or the status
"success" was carried out; and no poll has a number beyond the limit. Without the
second a resolve could not be shown to be `RemoteCall`'s, as the
status is read one step before. `TypeCorrect`, `NothingLeaks` (`OnlyFaultsLeak`) and
`Refinement` (`RefinesRemoteCall`) follow; the create fires the call, `Act` carries it
out, the delete resolves or rejects it, and polls stutter.

`LunGroupsProofs`. `IInv` is the type invariant with what a form is at each of its
steps (`Sound`) and, as long as no deletion has met a successor (`~crossed`), `Owned`:
- `PoolsStand`, `PoolsApart`: what is to be shown;
- `MadeStand`, `MadeFree`, `MadeApart`: a LocalDisk that a form has made and not yet
  handed to its group is there and is nobody else's, so that the group may take it;
- `DoomedOwn`: what a deletion was opened for, as long as it was there all the time,
  was made by no form and is in no standing group but the one to be deleted, and in
  none once its disks are being deleted;
- `LeftoverOwn`: the same of a group that the operator has not let go of, for which
  the modal can be opened a second time.

`TypeCorrect` and `DisksKept` (`GroupsKeepTheirDisks`) follow; that a creation is
refused while the LocalDisk is there (`Taken`) is what they rest on. For
`NothingLeftBehind` (`ClosedMeansGone`), `Accounted` says that each disk of a deletion
is left to do, kept as a failure or known to have been away.

`UploadsProofs`. `IInv` is the type invariant with `NotBegun` (drops to come have
nothing), `Distinct` (a drop has each file once), `Over` (a drop that is done has gone
through its files) and `Keyed` (only a listed file has an aborter), and, until the store
is cleared under a drop (`Undisturbed`):
- `OneAtATime`, `Owned`: only the last drop is at work, and each of its uploads can be
  aborted through the entry of its file;
- `Listed`, `Awaited`, `Shown`: its files are listed, it awaits no more promises than
  its batch has files, and what was uploaded is shown so;
- `ToCome`: the files of later batches are as dropped, or cancelled. Without it Cancel
  could not be shown to stop the batches that have not begun;
- `CancelAllIsFinal` itself;
- `Passed`: what the files of the batch that is awaited and their uploads may be;
- `Handled`: each file of an earlier batch has come to its end as `ShownAs` says
  (`Fits`); and `Whole`, while the filter took no part of a batch: the promises are
  those of the batch, so that each failure is written to its own file.

`TypeCorrect`, `CancelFinal` (`CancelAllIsFinal`), `AllAccountedFor`
(`EveryFileAccountedFor`) and `CompletedKept` (`CompletedStays`) follow. The filter is
defined by the ranks of the places it keeps, as `SelectSeq` is recursive and the prover
cannot reason about it: `NthFacts` and `Chosen` say what it returns.

`PolicyAssignmentProofs`. `TInv` is the type invariant with what a run is about
(`About`) and what it awaits (`Waits`: tasks of its present stage or of its catch only);
`StageTasks` and `CleanupTasks` say that each of them is the run's own (`Owns`), and
`EffectFacts` what one does to the world. `IInv` adds, until two operations meet:
- `Separate`: the runs under way, and those that failed with tasks still on their way,
  are about different VMs and placements, and every task that nobody awaits belongs to
  one of the latter;
- `Progressed`: what a run has done in its try still stands. `OthersLeaveIt` carries it
  over the steps of others, late ones too, and `RunKeepsIt` over its own;
- `LateOutlive`: a deletion that nobody awaits is of an annotated DRPC, too.

Without the owners in `Separate` a late label or a late write of a list could undo what
another run has just done. `TypeCorrect`, `OthersKept` (`OthersStayProtected`: a list
written from a fresh copy changes by the run's own VM only, `OwnVMOnly`), `VolumesKept`
(`VolumesOutliveDRPC`) and `DoneIsDone` (`DoneMeansDone`) follow. The last holds where no
volume is shared by two VMs (`OwnVolumes`, a hypothesis of the theorem): Kubernetes lets
VMs share one, and the label of the second protection then replaces that of the first.

For `QuietIsConsistent`, `Tidied` says more of the world, as long as the histories allow:
no call is on its way that nobody awaits, and
- `OnTheWay`: a VM that a run is about is as far as the run (`Midway`): what bears its
  label and which list has it follows from the stage, the open tasks and, in the catch,
  from what is still to be taken back;
- `AtRest`: any other VM is `Whole`, listed with its labels or without either;
- `AllFit`, `ListsMatch`: runs are of their kind, and a DRPC lists a VM. The list that a
  catch writes back is then never empty;
- `AllFounded`: a name has one owner at most (who is alone in the list of its DRPC and may
  delete it) and one holder (who has its placement without the DRPC, before the one is
  made or to delete it), and its placement exists when it is held, or the DRPC stands and
  nobody is about to delete it. Without holders a placement alone could not be told from
  one left behind; without the one owner the placement of another's DRPC could go.

Each step is about one VM and one name (`TidyStep`, `NamesStep`): for the VM it is
`WorkMidway`, `AdvanceSame` or `RejectSame`, for the name one of `Locking`, `Making`,
`Unlocking`, `Unmaking`, `Dooming`, `Claiming` and `NoRole`. `QuietConsistent` follows, as
nobody owns or holds anything once all runs are over. It needs `OwnVolumes`, too. The
attempt has shown the second half of `unrepaired`: of two VMs with two names the property
would fail after an outdated assignment, which the run with one name does not reach.

`ObjectsListProofs`. `CInv`, of the operations, is the type invariant with
- `Aimed`: what each operation is about, and that versions not put yet are no part of it;
- `Swept`: what the loop has passed of the versions of the click is deleted or on the
  page it deletes next, and the last page leaves none behind. That the listing ends
  with the key is right because the service lists by key (`OrderAssumption`: a key
  comes before those it is a prefix of);
- `Counted`: the summary counts what is gone, and no more.

`LInv`, of the page, is its type invariant with a bound on the calls (`Bounded`) and
- `NeverPut`: a version that was not put yet is in no list and no answer;
- `Vanished`: what is due to be gone is in no row of the bucket, and in no answer that
  a list is still to show. An answer to an older call may still have it, and those set
  no `data`. Without the first half the next answer could bring the row back;
- `Lone`: until calls overlap, the list shown has at most one on its way, which is the
  one its tokens ask for (`Asked`), and with none on its way tokens and data are of one
  page (`Matched`), the tokens being those of a walk from the first page (`Chain`);
- `Answers`: an answer is of its call's own query and token, and its next token is
  beyond that;
- `Current`: the newest call of the list shown, and what it shows, are of the query it is
  at.

`TypeCorrect`, `OnePage` (`TokensMatchPage`), `Disappear` (`DeletedRowsDisappear`) and
`ItsOwn` (`DeletesExactlyItsOwn`) follow. `Least` and `Greatest` give the first and last
of a set of places, from which `PageFacts` says what a page of the service is.

Only model-checked: the liveness properties `CancelEventuallyCompletes`,
`DropFinishes`, `EveryCallEnds`, `EveryRequestSettles`,
`AnswerInTimeIsHeard`, `EveryRunEnds`, `DeletionEnds` and `EverySubmitEnds`, as fairness
is beyond the prover.

## Disagreements between code and comments

- `third_party_profiles`: "each DRCluster must reference a unique profile" holds
  within a pair only.
- `pairing_retry`: a retry of Cancel cannot remove the MirrorPeer once the deletion
  of the policy has succeeded without an answer.
- `uploads_cancel`: files of an earlier drop are not stopped.
- `upsert_server_errors`: 5xx statuses are not retried although the comment says so.

Met while modelling and without a run of their own:

- `EmptyBucketModal.tsx:300` says "Your bucket is now empty" also when a call was
  rejected on the way: the response of an earlier page, or none, has no Errors.
- `managed-cluster-view.ts:21` and its twin mean to ignore a 404 and rethrow it.
- `k8s-utils.ts:551` and `:633` of the policy assignment take labels off PVCs under a
  flag that is never set there.
- `DeleteLUNModal.tsx` says that a group in use by PVCs cannot be deleted, but
  looks for a StorageClass of the group's name; a group's classes are
  `san-<name>` and `san-<name>-vm`.
- `DeleteObjectsModal.tsx:277`: when the list is mounted anew while a deletion is at work,
  its end refreshes the list that is gone, and the new one may keep the deleted rows.
- `store.ts:120` with `uploads.ts:50`: an upload that is rejected after full progress is
  shown as complete.
- `CreateSANSystem.tsx`: when the cluster was created and the CSI driver or the
  labels failed, a retry skips them, as the cluster is taken for configured.

## Not modelled

Presentation, forms over one call, validation of text, dashboards, the topology
and generated clients: each is listed with its reason in `PROJECT.json`. They are
the bulk of the repository: of some 154 000 lines, most are React markup, types,
translations of watched resources into rows and charts, and a bundled package
manager. They keep no state that outlives a render and make at most one call, so
a state machine of them would say nothing that its text does not. What is
modelled is the code that makes several calls, retries, undoes, or shares state
between callbacks; what is left of that kind are the fetch hooks, the storage
system wizard and the retries of `updateRamenHubOperatorConfig` around the Ramen
ConfigMap. The API server, the hub operators, the storage operator, the agents
of the managed clusters, S3, the S3 SDK's uploader, SWR and the browser's event
loop are external and modelled from how the code uses them.

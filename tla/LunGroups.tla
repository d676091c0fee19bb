------------------------------- MODULE LunGroups -------------------------------
(***************************************************************************)
(* LUN groups of a SAN storage system (packages/odf): connecting the SAN   *)
(* (CreateSANSystem), creating and expanding a group (AddLunGroupModal) and*)
(* deleting it (DeleteLUNModal, with retryWithBackoff).                    *)
(*                                                                         *)
(* A LocalDisk has the name of its device, so that its creation takes the  *)
(* device; a FileSystem, the group, names its LocalDisks.  A run is the    *)
(* life of one form or modal, of any user.  Deletions are by name.  The    *)
(* storage operator, which lets go of a deleted FileSystem when it likes   *)
(* and may meanwhile refuse to delete its LocalDisks, is external.         *)
(***************************************************************************)
EXTENDS Naturals, FiniteSets

CONSTANTS
    Runs,      \* how many forms are opened, in the order of their numbers
    Group, Device,
    Pools,     \* what the groups may be at first: disks of each, none if absent
    MaxTries,  \* maxRetries + 1
    MaxFaults  \* bound: rejected calls

Run == 1..Runs
ASSUME RunAssumption == Runs \in Nat /\ MaxTries \in Nat \ {0} /\ MaxFaults \in Nat
ASSUME PoolAssumption ==
    /\ Group # {} /\ Pools \subseteq [Group -> SUBSET Device]
    /\ \A pool \in Pools, g, h \in Group : g # h => pool[g] \cap pool[h] = {}

VARIABLES
    localDisks, \* the LocalDisks that there are
    fs,         \* the FileSystems
    setup,      \* calls of the local cluster's set-up that have taken effect
    form,       \* each run: what was picked (the disks of a group to delete), the
                \* disks of this attempt, what is left to be done, what failed
    late,       \* creations of LocalDisks whose answer nobody awaits
    faults,
    away,       \* history: LocalDisks that were away since a group took them
    absent,     \* history: LocalDisks that were away since a run began, or since
                \* the group that it is to delete took them
    crossed     \* history: a deletion by name met a successor of its disk

vars == <<localDisks, fs, setup, form, late, faults, away, absent, crossed>>

Kinds == {"connect", "create", "expand", "delete"}
SetupCalls == {"label", "cluster", "csi", "metrics"}
Waiting == {"none", "form", "closed"}
\* testRegistryConnection, with the local cluster yet to be set up or without.
RegistryCalls == {"registry", "registryOnly"}
Steps == Waiting \cup RegistryCalls \cup SetupCalls \cup {"disks", "group", "allow", "delete", "deleteDisks"}
States == {"absent", "live", "dying"}

Unopened == [kind |-> "create", group |-> CHOOSE g \in Group : TRUE, picked |-> {},
             disks |-> {}, pc |-> "none", left |-> {}, kept |-> {}, tries |-> [d \in Device |-> 0], error |-> FALSE]

Init ==
    /\ \E pool \in Pools :
          /\ fs = [g \in Group |-> [state |-> IF pool[g] = {} THEN "absent" ELSE "live",
                                    pool |-> pool[g]]]
          /\ localDisks = UNION {pool[g] : g \in Group}
    /\ setup = {}
    /\ form = [r \in Run |-> Unopened]
    /\ late = {} /\ faults = 0
    /\ away = [g \in Group |-> {}] /\ absent = [r \in Run |-> {}] /\ crossed = FALSE

\* filterUsedDiscoveredDevices
Free == Device \ localDisks
Live(g) == fs[g].state = "live"

-----------------------------------------------------------------------------
(* The forms.                                                              *)

Become(r, f) == form' = [form EXCEPT ![r] = f]

Open(r, kind, g, picked) ==
    /\ form[r].pc = "none" /\ \A q \in 1..(r - 1) : form[q].pc # "none"
    /\ Become(r, [Unopened EXCEPT !.kind = kind, !.group = g, !.picked = picked, !.pc = "form"])
    /\ absent' = [absent EXCEPT ![r] = Free \cup (IF kind = "delete" THEN away[g] ELSE {})]
    /\ UNCHANGED <<localDisks, fs, setup, late, faults, away, crossed>>

\* A name that no FileSystem has; connecting does not need a group.
OpenCreate(r) ==
    \E g \in Group : /\ fs[g].state = "absent"
                     /\ \/ \E disks \in SUBSET Free \ {{}} : Open(r, "create", g, disks)
                        \/ \E disks \in SUBSET Free : Open(r, "connect", g, disks)
OpenExpand(r) ==
    \E g \in Group, disks \in SUBSET Free \ {{}} : Live(g) /\ Open(r, "expand", g, disks)
\* No PVC is in the way: usedByPVCs looks for a StorageClass with the name of the
\* group, and those of a group have the names san-<group> and san-<group>-vm.
OpenDelete(r) ==
    \E g \in Group : fs[g].state # "absent" /\ Open(r, "delete", g, fs[g].pool)

Goto(r, pc) == Become(r, [form[r] EXCEPT !.pc = pc])
\* Mutant: the form stays in progress.
FailM(r) == Become(r, [form[r] EXCEPT !.error = TRUE, !.left = {}])
\* The catch: the error is shown and the form can be submitted again.
Fail(r) == Become(r, [form[r] EXCEPT !.pc = "form", !.error = TRUE, !.left = {}])
\* closeModal, or navigate.
Close(r) == Goto(r, "closed")

\* createLocalDisks begins, with all its calls at once; with none it throws.
StartDisks(r, disks) ==
    IF disks = {} THEN Fail(r)
    ELSE Become(r, [form[r] EXCEPT !.pc = "disks", !.disks = disks, !.left = disks, !.error = FALSE])

\* After the set-up; connecting without a group ends here.
AfterSetup(r) == IF form[r].picked = {} THEN Close(r) ELSE StartDisks(r, form[r].picked)

Submit(r) ==
    /\ form[r].pc = "form"
    /\ CASE form[r].kind = "connect" ->
              \* useIsLocalClusterConfigured, whose watch may be behind, and
              \* showRegistrySection; the devices are not filtered again.
              \/ "cluster" \in setup /\ (AfterSetup(r) \/ Goto(r, "registryOnly"))
              \/ Goto(r, "label") \/ Goto(r, "registry")
         [] form[r].kind \in {"create", "expand"} ->
              \* the LocalDisks of the moment, or those of a watch that is behind
              StartDisks(r, form[r].picked \cap Free) \/ StartDisks(r, form[r].picked)
         [] form[r].kind = "delete" -> Goto(r, "allow")
    /\ UNCHANGED <<localDisks, fs, setup, late, faults, away, absent, crossed>>

\* A rejected call; its effect may be there all the same.
Fault == faults < MaxFaults /\ faults' = faults + 1

-----------------------------------------------------------------------------
(* Connecting.  The local cluster and the CSI driver are created, which a  *)
(* second time is refused; the labels are set again.                       *)

\* testRegistryConnection: what is wrong with the registry is shown in the form.
TestRegistry(r) ==
    /\ \/ form[r].pc = "registry" /\ Goto(r, "label")
       \/ form[r].pc = "registryOnly" /\ AfterSetup(r)
       \/ form[r].pc \in RegistryCalls /\ Fail(r)
    /\ UNCHANGED <<localDisks, fs, setup, late, faults, away, absent, crossed>>

NextSetup(call) == CASE call = "label" -> "cluster" [] call = "cluster" -> "csi"
                     [] call = "csi" -> "metrics"

SetUp(r) ==
    LET call == form[r].pc IN
    /\ call \in SetupCalls
    /\ \/ /\ call \notin setup \cap {"cluster", "csi"}
          /\ setup' = setup \cup {call} /\ UNCHANGED faults
          /\ IF call = "metrics" THEN AfterSetup(r) ELSE Goto(r, NextSetup(call))
       \/ /\ \/ call \in setup \cap {"cluster", "csi"} /\ UNCHANGED <<setup, faults>>
             \/ Fault /\ setup' \in {setup, setup \cup {call}}
          /\ Fail(r)
    /\ UNCHANGED <<localDisks, fs, late, away, absent, crossed>>

-----------------------------------------------------------------------------
(* createLocalDisks and the FileSystem.                                    *)

\* Mutant: a LocalDisk that is there already will do.
TakenM(d) == FALSE
\* 409
Taken(d) == d \in localDisks

MakeDisk(r, d) ==
    /\ form[r].pc = "disks" /\ d \in form[r].left /\ ~Taken(d)
    /\ localDisks' = localDisks \cup {d}
    /\ Become(r, [form[r] EXCEPT !.left = @ \ {d},
                                 !.pc = IF form[r].left = {d} THEN "group" ELSE "disks"])
    /\ UNCHANGED <<fs, setup, late, faults, away, absent, crossed>>

\* Promise.all rejects at the first rejection; the other calls go on.
RefuseDisk(r, d) ==
    /\ form[r].pc = "disks" /\ d \in form[r].left
    /\ \/ Taken(d) /\ UNCHANGED <<localDisks, faults>>
       \/ Fault /\ localDisks' \in {localDisks, localDisks \cup {d}}
    /\ late' = late \cup (form[r].left \ {d})
    /\ Fail(r)
    /\ UNCHANGED <<fs, setup, away, absent, crossed>>

MakeLate(d) ==
    /\ d \in late /\ late' = late \ {d}
    /\ localDisks' \in {localDisks, localDisks \cup {d}}
    /\ UNCHANGED <<fs, setup, form, faults, away, absent, crossed>>

\* createLocalFileSystem, or the patch of updateLocalFileSystem.
GroupThere(r) == IF form[r].kind = "expand" THEN fs[form[r].group].state # "absent"
                 ELSE fs[form[r].group].state = "absent"
Grown(r) ==
    LET g == form[r].group IN
    IF form[r].kind = "expand" THEN [fs EXCEPT ![g].pool = @ \cup form[r].disks]
    ELSE [fs EXCEPT ![g] = [state |-> "live", pool |-> form[r].disks]]

MakeGroup(r) ==
    /\ form[r].pc = "group"
    /\ \/ GroupThere(r) /\ fs' = Grown(r) /\ Close(r) /\ UNCHANGED faults
       \/ GroupThere(r) /\ Fault /\ fs' \in {fs, Grown(r)} /\ Fail(r)
       \/ ~GroupThere(r) /\ UNCHANGED <<fs, faults>> /\ Fail(r)
    /\ away' = IF fs' = fs THEN away ELSE [away EXCEPT ![form[r].group] = @ \ form[r].disks]
    /\ UNCHANGED <<localDisks, setup, late, absent, crossed>>

-----------------------------------------------------------------------------
(* deleteFileSystem.                                                       *)

\* The label allowDelete; the deletion of the StorageClasses goes with it, as its
\* failure is ignored.
Allow(r) ==
    /\ form[r].pc = "allow"
    /\ \/ fs[form[r].group].state # "absent" /\ Goto(r, "delete") /\ UNCHANGED faults
       \/ fs[form[r].group].state = "absent" /\ Fail(r) /\ UNCHANGED faults
       \/ Fault /\ Fail(r)
    /\ UNCHANGED <<localDisks, fs, setup, late, away, absent, crossed>>

\* associatedDisks are those of the FileSystem as it was when the modal opened.
DeleteFS(r) ==
    LET g == form[r].group
        Dying == [fs EXCEPT ![g].state = "dying"] IN
    /\ form[r].pc = "delete"
    /\ \/ /\ fs[g].state # "absent" /\ fs' = Dying /\ UNCHANGED faults
          /\ Become(r, [form[r] EXCEPT !.pc = "deleteDisks", !.left = form[r].picked,
                                       !.kept = {}, !.tries = Unopened.tries])
       \/ fs[g].state = "absent" /\ Fail(r) /\ UNCHANGED <<fs, faults>>
       \/ fs[g].state # "absent" /\ Fault /\ fs' \in {fs, Dying} /\ Fail(r)
    /\ UNCHANGED <<localDisks, setup, late, away, absent, crossed>>

\* A LocalDisk with finalizers that lists on as deleted counts as gone: until it is
\* gone, its device is not offered, a creation under its name is refused as by a
\* fault, and a second deletion is as good as a NotFound.
Removed(r, d) ==
    /\ localDisks' = localDisks \ {d}
    /\ absent' = [q \in Run |-> absent[q] \cup {d}]
    /\ away' = [g \in Group |-> away[g] \cup {d}]
    /\ crossed' = (crossed \/ d \in absent[r])

DeleteDisk(r, d) ==
    /\ form[r].pc = "deleteDisks" /\ d \in form[r].left /\ d \in localDisks
    /\ Removed(r, d)
    /\ Become(r, [form[r] EXCEPT !.left = @ \ {d}])
    /\ UNCHANGED <<fs, setup, late, faults>>

\* Mutant: one attempt too many.
LastTryLate(r, d) == form[r].tries[d] = MaxTries
\* The attempts are used up, or timeoutMs is over.
LastTry(r, d) == form[r].tries[d] + 1 = MaxTries

\* Mutant: a LocalDisk that the operator refuses passes for one not found.
FailureM(d, fault) == fault
\* diskFailures: a NotFound is none.
Failure(d, fault) == fault \/ d \in localDisks

\* An attempt of retryWithBackoff rejects, by a fault, whose effect may be there,
\* for want of the LocalDisk, or because its group is.  The last error counts.
RejectDisk(r, d) ==
    /\ form[r].pc = "deleteDisks" /\ d \in form[r].left
    /\ \E fault, gone, last \in BOOLEAN :
          /\ IF fault THEN Fault ELSE UNCHANGED faults
          /\ ~fault => ~gone /\ (d \in localDisks => \E g \in Group : d \in fs[g].pool)
          /\ gone => d \in localDisks
          /\ IF gone THEN Removed(r, d) ELSE UNCHANGED <<localDisks, away, absent, crossed>>
          /\ LastTry(r, d) => last
          /\ IF last
             THEN Become(r, [form[r] EXCEPT !.left = @ \ {d},
                                            !.kept = IF Failure(d, fault) THEN @ \cup {d} ELSE @])
             ELSE Become(r, [form[r] EXCEPT !.tries[d] = @ + 1])
    /\ UNCHANGED <<fs, setup, late>>

\* allSettled
Settle(r) ==
    /\ form[r].pc = "deleteDisks" /\ form[r].left = {}
    /\ IF form[r].kept # {} THEN Fail(r) ELSE Close(r)
    /\ UNCHANGED <<localDisks, fs, setup, late, faults, away, absent, crossed>>

\* The operator is done with a deleted FileSystem.
Finalize(g) ==
    /\ fs[g].state = "dying"
    /\ fs' = [fs EXCEPT ![g] = [state |-> "absent", pool |-> {}]]
    /\ UNCHANGED <<localDisks, setup, form, late, faults, away, absent, crossed>>

-----------------------------------------------------------------------------
OpenForm(r) == OpenCreate(r) \/ OpenExpand(r) \/ OpenDelete(r)
Step(r) ==
    \/ TestRegistry(r) \/ SetUp(r) \/ MakeGroup(r) \/ Allow(r) \/ DeleteFS(r) \/ Settle(r)
    \/ \E d \in Device : MakeDisk(r, d) \/ RefuseDisk(r, d) \/ DeleteDisk(r, d) \/ RejectDisk(r, d)

Next ==
    \/ \E r \in Run : OpenForm(r) \/ Submit(r) \/ Step(r)
    \/ \E d \in Device : MakeLate(d)
    \/ \E g \in Group : Finalize(g)

Spec == Init /\ [][Next]_vars

\* Every call is answered or rejected.
FairSpec == Spec /\ \A r \in Run : WF_vars(Step(r))
-----------------------------------------------------------------------------
(* Properties.                                                             *)

Forms == [kind : Kinds, group : Group, picked : SUBSET Device, disks : SUBSET Device,
          pc : Steps, left : SUBSET Device, kept : SUBSET Device,
          tries : [Device -> 0..MaxTries - 1], error : BOOLEAN]

\* Every variable stays in its set; a form works on what was picked in it.
TypeOK ==
    /\ localDisks \subseteq Device /\ late \subseteq Device
    /\ fs \in [Group -> [state : States, pool : SUBSET Device]]
    /\ setup \subseteq SetupCalls
    /\ form \in [Run -> Forms]
    /\ \A r \in Run : form[r].left \cup form[r].kept \cup form[r].disks \subseteq form[r].picked
    /\ faults \in 0..MaxFaults
    /\ away \in [Group -> SUBSET Device] /\ absent \in [Run -> SUBSET Device]
    /\ crossed \in BOOLEAN

\* A group keeps its disks, and a device is in one group only, whatever forms are
\* at work at a time, with creations that are refused, half made or still on their
\* way, expansions, and deletions that are retried.  The one exception is a
\* deletion that meets, under the name of its disk, the LocalDisk that somebody
\* made after it was gone.
GroupsKeepTheirDisks ==
    ~crossed => /\ \A g \in Group : Live(g) => fs[g].pool \subseteq localDisks
                /\ \A g, h \in Group : Live(g) /\ Live(h) /\ g # h => fs[g].pool \cap fs[h].pool = {}

\* The modal that deletes a group closes only when each of the LocalDisks it was
\* opened for has been away, whatever attempt was refused, lost or found nothing.
\* It knows only the disks that the group had then: one that an expansion adds
\* while the modal is open is left behind in silence.
ClosedMeansGone ==
    \A r \in Run :
        form[r].pc = "closed" /\ form[r].kind = "delete" => form[r].picked \subseteq absent[r]

\* Every submitted form is answered: it closes, or shows the error.
EverySubmitEnds == \A r \in Run : form[r].pc \notin Waiting ~> form[r].pc \in {"form", "closed"}
=============================================================================

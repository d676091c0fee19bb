--------------------------- MODULE PolicyAssignment ---------------------------
(***************************************************************************)
(* Assigning a DRPolicy to an application and removing it again (packages/ *)
(* mco, modals/app-manage-policies, utils/k8s-utils.ts), for discovered    *)
(* virtual machines, alone or in a shared group, and for managed           *)
(* applications with several placements.                                   *)
(*                                                                         *)
(* An operation is a sequence of awaits, most of them a Promise.all: the   *)
(* tasks of one await go on in parallel, and when one is rejected the code *)
(* goes on to its catch while the others are still on their way.           *)
(*                                                                         *)
(* The labels of VMs and PVCs are written on the managed cluster through a *)
(* ManagedClusterView and a ManagedClusterAction: such a task settles as   *)
(* RemoteCall promises, so a rejected one may still be carried out.        *)
(*                                                                         *)
(* Left out: a DRPC that was deleted but is still listed because of its    *)
(* finalizers, and what a user who picks it meanwhile does.  A deletion is *)
(* one step here.                                                          *)
(***************************************************************************)
EXTENDS Naturals, FiniteSets, Sequences

CONSTANTS
    User,      \* browsers with the modal open
    VM, PVC,   \* virtual machines and volumes
    Volumes,   \* the PVCs of each VM
    Name,      \* protection names
    Placement, \* the placements of a managed application
    None,      \* no label
    MaxRuns,   \* bound: clicks on Assign and on Confirm remove
    MaxFaults  \* bound: rejected calls

ASSUME VolumesAssumption == Volumes \in [VM -> SUBSET PVC] /\ IsFiniteSet(VM)
\* Different kinds of resources; the protection names are in Ramen's namespace,
\* the placements of an application in its own.
ASSUME KindsAssumption ==
    /\ None \notin Name \cup VM \cup PVC /\ VM \cap PVC = {} /\ Name \cap Placement = {}
ASSUME BoundsAssumption == MaxRuns \in Nat /\ MaxFaults \in Nat

VARIABLES
    world,     \* what the hub and the managed cluster hold
    run,       \* what each user is about
    late,      \* tasks whose promise nobody awaits any more
    runs, faults,
    overlap,   \* history: two operations met on one VM, group or application
    unrepaired \* history: a call failed where no catch undoes what went before, or an
               \* assignment was tried again for a VM that was protected meanwhile

vars == <<world, run, late, runs, faults, overlap, unrepaired>>

Active == {"chosen", "try", "catch"}
Idle == [phase |-> "idle", kind |-> "none", vm |-> None, name |-> None,
         copy |-> {}, seen |-> {}, stage |-> 0, todo |-> {}]

\* placements, drpcs: the resources of the hub.  vms: PROTECTED_VMS.
\* label: the recipe's label on VMs and PVCs.  marked: the experimental
\* annotation of a placement.  kept: do-not-delete-pvc on a DRPC.
Empty == [placements |-> Placement, drpcs |-> {}, vms |-> [n \in Name |-> {}],
          label |-> [x \in VM \cup PVC |-> None], marked |-> {}, kept |-> {}]

\* The virtual machine v is protected on its own, as n.
Protecting(v, n) ==
    [Empty EXCEPT !.placements = @ \cup {n}, !.drpcs = {n}, !.vms[n] = {v},
                  !.label = [x \in VM \cup PVC |-> IF x \in {v} \cup Volumes[v] THEN n ELSE None]]

\* The managed application is protected.
Managed == [Empty EXCEPT !.drpcs = Placement, !.marked = Placement]

Init ==
    /\ world \in {Empty, Managed} \cup {Protecting(v, n) : v \in VM, n \in Name}
    /\ run = [u \in User |-> Idle]
    /\ late = {} /\ runs = 0 /\ faults = 0 /\ overlap = FALSE /\ unrepaired = FALSE

-----------------------------------------------------------------------------
(* Tasks.                                                                  *)

Task(do, on, val) == [do |-> do, on |-> on, val |-> val, known |-> {}]
\* A task on the list of a group; known are the lists that its run reckons with.
GroupTask(do, r, val) ==
    [Task(do, r.name, val) EXCEPT !.known = {r.copy, r.copy \cup {r.vm}}]

\* Whether the server takes the call.
Accepts(w, t) ==
    CASE t.do = "createPlacement" -> t.on \notin w.placements
      [] t.do = "createDRPC" -> t.on \notin w.drpcs
      [] t.do = "deletePlacement" -> t.on \in w.placements
      [] t.do \in {"deleteDRPC", "patchVMs", "keep"} -> t.on \in w.drpcs
      [] t.do = "unmark" -> t.on \in w.marked
      [] t.do \in {"label", "mark"} -> TRUE

Effect(w, t) ==
    CASE t.do = "createPlacement" -> [w EXCEPT !.placements = @ \cup {t.on}]
      [] t.do = "createDRPC" /\ t.on \in Name -> [w EXCEPT !.drpcs = @ \cup {t.on}, !.vms[t.on] = t.val]
      [] t.do = "createDRPC" /\ t.on \in Placement -> [w EXCEPT !.drpcs = @ \cup {t.on}]
      [] t.do = "deletePlacement" -> [w EXCEPT !.placements = @ \ {t.on}]
      [] t.do = "deleteDRPC" -> [w EXCEPT !.drpcs = @ \ {t.on}, !.kept = @ \ {t.on},
                                          !.vms = [n \in Name |-> IF n = t.on THEN {} ELSE @[n]]]
      [] t.do = "patchVMs" -> [w EXCEPT !.vms[t.on] = t.val]
      [] t.do = "label" -> [w EXCEPT !.label[t.on] = t.val]
      [] t.do = "keep" -> [w EXCEPT !.kept = @ \cup {t.on}]
      [] t.do = "mark" -> [w EXCEPT !.marked = @ \cup {t.on}]
      [] t.do = "unmark" -> [w EXCEPT !.marked = @ \ {t.on}]

\* updateVMLabels and updatePVCLabels
LabelVM(r, val) == {Task("label", r.vm, val)}
LabelPVCs(r, val) == {Task("label", p, val) : p \in Volumes[r.vm]}
\* updateDRPC
PatchVMs(r, list) == {GroupTask("patchVMs", r, list)}

-----------------------------------------------------------------------------
(* The operations: the awaits of each, in their order.                     *)

\* assignPromisesForDiscovered, protectionType STANDALONE
Standalone(r) ==
    << {Task("createPlacement", r.name, {})},
       {Task("createDRPC", r.name, {r.vm})},
       LabelVM(r, r.name),
       LabelPVCs(r, r.name) >>

\* assignPromisesForDiscovered, protectionType SHARED
Shared(r) ==
    << PatchVMs(r, r.copy \cup {r.vm}), LabelVM(r, r.name), LabelPVCs(r, r.name) >>

\* Mutant: the group is deleted with any of its VMs.
LastOfGroupM(r) == TRUE
\* drpc.vmSharedGroup.length > 1
LastOfGroup(r) == Cardinality(r.copy) <= 1

\* unAssignPromisesForDiscovered
Remove(r) ==
    << LabelVM(r, None) \cup LabelPVCs(r, None),
       IF LastOfGroup(r)
       THEN {GroupTask("deleteDRPC", r, {}), Task("deletePlacement", r.name, {})}
       ELSE PatchVMs(r, r.copy \ {r.vm}) >>

\* assignPromisesForManaged
AssignManaged(r) ==
    << {Task(do, p, {}) : do \in {"mark", "createDRPC"}, p \in r.copy} >>

Unmark(r) == {Task("unmark", p, {}) : p \in r.seen}

\* Mutant: the annotation is not awaited.
RemoveManagedM(r) ==
    << Unmark(r), {Task(do, p, {}) : do \in {"keep", "deleteDRPC"}, p \in r.copy} >>
\* unAssignPromisesForManaged; seen are the placements that were found to have
\* the annotation.
RemoveManaged(r) ==
    << Unmark(r), {Task("keep", p, {}) : p \in r.copy},
       {Task("deleteDRPC", p, {}) : p \in r.copy} >>

Stages(r) ==
    CASE r.kind = "standalone" -> Standalone(r)
      [] r.kind = "shared" -> Shared(r)
      [] r.kind = "remove" -> Remove(r)
      [] r.kind = "assignManaged" -> AssignManaged(r)
      [] r.kind = "removeManaged" -> RemoveManaged(r)

\* Mutant: the DRPC is not undone once the VM is labelled.
CleanupM(r) ==
    CASE r.kind = "standalone" ->
            (IF r.stage = 3 THEN {GroupTask("deleteDRPC", r, {})} ELSE {})
            \cup (IF r.stage > 1 THEN {Task("deletePlacement", r.name, {})} ELSE {})
      [] OTHER -> {}
\* The catch clauses.  pvcsLabeled is set by the last statement of the try, so
\* no catch takes labels off PVCs; the patch of a shared group is before it.
Cleanup(r) ==
    CASE r.kind = "standalone" ->
            (IF r.stage > 2 THEN {GroupTask("deleteDRPC", r, {})} ELSE {})
            \cup (IF r.stage > 1 THEN {Task("deletePlacement", r.name, {})} ELSE {})
            \cup (IF r.stage > 3 THEN LabelVM(r, None) ELSE {})
      [] r.kind = "shared" /\ r.stage > 1 ->
            PatchVMs(r, r.copy) \cup (IF r.stage > 2 THEN LabelVM(r, None) ELSE {})
      [] OTHER -> {}

-----------------------------------------------------------------------------
(* The user.                                                               *)

\* Nobody else is about the same VM or application, and nothing of an earlier
\* operation is still on its way.
Alone(u, r) ==
    /\ late = {}
    /\ \A o \in User \ {u} : run[o].phase \in Active =>
          /\ run[o].vm # r.vm \/ r.vm = None
          /\ run[o].vm = None /\ r.vm = None => run[o].copy \cap r.copy = {}

Chosen(kind, vm, name, copy) ==
    [phase |-> "chosen", kind |-> kind, vm |-> vm, name |-> name,
     copy |-> copy, seen |-> {}, stage |-> 0, todo |-> {}]

Choose(u, r) ==
    /\ run[u].phase \notin Active
    /\ run' = [run EXCEPT ![u] = r]
    /\ overlap' = (overlap \/ ~Alone(u, r))
    /\ UNCHANGED <<world, late, runs, faults, unrepaired>>

Protected(v) == \E n \in Name : v \in world.vms[n]

\* The wizard for a VM that no DRPC lists.
ChooseStandalone(u) ==
    \E v \in VM, n \in Name :
        /\ ~Protected(v)
        /\ Choose(u, Chosen("standalone", v, n, {v}))

\* SET_SHARED_VM_GROUP_INFO: the group is copied when its row is selected.
ChooseShared(u) ==
    \E v \in VM, n \in Name \cap world.drpcs :
        /\ ~Protected(v)
        /\ Choose(u, Chosen("shared", v, n, world.vms[n]))

ChooseRemove(u) ==
    \E n \in Name : \E v \in world.vms[n] :
        Choose(u, Chosen("remove", v, n, world.vms[n]))

ChooseManaged(u) ==
    \/ \E ps \in SUBSET (Placement \ world.drpcs) \ {{}} :
          Choose(u, Chosen("assignManaged", None, None, ps))
    \/ /\ Placement \cap world.drpcs # {}
       /\ Choose(u, Chosen("removeManaged", None, None, Placement \cap world.drpcs))

\* Another operation has protected the VM since it was chosen: the wizard does not
\* look again, and protects it a second time.
Outdated(r) == r.kind \in {"standalone", "shared"} /\ Protected(r.vm)

\* onSubmit and onRemove.  After a failure the wizard stays open and Assign may
\* be clicked again, with what was chosen before.  A removal begins with the
\* gets of removeExperimentalAnnotationPromises, of which one that fails counts
\* for a placement without the annotation.
Submit(u) ==
    /\ runs < MaxRuns /\ runs' = runs + 1
    /\ \/ run[u].phase = "chosen"
       \/ run[u].phase = "failed" /\ run[u].kind \in {"standalone", "shared", "assignManaged"}
    /\ \E seen \in SUBSET (run[u].copy \cap world.marked) :
          LET r == [run[u] EXCEPT !.phase = "try", !.stage = 1, !.seen = seen] IN
          /\ IF seen = run[u].copy \cap world.marked
             THEN unrepaired' = (unrepaired \/ Outdated(run[u])) /\ UNCHANGED faults
             ELSE faults < MaxFaults /\ faults' = faults + 1 /\ unrepaired' = TRUE
          /\ run' = [run EXCEPT ![u] = [r EXCEPT !.todo = Stages(r)[1]]]
    /\ overlap' = (overlap \/ ~Alone(u, run[u]))
    /\ UNCHANGED <<world, late>>

-----------------------------------------------------------------------------
(* The awaits.                                                             *)

\* The call writes or deletes a list of VMs that is not the one its run knows.
Stale(t) == t.known # {} /\ world.vms[t.on] \notin t.known

\* A task resolves.
Work(u, t) ==
    /\ run[u].phase \in {"try", "catch"} /\ t \in run[u].todo
    /\ Accepts(world, t)
    /\ world' = Effect(world, t)
    /\ run' = [run EXCEPT ![u].todo = @ \ {t}]
    /\ overlap' = (overlap \/ Stale(t))
    /\ UNCHANGED <<late, runs, faults, unrepaired>>

\* Mutant: a catch whose calls fail begins again.
GiveUpM(r) == [r EXCEPT !.phase = "catch", !.todo = Cleanup(r)]
\* Mutant: the calls of a failed catch are still awaited.
GiveUpLoose(r) ==
    IF r.phase = "try" THEN [r EXCEPT !.phase = "catch", !.todo = Cleanup(r)]
    ELSE [r EXCEPT !.phase = "failed"]
\* The first rejection of a Promise.all: in the try it starts the catch, in the
\* catch it ends it.
GiveUp(r) ==
    IF r.phase = "try" THEN [r EXCEPT !.phase = "catch", !.todo = Cleanup(r)]
    ELSE [r EXCEPT !.phase = "failed", !.todo = {}]

\* The catch undoes all that the failed operation did before.
Repaired(r, t) ==
    /\ r.phase = "try" /\ r.kind \in {"standalone", "shared"}
    /\ Stages(r)[r.stage] = {t}

\* The server refuses a task, or a fault strikes it: it had no effect, or had
\* one all the same, or its label is written at some later time.
Reject(u, t) ==
    /\ run[u].phase \in {"try", "catch"} /\ t \in run[u].todo
    /\ run' = [run EXCEPT ![u] = GiveUp(@)]
    /\ LET others == run[u].todo \ {t} IN
       \/ /\ ~Accepts(world, t)
          /\ late' = late \cup others
          /\ unrepaired' = (unrepaired \/ ~Repaired(run[u], t))
          /\ UNCHANGED <<world, faults>>
       \/ /\ faults < MaxFaults /\ faults' = faults + 1
          /\ \/ /\ UNCHANGED world /\ late' = late \cup others
                /\ unrepaired' = (unrepaired \/ ~Repaired(run[u], t))
             \/ /\ Accepts(world, t) /\ world' = Effect(world, t) /\ late' = late \cup others
                /\ unrepaired' = TRUE
             \/ /\ t.do = "label" /\ late' = late \cup others \cup {t}
                /\ unrepaired' = TRUE /\ UNCHANGED world
    /\ overlap' = (overlap \/ (world' # world /\ Stale(t)))
    /\ UNCHANGED runs

\* Mutant: the labels of the PVCs are not awaited.
SettledM(r) == r.todo = {} \/ r.stage = 4
\* All promises of the await have resolved.
Settled(r) == r.todo = {}

\* On to the next await; resetAssignState at the end.
Advance(u) ==
    LET r == run[u] IN
    /\ r.phase \in {"try", "catch"} /\ Settled(r)
    /\ run' = [run EXCEPT ![u] =
          IF r.phase = "catch" THEN [r EXCEPT !.phase = "failed"]
          ELSE IF r.stage = Len(Stages(r)) THEN [Idle EXCEPT !.phase = "done"]
          ELSE [r EXCEPT !.stage = @ + 1, !.todo = Stages(r)[r.stage + 1]]]
    /\ UNCHANGED <<world, late, runs, faults, overlap, unrepaired>>

\* A task that nobody awaits is carried out, or is never heard of again.
Straggle(t) ==
    /\ t \in late /\ late' = late \ {t}
    /\ world' \in {world} \cup (IF Accepts(world, t) THEN {Effect(world, t)} ELSE {})
    /\ overlap' = (overlap \/ Stale(t))
    /\ UNCHANGED <<run, runs, faults, unrepaired>>

Click(u) == ChooseStandalone(u) \/ ChooseShared(u) \/ ChooseRemove(u) \/ ChooseManaged(u) \/ Submit(u)
Go(u) == Advance(u) \/ \E t \in run[u].todo : Work(u, t) \/ Reject(u, t)
Next == (\E u \in User : Click(u) \/ Go(u)) \/ \E t \in late : Straggle(t)

Spec == Init /\ [][Next]_vars

\* A call to the hub settles, and one to a managed cluster as RemoteCall's do.
FairSpec == Spec /\ \A u \in User : WF_vars(Go(u))
-----------------------------------------------------------------------------
(* Properties.                                                             *)

Holder == VM \cup PVC
Tasks == [do : {"createPlacement", "createDRPC", "deletePlacement", "deleteDRPC", "patchVMs",
                "label", "keep", "mark", "unmark"},
          on : Name \cup Placement \cup Holder, val : (SUBSET VM) \cup Name \cup {None},
          known : SUBSET SUBSET VM]

\* Every variable stays in its set; in particular a list of protected VMs and
\* an annotation are those of a DRPC that exists.
TypeOK ==
    /\ world \in [placements : SUBSET (Name \cup Placement), drpcs : SUBSET (Name \cup Placement),
                  vms : [Name -> SUBSET VM], label : [Holder -> Name \cup {None}],
                  marked : SUBSET Placement, kept : SUBSET Placement]
    /\ world.kept \subseteq world.drpcs
    /\ \A n \in Name \ world.drpcs : world.vms[n] = {}
    /\ \A u \in User :
          /\ run[u].phase \in {"idle", "chosen", "try", "catch", "done", "failed"}
          /\ run[u].vm \in VM \cup {None} /\ run[u].name \in Name \cup {None}
          /\ run[u].todo \subseteq Tasks
          /\ run[u].todo # {} => run[u].phase \in {"try", "catch"}
    /\ late \subseteq Tasks
    /\ runs \in 0..MaxRuns /\ faults \in 0..MaxFaults
    /\ overlap \in BOOLEAN /\ unrepaired \in BOOLEAN

\* The virtual machine v bears the label n, and so do its volumes.
Labelled(v, n) == \A x \in {v} \cup Volumes[v] : world.label[x] = n

\* A DRPC has its placement, the VMs it lists bear its name, and no other does.
Consistent ==
    /\ \A n \in Name :
          /\ n \in world.drpcs <=> n \in world.placements
          /\ n \in world.drpcs <=> world.vms[n] # {}
          /\ \A v \in world.vms[n] : Labelled(v, n)
    /\ \A v \in VM : Protected(v) \/ Labelled(v, None)

\* Once every operation has ended, DRPCs, placements, lists and labels agree:
\* a failed assignment is undone whole, whatever call failed, as long as the
\* catch itself went well, it had not written some of several volumes, no list
\* was written from a stale copy, and none was tried again for a VM that another
\* had protected meanwhile.
QuietIsConsistent ==
    /\ \A u \in User : run[u].phase \notin {"try", "catch"}
    /\ late = {} /\ ~overlap /\ ~unrepaired
    => Consistent

\* "Protected" is what it says: an operation that ends well has put the VM in
\* the list and its label on all of its volumes, or taken all of it away, and
\* has done so for every placement of a managed application.
Achieved(r) ==
    CASE r.kind \in {"standalone", "shared"} -> r.vm \in world.vms[r.name] /\ Labelled(r.vm, r.name)
      [] r.kind = "remove" -> r.vm \notin world.vms[r.name] /\ Labelled(r.vm, None)
      [] r.kind = "assignManaged" -> r.copy \subseteq world.drpcs \cap world.marked
      [] r.kind = "removeManaged" -> r.copy \cap world.drpcs = {}
DoneMeansDone ==
    [][\A u \in User : run[u].phase = "try" /\ run'[u].phase = "done" /\ ~overlap =>
           Achieved(run[u])]_vars

\* Nobody's virtual machine loses its protection by an operation on another.
OthersStayProtected ==
    [][~overlap' => \A n \in Name : \A v \in world.vms[n] \ world'.vms[n] :
           \E u \in User : run[u].vm = v]_vars

\* A DRPC of a managed application goes only once it bears the annotation that
\* keeps the volumes: Ramen deletes those of a DRPC without it.
VolumesOutliveDRPC ==
    [][~overlap' => \A p \in Placement \cap (world.drpcs \ world'.drpcs) : p \in world.kept]_vars

\* Every operation ends.
EveryRunEnds == \A u \in User : run[u].phase = "try" ~> run[u].phase \in {"done", "failed"}
=============================================================================

------------------------ MODULE PolicyAssignmentProofs ------------------------
(***************************************************************************)
(* Proofs about PolicyAssignment, for any users, virtual machines, volumes,*)
(* names, placements, faults and retries: the type invariant, that no      *)
(* operation takes away the protection of another's virtual machine, that  *)
(* a DRPC goes only with the annotation that keeps its volumes, that an    *)
(* operation that ends well has done what it was for, and that the hub and *)
(* the labels agree once all operations have ended.                        *)
(***************************************************************************)
EXTENDS PolicyAssignment, FiniteSetTheorems, TLAPS

USE VolumesAssumption, KindsAssumption, BoundsAssumption

\* No volume is shared by two virtual machines.
OwnVolumes == \A v, w \in VM : v # w => Volumes[v] \cap Volumes[w] = {}

-----------------------------------------------------------------------------
(* Runs and their tasks.                                                   *)

World == [placements : SUBSET (Name \cup Placement), drpcs : SUBSET (Name \cup Placement),
          vms : [Name -> SUBSET VM], label : [Holder -> Name \cup {None}],
          marked : SUBSET Placement, kept : SUBSET Placement]
Sane(w) == w.kept \subseteq w.drpcs /\ \A n \in Name \ w.drpcs : w.vms[n] = {}

Machine == {"standalone", "shared", "remove"}
Run == [phase : {"idle", "chosen", "try", "catch", "done", "failed"},
        kind : Machine \cup {"assignManaged", "removeManaged", "none"},
        vm : VM \cup {None}, name : Name \cup {None}, copy : SUBSET (VM \cup Placement),
        seen : SUBSET Placement, stage : 0..4, todo : SUBSET Tasks]

\* What each kind of run is about.
About(r) ==
    /\ r.kind \in Machine => r.vm \in VM /\ r.name \in Name /\ r.copy \subseteq VM
    /\ r.kind \in {"standalone", "remove"} => r.vm \in r.copy
    /\ r.kind = "standalone" => r.copy = {r.vm}
    /\ r.kind \notin Machine => r.vm = None /\ r.copy \subseteq Placement /\ r.seen \subseteq r.copy
    /\ r.kind = "none" => r.phase \in {"idle", "done"}

\* What the tasks of a run are: typed, and about its own VM or placements.  A
\* list that it writes differs from those it knows by its own VM only.
Typed(t) ==
    /\ t \in Tasks
    /\ t.do \in {"createPlacement", "deletePlacement"} => t.on \in Name
    /\ t.do \in {"createDRPC", "deleteDRPC"} => t.on \in Name \cup Placement
    /\ t.do = "patchVMs" => t.on \in Name
    /\ t.do \in {"createDRPC", "deleteDRPC", "patchVMs"} /\ t.on \in Name => t.val \in SUBSET VM
    /\ t.do = "label" => t.on \in Holder /\ t.val \in Name \cup {None}
    /\ t.do \in {"mark", "unmark", "keep"} => t.on \in Placement
Lists(t) == t.do \in {"createDRPC", "patchVMs", "deleteDRPC"} /\ t.on \in Name
Apps(t) == t.do \in {"createDRPC", "deleteDRPC", "mark", "unmark", "keep"} /\ t.on \in Placement
Owns(r, t) ==
    /\ Typed(t)
    /\ t.do = "label" => r.vm \in VM /\ t.on \in {r.vm} \cup Volumes[r.vm]
    /\ Apps(t) => /\ r.vm = None /\ t.on \in r.copy
                  /\ r.kind = IF t.do \in {"mark", "createDRPC"} THEN "assignManaged" ELSE "removeManaged"
    /\ t.do = "createDRPC" /\ t.on \in Name => r.vm \in VM /\ t.val = {r.vm}
    /\ t.do = "deleteDRPC" /\ t.on \in Name => t.val = {}
    /\ t.do \in {"patchVMs", "deleteDRPC"} /\ t.on \in Name =>
          /\ r.vm \in VM /\ t.known # {}
          /\ \A K \in t.known : \A v \in VM \ {r.vm} : v \in K <=> v \in t.val

\* The tasks of the try go all the same way.
Aims(r, t) ==
    /\ t.do = "label" => t.val = IF r.kind = "remove" THEN None ELSE r.name
    /\ Lists(t) => t.on = r.name /\ (r.vm \in t.val <=> r.kind # "remove")

\* What a task of the run r leaves behind.
Post(w, r, t) ==
    /\ t.do = "label" => (OwnVolumes => w.label[t.on] = t.val)
    /\ Lists(t) => (r.vm \in w.vms[t.on] <=> r.vm \in t.val)
    /\ t.do = "createDRPC" /\ t.on \in Placement => t.on \in w.drpcs
    /\ t.do = "deleteDRPC" /\ t.on \in Placement => t.on \notin w.drpcs
    /\ t.do = "keep" => (t.on \in w.drpcs => t.on \in w.kept)
    /\ t.do = "mark" => t.on \in w.marked

-----------------------------------------------------------------------------
(* The invariant.                                                          *)

\* A run awaits tasks of its present stage only, or of its catch.
Waits(r) ==
    /\ r.phase \in {"try", "catch"} => r.kind # "none" /\ r.stage \in 1..Len(Stages(r))
    /\ r.phase = "try" => r.todo \subseteq Stages(r)[r.stage]
    /\ r.phase = "catch" => r.todo \subseteq Cleanup(r)
    /\ r.phase \notin {"try", "catch"} => r.todo = {}
Runs == run \in [User -> Run] /\ \A u \in User : About(run[u]) /\ Waits(run[u])
LateTyped == \A t \in late : Typed(t)

\* Until two operations meet: the runs under way, and those that failed and left
\* tasks on their way, are about different VMs and placements, ...
Apart(r, q) == (r.vm # q.vm \/ r.vm = None) /\ (r.vm = None /\ q.vm = None => r.copy \cap q.copy = {})
Keep(O) ==
    /\ \A u \in User : run[u].phase \in Active => u \in O
    /\ \A u, o \in O : u # o => Apart(run[u], run[o])
    /\ \A t \in late : \E o \in O : run[o].phase \in {"catch", "failed"} /\ Owns(run[o], t)
Separate == \E O \in SUBSET User : Keep(O)
\* ... what a run has done still stands while it is in its try, ...
Stands(w, r) == \A i \in 1..r.stage : \A t \in Stages(r)[i] : t \in r.todo \/ Post(w, r, t)
Progressed == \A u \in User : run[u].phase = "try" => Stands(world, run[u])
\* ... and a deletion that nobody awaits any more is of an annotated DRPC too.
Outlives(w, t) == t.do = "deleteDRPC" /\ t.on \in Placement => (t.on \in w.drpcs => t.on \in w.kept)
LateOutlive == \A t \in late : Outlives(world, t)

\* The types, and what they rest on.
TInv ==
    /\ world \in World /\ Sane(world) /\ Runs /\ LateTyped
    /\ runs \in 0..MaxRuns /\ faults \in 0..MaxFaults
    /\ overlap \in BOOLEAN /\ unrepaired \in BOOLEAN
IInv == TInv /\ (~overlap => Separate /\ Progressed /\ LateOutlive)

-----------------------------------------------------------------------------
(* The tasks of a run are its own.                                         *)

Dos == {"createPlacement", "createDRPC", "deletePlacement", "deleteDRPC", "patchVMs",
        "label", "keep", "mark", "unmark"}

LEMMA TaskFields ==
    ASSUME NEW do, NEW on, NEW val
    PROVE  /\ Task(do, on, val).do = do /\ Task(do, on, val).on = on
           /\ Task(do, on, val).val = val /\ Task(do, on, val).known = {}
           /\ do \in Dos /\ on \in Name \cup Placement \cup Holder
              /\ val \in (SUBSET VM) \cup Name \cup {None} => Task(do, on, val) \in Tasks
BY DEF Task, Tasks, Dos

LEMMA GroupFields ==
    ASSUME NEW do \in Dos, NEW r \in Run, NEW val \in SUBSET VM,
           r.name \in Name, r.vm \in VM, r.copy \subseteq VM
    PROVE  /\ GroupTask(do, r, val).do = do /\ GroupTask(do, r, val).on = r.name
           /\ GroupTask(do, r, val).val = val
           /\ GroupTask(do, r, val).known = {r.copy, r.copy \cup {r.vm}}
           /\ GroupTask(do, r, val) \in Tasks
BY DEF GroupTask, Task, Tasks, Dos

LEMMA Labels ==
    ASSUME NEW r \in Run, About(r), r.kind \in Machine, NEW val \in {None, r.name},
           NEW t \in LabelVM(r, val) \cup LabelPVCs(r, val)
    PROVE  Owns(r, t) /\ t.do = "label" /\ t.val = val
<1>1. r.vm \in VM /\ r.name \in Name /\ {r.vm} \cup Volumes[r.vm] \subseteq Holder
  BY DEF About, Holder
<1>2. PICK x \in {r.vm} \cup Volumes[r.vm] : t = Task("label", x, val)
  BY DEF LabelVM, LabelPVCs
<1>3. t \in Tasks /\ t.do = "label" /\ t.on = x /\ t.val = val
  BY <1>1, <1>2, TaskFields DEF Dos
<1> QED BY <1>1, <1>3 DEF Owns, Typed, Apps

LEMMA Lister ==
    ASSUME NEW r \in Run, About(r), r.kind \in Machine,
           NEW do \in {"patchVMs", "deleteDRPC"}, NEW val \in SUBSET VM,
           \A v \in VM \ {r.vm} : v \in r.copy <=> v \in val, do = "deleteDRPC" => val = {}
    PROVE  LET t == GroupTask(do, r, val)
           IN Owns(r, t) /\ t.do = do /\ t.on = r.name /\ t.val = val
<1> DEFINE t == GroupTask(do, r, val)
<1>1. r.vm \in VM /\ r.name \in Name /\ r.copy \subseteq VM /\ do \in Dos
  BY DEF About, Dos
<1>2. t \in Tasks /\ t.do = do /\ t.on = r.name /\ t.val = val /\ t.known = {r.copy, r.copy \cup {r.vm}}
  BY <1>1, GroupFields
<1> HIDE DEF t
<1>3. t.on \notin Placement
  BY <1>1, <1>2
<1> QED BY <1>1, <1>2, <1>3 DEF Owns, Typed, Apps, t

LEMMA Simple ==
    ASSUME NEW r \in Run, About(r),
           NEW do \in {"createPlacement", "deletePlacement", "mark", "unmark", "keep", "createDRPC", "deleteDRPC"},
           NEW on, NEW val \in SUBSET VM,
           \/ r.kind \in Machine /\ do \in {"createPlacement", "deletePlacement"} /\ on \in Name
           \/ r.kind \in Machine /\ do = "createDRPC" /\ on = r.name /\ val = {r.vm}
           \/ r.kind = "assignManaged" /\ do \in {"mark", "createDRPC"} /\ on \in r.copy
           \/ r.kind = "removeManaged" /\ do \in {"unmark", "keep", "deleteDRPC"} /\ on \in r.copy
    PROVE  LET t == Task(do, on, val) IN Owns(r, t) /\ t.do = do /\ t.on = on /\ t.val = val
<1> DEFINE t == Task(do, on, val)
<1>1. /\ r.kind \in Machine => r.vm \in VM /\ r.name \in Name
      /\ r.kind \notin Machine => r.vm = None /\ r.copy \subseteq Placement
      /\ on \in Name \cup Placement /\ do \in Dos
  BY DEF About, Dos, Machine
<1>2. t \in Tasks /\ t.do = do /\ t.on = on /\ t.val = val
  BY <1>1, TaskFields
<1> HIDE DEF t
<1>3. Typed(t)
  BY <1>1, <1>2 DEF Typed, Machine
<1>4. Apps(t) => /\ r.vm = None /\ t.on \in r.copy
                 /\ r.kind = IF t.do \in {"mark", "createDRPC"} THEN "assignManaged" ELSE "removeManaged"
  BY <1>1, <1>2 DEF Apps, Machine
<1> QED BY <1>1, <1>2, <1>3, <1>4 DEF Owns, Machine, t

LEMMA LastIsAlone ==
    ASSUME NEW r \in Run, About(r), r.kind = "remove", LastOfGroup(r)
    PROVE  r.copy = {r.vm}
<1>1. r.copy \subseteq VM /\ r.vm \in r.copy
  BY DEF About, Machine
<1>2. IsFiniteSet(r.copy) /\ Cardinality(r.copy) \in Nat
  BY <1>1, FS_Subset, FS_CardinalityType
<1>3. Cardinality(r.copy) # 0
  BY <1>1, <1>2, FS_EmptySet
<1>4. Cardinality(r.copy) = 1
  BY <1>2, <1>3 DEF LastOfGroup
<1> QED BY <1>1, <1>2, <1>4, FS_Singleton

\* Every task of a stage is the run's own, and goes the way of the run.
LEMMA StageTasks ==
    ASSUME NEW r \in Run, About(r), r.kind # "none", NEW i \in 1..Len(Stages(r)), NEW t \in Stages(r)[i]
    PROVE  Owns(r, t) /\ Aims(r, t)
<1>1. CASE r.kind = "standalone"
  <2>1. Stages(r) = Standalone(r) /\ r.kind \in Machine /\ r.vm \in VM /\ r.name \in Name
    BY <1>1 DEF Stages, Machine, About
  <2>2. i \in {1, 2, 3, 4}
    BY <2>1 DEF Standalone
  <2>3. CASE i = 1
    <3>1. t = Task("createPlacement", r.name, {})
      BY <2>1, <2>3 DEF Standalone
    <3> QED BY <2>1, <3>1, Simple DEF Aims, Lists
  <2>4. CASE i = 2
    <3>1. t = Task("createDRPC", r.name, {r.vm})
      BY <2>1, <2>4 DEF Standalone
    <3>2. Owns(r, t) /\ t.do = "createDRPC" /\ t.on = r.name /\ t.val = {r.vm}
      BY <2>1, <3>1, Simple
    <3> QED BY <1>1, <3>2 DEF Aims
  <2>5. CASE i \in {3, 4}
    <3>1. t \in LabelVM(r, r.name) \cup LabelPVCs(r, r.name)
      BY <2>1, <2>5 DEF Standalone
    <3>2. Owns(r, t) /\ t.do = "label" /\ t.val = r.name
      BY <2>1, <3>1, Labels
    <3> QED BY <1>1, <3>2 DEF Aims, Lists
  <2> QED BY <2>2, <2>3, <2>4, <2>5
<1>2. CASE r.kind = "shared"
  <2>1. Stages(r) = Shared(r) /\ r.kind \in Machine /\ r.vm \in VM /\ r.name \in Name /\ r.copy \subseteq VM
    BY <1>2 DEF Stages, Machine, About
  <2>2. i \in {1, 2, 3}
    BY <2>1 DEF Shared
  <2>3. CASE i = 1
    <3>1. t = GroupTask("patchVMs", r, r.copy \cup {r.vm})
      BY <2>1, <2>3 DEF Shared, PatchVMs
    <3>2. Owns(r, t) /\ t.do = "patchVMs" /\ t.on = r.name /\ t.val = r.copy \cup {r.vm}
      BY <2>1, <3>1, Lister
    <3> QED BY <1>2, <3>2 DEF Aims
  <2>4. CASE i \in {2, 3}
    <3>1. t \in LabelVM(r, r.name) \cup LabelPVCs(r, r.name)
      BY <2>1, <2>4 DEF Shared
    <3>2. Owns(r, t) /\ t.do = "label" /\ t.val = r.name
      BY <2>1, <3>1, Labels
    <3> QED BY <1>2, <3>2 DEF Aims, Lists
  <2> QED BY <2>2, <2>3, <2>4
<1>3. CASE r.kind = "remove"
  <2>1. Stages(r) = Remove(r) /\ r.kind \in Machine /\ r.vm \in VM /\ r.name \in Name /\ r.copy \subseteq VM
    BY <1>3 DEF Stages, Machine, About
  <2>2. i \in {1, 2}
    BY <2>1 DEF Remove
  <2>3. CASE i = 1
    <3>1. t \in LabelVM(r, None) \cup LabelPVCs(r, None)
      BY <2>1, <2>3 DEF Remove
    <3>2. Owns(r, t) /\ t.do = "label" /\ t.val = None
      BY <2>1, <3>1, Labels
    <3> QED BY <1>3, <3>2 DEF Aims, Lists
  <2>4. CASE i = 2 /\ LastOfGroup(r)
    <3>1. t = GroupTask("deleteDRPC", r, {}) \/ t = Task("deletePlacement", r.name, {})
      BY <2>1, <2>4 DEF Remove
    <3>2. CASE t = GroupTask("deleteDRPC", r, {})
      <4>1. r.copy = {r.vm}
        BY <1>3, <2>4, LastIsAlone
      <4>2. Owns(r, t) /\ t.do = "deleteDRPC" /\ t.on = r.name /\ t.val = {}
        BY <2>1, <3>2, <4>1, Lister
      <4> QED BY <1>3, <4>2 DEF Aims
    <3>3. CASE t = Task("deletePlacement", r.name, {})
      BY <2>1, <3>3, Simple DEF Aims, Lists
    <3> QED BY <3>1, <3>2, <3>3
  <2>5. CASE i = 2 /\ ~LastOfGroup(r)
    <3>1. t = GroupTask("patchVMs", r, r.copy \ {r.vm})
      BY <2>1, <2>5 DEF Remove, PatchVMs
    <3>2. Owns(r, t) /\ t.do = "patchVMs" /\ t.on = r.name /\ t.val = r.copy \ {r.vm}
      BY <2>1, <3>1, Lister
    <3> QED BY <1>3, <3>2 DEF Aims
  <2> QED BY <2>2, <2>3, <2>4, <2>5
<1>4. CASE r.kind = "assignManaged"
  <2>1. PICK do \in {"mark", "createDRPC"}, p \in r.copy : t = Task(do, p, {})
    BY <1>4 DEF Stages, AssignManaged
  <2>2. Owns(r, t) /\ t.do = do /\ t.on = p /\ p \in Placement
    BY <1>4, <2>1, Simple DEF About, Machine
  <2> QED BY <2>2 DEF Aims, Lists
<1>5. CASE r.kind = "removeManaged"
  <2>1. r.seen \subseteq r.copy /\ r.copy \subseteq Placement
    BY <1>5 DEF About, Machine
  <2>2. i \in {1, 2, 3}
    BY <1>5 DEF Stages, RemoveManaged
  <2>3. PICK do \in {"unmark", "keep", "deleteDRPC"}, p \in r.copy : t = Task(do, p, {})
    BY <1>5, <2>1, <2>2 DEF Stages, RemoveManaged, Unmark
  <2>4. Owns(r, t) /\ t.do = do /\ t.on = p /\ p \in Placement
    BY <1>5, <2>1, <2>3, Simple
  <2> QED BY <2>4 DEF Aims, Lists
<1> QED BY <1>1, <1>2, <1>3, <1>4, <1>5 DEF Run, Machine

LEMMA CleanupTasks ==
    ASSUME NEW r \in Run, About(r), NEW t \in Cleanup(r)
    PROVE  Owns(r, t)
<1>1. CASE r.kind = "standalone"
  <2>1. r.kind \in Machine /\ r.vm \in VM /\ r.name \in Name /\ r.copy = {r.vm}
    BY <1>1 DEF Machine, About
  <2>2. \/ t = GroupTask("deleteDRPC", r, {})
        \/ t = Task("deletePlacement", r.name, {})
        \/ t \in LabelVM(r, None)
    BY <1>1 DEF Cleanup
  <2> QED BY <2>1, <2>2, Lister, Simple, Labels
<1>2. CASE r.kind = "shared"
  <2>1. r.kind \in Machine /\ r.vm \in VM /\ r.name \in Name /\ r.copy \subseteq VM
    BY <1>2 DEF Machine, About
  <2>2. t = GroupTask("patchVMs", r, r.copy) \/ t \in LabelVM(r, None)
    BY <1>2 DEF Cleanup, PatchVMs
  <2> QED BY <2>1, <2>2, Lister, Labels
<1> QED BY <1>1, <1>2 DEF Cleanup

-----------------------------------------------------------------------------
(* What a call does to the hub and to the managed cluster.                 *)

DRPCsAfter(w, t) == CASE t.do = "createDRPC" -> w.drpcs \cup {t.on}
                      [] t.do = "deleteDRPC" -> w.drpcs \ {t.on}
                      [] OTHER -> w.drpcs
ListsAfter(w, t) == [n \in Name |-> IF ~Lists(t) \/ n # t.on THEN w.vms[n]
                                    ELSE IF t.do = "deleteDRPC" THEN {} ELSE t.val]
LabelsAfter(w, t) == [h \in Holder |-> IF t.do = "label" /\ h = t.on THEN t.val ELSE w.label[h]]
KeptAfter(w, t) == CASE t.do = "keep" -> w.kept \cup {t.on}
                     [] t.do = "deleteDRPC" -> w.kept \ {t.on}
                     [] OTHER -> w.kept
MarkedAfter(w, t) == CASE t.do = "mark" -> w.marked \cup {t.on}
                       [] t.do = "unmark" -> w.marked \ {t.on}
                       [] OTHER -> w.marked

\* The effect of a call, one part of the world at a time.
LEMMA EffectParts ==
    ASSUME NEW w \in World, NEW t, Typed(t)
    PROVE  LET x == Effect(w, t) IN
           /\ x = [placements |-> x.placements, drpcs |-> DRPCsAfter(w, t), vms |-> ListsAfter(w, t),
                   label |-> LabelsAfter(w, t), marked |-> MarkedAfter(w, t), kept |-> KeptAfter(w, t)]
           /\ x.placements \subseteq Name \cup Placement
<1> DEFINE x == Effect(w, t)
           y == [placements |-> x.placements, drpcs |-> DRPCsAfter(w, t), vms |-> ListsAfter(w, t),
                 label |-> LabelsAfter(w, t), marked |-> MarkedAfter(w, t), kept |-> KeptAfter(w, t)]
<1>0. /\ w.placements \subseteq Name \cup Placement /\ w.vms \in [Name -> SUBSET VM]
      /\ w.label \in [Holder -> Name \cup {None}]
      /\ w = [placements |-> w.placements, drpcs |-> w.drpcs, vms |-> w.vms,
              label |-> w.label, marked |-> w.marked, kept |-> w.kept]
  BY DEF World
<1>1. t.do \in Dos
  BY DEF Typed, Tasks, Dos
<1>2. CASE t.do \in {"createPlacement", "deletePlacement"}
  <2>1. /\ x = [w EXCEPT !.placements = x.placements]
        /\ x.placements \in {w.placements \cup {t.on}, w.placements \ {t.on}} /\ t.on \in Name
    BY <1>0, <1>2 DEF Effect, Typed
  <2>2. ListsAfter(w, t) = w.vms /\ LabelsAfter(w, t) = w.label
    BY <1>0, <1>2 DEF ListsAfter, LabelsAfter, Lists
  <2> QED BY <1>0, <1>2, <2>1, <2>2 DEF DRPCsAfter, KeptAfter, MarkedAfter
<1>3. CASE t.do = "createDRPC"
  <2>1. t.on \in Name \/ (t.on \in Placement /\ t.on \notin Name)
    BY <1>3 DEF Typed
  <2>2. CASE t.on \in Name
    <3>1. x = [w EXCEPT !.drpcs = @ \cup {t.on}, !.vms[t.on] = t.val]
      BY <1>3, <2>2 DEF Effect
    <3>2. ListsAfter(w, t) = [w.vms EXCEPT ![t.on] = t.val] /\ LabelsAfter(w, t) = w.label
      BY <1>0, <1>3, <2>2 DEF ListsAfter, LabelsAfter, Lists
    <3> QED BY <1>0, <1>3, <3>1, <3>2 DEF DRPCsAfter, KeptAfter, MarkedAfter
  <2>3. CASE t.on \in Placement /\ t.on \notin Name
    <3>1. x = [w EXCEPT !.drpcs = @ \cup {t.on}]
      BY <1>3, <2>3 DEF Effect
    <3>2. ListsAfter(w, t) = w.vms /\ LabelsAfter(w, t) = w.label
      BY <1>0, <1>3, <2>3 DEF ListsAfter, LabelsAfter, Lists
    <3> QED BY <1>0, <1>3, <3>1, <3>2 DEF DRPCsAfter, KeptAfter, MarkedAfter
  <2> QED BY <2>1, <2>2, <2>3
<1>4. CASE t.do = "deleteDRPC"
  <2>1. x = [w EXCEPT !.drpcs = @ \ {t.on}, !.kept = @ \ {t.on},
                      !.vms = [n \in Name |-> IF n = t.on THEN {} ELSE @[n]]]
    BY <1>4 DEF Effect
  <2>2. /\ ListsAfter(w, t) = [n \in Name |-> IF n = t.on THEN {} ELSE w.vms[n]]
        /\ LabelsAfter(w, t) = w.label
    BY <1>0, <1>4 DEF ListsAfter, LabelsAfter, Lists
  <2> QED BY <1>0, <1>4, <2>1, <2>2 DEF DRPCsAfter, KeptAfter, MarkedAfter
<1>5. CASE t.do = "patchVMs"
  <2>1. x = [w EXCEPT !.vms[t.on] = t.val] /\ t.on \in Name
    BY <1>5 DEF Effect, Typed
  <2>2. ListsAfter(w, t) = [w.vms EXCEPT ![t.on] = t.val] /\ LabelsAfter(w, t) = w.label
    BY <1>0, <1>5, <2>1 DEF ListsAfter, LabelsAfter, Lists
  <2> QED BY <1>0, <1>5, <2>1, <2>2 DEF DRPCsAfter, KeptAfter, MarkedAfter
<1>6. CASE t.do = "label"
  <2>1. x = [w EXCEPT !.label[t.on] = t.val] /\ t.on \in Holder
    BY <1>6 DEF Effect, Typed
  <2>2. ListsAfter(w, t) = w.vms /\ LabelsAfter(w, t) = [w.label EXCEPT ![t.on] = t.val]
    BY <1>0, <1>6, <2>1 DEF ListsAfter, LabelsAfter, Lists
  <2> QED BY <1>0, <1>6, <2>1, <2>2 DEF DRPCsAfter, KeptAfter, MarkedAfter
<1>7. CASE t.do \in {"keep", "mark", "unmark"}
  <2>1. x = CASE t.do = "keep" -> [w EXCEPT !.kept = @ \cup {t.on}]
              [] t.do = "mark" -> [w EXCEPT !.marked = @ \cup {t.on}]
              [] t.do = "unmark" -> [w EXCEPT !.marked = @ \ {t.on}]
    BY <1>7 DEF Effect
  <2>2. ListsAfter(w, t) = w.vms /\ LabelsAfter(w, t) = w.label
    BY <1>0, <1>7 DEF ListsAfter, LabelsAfter, Lists
  <2> QED BY <1>0, <1>7, <2>1, <2>2 DEF DRPCsAfter, KeptAfter, MarkedAfter
<1> QED BY <1>1, <1>2, <1>3, <1>4, <1>5, <1>6, <1>7 DEF Dos

LEMMA EffectFacts ==
    ASSUME NEW w \in World, NEW t, Typed(t)
    PROVE  LET x == Effect(w, t) IN
           /\ x.drpcs = DRPCsAfter(w, t) /\ x.vms = ListsAfter(w, t) /\ x.label = LabelsAfter(w, t)
           /\ x.marked = MarkedAfter(w, t) /\ x.kept = KeptAfter(w, t)
           /\ x \in World /\ (Sane(w) /\ Accepts(w, t) => Sane(x))
<1> DEFINE x == Effect(w, t)
<1>1. /\ x = [placements |-> x.placements, drpcs |-> DRPCsAfter(w, t), vms |-> ListsAfter(w, t),
              label |-> LabelsAfter(w, t), marked |-> MarkedAfter(w, t), kept |-> KeptAfter(w, t)]
      /\ x.placements \subseteq Name \cup Placement
  BY EffectParts
<1> HIDE DEF x
<1>2. /\ x.drpcs = DRPCsAfter(w, t) /\ x.vms = ListsAfter(w, t) /\ x.label = LabelsAfter(w, t)
      /\ x.marked = MarkedAfter(w, t) /\ x.kept = KeptAfter(w, t)
  BY <1>1
<1>3. DRPCsAfter(w, t) \subseteq Name \cup Placement
  BY DEF DRPCsAfter, World, Typed
<1>4. ListsAfter(w, t) \in [Name -> SUBSET VM]
  BY DEF ListsAfter, World, Typed, Lists
<1>5. LabelsAfter(w, t) \in [Holder -> Name \cup {None}]
  BY DEF LabelsAfter, World, Typed
<1>6. MarkedAfter(w, t) \subseteq Placement /\ KeptAfter(w, t) \subseteq Placement
  BY DEF MarkedAfter, KeptAfter, World, Typed
<1>7. x \in World
  BY <1>1, <1>3, <1>4, <1>5, <1>6 DEF World
<1>8. ASSUME Sane(w), Accepts(w, t) PROVE Sane(x)
  <2>1. t.do = "keep" => t.on \in w.drpcs
    BY <1>8 DEF Accepts
  <2>2. x.kept \subseteq x.drpcs
    BY <1>2, <1>8, <2>1 DEF Sane, DRPCsAfter, KeptAfter
  <2>3. t.do = "patchVMs" => t.on \in w.drpcs
    BY <1>8 DEF Accepts
  <2>4. \A n \in Name \ x.drpcs : x.vms[n] = {}
    BY <1>2, <1>8, <2>3 DEF Sane, DRPCsAfter, ListsAfter, Lists
  <2> QED BY <2>2, <2>4 DEF Sane
<1> QED BY <1>2, <1>7, <1>8 DEF x

-----------------------------------------------------------------------------
(* What a call leaves alone.                                               *)

\* The list that the call writes is one that its run knows.
Fresh(w, t) == t.known = {} \/ w.vms[t.on] \in t.known

\* A call that writes a list from a fresh copy changes it by its own VM only.
LEMMA OwnVMOnly ==
    ASSUME NEW w \in World, Sane(w), NEW q, NEW s, Owns(q, s), Accepts(w, s), Fresh(w, s),
           NEW n \in Name, NEW v \in VM, v # q.vm
    PROVE  v \in Effect(w, s).vms[n] <=> v \in w.vms[n]
<1>1. Effect(w, s).vms = ListsAfter(w, s)
  BY EffectFacts DEF Owns
<1>2. CASE ~Lists(s) \/ n # s.on
  BY <1>1, <1>2 DEF ListsAfter
<1>3. CASE Lists(s) /\ n = s.on /\ s.do = "createDRPC"
  <2>1. w.vms[n] = {} /\ s.val = {q.vm}
    BY <1>3 DEF Accepts, Sane, Owns
  <2> QED BY <1>1, <1>3, <2>1 DEF ListsAfter
<1>4. CASE Lists(s) /\ n = s.on /\ s.do \in {"patchVMs", "deleteDRPC"}
  <2>1. s.known # {} /\ \A K \in s.known : v \in K <=> v \in s.val
    BY <1>4 DEF Owns
  <2>2. w.vms[n] \in s.known /\ (s.do = "deleteDRPC" => s.val = {})
    BY <1>4, <2>1 DEF Fresh, Owns
  <2> QED BY <1>1, <1>4, <2>1, <2>2 DEF ListsAfter
<1> QED BY <1>2, <1>3, <1>4 DEF Lists

\* What a run has done stands whatever a run about something else does, ...
LEMMA OthersLeaveIt ==
    ASSUME NEW w \in World, Sane(w), NEW r \in Run, NEW q \in Run, Apart(r, q),
           NEW t, NEW s, Owns(r, t), Owns(q, s), Accepts(w, s), Fresh(w, s), Post(w, r, t)
    PROVE  Post(Effect(w, s), r, t)
<1> DEFINE x == Effect(w, s)
<1>1. /\ x.drpcs = DRPCsAfter(w, s) /\ x.label = LabelsAfter(w, s)
      /\ x.marked = MarkedAfter(w, s) /\ x.kept = KeptAfter(w, s)
  BY EffectFacts DEF Owns
<1>2. Lists(t) => (r.vm \in x.vms[t.on] <=> r.vm \in w.vms[t.on])
  <2>1. SUFFICES ASSUME Lists(t) PROVE r.vm \in x.vms[t.on] <=> r.vm \in w.vms[t.on]
    OBVIOUS
  <2>2. r.vm \in VM /\ t.on \in Name
    BY <2>1 DEF Owns, Lists
  <2>3. r.vm # q.vm
    BY <2>2 DEF Apart
  <2> QED BY <2>2, <2>3, OwnVMOnly
<1> HIDE DEF x
<1>3. t.do = "label" /\ OwnVolumes => x.label[t.on] = w.label[t.on]
  <2>1. SUFFICES ASSUME t.do = "label", OwnVolumes PROVE x.label[t.on] = w.label[t.on]
    OBVIOUS
  <2>2. r.vm \in VM /\ t.on \in {r.vm} \cup Volumes[r.vm] /\ t.on \in Holder
    BY <2>1 DEF Owns, Typed
  <2>3. ASSUME s.do = "label" PROVE s.on # t.on
    <3>1. q.vm \in VM /\ s.on \in {q.vm} \cup Volumes[q.vm] /\ r.vm # q.vm
      BY <2>2, <2>3 DEF Owns, Apart
    <3>2. /\ Volumes[q.vm] \subseteq PVC /\ Volumes[r.vm] \subseteq PVC
          /\ Volumes[q.vm] \cap Volumes[r.vm] = {}
      BY <2>1, <2>2, <3>1 DEF OwnVolumes
    <3> QED BY <2>2, <3>1, <3>2
  <2> QED BY <1>1, <2>2, <2>3 DEF LabelsAfter
<1>4. Apps(t) /\ Apps(s) => t.on # s.on
  BY DEF Owns, Apart
<1>5. /\ t.do = "createDRPC" /\ t.on \in Placement => t.on \in x.drpcs
      /\ t.do = "deleteDRPC" /\ t.on \in Placement => t.on \notin x.drpcs
  BY <1>1, <1>4 DEF DRPCsAfter, Apps, Post
<1>6. Owns(r, t) /\ Typed(t)
  BY DEF Owns
<1>7. t.do = "mark" => t.on \in x.marked
  BY <1>1, <1>4, <1>6 DEF MarkedAfter, Apps, Post, Typed, Owns
<1>8. t.do = "keep" => (t.on \in x.drpcs => t.on \in x.kept)
  BY <1>1, <1>4, <1>6 DEF DRPCsAfter, KeptAfter, Apps, Post, Typed
<1> QED BY <1>2, <1>3, <1>5, <1>7, <1>8 DEF Post, x

\* ... and whatever the run itself does next.
LEMMA RunKeepsIt ==
    ASSUME NEW w \in World, NEW r \in Run, NEW t, NEW s, Owns(r, t), Owns(r, s), Aims(r, t), Aims(r, s),
           Post(w, r, t) \/ s = t
    PROVE  Post(Effect(w, s), r, t)
<1> DEFINE x == Effect(w, s)
<1>1. /\ x.drpcs = DRPCsAfter(w, s) /\ x.label = LabelsAfter(w, s) /\ x.vms = ListsAfter(w, s)
      /\ x.marked = MarkedAfter(w, s) /\ x.kept = KeptAfter(w, s)
  BY EffectFacts DEF Owns
<1> HIDE DEF x
<1>2. Typed(t) /\ Typed(s)
  BY DEF Owns
<1>3. t.do = "label" => (OwnVolumes => x.label[t.on] = t.val)
  BY <1>1, <1>2 DEF LabelsAfter, Post, Aims, Typed
<1>4. Lists(t) => (r.vm \in x.vms[t.on] <=> r.vm \in t.val)
  <2>1. CASE ~Lists(s)
    BY <1>1, <2>1 DEF ListsAfter, Post, Lists
  <2>2. CASE Lists(s) /\ Lists(t)
    <3>1. t.on = s.on /\ (r.vm \in t.val <=> r.vm \in s.val) /\ (s.do = "deleteDRPC" => s.val = {})
      BY <2>2 DEF Aims, Owns, Lists
    <3> QED BY <1>1, <2>2, <3>1 DEF ListsAfter, Lists
  <2> QED BY <2>1, <2>2
<1>5. Apps(t) /\ Apps(s) => (t.do \in {"mark", "createDRPC"} <=> s.do \in {"mark", "createDRPC"})
  BY DEF Owns
<1>6. /\ t.do = "createDRPC" /\ t.on \in Placement => t.on \in x.drpcs
      /\ t.do = "deleteDRPC" /\ t.on \in Placement => t.on \notin x.drpcs
  BY <1>1, <1>5 DEF DRPCsAfter, Apps, Post
<1>7. t.do = "mark" => t.on \in x.marked
  BY <1>1, <1>2, <1>5 DEF MarkedAfter, Apps, Post, Typed
<1>8. t.do = "keep" => (t.on \in x.drpcs => t.on \in x.kept)
  BY <1>1, <1>2, <1>5 DEF DRPCsAfter, KeptAfter, Apps, Post, Typed
<1> QED BY <1>3, <1>4, <1>6, <1>7, <1>8 DEF Post, x

\* A DRPC that is to go, annotated, is not made anew without its annotation.
LEMMA OutlivesStill ==
    ASSUME NEW w \in World, NEW r \in Run, NEW q \in Run, r = q \/ Apart(r, q),
           NEW t, NEW s, Owns(r, t), Owns(q, s), Outlives(w, t)
    PROVE  Outlives(Effect(w, s), t)
<1> DEFINE x == Effect(w, s)
<1>1. x.drpcs = DRPCsAfter(w, s) /\ x.kept = KeptAfter(w, s)
  BY EffectFacts DEF Owns
<1> HIDE DEF x
<1>2. SUFFICES ASSUME t.do = "deleteDRPC", t.on \in Placement, t.on \in x.drpcs PROVE t.on \in x.kept
  BY DEF Outlives, x
<1>3. ASSUME s.do = "createDRPC" PROVE s.on # t.on
  BY <1>2, <1>3 DEF Owns, Apps, Apart
<1>4. t.on \in w.drpcs /\ t.on \in w.kept
  BY <1>1, <1>2, <1>3 DEF DRPCsAfter, Outlives
<1> QED BY <1>1, <1>2, <1>4 DEF DRPCsAfter, KeptAfter

-----------------------------------------------------------------------------
(* Type correctness.                                                       *)

LEMMA TypesHold == TInv => TypeOK
<1> SUFFICES ASSUME TInv PROVE TypeOK
  OBVIOUS
<1>1. \A u \in User :
          /\ run[u].phase \in {"idle", "chosen", "try", "catch", "done", "failed"}
          /\ run[u].vm \in VM \cup {None} /\ run[u].name \in Name \cup {None}
          /\ run[u].todo \subseteq Tasks
          /\ run[u].todo # {} => run[u].phase \in {"try", "catch"}
  BY DEF TInv, Runs, Run, Waits
<1>2. late \subseteq Tasks
  BY DEF TInv, LateTyped, Typed
<1> QED BY <1>1, <1>2 DEF TInv, World, Sane, TypeOK

\* What the phase, the stage and the open tasks of a run say nothing about.
LEMMA SameRun ==
    ASSUME NEW r, NEW q, q.kind = r.kind, q.vm = r.vm, q.name = r.name, q.copy = r.copy, q.seen = r.seen
    PROVE  /\ Stages(q) = Stages(r) /\ (q.stage = r.stage => Cleanup(q) = Cleanup(r))
           /\ \A t : /\ Owns(q, t) <=> Owns(r, t)
                    /\ Aims(q, t) <=> Aims(r, t)
           /\ \A w, t : Post(w, q, t) <=> Post(w, r, t)
           /\ \A p : (Apart(q, p) <=> Apart(r, p)) /\ (Apart(p, q) <=> Apart(p, r))
<1>1. Stages(q) = Stages(r)
  BY DEF Stages, Standalone, Shared, Remove, AssignManaged, RemoveManaged, Unmark, LabelVM, LabelPVCs,
         PatchVMs, GroupTask, LastOfGroup
<1>2. q.stage = r.stage => Cleanup(q) = Cleanup(r)
  BY DEF Cleanup, LabelVM, PatchVMs, GroupTask
<1>3. \A t : Owns(q, t) <=> Owns(r, t)
  BY DEF Owns
<1>4. \A t : Aims(q, t) <=> Aims(r, t)
  BY DEF Aims
<1>5. \A w, t : Post(w, q, t) <=> Post(w, r, t)
  BY DEF Post
<1>6. \A p : (Apart(q, p) <=> Apart(r, p)) /\ (Apart(p, q) <=> Apart(p, r))
  BY DEF Apart
<1> QED BY <1>1, <1>2, <1>3, <1>4, <1>5, <1>6

LEMMA StageCount == ASSUME NEW r \in Run, r.kind # "none" PROVE Len(Stages(r)) \in 1..4
<1>1. r.kind \in {"standalone", "shared", "remove", "assignManaged", "removeManaged"}
  BY DEF Run, Machine
<1> QED BY <1>1 DEF Stages, Standalone, Shared, Remove, AssignManaged, RemoveManaged

\* The tasks that a run awaits are its own.
LEMMA TodoOwned ==
    ASSUME TInv, NEW u \in User, NEW t \in run[u].todo
    PROVE  Owns(run[u], t) /\ (run[u].phase = "try" => Aims(run[u], t))
<1>1. run[u] \in Run /\ About(run[u]) /\ Waits(run[u])
  BY DEF TInv, Runs
<1> QED BY <1>1, StageTasks, CleanupTasks DEF Waits

LEMMA RunChange ==
    ASSUME Runs, NEW u \in User, NEW q \in Run, About(q), Waits(q), run' = [run EXCEPT ![u] = q]
    PROVE  Runs'
BY DEF Runs

LEMMA ChooseTypes ==
    ASSUME TInv, NEW u \in User, NEW r \in Run, About(r), Waits(r), Choose(u, r)
    PROVE  TInv'
<1>1. Runs'
  BY RunChange DEF TInv, Choose
<1> QED BY <1>1 DEF TInv, Choose, LateTyped

Phases == {"idle", "chosen", "try", "catch", "done", "failed"}
Same(q, r) == q.kind = r.kind /\ q.vm = r.vm /\ q.name = r.name /\ q.copy = r.copy

To(r, ph, td) == [r EXCEPT !.phase = ph, !.todo = td]
OnTo(r, st, td) == [r EXCEPT !.stage = st, !.todo = td]

\* A run that goes on, field by field.
LEMMA Moved ==
    ASSUME NEW r \in Run, NEW ph \in Phases, NEW td \in SUBSET Tasks
    PROVE  LET q == To(r, ph, td)
           IN /\ q \in Run /\ Same(q, r)
              /\ q.phase = ph /\ q.seen = r.seen /\ q.stage = r.stage /\ q.todo = td
<1> DEFINE q == [r EXCEPT !.phase = ph, !.todo = td]
<1>1. q \in Run
  BY DEF Run, Phases
<1>2. q.kind = r.kind
  BY DEF Run
<1>3. q.vm = r.vm
  BY DEF Run
<1>4. q.name = r.name
  BY DEF Run
<1>5. q.copy = r.copy
  BY DEF Run
<1>6. q.phase = ph
  BY DEF Run
<1>7. q.seen = r.seen
  BY DEF Run
<1>8. q.stage = r.stage
  BY DEF Run
<1>9. q.todo = td
  BY DEF Run
<1> HIDE DEF q
<1> QED BY <1>1, <1>2, <1>3, <1>4, <1>5, <1>6, <1>7, <1>8, <1>9 DEF Same, To, q

LEMMA Stepped ==
    ASSUME NEW r \in Run, NEW st \in 0..4, NEW td \in SUBSET Tasks
    PROVE  LET q == OnTo(r, st, td)
           IN /\ q \in Run /\ Same(q, r)
              /\ q.phase = r.phase /\ q.seen = r.seen /\ q.stage = st /\ q.todo = td
<1> DEFINE q == [r EXCEPT !.stage = st, !.todo = td]
<1>1. q \in Run
  BY DEF Run, Phases
<1>2. q.kind = r.kind
  BY DEF Run
<1>3. q.vm = r.vm
  BY DEF Run
<1>4. q.name = r.name
  BY DEF Run
<1>5. q.copy = r.copy
  BY DEF Run
<1>6. q.phase = r.phase
  BY DEF Run
<1>7. q.seen = r.seen
  BY DEF Run
<1>8. q.stage = st
  BY DEF Run
<1>9. q.todo = td
  BY DEF Run
<1> HIDE DEF q
<1> QED BY <1>1, <1>2, <1>3, <1>4, <1>5, <1>6, <1>7, <1>8, <1>9 DEF Same, OnTo, q

\* The run of a click, which has seen se.
Begin(r, se) == [r EXCEPT !.phase = "try", !.stage = 1, !.seen = se]

LEMMA Begun ==
    ASSUME NEW r \in Run, NEW se \in SUBSET Placement
    PROVE  LET q == Begin(r, se)
           IN /\ q \in Run /\ Same(q, r)
              /\ q.phase = "try" /\ q.seen = se /\ q.stage = 1 /\ q.todo = r.todo
<1> DEFINE q == [r EXCEPT !.phase = "try", !.stage = 1, !.seen = se]
<1>1. q \in Run
  <2>1. \A ph \in Phases, st \in 0..4 : [r EXCEPT !.phase = ph, !.stage = st, !.seen = se] \in Run
    BY DEF Run, Phases
  <2>2. "try" \in Phases /\ 1 \in 0..4
    BY DEF Phases
  <2> QED BY <2>1, <2>2
<1>2. q.kind = r.kind
  BY DEF Run
<1>3. q.vm = r.vm
  BY DEF Run
<1>4. q.name = r.name
  BY DEF Run
<1>5. q.copy = r.copy
  BY DEF Run
<1>6. q.phase = "try"
  BY DEF Run
<1>7. q.seen = se
  BY DEF Run
<1>8. q.stage = 1
  BY DEF Run
<1>9. q.todo = r.todo
  BY DEF Run
<1> HIDE DEF q
<1> QED BY <1>1, <1>2, <1>3, <1>4, <1>5, <1>6, <1>7, <1>8, <1>9 DEF Same, Begin, q

LEMMA Waited ==
    ASSUME NEW r \in Run, NEW td \in SUBSET Tasks
    PROVE  LET q == [r EXCEPT !.todo = td]
           IN /\ q \in Run /\ Same(q, r)
              /\ q.phase = r.phase /\ q.seen = r.seen /\ q.stage = r.stage /\ q.todo = td
<1> DEFINE q == [r EXCEPT !.todo = td]
<1>1. q \in Run
  BY DEF Run, Phases
<1>2. q.kind = r.kind
  BY DEF Run
<1>3. q.vm = r.vm
  BY DEF Run
<1>4. q.name = r.name
  BY DEF Run
<1>5. q.copy = r.copy
  BY DEF Run
<1>6. q.phase = r.phase
  BY DEF Run
<1>7. q.seen = r.seen
  BY DEF Run
<1>8. q.stage = r.stage
  BY DEF Run
<1>9. q.todo = td
  BY DEF Run
<1> HIDE DEF q
<1> QED BY <1>1, <1>2, <1>3, <1>4, <1>5, <1>6, <1>7, <1>8, <1>9 DEF Same, q

LEMMA Ended ==
    ASSUME NEW r \in Run, NEW ph \in Phases
    PROVE  LET q == [r EXCEPT !.phase = ph]
           IN /\ q \in Run /\ Same(q, r)
              /\ q.phase = ph /\ q.seen = r.seen /\ q.stage = r.stage /\ q.todo = r.todo
<1> DEFINE q == [r EXCEPT !.phase = ph]
<1>1. q \in Run
  BY DEF Run, Phases
<1>2. q.kind = r.kind
  BY DEF Run
<1>3. q.vm = r.vm
  BY DEF Run
<1>4. q.name = r.name
  BY DEF Run
<1>5. q.copy = r.copy
  BY DEF Run
<1>6. q.phase = ph
  BY DEF Run
<1>7. q.seen = r.seen
  BY DEF Run
<1>8. q.stage = r.stage
  BY DEF Run
<1>9. q.todo = r.todo
  BY DEF Run
<1> HIDE DEF q
<1> QED BY <1>1, <1>2, <1>3, <1>4, <1>5, <1>6, <1>7, <1>8, <1>9 DEF Same, q

\* What is chosen.
LEMMA ChosenRun ==
    ASSUME NEW k \in Machine \cup {"assignManaged", "removeManaged"}, NEW v \in VM \cup {None},
           NEW n \in Name \cup {None}, NEW c \in SUBSET (VM \cup Placement),
           k \in Machine => v \in VM /\ n \in Name /\ c \subseteq VM,
           k \in {"standalone", "remove"} => v \in c, k = "standalone" => c = {v},
           k \notin Machine => v = None /\ c \subseteq Placement
    PROVE  LET q == Chosen(k, v, n, c)
           IN q \in Run /\ About(q) /\ Waits(q) /\ q.phase = "chosen" /\ q.stage = 0
<1> DEFINE q == Chosen(k, v, n, c)
<1>1. q = [phase |-> "chosen", kind |-> k, vm |-> v, name |-> n,
           copy |-> c, seen |-> {}, stage |-> 0, todo |-> {}]
  BY DEF Chosen
<1> HIDE DEF q
<1>2. q \in Run
  BY <1>1 DEF Run
<1>3. About(q) /\ Waits(q)
  BY <1>1 DEF About, Waits, Machine
<1> QED BY <1>1, <1>2, <1>3 DEF q

\* What is chosen suits the world.
Suits(q) ==
    /\ q.phase = "chosen" /\ q.stage = 0
    /\ q.kind = "shared" => q.name \in world.drpcs /\ q.copy = world.vms[q.name]
    /\ q.kind = "remove" => q.vm \in world.vms[q.name] /\ q.copy = world.vms[q.name]
    /\ q.kind \in {"standalone", "shared"} => \A n \in Name : q.vm \notin world.vms[n]

LEMMA ChosenFields ==
    ASSUME NEW k, NEW v, NEW n, NEW c
    PROVE  LET q == Chosen(k, v, n, c)
           IN q.kind = k /\ q.vm = v /\ q.name = n /\ q.copy = c /\ q.phase = "chosen" /\ q.stage = 0
BY DEF Chosen

\* A click on something new.
LEMMA ChoosingWell ==
    ASSUME TInv, NEW u \in User,
           ChooseStandalone(u) \/ ChooseShared(u) \/ ChooseRemove(u) \/ ChooseManaged(u)
    PROVE  \E q \in Run : About(q) /\ Waits(q) /\ Suits(q) /\ Choose(u, q)
<1>0. world.vms \in [Name -> SUBSET VM] /\ world.drpcs \subseteq Name \cup Placement
  BY DEF TInv, World
<1>1. CASE ChooseStandalone(u)
  <2>1. PICK v \in VM, n \in Name : ~Protected(v) /\ Choose(u, Chosen("standalone", v, n, {v}))
    BY <1>1 DEF ChooseStandalone
  <2> DEFINE q == Chosen("standalone", v, n, {v})
  <2>2. q \in Run /\ About(q) /\ Waits(q)
    BY ChosenRun DEF Machine
  <2>3. q.kind = "standalone" /\ q.vm = v /\ q.phase = "chosen" /\ q.stage = 0
    BY ChosenFields
  <2> HIDE DEF q
  <2>4. Suits(q)
    BY <2>1, <2>3 DEF Suits, Protected
  <2> QED BY <2>1, <2>2, <2>4 DEF q
<1>2. CASE ChooseShared(u)
  <2>1. PICK v \in VM, n \in Name \cap world.drpcs :
            ~Protected(v) /\ Choose(u, Chosen("shared", v, n, world.vms[n]))
    BY <1>2 DEF ChooseShared
  <2> DEFINE q == Chosen("shared", v, n, world.vms[n])
  <2>2. q \in Run /\ About(q) /\ Waits(q)
    BY <1>0, ChosenRun DEF Machine
  <2>3. /\ q.kind = "shared" /\ q.vm = v /\ q.name = n /\ q.copy = world.vms[n]
        /\ q.phase = "chosen" /\ q.stage = 0
    BY ChosenFields
  <2> HIDE DEF q
  <2>4. Suits(q)
    BY <2>1, <2>3 DEF Suits, Protected
  <2> QED BY <2>1, <2>2, <2>4 DEF q
<1>3. CASE ChooseRemove(u)
  <2>1. PICK n \in Name : \E v \in world.vms[n] : Choose(u, Chosen("remove", v, n, world.vms[n]))
    BY <1>3 DEF ChooseRemove
  <2>a. PICK v \in world.vms[n] : Choose(u, Chosen("remove", v, n, world.vms[n]))
    BY <2>1
  <2> DEFINE q == Chosen("remove", v, n, world.vms[n])
  <2>2. q \in Run /\ About(q) /\ Waits(q)
    BY <1>0, ChosenRun DEF Machine
  <2>3. /\ q.kind = "remove" /\ q.vm = v /\ q.name = n /\ q.copy = world.vms[n]
        /\ q.phase = "chosen" /\ q.stage = 0
    BY ChosenFields
  <2> HIDE DEF q
  <2>4. Suits(q)
    BY <2>3 DEF Suits
  <2> QED BY <2>a, <2>2, <2>4 DEF q
<1>4. CASE ChooseManaged(u)
  <2>1. PICK k \in {"assignManaged", "removeManaged"}, ps \in SUBSET Placement :
            Choose(u, Chosen(k, None, None, ps))
    BY <1>4 DEF ChooseManaged
  <2> DEFINE q == Chosen(k, None, None, ps)
  <2>2. q \in Run /\ About(q) /\ Waits(q)
    BY ChosenRun DEF Machine
  <2>3. q.kind = k /\ q.phase = "chosen" /\ q.stage = 0
    BY ChosenFields
  <2> HIDE DEF q
  <2>4. Suits(q)
    BY <2>3 DEF Suits
  <2> QED BY <2>1, <2>2, <2>4 DEF q
<1> QED BY <1>1, <1>2, <1>3, <1>4

LEMMA Choosing ==
    ASSUME TInv, NEW u \in User,
           ChooseStandalone(u) \/ ChooseShared(u) \/ ChooseRemove(u) \/ ChooseManaged(u)
    PROVE  \E r \in Run : About(r) /\ Waits(r) /\ r.phase = "chosen" /\ Choose(u, r)
BY ChoosingWell DEF Suits

\* A click on Assign or on Confirm remove.
LEMMA Submitting ==
    ASSUME TInv, NEW u \in User, Submit(u)
    PROVE  \E q \in Run :
              /\ run' = [run EXCEPT ![u] = q] /\ About(q) /\ Waits(q) /\ q.kind = run[u].kind
              /\ q.vm = run[u].vm /\ q.name = run[u].name /\ q.copy = run[u].copy
              /\ q.phase = "try" /\ q.stage = 1 /\ q.todo = Stages(q)[1]
<1>1. PICK seen \in SUBSET (run[u].copy \cap world.marked) :
          LET r == [run[u] EXCEPT !.phase = "try", !.stage = 1, !.seen = seen]
          IN run' = [run EXCEPT ![u] = [r EXCEPT !.todo = Stages(r)[1]]]
  BY DEF Submit
<1> DEFINE r == [run[u] EXCEPT !.phase = "try", !.stage = 1, !.seen = seen]
           q == [r EXCEPT !.todo = Stages(r)[1]]
<1>2. /\ run[u] \in Run /\ About(run[u]) /\ run[u].kind # "none" /\ run[u].todo = {}
      /\ world.marked \subseteq Placement
  BY DEF Submit, TInv, Runs, About, Waits, World
<1>3. seen \in SUBSET Placement /\ seen \subseteq run[u].copy
  BY <1>2
<1>4. run' = [run EXCEPT ![u] = q]
  BY <1>1
<1>5. r \in Run /\ Same(r, run[u]) /\ r.seen = seen /\ r.phase = "try" /\ r.stage = 1
  <2>1. run[u] \in Run /\ seen \in SUBSET Placement
    BY <1>2, <1>3
  <2>2. r = Begin(run[u], seen)
    BY DEF Begin
  <2> HIDE DEF r
  <2> QED BY <2>1, <2>2, Begun
<1> HIDE DEF r
<1>6. About(r) /\ r.kind # "none"
  BY <1>2, <1>3, <1>5 DEF About, Same
<1>7. Len(Stages(r)) \in 1..4
  BY <1>5, <1>6, StageCount
<1>8. Stages(r)[1] \in SUBSET Tasks
  <2>1. 1 \in 1..Len(Stages(r))
    BY <1>7
  <2> QED BY <1>5, <1>6, <2>1, StageTasks DEF Owns, Typed
<1>9. /\ q \in Run /\ Same(q, r) /\ q.phase = "try" /\ q.seen = r.seen /\ q.stage = 1
      /\ q.todo = Stages(r)[1]
  BY <1>5, <1>8, Waited
<1> HIDE DEF q
<1>a. Stages(q) = Stages(r)
  BY <1>9, SameRun DEF Same
<1>b. About(q)
  BY <1>6, <1>9 DEF About, Same
<1>c. Waits(q)
  BY <1>6, <1>7, <1>9, <1>a DEF Waits, Same
<1> QED BY <1>4, <1>5, <1>9, <1>a, <1>b, <1>c DEF Same

LEMMA ClickTypes == ASSUME TInv, NEW u \in User, Click(u) PROVE TInv'
<1>1. CASE ~Submit(u)
  BY <1>1, Choosing, ChooseTypes DEF Click
<1>2. CASE Submit(u)
  <2>1. Runs'
    BY <1>2, Submitting, RunChange DEF TInv
  <2>2. runs' \in 0..MaxRuns /\ overlap' \in BOOLEAN
    BY <1>2 DEF Submit, TInv
  <2>3. faults' = faults \/ (faults < MaxFaults /\ faults' = faults + 1)
    BY <1>2 DEF Submit
  <2>5. faults \in 0..MaxFaults /\ unrepaired \in BOOLEAN
    BY DEF TInv
  <2>6. faults' \in 0..MaxFaults
    BY <2>3, <2>5
  <2>7. unrepaired' = (unrepaired \/ Outdated(run[u])) \/ unrepaired' = TRUE
    BY <1>2 DEF Submit
  <2>4. faults' \in 0..MaxFaults /\ unrepaired' \in BOOLEAN
    BY <2>5, <2>6, <2>7, Zenon
  <2> QED BY <1>2, <2>1, <2>2, <2>4 DEF Submit, TInv, LateTyped
<1> QED BY <1>1, <1>2

\* A task of the run resolves.
LEMMA Working ==
    ASSUME TInv, NEW u \in User, NEW t, Work(u, t)
    PROVE  \E q \in Run :
              /\ run' = [run EXCEPT ![u] = q] /\ About(q) /\ Waits(q) /\ Same(q, run[u])
              /\ q.phase = run[u].phase /\ q.seen = run[u].seen /\ q.stage = run[u].stage
              /\ q.todo = run[u].todo \ {t}
<1> DEFINE r == run[u]
           q == [r EXCEPT !.todo = r.todo \ {t}]
<1>1. r \in Run /\ About(r) /\ Waits(r) /\ r.phase \in {"try", "catch"} /\ r.todo \ {t} \in SUBSET Tasks
  BY DEF TInv, Runs, Work, Run
<1>2. run' = [run EXCEPT ![u] = q]
  BY DEF Work
<1> HIDE DEF r
<1>3. /\ q \in Run /\ Same(q, r) /\ q.phase = r.phase /\ q.seen = r.seen /\ q.stage = r.stage
      /\ q.todo = r.todo \ {t}
  BY <1>1, Waited
<1> HIDE DEF q
<1>4. Stages(q) = Stages(r) /\ Cleanup(q) = Cleanup(r)
  BY <1>3, SameRun DEF Same
<1>5. About(q)
  BY <1>1, <1>3 DEF About, Same
<1>6. Waits(q)
  BY <1>1, <1>3, <1>4 DEF Waits, Same
<1> QED BY <1>2, <1>3, <1>5, <1>6 DEF r

\* A task of the run is rejected.
LEMMA GivingUp ==
    ASSUME NEW r \in Run, About(r), Waits(r), r.phase \in {"try", "catch"}
    PROVE  LET q == GiveUp(r)
           IN /\ q \in Run /\ About(q) /\ Waits(q) /\ Same(q, r)
              /\ q.seen = r.seen /\ q.stage = r.stage
              /\ q.phase = IF r.phase = "try" THEN "catch" ELSE "failed"
<1> DEFINE q == GiveUp(r)
           ca == "catch"
           fa == "failed"
           no == {}
           x == To(r, ca, Cleanup(r))
           y == To(r, fa, no)
<1>0. q = IF r.phase = "try" THEN x ELSE y
  BY DEF GiveUp, To
<1>1. Cleanup(r) \in SUBSET Tasks /\ no \in SUBSET Tasks /\ ca \in Phases /\ fa \in Phases
  BY CleanupTasks DEF Owns, Typed, Phases
<1> HIDE DEF ca, fa, no
<1>x. /\ x \in Run /\ Same(x, r) /\ x.seen = r.seen /\ x.stage = r.stage /\ x.phase = ca
      /\ x.todo = Cleanup(r)
  BY <1>1, Moved
<1>y. y \in Run /\ Same(y, r) /\ y.seen = r.seen /\ y.stage = r.stage /\ y.phase = fa /\ y.todo = no
  BY <1>1, Moved
<1> HIDE DEF q, x, y
<1>2. /\ q \in Run /\ Same(q, r) /\ q.seen = r.seen /\ q.stage = r.stage
      /\ q.phase = IF r.phase = "try" THEN "catch" ELSE "failed"
      /\ q.todo = IF r.phase = "try" THEN Cleanup(r) ELSE {}
  BY <1>0, <1>x, <1>y DEF ca, fa, no
<1>3. Stages(q) = Stages(r) /\ Cleanup(q) = Cleanup(r)
  BY <1>2, SameRun DEF Same
<1>4. r.kind # "none"
  BY DEF About
<1>5. About(q)
  BY <1>2, <1>4 DEF About, Same
<1>6. Waits(q)
  BY <1>2, <1>3, <1>4 DEF Waits, Same
<1> QED BY <1>2, <1>5, <1>6 DEF q

\* All tasks of an await have resolved.
LEMMA Advancing ==
    ASSUME TInv, NEW u \in User, Advance(u)
    PROVE  LET r == run[u] IN
           \E q \in Run :
              /\ run' = [run EXCEPT ![u] = q] /\ About(q) /\ Waits(q) /\ r.todo = {}
              /\ \/ r.phase = "catch" /\ q.phase = "failed" /\ Same(q, r)
                 \/ r.phase = "try" /\ r.stage = Len(Stages(r)) /\ q.phase = "done" /\ q.kind = "none"
                 \/ /\ r.phase = "try" /\ r.stage # Len(Stages(r)) /\ q.phase = "try" /\ Same(q, r)
                    /\ q.seen = r.seen /\ q.stage = r.stage + 1 /\ q.todo = Stages(r)[r.stage + 1]
<1> DEFINE r == run[u]
<1>1. /\ r \in Run /\ About(r) /\ Waits(r) /\ r.phase \in {"try", "catch"} /\ r.todo = {}
      /\ run' = [run EXCEPT ![u] =
            IF r.phase = "catch" THEN [r EXCEPT !.phase = "failed"]
            ELSE IF r.stage = Len(Stages(r)) THEN [Idle EXCEPT !.phase = "done"]
            ELSE [r EXCEPT !.stage = r.stage + 1, !.todo = Stages(r)[r.stage + 1]]]
  BY DEF TInv, Runs, Advance, Settled
<1> HIDE DEF r
<1>2. r.kind # "none" /\ r.stage \in 1..Len(Stages(r)) /\ Len(Stages(r)) \in 1..4
  BY <1>1, StageCount DEF Waits
<1>3. CASE r.phase = "catch"
  <2> DEFINE q == [r EXCEPT !.phase = "failed"]
  <2>1. run' = [run EXCEPT ![u] = q]
    BY <1>1, <1>3
  <2>2. "failed" \in Phases
    BY DEF Phases
  <2>3. q \in Run /\ Same(q, r) /\ q.phase = "failed" /\ q.seen = r.seen /\ q.stage = r.stage /\ q.todo = {}
    BY <1>1, <2>2, Ended
  <2> HIDE DEF q
  <2>4. About(q)
    BY <1>1, <1>2, <2>3 DEF About, Same
  <2>5. Waits(q)
    BY <2>3 DEF Waits
  <2> QED BY <1>1, <1>3, <2>1, <2>3, <2>4, <2>5 DEF r
<1>4. CASE r.phase = "try" /\ r.stage = Len(Stages(r))
  <2> DEFINE q == [Idle EXCEPT !.phase = "done"]
  <2>1. run' = [run EXCEPT ![u] = q]
    BY <1>1, <1>4
  <2>2. "done" \in Phases /\ Idle \in Run
    BY DEF Phases, Idle, Run
  <2>3. /\ Idle.kind = "none" /\ Idle.vm = None /\ Idle.copy = {} /\ Idle.seen = {} /\ Idle.todo = {}
    BY DEF Idle
  <2>4. /\ q \in Run /\ q.kind = "none" /\ q.vm = None /\ q.copy = {} /\ q.phase = "done"
        /\ q.seen = {} /\ q.todo = {}
    BY <2>2, <2>3, Ended DEF Same
  <2> HIDE DEF q
  <2>5. About(q)
    BY <2>4 DEF About, Machine
  <2>6. Waits(q)
    BY <2>4 DEF Waits
  <2> QED BY <1>1, <1>4, <2>1, <2>4, <2>5, <2>6 DEF r
<1>5. CASE r.phase = "try" /\ r.stage # Len(Stages(r))
  <2> DEFINE st == r.stage + 1
             td == Stages(r)[st]
             q == OnTo(r, st, td)
  <2>1. run' = [run EXCEPT ![u] = q]
    BY <1>1, <1>5 DEF OnTo
  <2>2. st \in 1..Len(Stages(r)) /\ st \in 0..4
    <3>1. \A i, n \in Int : i \in 1..n /\ n \in 1..4 /\ i # n => i + 1 \in 1..n /\ i + 1 \in 0..4
      OBVIOUS
    <3> DEFINE n == Len(Stages(r))
    <3>2. r.stage \in 1..n /\ n \in 1..4 /\ r.stage # n
      BY <1>2, <1>5
    <3> HIDE DEF n
    <3>3. r.stage \in Int /\ n \in Int
      BY <3>2
    <3>4. st \in 1..n /\ st \in 0..4
      BY <3>1, <3>2, <3>3
    <3> QED BY <3>4 DEF n
  <2> HIDE DEF st
  <2>3. td \in SUBSET Tasks
    BY <1>1, <1>2, <2>2, StageTasks DEF Owns, Typed
  <2> HIDE DEF td
  <2>4. /\ q \in Run /\ Same(q, r) /\ q.phase = r.phase /\ q.seen = r.seen
        /\ q.stage = st /\ q.todo = td
    BY <1>1, <2>2, <2>3, Stepped
  <2> HIDE DEF q
  <2>5. Stages(q) = Stages(r)
    BY <2>4, SameRun DEF Same
  <2>6. About(q)
    BY <1>1, <1>2, <2>4 DEF About, Same
  <2>7. Waits(q)
    BY <1>2, <1>5, <2>2, <2>4, <2>5 DEF Waits, Same, td
  <2> QED BY <1>1, <1>5, <2>1, <2>4, <2>6, <2>7 DEF r, st, td
<1> QED BY <1>1, <1>3, <1>4, <1>5

LEMMA WorkTypes == ASSUME TInv, NEW u \in User, NEW t \in run[u].todo, Work(u, t) PROVE TInv'
<1>1. Runs'
  BY Working, RunChange DEF TInv
<1>2. Owns(run[u], t)
  BY TodoOwned
<1>3. world' \in World /\ Sane(world')
  BY <1>2, EffectFacts DEF TInv, Work, Owns
<1> QED BY <1>1, <1>3 DEF TInv, Work, LateTyped

LEMMA RejectTypes == ASSUME TInv, NEW u \in User, NEW t \in run[u].todo, Reject(u, t) PROVE TInv'
<1>1. run[u] \in Run /\ About(run[u]) /\ Waits(run[u]) /\ run[u].phase \in {"try", "catch"}
  BY DEF TInv, Runs, Reject
<1>2. run' = [run EXCEPT ![u] = GiveUp(run[u])]
  BY DEF Reject
<1>3. Runs'
  BY <1>1, <1>2, GivingUp, RunChange DEF TInv
<1>4. \A s \in run[u].todo : Owns(run[u], s)
  BY TodoOwned
<1>5. world' = world \/ (Accepts(world, t) /\ world' = Effect(world, t))
  BY DEF Reject
<1>6. world' \in World /\ Sane(world')
  BY <1>4, <1>5, EffectFacts DEF TInv, Owns
<1>7. late' \subseteq late \cup run[u].todo
  BY DEF Reject
<1>8. LateTyped'
  BY <1>4, <1>7 DEF LateTyped, TInv, Owns
<1>9. faults' = faults \/ (faults < MaxFaults /\ faults' = faults + 1)
  BY DEF Reject
<1>a. faults \in 0..MaxFaults
  BY DEF TInv
<1>b. faults' \in 0..MaxFaults
  BY <1>9, <1>a
<1>c. unrepaired' \in BOOLEAN
  BY DEF TInv, Reject
<1>d. overlap' \in BOOLEAN /\ runs' = runs
  BY DEF TInv, Reject
<1> QED BY <1>3, <1>6, <1>8, <1>b, <1>c, <1>d DEF TInv

LEMMA AdvanceTypes == ASSUME TInv, NEW u \in User, Advance(u) PROVE TInv'
<1>1. Runs'
  BY Advancing, RunChange DEF TInv
<1> QED BY <1>1 DEF TInv, Advance, LateTyped

LEMMA StraggleTypes == ASSUME TInv, NEW t \in late, Straggle(t) PROVE TInv'
<1>1. world' = world \/ (Accepts(world, t) /\ world' = Effect(world, t))
  BY DEF Straggle
<1>2. Typed(t) /\ world \in World /\ Sane(world)
  BY DEF TInv, LateTyped
<1>3. world' \in World /\ Sane(world')
  BY <1>1, <1>2, EffectFacts
<1> QED BY <1>3 DEF TInv, Straggle, LateTyped, Runs

LEMMA InitTypes == Init => TInv
<1> SUFFICES ASSUME Init PROVE TInv
  OBVIOUS
<1>1. Runs
  <2>1. Idle \in Run /\ About(Idle) /\ Waits(Idle)
    BY DEF Idle, Run, About, Waits, Machine
  <2> QED BY <2>1 DEF Init, Runs
<1>2. Empty \in World /\ Sane(Empty) /\ Managed \in World /\ Sane(Managed)
  BY DEF Empty, Managed, World, Sane, Holder
<1>3. ASSUME NEW v \in VM, NEW n \in Name
      PROVE  Protecting(v, n) \in World /\ Sane(Protecting(v, n))
  BY <1>3 DEF Protecting, Empty, World, Sane, Holder
<1>4. world \in World /\ Sane(world)
  BY <1>2, <1>3 DEF Init
<1>5. LateTyped /\ runs \in 0..MaxRuns /\ faults \in 0..MaxFaults
  BY DEF Init, LateTyped
<1>6. overlap \in BOOLEAN /\ unrepaired \in BOOLEAN
  BY DEF Init
<1> QED BY <1>1, <1>4, <1>5, <1>6 DEF TInv

LEMMA StepTypes == TInv /\ [Next]_vars => TInv'
<1> SUFFICES ASSUME TInv, [Next]_vars PROVE TInv'
  OBVIOUS
<1>1. ASSUME NEW u \in User, Click(u) PROVE TInv'
  BY <1>1, ClickTypes
<1>2. ASSUME NEW u \in User, Advance(u) PROVE TInv'
  BY <1>2, AdvanceTypes
<1>3. ASSUME NEW u \in User, NEW t \in run[u].todo, Work(u, t) PROVE TInv'
  BY <1>3, WorkTypes
<1>4. ASSUME NEW u \in User, NEW t \in run[u].todo, Reject(u, t) PROVE TInv'
  BY <1>4, RejectTypes
<1>5. ASSUME NEW t \in late, Straggle(t) PROVE TInv'
  BY <1>5, StraggleTypes
<1>6. CASE UNCHANGED vars
  BY <1>6 DEF vars, TInv, Runs, LateTyped
<1> QED BY <1>1, <1>2, <1>3, <1>4, <1>5, <1>6 DEF Next, Go

-----------------------------------------------------------------------------
(* Until two operations meet.                                              *)

LEMMA ApartBack == ASSUME NEW r, NEW q, Apart(r, q) PROVE Apart(q, r)
BY DEF Apart

\* The world changes by one fresh call of q, or not at all.
Changed(q, s) == Accepts(world, s) /\ Fresh(world, s) /\ Owns(q, s) /\ world' = Effect(world, s)

\* What the other runs have done stands.
LEMMA StandsStill ==
    ASSUME TInv, NEW r \in Run, About(r), Waits(r), r.phase = "try", Stands(world, r),
           NEW q \in Run, NEW s, Changed(q, s), Apart(r, q)
    PROVE  Stands(world', r)
<1>1. r.kind # "none" /\ r.stage \in 1..Len(Stages(r)) /\ Len(Stages(r)) \in 1..4
  BY StageCount DEF Waits
<1>2. SUFFICES ASSUME NEW i \in 1..r.stage, NEW t \in Stages(r)[i], t \notin r.todo
               PROVE  Post(world', r, t)
  BY DEF Stands
<1>3. Post(world, r, t) /\ i \in 1..Len(Stages(r))
  <2>1. i \in 1..Len(Stages(r))
    BY <1>1
  <2> QED BY <1>2, <2>1 DEF Stands
<1>4. Owns(r, t)
  BY <1>1, <1>3, StageTasks
<1> QED BY <1>3, <1>4, OthersLeaveIt DEF TInv, Changed

\* A run that is about to delete a DRPC of an application has seen it annotated.
LEMMA TodoOutlives ==
    ASSUME TInv, Progressed, NEW u \in User, NEW t \in run[u].todo
    PROVE  Outlives(world, t)
<1> DEFINE r == run[u]
<1>1. r \in Run /\ About(r) /\ Waits(r) /\ Owns(r, t) /\ (r.phase = "try" => Stands(world, r))
  BY TodoOwned DEF TInv, Runs, Progressed
<1> HIDE DEF r
<1>2. t \in r.todo
  BY DEF r
<1>3. SUFFICES ASSUME t.do = "deleteDRPC", t.on \in Placement, t.on \in world.drpcs
               PROVE  t.on \in world.kept
  BY DEF Outlives
<1>4. r.kind = "removeManaged" /\ t.on \in r.copy /\ r.seen \subseteq r.copy
  BY <1>1, <1>3 DEF Owns, Apps, About, Machine
<1>5. Cleanup(r) = {}
  BY <1>4 DEF Cleanup
<1>6. r.phase = "try" /\ t \in Stages(r)[r.stage] /\ r.todo \subseteq Stages(r)[r.stage]
  BY <1>1, <1>2, <1>5 DEF Waits
<1>7. r.stage \in {1, 2, 3}
  BY <1>1, <1>4, <1>6 DEF Waits, Stages, RemoveManaged
<1>8. r.stage = 3
  <2>1. CASE r.stage = 1
    <3>1. t \in {Task("unmark", p, {}) : p \in r.seen}
      BY <1>4, <1>6, <2>1 DEF Stages, RemoveManaged, Unmark
    <3> QED BY <1>3, <3>1, TaskFields
  <2>2. CASE r.stage = 2
    <3>1. t \in {Task("keep", p, {}) : p \in r.copy}
      BY <1>4, <1>6, <2>2 DEF Stages, RemoveManaged
    <3> QED BY <1>3, <3>1, TaskFields
  <2> QED BY <1>7, <2>1, <2>2
<1> DEFINE k == Task("keep", t.on, {})
<1>9. k.do = "keep" /\ k.on = t.on
  BY TaskFields
<1>a. k \in Stages(r)[2]
  BY <1>4 DEF Stages, RemoveManaged
<1>b. k \notin r.todo
  <2>1. r.todo \subseteq {Task("deleteDRPC", p, {}) : p \in r.copy}
    BY <1>4, <1>6, <1>8 DEF Stages, RemoveManaged
  <2> HIDE DEF k
  <2> QED BY <1>9, <2>1, TaskFields
<1> HIDE DEF k
<1>c. Post(world, r, k)
  <2>1. 2 \in 1..r.stage
    BY <1>8
  <2> QED BY <1>1, <1>6, <1>a, <1>b, <2>1 DEF Stands
<1> QED BY <1>3, <1>9, <1>c DEF Post

Held == Separate /\ Progressed /\ LateOutlive

\* Somebody chooses or begins.
LEMMA Entering ==
    ASSUME TInv, Held, NEW u \in User, NEW q \in Run, run' = [run EXCEPT ![u] = q], world' = world,
           late' = late, Alone(u, q), q.phase = "try" => Stands(world, q)
    PROVE  Held'
<1>0. run \in [User -> Run] /\ late = {}
  BY DEF TInv, Runs, Alone
<1>1. PICK O \in SUBSET User : Keep(O)
  BY DEF Held, Separate
<1>p. PICK P \in SUBSET User : \A o \in User : o \in P <=> run'[o].phase \in Active
  <2>1. {o \in User : run'[o].phase \in Active} \in SUBSET User
    OBVIOUS
  <2> QED BY <2>1
<1>2. \A o \in User \ {u} : run'[o] = run[o]
  BY <1>0
<1>3. run'[u] = q
  BY <1>0
<1>4. \A o \in P \ {u} : Apart(q, run[o])
  BY <1>2, <1>p DEF Alone, Apart
<1>5. \A o \in P \ {u} : Apart(run[o], q)
  BY <1>4, ApartBack
<1>6. \A o, p \in P : o # p => Apart(run'[o], run'[p])
  <2>1. \A o \in P \ {u} : o \in O
    BY <1>1, <1>2, <1>p DEF Keep
  <2> QED BY <1>1, <1>2, <1>3, <1>4, <1>5, <2>1 DEF Keep
<1>7. Keep(P)'
  BY <1>0, <1>6, <1>p DEF Keep
<1>8. Separate'
  BY <1>7 DEF Separate
<1>9. Progressed'
  BY <1>2, <1>3 DEF Held, Progressed
<1>a. LateOutlive'
  BY <1>0 DEF LateOutlive
<1> QED BY <1>8, <1>9, <1>a DEF Held

\* A run that is under way goes on, or fails.
LEMMA GoingOn ==
    ASSUME TInv, Held, NEW u \in User, NEW q \in Run, run' = [run EXCEPT ![u] = q], Same(q, run[u]),
           run[u].phase \in {"try", "catch"}, q.phase \in {"try", "catch", "failed"},
           world' = world \/ \E s \in run[u].todo : Changed(run[u], s),
           late' \subseteq late \cup run[u].todo,
           q.phase = "try" => run[u].phase = "try" /\ late' = late /\ Stands(world', q)
    PROVE  Held'
<1>0. run \in [User -> Run] /\ \A o \in User : run[o] \in Run /\ About(run[o]) /\ Waits(run[o])
  BY DEF TInv, Runs
<1>1. PICK O \in SUBSET User : Keep(O)
  BY DEF Held, Separate
<1>2. \A o \in User \ {u} : run'[o] = run[o]
  BY <1>0
<1>3. run'[u] = q
  BY <1>0
<1>4. u \in O
  BY <1>1 DEF Keep, Active
<1>5. \A o \in User : Same(run'[o], run[o])
  BY <1>2, <1>3 DEF Same
<1>6. \A o, p \in O : o # p => Apart(run'[o], run'[p])
  BY <1>1, <1>5 DEF Keep, Apart, Same
<1>7. \A t \in late' : \E o \in O : run'[o].phase \in {"catch", "failed"} /\ Owns(run[o], t)
  <2>1. SUFFICES ASSUME NEW t \in late'
                 PROVE  \E o \in O : run'[o].phase \in {"catch", "failed"} /\ Owns(run[o], t)
    OBVIOUS
  <2>2. CASE t \in late
    <3>1. PICK o \in O : run[o].phase \in {"catch", "failed"} /\ Owns(run[o], t)
      BY <1>1, <2>2 DEF Keep
    <3>2. run'[o].phase \in {"catch", "failed"}
      BY <1>2, <1>3, <3>1
    <3> QED BY <3>1, <3>2
  <2>3. CASE t \notin late
    <3>1. t \in run[u].todo /\ q.phase # "try"
      BY <2>1, <2>3
    <3>2. Owns(run[u], t)
      BY <3>1, TodoOwned
    <3> QED BY <1>3, <1>4, <3>1, <3>2
  <2> QED BY <2>2, <2>3
<1>8. \A o \in User : \A t : Owns(run'[o], t) <=> Owns(run[o], t)
  BY <1>5 DEF Owns, Same
<1>9. Keep(O)'
  <2>1. \A o \in User : run'[o].phase \in Active => o \in O
    BY <1>1, <1>2, <1>4 DEF Keep
  <2> QED BY <1>6, <1>7, <1>8, <2>1 DEF Keep
<1>a. Progressed'
  <2>1. SUFFICES ASSUME NEW o \in User, run'[o].phase = "try" PROVE Stands(world', run'[o])
    BY DEF Progressed
  <2>2. CASE o = u
    BY <1>3, <2>1, <2>2
  <2>3. CASE o # u
    <3>1. run'[o] = run[o] /\ run[o].phase = "try" /\ Stands(world, run[o])
      BY <1>2, <2>1, <2>3 DEF Held, Progressed
    <3>2. o \in O /\ Apart(run[o], run[u])
      BY <1>1, <1>4, <2>3, <3>1 DEF Keep, Active
    <3> QED BY <1>0, <3>1, <3>2, StandsStill
  <2> QED BY <2>2, <2>3
<1>b. LateOutlive'
  <2>1. SUFFICES ASSUME NEW t \in late' PROVE Outlives(world', t)
    BY DEF LateOutlive
  <2>2. Outlives(world, t)
    BY TodoOutlives DEF Held, LateOutlive
  <2>3. PICK o \in O : Owns(run[o], t)
    BY <1>7
  <2>4. run[o] = run[u] \/ Apart(run[o], run[u])
    BY <1>1, <1>4 DEF Keep
  <2> QED BY <1>0, <2>2, <2>3, <2>4, OutlivesStill DEF TInv, Changed
<1> QED BY <1>9, <1>a, <1>b DEF Held, Separate

\* A run ends well.
LEMMA Ending ==
    ASSUME TInv, Held, NEW u \in User, NEW q \in Run, run' = [run EXCEPT ![u] = q], run[u].phase = "try",
           q.phase = "done", world' = world, late' = late
    PROVE  Held'
<1>0. run \in [User -> Run]
  BY DEF TInv, Runs
<1>1. PICK O \in SUBSET User : Keep(O)
  BY DEF Held, Separate
<1>2. (\A o \in User \ {u} : run'[o] = run[o]) /\ run'[u] = q
  BY <1>0
<1>3. PICK P \in SUBSET User : P = O \ {u}
  OBVIOUS
<1>4. \A o \in User : run'[o].phase \in Active => o \in P
  BY <1>1, <1>2, <1>3 DEF Keep, Active
<1>5. \A o, p \in P : o # p => Apart(run'[o], run'[p])
  BY <1>1, <1>2, <1>3 DEF Keep
<1>6. \A t \in late' : \E o \in P : run'[o].phase \in {"catch", "failed"} /\ Owns(run'[o], t)
  <2>1. SUFFICES ASSUME NEW t \in late
                 PROVE  \E o \in P : run'[o].phase \in {"catch", "failed"} /\ Owns(run'[o], t)
    OBVIOUS
  <2>2. PICK o \in O : run[o].phase \in {"catch", "failed"} /\ Owns(run[o], t)
    BY <1>1 DEF Keep
  <2> QED BY <1>2, <1>3, <2>2
<1>7. Keep(P)'
  BY <1>4, <1>5, <1>6 DEF Keep
<1>8. Progressed'
  BY <1>2 DEF Held, Progressed
<1>9. LateOutlive'
  BY DEF Held, LateOutlive
<1> QED BY <1>7, <1>8, <1>9 DEF Held, Separate

\* A task that nobody awaits belongs to a run that failed, about something else
\* than the runs under way.
LEMMA Straggling ==
    ASSUME TInv, Held, run' = run, late' \subseteq late, NEW t \in late, Fresh(world, t),
           world' = world \/ (Accepts(world, t) /\ world' = Effect(world, t))
    PROVE  Held'
<1>0. \A o \in User : run[o] \in Run /\ About(run[o]) /\ Waits(run[o])
  BY DEF TInv, Runs
<1>1. PICK O \in SUBSET User : Keep(O)
  BY DEF Held, Separate
<1>2. PICK u \in O : run[u].phase \in {"catch", "failed"} /\ Owns(run[u], t)
  BY <1>1 DEF Keep
<1>3. world' = world \/ Changed(run[u], t)
  BY <1>2 DEF Changed
<1>4. Keep(O)'
  BY <1>1 DEF Keep
<1>5. Progressed'
  <2>1. SUFFICES ASSUME NEW o \in User, run[o].phase = "try" PROVE Stands(world', run[o])
    BY DEF Progressed
  <2>2. Stands(world, run[o]) /\ o \in O /\ o # u
    BY <1>1, <1>2, <2>1 DEF Held, Progressed, Keep, Active
  <2>3. Apart(run[o], run[u])
    BY <1>1, <2>2 DEF Keep
  <2> QED BY <1>0, <1>3, <2>1, <2>2, <2>3, StandsStill
<1>6. LateOutlive'
  <2>1. SUFFICES ASSUME NEW s \in late PROVE Outlives(world', s)
    BY DEF LateOutlive
  <2>2. PICK o \in O : Owns(run[o], s)
    BY <1>1 DEF Keep
  <2>3. Outlives(world, s) /\ (run[o] = run[u] \/ Apart(run[o], run[u]))
    BY <1>1 DEF Held, LateOutlive, Keep
  <2> QED BY <1>0, <1>3, <2>2, <2>3, OutlivesStill DEF TInv, Changed
<1> QED BY <1>4, <1>5, <1>6 DEF Held, Separate

\* What a run has done still stands when it does more.
LEMMA WorkStands ==
    ASSUME TInv, NEW r \in Run, About(r), Waits(r), r.phase = "try", Stands(world, r), NEW t \in r.todo,
           Changed(r, t), NEW q \in Run, Same(q, r), q.seen = r.seen, q.stage = r.stage, q.todo = r.todo \ {t}
    PROVE  Stands(world', q)
<1>1. r.kind # "none" /\ r.stage \in 1..Len(Stages(r)) /\ Len(Stages(r)) \in 1..4 /\ t \in Stages(r)[r.stage]
  BY StageCount DEF Waits
<1>2. Stages(q) = Stages(r) /\ \A s : Post(world', q, s) <=> Post(world', r, s)
  BY SameRun DEF Same
<1>3. SUFFICES ASSUME NEW i \in 1..r.stage, NEW s \in Stages(r)[i], s \notin r.todo \/ s = t
               PROVE  Post(world', r, s)
  BY <1>2 DEF Stands
<1>4. i \in 1..Len(Stages(r))
  BY <1>1
<1>5. Owns(r, s) /\ Aims(r, s) /\ Owns(r, t) /\ Aims(r, t)
  BY <1>1, <1>3, <1>4, StageTasks
<1>6. Post(world, r, s) \/ t = s
  BY <1>3 DEF Stands
<1> QED BY <1>5, <1>6, RunKeepsIt DEF TInv, Changed

LEMMA WorkHeld ==
    ASSUME TInv, Held, NEW u \in User, NEW t \in run[u].todo, Work(u, t), ~overlap'
    PROVE  Held'
<1>1. PICK q \in Run :
          /\ run' = [run EXCEPT ![u] = q] /\ Same(q, run[u])
          /\ q.phase = run[u].phase /\ q.seen = run[u].seen /\ q.stage = run[u].stage
          /\ q.todo = run[u].todo \ {t}
  BY Working
<1>2. Changed(run[u], t)
  BY TodoOwned DEF Work, Stale, Fresh, Changed
<1>3. /\ run[u] \in Run /\ About(run[u]) /\ Waits(run[u]) /\ late' = late
      /\ run[u].phase \in {"try", "catch"} /\ (run[u].phase = "try" => Stands(world, run[u]))
  BY DEF TInv, Runs, Work, Held, Progressed
<1>4. q.phase = "try" => Stands(world', q)
  BY <1>1, <1>2, <1>3, WorkStands
<1> QED BY <1>1, <1>2, <1>3, <1>4, GoingOn

LEMMA RejectHeld ==
    ASSUME TInv, Held, NEW u \in User, NEW t \in run[u].todo, Reject(u, t), ~overlap'
    PROVE  Held'
<1> DEFINE q == GiveUp(run[u])
<1>1. run[u] \in Run /\ About(run[u]) /\ Waits(run[u]) /\ run[u].phase \in {"try", "catch"}
  BY DEF TInv, Runs, Reject
<1>2. run' = [run EXCEPT ![u] = q]
  BY DEF Reject
<1>3. q \in Run /\ Same(q, run[u]) /\ q.phase \in {"catch", "failed"}
  BY <1>1, GivingUp
<1> HIDE DEF q
<1>4. world' = world \/ (Accepts(world, t) /\ world' = Effect(world, t))
  BY DEF Reject
<1>5. world' = world \/ Fresh(world, t)
  BY DEF Reject, Stale, Fresh
<1>6. world' = world \/ Changed(run[u], t)
  BY <1>4, <1>5, TodoOwned DEF Changed
<1>7. late' \subseteq late \cup run[u].todo
  BY DEF Reject
<1> QED BY <1>1, <1>2, <1>3, <1>6, <1>7, GoingOn

LEMMA AdvanceHeld ==
    ASSUME TInv, Held, NEW u \in User, Advance(u)
    PROVE  Held'
<1> DEFINE r == run[u]
<1>1. PICK q \in Run :
          /\ run' = [run EXCEPT ![u] = q] /\ r.todo = {}
          /\ \/ r.phase = "catch" /\ q.phase = "failed" /\ Same(q, r)
             \/ r.phase = "try" /\ r.stage = Len(Stages(r)) /\ q.phase = "done"
             \/ /\ r.phase = "try" /\ r.stage # Len(Stages(r)) /\ q.phase = "try" /\ Same(q, r)
                /\ q.seen = r.seen /\ q.stage = r.stage + 1 /\ q.todo = Stages(r)[r.stage + 1]
  BY Advancing
<1>2. world' = world /\ late' = late
  BY DEF Advance
<1>3. r \in Run /\ Waits(r) /\ (r.phase = "try" => Stands(world, r))
  BY DEF TInv, Runs, Held, Progressed
<1>4. CASE q.phase = "failed"
  BY <1>1, <1>2, <1>4, GoingOn
<1>5. CASE q.phase = "done"
  BY <1>1, <1>2, <1>5, Ending
<1>6. CASE q.phase = "try"
  <2> HIDE DEF r
  <2>1. Stages(q) = Stages(r) /\ \A t : Post(world', q, t) <=> Post(world', r, t)
    BY <1>1, <1>6, SameRun DEF Same
  <2>2. r.stage \in Nat
    BY <1>3 DEF Run
  <2>3. Stands(world', q)
    <3>1. SUFFICES ASSUME NEW i \in 1..q.stage, NEW t \in Stages(r)[i], t \notin q.todo
                   PROVE  Post(world', r, t)
      BY <2>1 DEF Stands
    <3>2. i # r.stage + 1
      BY <1>1, <1>6, <3>1
    <3>3. i \in 1..r.stage
      BY <1>1, <1>6, <2>2, <3>2
    <3> QED BY <1>1, <1>2, <1>3, <1>6, <3>1, <3>3 DEF Stands
  <2> QED BY <1>1, <1>2, <1>6, <2>3, GoingOn DEF r
<1> QED BY <1>1, <1>4, <1>5, <1>6

LEMMA ClickHeld ==
    ASSUME TInv, Held, NEW u \in User, Click(u), ~overlap'
    PROVE  Held'
<1>1. CASE ~Submit(u)
  <2>1. PICK r \in Run : About(r) /\ Waits(r) /\ r.phase = "chosen" /\ Choose(u, r)
    BY <1>1, Choosing DEF Click
  <2> QED BY <2>1, Entering DEF Choose
<1>2. CASE Submit(u)
  <2>1. PICK q \in Run :
            /\ run' = [run EXCEPT ![u] = q] /\ q.kind = run[u].kind
            /\ q.vm = run[u].vm /\ q.name = run[u].name /\ q.copy = run[u].copy
            /\ q.phase = "try" /\ q.stage = 1 /\ q.todo = Stages(q)[1]
    BY <1>2, Submitting
  <2>2. Alone(u, run[u]) /\ world' = world /\ late' = late
    BY <1>2 DEF Submit
  <2>3. Alone(u, q)
    BY <2>1, <2>2 DEF Alone
  <2>4. Stands(world, q)
    <3>1. SUFFICES ASSUME NEW i \in 1..q.stage PROVE \A t \in Stages(q)[i] : t \in q.todo
      BY DEF Stands
    <3>2. i = 1
      BY <2>1, <3>1
    <3> QED BY <2>1, <3>2
  <2> QED BY <2>1, <2>2, <2>3, <2>4, Entering
<1> QED BY <1>1, <1>2

LEMMA InitInv == Init => IInv
<1> SUFFICES ASSUME Init PROVE IInv
  OBVIOUS
<1>1. \A u \in User : run[u].phase = "idle"
  BY DEF Init, Idle
<1>2. late = {}
  BY DEF Init
<1>3. Keep({})
  BY <1>1, <1>2 DEF Keep, Active
<1>4. Progressed
  BY <1>1 DEF Progressed
<1>5. LateOutlive
  BY <1>2 DEF LateOutlive
<1> QED BY <1>3, <1>4, <1>5, InitTypes DEF IInv, Separate

\* Operations that have met stay so.
LEMMA StepBack == ASSUME TInv, [Next]_vars, ~overlap' PROVE ~overlap
<1>1. ASSUME NEW u \in User, Click(u) PROVE ~overlap
  <2>1. CASE ~Submit(u)
    BY <1>1, <2>1, Choosing DEF Click, Choose
  <2> QED BY <1>1, <2>1 DEF Submit
<1>2. ASSUME NEW u \in User, Go(u) PROVE ~overlap
  BY <1>2 DEF Go, Advance, Work, Reject
<1>3. ASSUME NEW t \in late, Straggle(t) PROVE ~overlap
  BY <1>3 DEF Straggle
<1>4. CASE UNCHANGED vars
  <2>1. overlap' = overlap
    BY <1>4 DEF vars
  <2> QED BY <2>1, Zenon
<1> QED BY <1>1, <1>2, <1>3, <1>4 DEF Next

LEMMA StepInv == IInv /\ [Next]_vars => IInv'
<1> SUFFICES ASSUME IInv, [Next]_vars PROVE IInv'
  OBVIOUS
<1>1. TInv /\ TInv'
  BY StepTypes DEF IInv
<1>2. SUFFICES ASSUME ~overlap' PROVE Held'
  BY <1>1 DEF IInv, Held
<1>3. ~overlap
  BY <1>1, <1>2, StepBack
<1>d. Held
  BY <1>3 DEF IInv, Held
<1>4. ASSUME NEW u \in User, Click(u) PROVE Held'
  BY <1>1, <1>2, <1>d, <1>4, ClickHeld
<1>5. ASSUME NEW u \in User, Advance(u) PROVE Held'
  BY <1>1, <1>d, <1>5, AdvanceHeld
<1>6. ASSUME NEW u \in User, NEW t \in run[u].todo, Work(u, t) PROVE Held'
  BY <1>1, <1>2, <1>d, <1>6, WorkHeld
<1>7. ASSUME NEW u \in User, NEW t \in run[u].todo, Reject(u, t) PROVE Held'
  BY <1>1, <1>2, <1>d, <1>7, RejectHeld
<1>8. ASSUME NEW t \in late, Straggle(t) PROVE Held'
  <2>1. /\ Fresh(world, t) /\ run' = run /\ late' \subseteq late
        /\ world' = world \/ (Accepts(world, t) /\ world' = Effect(world, t))
    BY <1>2, <1>8 DEF Straggle, Stale, Fresh
  <2> QED BY <1>1, <1>d, <1>8, <2>1, Straggling
<1>9. CASE UNCHANGED vars
  BY <1>d, <1>9 DEF vars, Held, Separate, Keep, Progressed, LateOutlive
<1> QED BY <1>4, <1>5, <1>6, <1>7, <1>8, <1>9 DEF Next, Go

LEMMA Inductive == Spec => []IInv
<1>1. IInv /\ UNCHANGED vars => IInv'
  BY StepInv
<1> QED BY InitInv, StepInv, <1>1, PTL DEF Spec

\* A call changes the world in every step that changes it, and until two
\* operations meet it is a fresh one of the run u, or of nobody's.
LEMMA Caller ==
    ASSUME IInv, [Next]_vars, ~overlap', world' # world
    PROVE  \E u \in User : \E s : Changed(run[u], s) /\ (s \in run[u].todo \/ s \in late)
<1>1. TInv /\ Separate
  BY StepBack DEF IInv
<1>2. ASSUME NEW u \in User, Click(u) PROVE FALSE
  <2>1. CASE ~Submit(u)
    BY <1>1, <1>2, <2>1, Choosing DEF Click, Choose
  <2> QED BY <1>2, <2>1 DEF Submit
<1>3. ASSUME NEW u \in User, Advance(u) PROVE FALSE
  BY <1>3 DEF Advance
<1>4. ASSUME NEW u \in User, NEW t \in run[u].todo, Work(u, t) \/ Reject(u, t) PROVE Changed(run[u], t)
  <2>1. Owns(run[u], t)
    BY <1>1, TodoOwned
  <2>2. Accepts(world, t) /\ world' = Effect(world, t) /\ ~Stale(t)
    BY <1>4 DEF Work, Reject
  <2> QED BY <2>1, <2>2 DEF Changed, Stale, Fresh
<1>5. ASSUME NEW t \in late, Straggle(t) PROVE \E u \in User : Changed(run[u], t)
  <2>1. PICK u \in User : Owns(run[u], t)
    BY <1>1 DEF Separate, Keep
  <2>2. Accepts(world, t) /\ world' = Effect(world, t) /\ ~Stale(t)
    BY <1>5 DEF Straggle
  <2> QED BY <2>1, <2>2 DEF Changed, Stale, Fresh
<1> QED BY <1>2, <1>3, <1>4, <1>5 DEF Next, Go, vars

-----------------------------------------------------------------------------
(* The theorems.                                                           *)

\* Every variable stays in its set; a list of protected VMs and an annotation
\* are those of a DRPC that exists (k8s-utils.ts).
THEOREM TypeCorrect == Spec => []TypeOK
<1>1. IInv => TypeOK
  BY TypesHold DEF IInv
<1> QED BY <1>1, Inductive, PTL

\* Until two operations meet, or a list is written from a stale copy, no
\* operation, retry or call that nobody awaits takes the virtual machine of
\* another user's operation off the list of a DRPC (updateDRPC and
\* unAssignPromisesForDiscovered write whole lists).
THEOREM OthersKept == Spec => OthersStayProtected
<1>1. ASSUME IInv, [Next]_vars, ~overlap', NEW n \in Name, NEW v \in world.vms[n] \ world'.vms[n]
      PROVE  \E u \in User : run[u].vm = v
  <2>1. world' # world
    BY <1>1
  <2>1a. PICK u \in User : \E t : Changed(run[u], t)
    BY <1>1, <2>1, Caller
  <2>2. PICK s : Changed(run[u], s)
    BY <2>1a
  <2>3. world \in World /\ Sane(world) /\ v \in VM
    BY <1>1 DEF IInv, TInv, World
  <2>4. CASE v # run[u].vm
    BY <1>1, <2>2, <2>3, <2>4, OwnVMOnly DEF Changed
  <2> QED BY <2>4
<1>2. IInv /\ [Next]_vars =>
          [~overlap' => \A n \in Name : \A v \in world.vms[n] \ world'.vms[n] :
               \E u \in User : run[u].vm = v]_vars
  BY <1>1
<1> QED BY <1>2, Inductive, PTL DEF Spec, OthersStayProtected

\* Until two operations meet, the DRPC of a managed application is deleted only
\* when it bears do-not-delete-pvc, whatever failed, was tried again or was
\* carried out late (unAssignPromisesForManaged).
THEOREM VolumesKept == Spec => VolumesOutliveDRPC
<1>1. ASSUME IInv, [Next]_vars, ~overlap', NEW p \in Placement \cap (world.drpcs \ world'.drpcs)
      PROVE  p \in world.kept
  <2>1. world' # world
    BY <1>1
  <2>1a. PICK u \in User : \E t : Changed(run[u], t) /\ (t \in run[u].todo \/ t \in late)
    BY <1>1, <2>1, Caller
  <2>2. PICK s : Changed(run[u], s) /\ (s \in run[u].todo \/ s \in late)
    BY <2>1a
  <2>3. world'.drpcs = DRPCsAfter(world, s)
    BY <1>1, <2>2, EffectFacts DEF IInv, TInv, Changed, Owns
  <2>4. s.do = "deleteDRPC" /\ s.on = p
    BY <1>1, <2>3 DEF DRPCsAfter
  <2>5. ~overlap
    BY <1>1, StepBack DEF IInv
  <2>6. Outlives(world, s)
    BY <1>1, <2>2, <2>5, TodoOutlives DEF IInv, LateOutlive
  <2> QED BY <1>1, <2>4, <2>6 DEF Outlives
<1>2. IInv /\ [Next]_vars =>
          [~overlap' => \A p \in Placement \cap (world.drpcs \ world'.drpcs) : p \in world.kept]_vars
  BY <1>1
<1> QED BY <1>2, Inductive, PTL DEF Spec, VolumesOutliveDRPC

\* Only the last await of a run ends it well.
LEMMA OnlyAdvance ==
    ASSUME TInv, [Next]_vars, NEW u \in User, run[u].phase = "try", run'[u].phase = "done"
    PROVE  Advance(u)
<1>0. run \in [User -> Run]
  BY DEF TInv, Runs
<1>1. ASSUME NEW o \in User, Click(o) PROVE FALSE
  <2>1. CASE ~Submit(o)
    <3>1. PICK r \in Run : r.phase = "chosen" /\ run' = [run EXCEPT ![o] = r]
      BY <1>1, <2>1, Choosing DEF Click, Choose
    <3> QED BY <1>0, <3>1
  <2>2. CASE Submit(o)
    <3>1. PICK q \in Run : q.phase = "try" /\ run' = [run EXCEPT ![o] = q]
      BY <2>2, Submitting
    <3> QED BY <1>0, <3>1
  <2> QED BY <2>1, <2>2
<1>2. ASSUME NEW o \in User, Advance(o), o # u PROVE FALSE
  <2>1. PICK q \in Run : run' = [run EXCEPT ![o] = q]
    BY <1>2, Advancing
  <2> QED BY <1>0, <1>2, <2>1
<1>3. ASSUME NEW o \in User, NEW t \in run[o].todo, Work(o, t) PROVE FALSE
  <2>1. PICK q \in Run : run' = [run EXCEPT ![o] = q] /\ q.phase = run[o].phase
    BY <1>3, Working
  <2> QED BY <1>0, <2>1
<1>4. ASSUME NEW o \in User, NEW t \in run[o].todo, Reject(o, t) PROVE FALSE
  <2> DEFINE q == GiveUp(run[o])
  <2>1. run' = [run EXCEPT ![o] = q]
    BY <1>4 DEF Reject
  <2>2. run[o] \in Run /\ About(run[o]) /\ Waits(run[o]) /\ run[o].phase \in {"try", "catch"}
    BY <1>4 DEF TInv, Runs, Reject
  <2>3. q.phase \in {"catch", "failed"}
    BY <2>2, GivingUp
  <2> HIDE DEF q
  <2> QED BY <1>0, <2>1, <2>3
<1>5. ASSUME NEW t \in late, Straggle(t) PROVE FALSE
  BY <1>5 DEF Straggle
<1>6. CASE UNCHANGED vars
  BY <1>6 DEF vars
<1> QED BY <1>1, <1>2, <1>3, <1>4, <1>5, <1>6 DEF Next, Go

\* A run whose last await has resolved has done what it was for.
LEMMA AllDone ==
    ASSUME OwnVolumes, NEW r \in Run, About(r), Waits(r), r.phase = "try", r.todo = {},
           r.stage = Len(Stages(r)), Stands(world, r)
    PROVE  Achieved(r)
<1>1. \A i \in 1..Len(Stages(r)) : \A t \in Stages(r)[i] : Post(world, r, t)
  BY DEF Stands
<1>2. r.kind # "none"
  BY DEF Waits
<1>3. ASSUME NEW val, NEW t \in LabelVM(r, val) \cup LabelPVCs(r, val), Post(world, r, t)
      PROVE  t.do = "label" /\ t.val = val /\ world.label[t.on] = val
  <2>1. PICK x : t = Task("label", x, val)
    BY DEF LabelVM, LabelPVCs
  <2> QED BY <1>3, <2>1, TaskFields DEF Post
<1>4. ASSUME NEW val, \A t \in LabelVM(r, val) \cup LabelPVCs(r, val) : Post(world, r, t)
      PROVE  Labelled(r.vm, val)
  <2>1. SUFFICES ASSUME NEW x \in {r.vm} \cup Volumes[r.vm] PROVE world.label[x] = val
    BY DEF Labelled
  <2> DEFINE t == Task("label", x, val)
  <2>2. t \in LabelVM(r, val) \cup LabelPVCs(r, val) /\ t.on = x
    BY TaskFields DEF LabelVM, LabelPVCs
  <2> HIDE DEF t
  <2> QED BY <1>3, <1>4, <2>2
<1>5. CASE r.kind = "standalone"
  <2>1. Stages(r) = Standalone(r)
    BY <1>5 DEF Stages
  <2>2. \A t \in LabelVM(r, r.name) \cup LabelPVCs(r, r.name) : Post(world, r, t)
    BY <1>1, <2>1 DEF Standalone
  <2>3. Post(world, r, Task("createDRPC", r.name, {r.vm})) /\ r.name \in Name
    <3>1. r.name \in Name
      BY <1>5 DEF About, Machine
    <3>2. 2 \in 1..Len(Stages(r)) /\ Stages(r)[2] = {Task("createDRPC", r.name, {r.vm})}
      BY <2>1 DEF Standalone
    <3> QED BY <1>1, <3>1, <3>2
  <2>4. r.vm \in world.vms[r.name]
    BY <2>3, TaskFields DEF Post, Lists
  <2> QED BY <1>4, <1>5, <2>2, <2>4 DEF Achieved
<1>6. CASE r.kind = "shared"
  <2>1. Stages(r) = Shared(r) /\ r.vm \in VM /\ r.name \in Name /\ r.copy \subseteq VM
    BY <1>6 DEF Stages, About, Machine
  <2>2. \A t \in LabelVM(r, r.name) \cup LabelPVCs(r, r.name) : Post(world, r, t)
    BY <1>1, <2>1 DEF Shared
  <2> DEFINE t == GroupTask("patchVMs", r, r.copy \cup {r.vm})
  <2>a. t \in Stages(r)[1] /\ 1 \in 1..Len(Stages(r))
    BY <2>1 DEF Shared, PatchVMs
  <2>3. Post(world, r, t)
    BY <1>1, <2>a
  <2>4. t.do = "patchVMs" /\ t.on = r.name /\ t.val = r.copy \cup {r.vm}
    BY <2>1, GroupFields DEF Dos
  <2> HIDE DEF t
  <2>5. r.vm \in world.vms[r.name]
    BY <2>1, <2>3, <2>4 DEF Post, Lists
  <2> QED BY <1>4, <1>6, <2>2, <2>5 DEF Achieved
<1>7. CASE r.kind = "remove"
  <2>1. Stages(r) = Remove(r) /\ r.vm \in VM /\ r.name \in Name /\ r.copy \subseteq VM
    BY <1>7 DEF Stages, About, Machine
  <2>2. \A t \in LabelVM(r, None) \cup LabelPVCs(r, None) : Post(world, r, t)
    BY <1>1, <2>1 DEF Remove
  <2>3. PICK t \in Stages(r)[2] : t.do \in {"deleteDRPC", "patchVMs"} /\ t.on = r.name /\ r.vm \notin t.val
    <3>1. CASE LastOfGroup(r)
      <4>1. GroupTask("deleteDRPC", r, {}) \in Stages(r)[2]
        BY <2>1, <3>1 DEF Remove
      <4> QED BY <2>1, <4>1, GroupFields DEF Dos
    <3>2. CASE ~LastOfGroup(r)
      <4>1. GroupTask("patchVMs", r, r.copy \ {r.vm}) \in Stages(r)[2]
        BY <2>1, <3>2 DEF Remove, PatchVMs
      <4> QED BY <2>1, <4>1, GroupFields DEF Dos
    <3> QED BY <3>1, <3>2
  <2>4. Post(world, r, t)
    BY <1>1, <2>1 DEF Remove
  <2>5. r.vm \notin world.vms[r.name]
    BY <2>1, <2>3, <2>4 DEF Post, Lists
  <2> QED BY <1>4, <1>7, <2>2, <2>5 DEF Achieved
<1>8. CASE r.kind = "assignManaged"
  <2>1. r.copy \subseteq Placement
    BY <1>8 DEF About, Machine
  <2>2. ASSUME NEW p \in r.copy PROVE p \in world.drpcs /\ p \in world.marked
    <3>1. Task("mark", p, {}) \in Stages(r)[1] /\ Task("createDRPC", p, {}) \in Stages(r)[1]
      BY <1>8 DEF Stages, AssignManaged
    <3>a. 1 \in 1..Len(Stages(r))
      BY <1>8 DEF Stages, AssignManaged
    <3>2. Post(world, r, Task("mark", p, {})) /\ Post(world, r, Task("createDRPC", p, {}))
      BY <1>1, <3>1, <3>a
    <3> QED BY <2>1, <3>2, TaskFields DEF Post
  <2> QED BY <1>8, <2>2 DEF Achieved
<1>9. CASE r.kind = "removeManaged"
  <2>1. r.copy \subseteq Placement
    BY <1>9 DEF About, Machine
  <2>2. ASSUME NEW p \in r.copy PROVE p \notin world.drpcs
    <3>a. Task("deleteDRPC", p, {}) \in Stages(r)[3] /\ 3 \in 1..Len(Stages(r))
      BY <1>9 DEF Stages, RemoveManaged
    <3>1. Post(world, r, Task("deleteDRPC", p, {}))
      BY <1>1, <3>a
    <3> QED BY <2>1, <3>1, TaskFields DEF Post
  <2> QED BY <1>9, <2>2 DEF Achieved
<1> QED BY <1>2, <1>5, <1>6, <1>7, <1>8, <1>9 DEF Run, Machine

\* "Protected" is what it says: where no volume is shared by two virtual
\* machines, an operation that reports success has put the VM in the list of its
\* DRPC and its label on all of its volumes, or taken all of it away, and has
\* done so for every placement of an application (onSubmit and onRemove report
\* success when the last await has resolved).
THEOREM DoneIsDone == ASSUME OwnVolumes PROVE Spec => DoneMeansDone
<1>1. ASSUME IInv, [Next]_vars, NEW u \in User, run[u].phase = "try", run'[u].phase = "done", ~overlap
      PROVE  Achieved(run[u])
  <2>1. Advance(u)
    BY <1>1, OnlyAdvance DEF IInv
  <2>2. TInv /\ Stands(world, run[u])
    BY <1>1 DEF IInv, Progressed
  <2>3. run[u] \in Run /\ About(run[u]) /\ Waits(run[u])
    BY <2>2 DEF TInv, Runs
  <2>4. run[u].todo = {} /\ run[u].stage = Len(Stages(run[u]))
    BY <1>1, <2>1, <2>2, <2>3, Advancing DEF TInv, Runs
  <2> QED BY <1>1, <2>2, <2>3, <2>4, AllDone
<1>2. IInv /\ [Next]_vars =>
          [\A u \in User : run[u].phase = "try" /\ run'[u].phase = "done" /\ ~overlap => Achieved(run[u])]_vars
  BY <1>1
<1> QED BY <1>2, Inductive, PTL DEF Spec, DoneMeansDone

-----------------------------------------------------------------------------
(* What each await consists of, and the catch.                             *)

\* What bears the label of the VM v.
Bearers(v) == {v} \cup Volumes[v]
LabelsIt(t, x) == t.do = "label" /\ t.on = x

\* The awaits that write the label of x, and the list of the DRPC.
LabelStage(r, x) == CASE r.kind = "standalone" -> IF x = r.vm THEN 3 ELSE 4
                      [] r.kind = "shared" -> IF x = r.vm THEN 2 ELSE 3
                      [] OTHER -> 1
ListStage(r) == IF r.kind = "shared" THEN 1 ELSE 2

\* A group is joined by a VM from outside; only an assignment is undone.
Fits(r) ==
    /\ r.kind = "shared" => r.vm \notin r.copy /\ r.copy # {}
    /\ r.phase = "chosen" => r.stage = 0
    /\ r.phase = "catch" => r.kind \in {"standalone", "shared"}

\* What the sets of tasks are made of.
OneTask(S, do, n, val) == \E t : S = {t} /\ t.do = do /\ t.on = n /\ t.val = val
DeleteTasks(S, n) ==
    \E t, s : /\ S = {t, s}
              /\ t.do = "deleteDRPC" /\ t.on = n /\ t.val = {}
              /\ s.do = "deletePlacement" /\ s.on = n
LabelTasks(X, val) == {Task("label", x, val) : x \in X}

\* Tasks that write one label each.
LEMMA LabelSets ==
    ASSUME NEW X, NEW val
    PROVE  /\ \A t \in LabelTasks(X, val) : t.do = "label" /\ t.on \in X /\ t.val = val /\ ~Lists(t)
           /\ \A x \in X : \E t \in LabelTasks(X, val) : LabelsIt(t, x)
           /\ \A t, s \in LabelTasks(X, val) : t.on = s.on => t = s
<1>1. \A x : LET t == Task("label", x, val) IN t.do = "label" /\ t.on = x /\ t.val = val
  BY TaskFields
<1>2. \A t \in LabelTasks(X, val) : \E x \in X : t = Task("label", x, val)
  BY DEF LabelTasks
<1>3. \A x \in X : Task("label", x, val) \in LabelTasks(X, val)
  BY DEF LabelTasks
<1> HIDE DEF LabelTasks
<1> QED BY <1>1, <1>2, <1>3 DEF LabelsIt, Lists

\* A task of S writes the label of x.
HasLabel(S, x) == \E t \in S : LabelsIt(t, x)

LEMMA LabelOf ==
    ASSUME NEW X, NEW val, NEW x \in X
    PROVE  HasLabel(LabelTasks(X, val), x)
<1>1. Task("label", x, val) \in LabelTasks(X, val)
  BY DEF LabelTasks
<1>2. LabelsIt(Task("label", x, val), x)
  BY TaskFields DEF LabelsIt
<1> QED BY <1>1, <1>2 DEF HasLabel

\* The awaits of each kind of run: a VM is protected on its own, ...
LEMMA StandaloneSets ==
    ASSUME NEW r \in Run, About(r), r.kind = "standalone"
    PROVE  /\ Len(Stages(r)) = 4
           /\ OneTask(Stages(r)[1], "createPlacement", r.name, {})
           /\ OneTask(Stages(r)[2], "createDRPC", r.name, {r.vm})
           /\ Stages(r)[3] = LabelTasks({r.vm}, r.name)
           /\ Stages(r)[4] = LabelTasks(Volumes[r.vm], r.name)
<1>1. Stages(r) = << {Task("createPlacement", r.name, {})}, {Task("createDRPC", r.name, {r.vm})},
                     LabelTasks({r.vm}, r.name), LabelTasks(Volumes[r.vm], r.name) >>
  BY DEF Stages, Standalone, LabelVM, LabelPVCs, LabelTasks
<1> QED BY <1>1, TaskFields DEF OneTask

\* ... joins a group, ...
LEMMA SharedSets ==
    ASSUME NEW r \in Run, About(r), r.kind = "shared"
    PROVE  /\ Len(Stages(r)) = 3
           /\ OneTask(Stages(r)[1], "patchVMs", r.name, r.copy \cup {r.vm})
           /\ Stages(r)[2] = LabelTasks({r.vm}, r.name)
           /\ Stages(r)[3] = LabelTasks(Volumes[r.vm], r.name)
<1>1. Stages(r) = << {GroupTask("patchVMs", r, r.copy \cup {r.vm})},
                     LabelTasks({r.vm}, r.name), LabelTasks(Volumes[r.vm], r.name) >>
  BY DEF Stages, Shared, PatchVMs, LabelVM, LabelPVCs, LabelTasks
<1>2. r.name \in Name /\ r.vm \in VM /\ r.copy \subseteq VM
  BY DEF About, Machine
<1> QED BY <1>1, <1>2, GroupFields DEF OneTask, Dos

\* ... or is removed from its group, or with it.
LEMMA RemoveSets ==
    ASSUME NEW r \in Run, About(r), r.kind = "remove"
    PROVE  /\ Len(Stages(r)) = 2
           /\ Stages(r)[1] = LabelTasks(Bearers(r.vm), None)
           /\ LastOfGroup(r) => DeleteTasks(Stages(r)[2], r.name)
           /\ ~LastOfGroup(r) =>
                OneTask(Stages(r)[2], "patchVMs", r.name, r.copy \ {r.vm}) /\ r.copy \ {r.vm} # {}
<1>1. Stages(r) = << LabelTasks(Bearers(r.vm), None),
                     IF LastOfGroup(r)
                     THEN {GroupTask("deleteDRPC", r, {}), Task("deletePlacement", r.name, {})}
                     ELSE {GroupTask("patchVMs", r, r.copy \ {r.vm})} >>
  <2>1. LabelVM(r, None) \cup LabelPVCs(r, None) = LabelTasks(Bearers(r.vm), None)
    BY DEF LabelVM, LabelPVCs, LabelTasks, Bearers
  <2> QED BY <2>1 DEF Stages, Remove, PatchVMs
<1>2. r.name \in Name /\ r.vm \in VM /\ r.copy \subseteq VM /\ r.vm \in r.copy
  BY DEF About, Machine
<1>3. CASE LastOfGroup(r)
  <2>1. Stages(r)[2] = {GroupTask("deleteDRPC", r, {}), Task("deletePlacement", r.name, {})}
    BY <1>1, <1>3
  <2> QED BY <1>1, <1>2, <1>3, <2>1, GroupFields, TaskFields DEF Dos, DeleteTasks
<1>4. CASE ~LastOfGroup(r)
  <2>1. r.copy \ {r.vm} # {}
    <3>1. SUFFICES ASSUME r.copy \subseteq {r.vm} PROVE FALSE
      OBVIOUS
    <3>2. r.copy = {r.vm}
      BY <1>2, <3>1
    <3>3. Cardinality(r.copy) = 1
      BY <3>2, FS_Singleton
    <3> QED BY <1>4, <3>3 DEF LastOfGroup
  <2>2. Stages(r)[2] = {GroupTask("patchVMs", r, r.copy \ {r.vm})}
    BY <1>1, <1>4
  <2> QED BY <1>1, <1>2, <1>4, <2>1, <2>2, GroupFields DEF OneTask, Dos
<1> QED BY <1>1, <1>3, <1>4

\* The catch.
LEMMA CleanupSets ==
    ASSUME NEW r \in Run, About(r), Fits(r), NEW t \in Cleanup(r)
    PROVE  /\ r.kind \in {"standalone", "shared"}
           /\ t.do = "label" => t.on = r.vm /\ t.val = None /\ r.stage > LabelStage(r, r.vm)
           /\ Lists(t) => t.on = r.name /\ r.vm \notin t.val /\ r.stage > ListStage(r)
           /\ t.do \in {"label", "deletePlacement", IF r.kind = "shared" THEN "patchVMs" ELSE "deleteDRPC"}
           /\ t.do = "patchVMs" => t.val # {}
           /\ t.do = "deletePlacement" => t.on = r.name /\ r.kind = "standalone" /\ r.stage > 1
           /\ t.do = "deleteDRPC" => t.on = r.name
<1>0. r.stage \in 0..4 /\ ~Lists(Task("label", r.vm, None))
  BY TaskFields DEF Run, Lists
<1>1. CASE r.kind = "standalone"
  <2>1. r.kind \in Machine /\ r.vm \in VM /\ r.name \in Name /\ r.copy \subseteq VM
    BY <1>1 DEF Machine, About
  <2>2. \/ r.stage > 2 /\ t = GroupTask("deleteDRPC", r, {})
        \/ r.stage > 1 /\ t = Task("deletePlacement", r.name, {})
        \/ r.stage > 3 /\ t = Task("label", r.vm, None)
    BY <1>1 DEF Cleanup, LabelVM
  <2>3. \/ r.stage > 2 /\ t.do = "deleteDRPC" /\ t.on = r.name /\ t.val = {}
        \/ r.stage > 1 /\ t.do = "deletePlacement" /\ t.on = r.name
        \/ r.stage > 3 /\ t.do = "label" /\ t.on = r.vm /\ t.val = None
    <3>1. LET g == GroupTask("deleteDRPC", r, {}) IN g.do = "deleteDRPC" /\ g.on = r.name /\ g.val = {}
      BY <2>1, GroupFields DEF Dos
    <3>2. LET p == Task("deletePlacement", r.name, {}) IN p.do = "deletePlacement" /\ p.on = r.name
      BY TaskFields
    <3>3. LET l == Task("label", r.vm, None) IN l.do = "label" /\ l.on = r.vm /\ l.val = None
      BY TaskFields
    <3> QED BY <2>2, <3>1, <3>2, <3>3
  <2>4. LabelStage(r, r.vm) = 3 /\ ListStage(r) = 2
    BY <1>1 DEF LabelStage, ListStage
  <2> QED BY <1>1, <2>3, <2>4 DEF Lists
<1>2. CASE r.kind = "shared"
  <2>1. r.kind \in Machine /\ r.vm \in VM /\ r.name \in Name /\ r.copy \subseteq VM
    BY <1>2 DEF Machine, About
  <2>2. \/ r.stage > 1 /\ t = GroupTask("patchVMs", r, r.copy)
        \/ r.stage > 2 /\ t = Task("label", r.vm, None)
    BY <1>2 DEF Cleanup, LabelVM, PatchVMs
  <2> QED BY <1>0, <1>2, <2>1, <2>2, TaskFields, GroupFields DEF Dos, Lists, LabelStage, ListStage, Fits
<1> QED BY <1>1, <1>2 DEF Cleanup

\* The catch undoes what the try has done.
LEMMA CleanupHas ==
    ASSUME NEW r \in Run, About(r), Fits(r), r.kind \in {"standalone", "shared"}
    PROVE  /\ r.stage > LabelStage(r, r.vm) => \E t \in Cleanup(r) : LabelsIt(t, r.vm)
           /\ r.stage > ListStage(r) => \E t \in Cleanup(r) : Lists(t)
           /\ r.kind = "standalone" /\ r.stage > 1 =>
                 \E t \in Cleanup(r) : t.do = "deletePlacement" /\ t.on = r.name
           /\ r.kind = "standalone" /\ r.stage > 2 =>
                 \E t \in Cleanup(r) : t.do = "deleteDRPC" /\ t.on = r.name
<1>1. r.kind \in Machine /\ r.vm \in VM /\ r.name \in Name /\ r.copy \subseteq VM
  BY DEF Machine, About
<1>2. CASE r.kind = "standalone"
  <2>1. /\ r.stage > 2 => GroupTask("deleteDRPC", r, {}) \in Cleanup(r)
        /\ r.stage > 1 => Task("deletePlacement", r.name, {}) \in Cleanup(r)
        /\ r.stage > 3 => Task("label", r.vm, None) \in Cleanup(r)
    BY <1>2 DEF Cleanup, LabelVM
  <2> QED BY <1>1, <1>2, <2>1, TaskFields, GroupFields DEF Dos, Lists, LabelStage, ListStage, LabelsIt
<1>3. CASE r.kind = "shared"
  <2>1. /\ r.stage > 1 => GroupTask("patchVMs", r, r.copy) \in Cleanup(r)
        /\ r.stage > 1 /\ r.stage > 2 => Task("label", r.vm, None) \in Cleanup(r)
    BY <1>3 DEF Cleanup, LabelVM, PatchVMs
  <2>2. r.stage \in 0..4
    BY DEF Run
  <2> QED BY <1>1, <1>3, <2>1, <2>2, TaskFields, GroupFields DEF Dos, Lists, LabelStage, ListStage, LabelsIt
<1> QED BY <1>2, <1>3

\* What the tasks of a stage are, and where in the try.
StageTask(r, i, t) ==
    /\ t.do = "label" => /\ t.on \in Bearers(r.vm) /\ i = LabelStage(r, t.on)
                         /\ t.val = IF r.kind = "remove" THEN None ELSE r.name
    /\ Lists(t) => t.on = r.name /\ i = ListStage(r) /\ (r.vm \in t.val <=> r.kind # "remove")
    /\ t.do \in {"createPlacement", "createDRPC", "patchVMs", "deleteDRPC", "deletePlacement", "label"}
    /\ t.do # "label" => t.on = r.name
    /\ t.do \in {"createDRPC", "patchVMs"} => t.val # {}
    /\ t.do = "createPlacement" <=> r.kind = "standalone" /\ i = 1
    /\ t.do = "createDRPC" <=> r.kind = "standalone" /\ i = 2
    /\ t.do \in {"deleteDRPC", "deletePlacement"} <=> r.kind = "remove" /\ i = 2 /\ LastOfGroup(r)

\* Every task of an await is one of that await.
LEMMA StageShape ==
    ASSUME NEW r \in Run, About(r), r.kind \in Machine, NEW i \in 1..Len(Stages(r)), NEW t \in Stages(r)[i]
    PROVE  StageTask(r, i, t)
<1>0. r.vm \in VM /\ r.name \in Name /\ r.copy \subseteq VM /\ Volumes[r.vm] \subseteq PVC /\ r.vm \notin PVC
  BY DEF About
<1>1. CASE r.kind = "standalone"
  <2>a. /\ Len(Stages(r)) = 4
        /\ OneTask(Stages(r)[1], "createPlacement", r.name, {})
        /\ OneTask(Stages(r)[2], "createDRPC", r.name, {r.vm})
        /\ Stages(r)[3] = LabelTasks({r.vm}, r.name)
        /\ Stages(r)[4] = LabelTasks(Volumes[r.vm], r.name)
    BY <1>1, StandaloneSets
  <2>1. i \in {1, 2, 3, 4}
    BY <1>1, <2>a
  <2>2. CASE i = 1
    BY <1>0, <1>1, <2>2, <2>a DEF OneTask, StageTask, Lists
  <2>3. CASE i = 2
    BY <1>0, <1>1, <2>3, <2>a DEF OneTask, StageTask, Lists, ListStage
  <2>4. CASE i = 3
    BY <1>0, <1>1, <2>4, <2>a, LabelSets DEF StageTask, LabelStage, Bearers
  <2>5. CASE i = 4
    BY <1>0, <1>1, <2>5, <2>a, LabelSets DEF StageTask, LabelStage, Bearers
  <2> QED BY <2>1, <2>2, <2>3, <2>4, <2>5
<1>2. CASE r.kind = "shared"
  <2>a. /\ Len(Stages(r)) = 3
        /\ OneTask(Stages(r)[1], "patchVMs", r.name, r.copy \cup {r.vm})
        /\ Stages(r)[2] = LabelTasks({r.vm}, r.name)
        /\ Stages(r)[3] = LabelTasks(Volumes[r.vm], r.name)
    BY <1>2, SharedSets
  <2>1. i \in {1, 2, 3}
    BY <1>2, <2>a
  <2>2. CASE i = 1
    BY <1>0, <1>2, <2>2, <2>a DEF OneTask, StageTask, Lists, ListStage
  <2>3. CASE i = 2
    BY <1>0, <1>2, <2>3, <2>a, LabelSets DEF StageTask, LabelStage, Bearers
  <2>4. CASE i = 3
    BY <1>0, <1>2, <2>4, <2>a, LabelSets DEF StageTask, LabelStage, Bearers
  <2> QED BY <2>1, <2>2, <2>3, <2>4
<1>3. CASE r.kind = "remove"
  <2>a. /\ Len(Stages(r)) = 2
        /\ Stages(r)[1] = LabelTasks(Bearers(r.vm), None)
        /\ LastOfGroup(r) => DeleteTasks(Stages(r)[2], r.name)
        /\ ~LastOfGroup(r) =>
             OneTask(Stages(r)[2], "patchVMs", r.name, r.copy \ {r.vm}) /\ r.copy \ {r.vm} # {}
    BY <1>3, RemoveSets
  <2>1. i \in {1, 2}
    BY <1>3, <2>a
  <2>2. CASE i = 1
    BY <1>0, <1>3, <2>2, <2>a, LabelSets DEF StageTask, LabelStage
  <2>3. CASE i = 2
    BY <1>0, <1>3, <2>3, <2>a DEF OneTask, DeleteTasks, StageTask, Lists, ListStage
  <2> QED BY <2>1, <2>2, <2>3
<1> QED BY <1>1, <1>2, <1>3 DEF Machine

\* Every label and the list are written in an await of their own.
LEMMA StageHas ==
    ASSUME NEW r \in Run, About(r), r.kind \in Machine, NEW i \in 1..Len(Stages(r))
    PROVE  /\ \A x \in Bearers(r.vm) : i = LabelStage(r, x) => \E t \in Stages(r)[i] : LabelsIt(t, x)
           /\ i = ListStage(r) => \E t \in Stages(r)[i] : Lists(t)
           /\ r.kind = "standalone" /\ i \in {1, 2} => Stages(r)[i] # {}
           /\ r.kind = "remove" /\ i = 2 /\ LastOfGroup(r) =>
                 /\ \E t \in Stages(r)[2] : t.do = "deleteDRPC" /\ t.on = r.name
                 /\ \E t \in Stages(r)[2] : t.do = "deletePlacement" /\ t.on = r.name
<1>0. r.vm \in VM /\ r.name \in Name /\ Volumes[r.vm] \subseteq PVC /\ r.vm \notin PVC
  BY DEF About
<1>1. CASE r.kind = "standalone"
  <2>a. /\ Len(Stages(r)) = 4
        /\ OneTask(Stages(r)[1], "createPlacement", r.name, {})
        /\ OneTask(Stages(r)[2], "createDRPC", r.name, {r.vm})
        /\ Stages(r)[3] = LabelTasks({r.vm}, r.name)
        /\ Stages(r)[4] = LabelTasks(Volumes[r.vm], r.name)
    BY <1>1, StandaloneSets
  <2>1. i \in {1, 2, 3, 4}
    BY <1>1, <2>a
  <2>2. ASSUME NEW x \in Bearers(r.vm), i = LabelStage(r, x) PROVE \E t \in Stages(r)[i] : LabelsIt(t, x)
    <3>1. \/ x \in {r.vm} /\ i = 3
          \/ x \in Volumes[r.vm] /\ i = 4
      BY <1>0, <1>1, <2>2 DEF LabelStage, Bearers
    <3>2. CASE x \in {r.vm} /\ i = 3
      <4>1. Stages(r)[i] = LabelTasks({r.vm}, r.name)
        BY <2>a, <3>2
      <4>2. HasLabel(LabelTasks({r.vm}, r.name), x)
        BY <3>2, LabelOf
      <4> QED BY <4>1, <4>2 DEF HasLabel
    <3>3. CASE x \in Volumes[r.vm] /\ i = 4
      <4>1. Stages(r)[i] = LabelTasks(Volumes[r.vm], r.name)
        BY <2>a, <3>3
      <4>2. HasLabel(LabelTasks(Volumes[r.vm], r.name), x)
        BY <3>3, LabelOf
      <4> QED BY <4>1, <4>2 DEF HasLabel
    <3> QED BY <3>1, <3>2, <3>3
  <2> QED BY <1>0, <1>1, <2>1, <2>2, <2>a DEF OneTask, Lists, ListStage
<1>2. CASE r.kind = "shared"
  <2>a. /\ Len(Stages(r)) = 3
        /\ OneTask(Stages(r)[1], "patchVMs", r.name, r.copy \cup {r.vm})
        /\ Stages(r)[2] = LabelTasks({r.vm}, r.name)
        /\ Stages(r)[3] = LabelTasks(Volumes[r.vm], r.name)
    BY <1>2, SharedSets
  <2>2. ASSUME NEW x \in Bearers(r.vm), i = LabelStage(r, x) PROVE \E t \in Stages(r)[i] : LabelsIt(t, x)
    <3>1. \/ x \in {r.vm} /\ i = 2
          \/ x \in Volumes[r.vm] /\ i = 3
      BY <1>0, <1>2, <2>2 DEF LabelStage, Bearers
    <3>2. CASE x \in {r.vm} /\ i = 2
      <4>1. Stages(r)[i] = LabelTasks({r.vm}, r.name)
        BY <2>a, <3>2
      <4>2. HasLabel(LabelTasks({r.vm}, r.name), x)
        BY <3>2, LabelOf
      <4> QED BY <4>1, <4>2 DEF HasLabel
    <3>3. CASE x \in Volumes[r.vm] /\ i = 3
      <4>1. Stages(r)[i] = LabelTasks(Volumes[r.vm], r.name)
        BY <2>a, <3>3
      <4>2. HasLabel(LabelTasks(Volumes[r.vm], r.name), x)
        BY <3>3, LabelOf
      <4> QED BY <4>1, <4>2 DEF HasLabel
    <3> QED BY <3>1, <3>2, <3>3
  <2> QED BY <1>0, <1>2, <2>2, <2>a DEF OneTask, Lists, ListStage
<1>3. CASE r.kind = "remove"
  <2>a. /\ Len(Stages(r)) = 2
        /\ Stages(r)[1] = LabelTasks(Bearers(r.vm), None)
        /\ LastOfGroup(r) => DeleteTasks(Stages(r)[2], r.name)
        /\ ~LastOfGroup(r) =>
             OneTask(Stages(r)[2], "patchVMs", r.name, r.copy \ {r.vm}) /\ r.copy \ {r.vm} # {}
    BY <1>3, RemoveSets
  <2>2. \A x \in Bearers(r.vm) : i = LabelStage(r, x) => \E t \in Stages(r)[i] : LabelsIt(t, x)
    <3>1. \A x \in Bearers(r.vm) : HasLabel(LabelTasks(Bearers(r.vm), None), x)
      BY LabelOf
    <3>2. \A x : LabelStage(r, x) = 1
      BY <1>3 DEF LabelStage
    <3> QED BY <2>a, <3>1, <3>2 DEF HasLabel
  <2> QED BY <1>0, <1>3, <2>2, <2>a DEF OneTask, DeleteTasks, Lists, ListStage
<1> QED BY <1>1, <1>2, <1>3 DEF Machine

\* Two tasks that are awaited together do different things.
Alike(t, s) ==
    \/ t.do = "label" /\ s.do = "label" /\ t.on = s.on
    \/ Lists(t) /\ Lists(s)
    \/ t.do = "deletePlacement" /\ s.do = "deletePlacement"
\* Two tasks that are awaited together do different things: in the try, ...
LEMMA StageDistinct ==
    ASSUME NEW r \in Run, About(r), r.kind \in Machine, NEW i \in 1..Len(Stages(r)),
           NEW t \in Stages(r)[i], NEW s \in Stages(r)[i], Alike(t, s)
    PROVE  t = s
<1>1. CASE r.kind = "standalone"
  <2>a. /\ Len(Stages(r)) = 4
        /\ OneTask(Stages(r)[1], "createPlacement", r.name, {})
        /\ OneTask(Stages(r)[2], "createDRPC", r.name, {r.vm})
        /\ Stages(r)[3] = LabelTasks({r.vm}, r.name)
        /\ Stages(r)[4] = LabelTasks(Volumes[r.vm], r.name)
    BY <1>1, StandaloneSets
  <2>1. i \in {1, 2, 3, 4}
    BY <1>1, <2>a
  <2> QED BY <1>1, <2>1, <2>a, LabelSets DEF OneTask, Alike
<1>2. CASE r.kind = "shared"
  <2>a. /\ Len(Stages(r)) = 3
        /\ OneTask(Stages(r)[1], "patchVMs", r.name, r.copy \cup {r.vm})
        /\ Stages(r)[2] = LabelTasks({r.vm}, r.name)
        /\ Stages(r)[3] = LabelTasks(Volumes[r.vm], r.name)
    BY <1>2, SharedSets
  <2>1. i \in {1, 2, 3}
    BY <1>2, <2>a
  <2> QED BY <1>2, <2>1, <2>a, LabelSets DEF OneTask, Alike
<1>3. CASE r.kind = "remove"
  <2>a. /\ Len(Stages(r)) = 2
        /\ Stages(r)[1] = LabelTasks(Bearers(r.vm), None)
        /\ LastOfGroup(r) => DeleteTasks(Stages(r)[2], r.name)
        /\ ~LastOfGroup(r) =>
             OneTask(Stages(r)[2], "patchVMs", r.name, r.copy \ {r.vm}) /\ r.copy \ {r.vm} # {}
    BY <1>3, RemoveSets
  <2>1. i \in {1, 2}
    BY <1>3, <2>a
  <2>2. CASE i = 1
    BY <1>3, <2>2, <2>a, LabelSets DEF Alike
  <2>3. CASE i = 2
    BY <1>3, <2>3, <2>a DEF OneTask, DeleteTasks, Alike, Lists
  <2> QED BY <2>1, <2>2, <2>3
<1> QED BY <1>1, <1>2, <1>3 DEF Machine

\* ... and in the catch.
LEMMA CleanupDistinct ==
    ASSUME NEW r \in Run, About(r), NEW t \in Cleanup(r), NEW s \in Cleanup(r), Alike(t, s)
    PROVE  t = s
<1>1. r.kind \in {"standalone", "shared"} /\ r.vm \in VM /\ r.name \in Name /\ r.copy \subseteq VM
  BY DEF About, Machine, Cleanup
<1>2. PICK g : g.do \in {"deleteDRPC", "patchVMs"} /\ g.on \in Name /\ \A c \in Cleanup(r) :
          c \in {g, Task("deletePlacement", r.name, {}), Task("label", r.vm, None)}
  <2>1. CASE r.kind = "standalone"
    BY <1>1, <2>1, GroupFields DEF Cleanup, LabelVM, Dos
  <2>2. CASE r.kind = "shared"
    BY <1>1, <2>2, GroupFields DEF Cleanup, LabelVM, PatchVMs, Dos
  <2> QED BY <1>1, <2>1, <2>2
<1>3. LET p == Task("deletePlacement", r.name, {}) IN p.do = "deletePlacement"
  BY TaskFields
<1>4. LET l == Task("label", r.vm, None) IN l.do = "label"
  BY TaskFields
<1> QED BY <1>2, <1>3, <1>4 DEF Alike, Lists

-----------------------------------------------------------------------------
(* How far a run has brought its virtual machine.                          *)

\* What is still to be written, what is written, and what the world says
\* about it: in the catch, what the catch has still to take back.
Pending(r, x) == \E t \in r.todo : LabelsIt(t, x)
PendingList(r) == \E t \in r.todo : Lists(t)
LabelDone(r, x) == r.stage > LabelStage(r, x) \/ (r.stage = LabelStage(r, x) /\ ~Pending(r, x))
ListDone(r) == r.stage > ListStage(r) \/ (r.stage = ListStage(r) /\ ~PendingList(r))
Bears(r, x) == IF r.phase = "catch" THEN Pending(r, x) ELSE (LabelDone(r, x) <=> r.kind # "remove")
Listed(r) == IF r.phase = "catch" THEN PendingList(r) ELSE (ListDone(r) <=> r.kind # "remove")

\* The VM of r bears its label, and is listed, as far as r has come.
Midway(w, r) ==
    /\ \A x \in Bearers(r.vm) : w.label[x] = IF Bears(r, x) THEN r.name ELSE None
    /\ \A n \in Name : r.vm \in w.vms[n] <=> n = r.name /\ Listed(r)
\* A VM that no run is about: listed with its labels, or without either.
AllLabelled(w, v, n) == \A x \in Bearers(v) : w.label[x] = n
Whole(w, v) ==
    /\ \A n \in Name : v \in w.vms[n] => AllLabelled(w, v, n)
    /\ (\E n \in Name : v \in w.vms[n]) \/ AllLabelled(w, v, None)

\* What a run awaits.
TodoTask(r, t) ==
    /\ t.do = "label" =>
          /\ t.on \in Bearers(r.vm)
          /\ IF r.phase = "catch" THEN t.val = None
             ELSE r.stage = LabelStage(r, t.on) /\ t.val = IF r.kind = "remove" THEN None ELSE r.name
    /\ Lists(t) =>
          /\ t.on = r.name
          /\ IF r.phase = "catch" THEN r.vm \notin t.val
             ELSE r.stage = ListStage(r) /\ (r.vm \in t.val <=> r.kind # "remove")
    /\ t.do \in {"createPlacement", "createDRPC", "patchVMs", "deleteDRPC", "deletePlacement", "label"}
    /\ t.do # "label" => t.on = r.name
    /\ t.do \in {"createDRPC", "patchVMs"} => t.val # {}
    /\ \A s \in r.todo : Alike(t, s) => t = s

\* An open task does for the VM what the stage, or the catch, is for.
LEMMA TodoShape ==
    ASSUME NEW r \in Run, About(r), Waits(r), Fits(r), r.kind \in Machine, NEW t \in r.todo
    PROVE  TodoTask(r, t) /\ Owns(r, t) /\ Typed(t)
<1>1. r.phase \in {"try", "catch"} /\ r.kind # "none" /\ r.stage \in 1..Len(Stages(r))
  BY DEF Waits
<1>2. CASE r.phase = "try"
  <2>1. r.todo \subseteq Stages(r)[r.stage]
    BY <1>2 DEF Waits
  <2>2. StageTask(r, r.stage, t) /\ Owns(r, t)
    BY <1>1, <2>1, StageShape, StageTasks
  <2>3. \A s \in r.todo : Alike(t, s) => t = s
    BY <1>1, <2>1, StageDistinct
  <2>4. r.phase # "catch"
    BY <1>2
  <2> QED BY <2>2, <2>3, <2>4 DEF StageTask, TodoTask, Owns
<1>3. CASE r.phase = "catch"
  <2>1. r.todo \subseteq Cleanup(r)
    BY <1>3 DEF Waits
  <2>2. /\ r.kind \in {"standalone", "shared"}
        /\ t.do = "label" => t.on = r.vm /\ t.val = None
        /\ Lists(t) => t.on = r.name /\ r.vm \notin t.val
        /\ t.do \in {"label", "deletePlacement", "patchVMs", "deleteDRPC"}
        /\ t.do = "patchVMs" => t.val # {}
        /\ t.do \in {"deletePlacement", "deleteDRPC"} => t.on = r.name
    BY <2>1, CleanupSets
  <2>3. Owns(r, t) /\ Typed(t)
    BY <2>1, CleanupTasks DEF Owns
  <2>4. \A s \in r.todo : Alike(t, s) => t = s
    BY <2>1, CleanupDistinct
  <2>5. t.do = "patchVMs" => t.on = r.name
    BY <2>2, <2>3 DEF Typed, Lists
  <2> QED BY <1>3, <2>2, <2>3, <2>4, <2>5 DEF TodoTask, Bearers
<1> QED BY <1>1, <1>2, <1>3

\* The same run, with other open tasks.
LEMMA SameStages ==
    ASSUME NEW r, NEW q, Same(q, r)
    PROVE  ListStage(q) = ListStage(r) /\ \A x : LabelStage(q, x) = LabelStage(r, x)
BY DEF Same, ListStage, LabelStage

\* A call of the run itself.
LEMMA WorkMidway ==
    ASSUME NEW w \in World, NEW r \in Run, About(r), Waits(r), Fits(r), r.kind \in Machine,
           NEW t \in r.todo, Midway(w, r),
           NEW q, Same(q, r), q.phase = r.phase, q.stage = r.stage, q.todo = r.todo \ {t}
    PROVE  Midway(Effect(w, t), q)
<1> DEFINE x == Effect(w, t)
<1>1. TodoTask(r, t) /\ Typed(t)
  BY TodoShape
<1>2. x.vms = ListsAfter(w, t) /\ x.label = LabelsAfter(w, t)
  BY <1>1, EffectFacts
<1>3. q.vm = r.vm /\ q.name = r.name /\ q.kind = r.kind /\ r.vm \in VM /\ r.name \in Name
      /\ Bearers(r.vm) \subseteq Holder
  BY DEF Same, About, Bearers, Holder
<1> HIDE DEF x
<1>4. ASSUME NEW y \in Bearers(r.vm) PROVE x.label[y] = IF Bears(q, y) THEN r.name ELSE None
  <2>0. LabelStage(q, y) = LabelStage(r, y) /\ y \in Holder
    BY <1>3, <1>4, SameStages
  <2>1. CASE LabelsIt(t, y)
    <3>1. ~Pending(q, y)
      BY <1>1, <2>1 DEF Pending, LabelsIt, TodoTask, Alike
    <3>2. x.label[y] = t.val
      BY <1>2, <2>0, <2>1 DEF LabelsAfter, LabelsIt
    <3>3. IF r.phase = "catch" THEN t.val = None
          ELSE r.stage = LabelStage(r, y) /\ t.val = IF r.kind = "remove" THEN None ELSE r.name
      BY <1>1, <2>1 DEF TodoTask, LabelsIt
    <3>4. r.phase # "catch" => LabelDone(q, y)
      BY <2>0, <3>1, <3>3 DEF LabelDone
    <3> QED BY <1>3, <3>1, <3>2, <3>3, <3>4 DEF Bears
  <2>2. CASE ~LabelsIt(t, y)
    <3>1. Pending(q, y) <=> Pending(r, y)
      BY <2>2 DEF Pending
    <3>2. x.label[y] = w.label[y]
      BY <1>2, <2>0, <2>2 DEF LabelsAfter, LabelsIt
    <3>3. LabelDone(q, y) <=> LabelDone(r, y)
      BY <2>0, <3>1 DEF LabelDone
    <3>4. Bears(q, y) <=> Bears(r, y)
      BY <1>3, <3>1, <3>3 DEF Bears
    <3>5. w.label[y] = IF Bears(r, y) THEN r.name ELSE None
      BY <1>4 DEF Midway
    <3> QED BY <3>2, <3>4, <3>5
  <2> QED BY <2>1, <2>2
<1>5. ASSUME NEW n \in Name PROVE r.vm \in x.vms[n] <=> n = r.name /\ Listed(q)
  <2>0. ListStage(q) = ListStage(r)
    BY SameStages
  <2>1. CASE Lists(t)
    <3>1. ~PendingList(q)
      BY <1>1, <2>1 DEF PendingList, TodoTask, Alike
    <3>2. /\ t.on = r.name
          /\ IF r.phase = "catch" THEN r.vm \notin t.val
             ELSE r.stage = ListStage(r) /\ (r.vm \in t.val <=> r.kind # "remove")
      BY <1>1, <2>1 DEF TodoTask
    <3>3. t.do = "deleteDRPC" => t.val = {}
      BY <2>1, TodoShape DEF Owns, Lists
    <3>4. n = r.name => (r.vm \in x.vms[n] <=> r.vm \in t.val)
      BY <1>2, <2>1, <3>2, <3>3 DEF ListsAfter
    <3>5. n # r.name => x.vms[n] = w.vms[n]
      BY <1>2, <3>2 DEF ListsAfter
    <3>6. r.phase # "catch" => ListDone(q)
      BY <2>0, <3>1, <3>2 DEF ListDone
    <3>7. Listed(q) <=> r.vm \in t.val
      BY <1>3, <3>1, <3>2, <3>6 DEF Listed
    <3>8. n # r.name => r.vm \notin w.vms[n]
      BY DEF Midway
    <3> QED BY <3>4, <3>5, <3>7, <3>8
  <2>2. CASE ~Lists(t)
    <3>1. PendingList(q) <=> PendingList(r)
      BY <2>2 DEF PendingList
    <3>2. x.vms[n] = w.vms[n]
      BY <1>2, <2>2 DEF ListsAfter
    <3>3. ListDone(q) <=> ListDone(r)
      BY <2>0, <3>1 DEF ListDone
    <3>4. Listed(q) <=> Listed(r)
      BY <1>3, <3>1, <3>3 DEF Listed
    <3> QED BY <3>2, <3>4 DEF Midway
  <2> QED BY <2>1, <2>2
<1> QED BY <1>3, <1>4, <1>5 DEF Midway, x

\* A call of somebody else.
Untouched(w, x, v) ==
    /\ \A y \in Bearers(v) : x.label[y] = w.label[y]
    /\ \A n \in Name : v \in x.vms[n] <=> v \in w.vms[n]

\* A call about another VM leaves a VM alone, as long as they share no volume.
LEMMA OthersVM ==
    ASSUME OwnVolumes, NEW w \in World, Sane(w), NEW v \in VM, NEW q \in Run, NEW s, Owns(q, s),
           Accepts(w, s), Fresh(w, s), q.vm # v
    PROVE  Untouched(w, Effect(w, s), v)
<1> DEFINE x == Effect(w, s)
<1>1. x.label = LabelsAfter(w, s)
  BY EffectFacts DEF Owns
<1>2. \A n \in Name : v \in x.vms[n] <=> v \in w.vms[n]
  BY OwnVMOnly
<1> HIDE DEF x
<1>3. ASSUME NEW y \in Bearers(v) PROVE x.label[y] = w.label[y]
  <2>1. y \in Holder
    BY DEF Bearers, Holder
  <2>2. s.do = "label" => s.on # y
    <3>1. SUFFICES ASSUME s.do = "label" PROVE s.on # y
      OBVIOUS
    <3>2. q.vm \in VM /\ s.on \in {q.vm} \cup Volumes[q.vm]
      BY <3>1 DEF Owns
    <3>3. /\ Volumes[q.vm] \subseteq PVC /\ Volumes[v] \subseteq PVC
          /\ Volumes[q.vm] \cap Volumes[v] = {}
      BY <3>2 DEF OwnVolumes
    <3> QED BY <3>2, <3>3 DEF Bearers
  <2> QED BY <1>1, <2>1, <2>2 DEF LabelsAfter
<1> QED BY <1>2, <1>3 DEF Untouched, x

\* What is left alone stays as it was.
LEMMA UntouchedStays ==
    ASSUME NEW w, NEW x, NEW v, Untouched(w, x, v)
    PROVE  /\ Whole(w, v) => Whole(x, v)
           /\ \A r : r.vm = v /\ Midway(w, r) => Midway(x, r)
BY DEF Untouched, Whole, AllLabelled, Midway

\* The stages of a run that say what becomes of its VM.
LEMMA StageBounds ==
    ASSUME NEW r \in Run, About(r), r.kind \in Machine
    PROVE  /\ ListStage(r) \in 1..Len(Stages(r)) /\ Len(Stages(r)) \in 1..4
           /\ \A x \in Bearers(r.vm) :
                 /\ LabelStage(r, x) \in 1..Len(Stages(r))
                 /\ r.kind # "remove" /\ x # r.vm => LabelStage(r, x) = Len(Stages(r))
<1>1. CASE r.kind = "standalone"
  <2>1. Len(Stages(r)) = 4
    BY <1>1, StandaloneSets
  <2> QED BY <1>1, <2>1 DEF ListStage, LabelStage
<1>2. CASE r.kind = "shared"
  <2>1. Len(Stages(r)) = 3
    BY <1>2, SharedSets
  <2> QED BY <1>2, <2>1 DEF ListStage, LabelStage
<1>3. CASE r.kind = "remove"
  <2>1. Len(Stages(r)) = 2
    BY <1>3, RemoveSets
  <2> QED BY <1>3, <2>1 DEF ListStage, LabelStage
<1> QED BY <1>1, <1>2, <1>3 DEF Machine

\* The next await begins with nothing done.
LEMMA FullStage ==
    ASSUME NEW r \in Run, About(r), r.kind \in Machine, NEW q, Same(q, r), NEW i \in 1..Len(Stages(r)),
           q.stage = i, q.todo = Stages(r)[i]
    PROVE  /\ \A x \in Bearers(r.vm) : LabelDone(q, x) <=> i > LabelStage(r, x)
           /\ ListDone(q) <=> i > ListStage(r)
<1>1. ListStage(q) = ListStage(r) /\ \A x : LabelStage(q, x) = LabelStage(r, x)
  BY SameStages
<1>2. ASSUME NEW x \in Bearers(r.vm), i = LabelStage(r, x) PROVE Pending(q, x)
  BY <1>2, StageHas DEF Pending
<1>3. ASSUME i = ListStage(r) PROVE PendingList(q)
  BY <1>3, StageHas DEF PendingList
<1> QED BY <1>1, <1>2, <1>3 DEF LabelDone, ListDone

\* Going on to the next await, nothing has changed for the VM.
LEMMA AdvanceSame ==
    ASSUME NEW r \in Run, About(r), r.kind \in Machine, r.phase \in {"chosen", "try"}, r.todo = {},
           NEW q, Same(q, r), q.phase = "try", q.stage = r.stage + 1,
           q.stage \in 1..Len(Stages(r)), q.todo = Stages(r)[q.stage]
    PROVE  (Listed(q) <=> Listed(r)) /\ \A x \in Bearers(r.vm) : Bears(q, x) <=> Bears(r, x)
<1>1. /\ \A x \in Bearers(r.vm) : LabelDone(q, x) <=> q.stage > LabelStage(r, x)
      /\ ListDone(q) <=> q.stage > ListStage(r)
  BY FullStage
<1>2. r.stage \in Nat /\ \A x : ~Pending(r, x)
  BY DEF Run, Pending
<1>3. ~PendingList(r)
  BY DEF PendingList
<1>4. ListStage(r) \in Nat /\ \A x \in Bearers(r.vm) : LabelStage(r, x) \in Nat
  BY DEF ListStage, LabelStage
<1>5. ASSUME NEW x \in Bearers(r.vm) PROVE Bears(q, x) <=> Bears(r, x)
  <2>1. LabelDone(q, x) <=> LabelDone(r, x)
    BY <1>1, <1>2, <1>4 DEF LabelDone
  <2> QED BY <2>1 DEF Bears, Same
<1>6. Listed(q) <=> Listed(r)
  <2>1. ListDone(q) <=> ListDone(r)
    BY <1>1, <1>2, <1>3, <1>4 DEF ListDone
  <2> QED BY <2>1 DEF Listed, Same
<1> QED BY <1>5, <1>6

\* Only what is done and what is open counts.
LEMMA SameMidway ==
    ASSUME NEW w, NEW r, NEW q, Same(q, r), Midway(w, r), Listed(q) <=> Listed(r),
           \A x \in Bearers(r.vm) : Bears(q, x) <=> Bears(r, x)
    PROVE  Midway(w, q)
BY DEF Midway, Same

\* The first rejection, of the only call of its await.
LEMMA RejectSame ==
    ASSUME NEW r \in Run, About(r), Waits(r), Fits(r), r.phase = "try",
           r.kind \in {"standalone", "shared"}, r.todo = Stages(r)[r.stage],
           NEW t, Stages(r)[r.stage] = {t},
           NEW q, Same(q, r), q.phase = "catch", q.stage = r.stage, q.todo = Cleanup(r)
    PROVE  (Listed(q) <=> Listed(r)) /\ \A x \in Bearers(r.vm) : Bears(q, x) <=> Bears(r, x)
<1>1. r.stage \in 1..Len(Stages(r)) /\ r.kind \in Machine /\ r.vm \in VM
  BY DEF Waits, Machine, About
<1>2. /\ \A x \in Bearers(r.vm) : LabelDone(r, x) <=> r.stage > LabelStage(r, x)
      /\ ListDone(r) <=> r.stage > ListStage(r)
  BY <1>1, FullStage DEF Same
<1>3. ASSUME NEW x \in Bearers(r.vm) PROVE Bears(q, x) <=> Bears(r, x)
  <2>1. CASE x = r.vm
    <3>1. Pending(q, x) <=> r.stage > LabelStage(r, x)
      BY <2>1, CleanupSets, CleanupHas DEF Pending, LabelsIt
    <3> QED BY <1>2, <1>3, <3>1 DEF Bears
  <2>2. CASE x # r.vm
    <3>1. ~Pending(q, x)
      BY <2>2, CleanupSets DEF Pending, LabelsIt
    <3>2. LabelStage(r, x) = Len(Stages(r)) /\ Len(Stages(r)) \in 1..4
      BY <1>1, <1>3, <2>2, StageBounds
    <3>3. ~LabelDone(r, x)
      BY <1>1, <1>2, <1>3, <3>2
    <3> QED BY <3>1, <3>3 DEF Bears
  <2> QED BY <2>1, <2>2
<1>4. Listed(q) <=> Listed(r)
  <2>1. PendingList(q) <=> r.stage > ListStage(r)
    BY CleanupSets, CleanupHas DEF PendingList
  <2> QED BY <1>2, <2>1 DEF Listed
<1> QED BY <1>3, <1>4

\* A run that is over.
LEMMA EndWhole ==
    ASSUME NEW w, NEW r \in Run, About(r), Waits(r), r.kind \in Machine, r.todo = {}, Midway(w, r),
           r.phase = "catch" \/ (r.phase = "try" /\ r.stage = Len(Stages(r)))
    PROVE  Whole(w, r.vm)
<1>1. \A x : ~Pending(r, x)
  BY DEF Pending
<1>2. ~PendingList(r) /\ r.name \in Name
  BY DEF PendingList, About
<1>3. CASE r.phase = "catch"
  BY <1>1, <1>2, <1>3 DEF Midway, Bears, Listed, Whole, AllLabelled
<1>4. CASE r.phase = "try" /\ r.stage = Len(Stages(r))
  <2>1. ListDone(r) /\ \A x \in Bearers(r.vm) : LabelDone(r, x)
    <3>1. /\ ListStage(r) \in 1..r.stage /\ r.stage \in 1..4
          /\ \A x \in Bearers(r.vm) : LabelStage(r, x) \in 1..r.stage
      BY <1>4, StageBounds
    <3> QED BY <1>1, <1>2, <3>1 DEF LabelDone, ListDone
  <2> QED BY <1>2, <1>4, <2>1 DEF Midway, Bears, Listed, Whole, AllLabelled
<1> QED BY <1>3, <1>4

\* A run that begins.
LEMMA ChooseMidway ==
    ASSUME NEW w, NEW r \in Run, About(r), r.kind \in Machine, r.phase # "catch", r.stage = 0,
           Whole(w, r.vm),
           IF r.kind = "remove" THEN r.vm \in w.vms[r.name] ELSE \A n \in Name : r.vm \notin w.vms[n],
           None \notin Name
    PROVE  Midway(w, r)
<1>1. ~ListDone(r) /\ \A x : ~LabelDone(r, x)
  BY DEF ListDone, LabelDone, ListStage, LabelStage
<1>2. r.name \in Name /\ r.vm \in Bearers(r.vm)
  BY DEF About, Bearers
<1>3. CASE r.kind = "remove"
  <2>1. AllLabelled(w, r.vm, r.name)
    BY <1>2, <1>3 DEF Whole
  <2>2. \A n \in Name : r.vm \in w.vms[n] => n = r.name
    BY <1>2, <2>1 DEF Whole, AllLabelled
  <2> QED BY <1>1, <1>3, <2>1, <2>2 DEF Midway, Bears, Listed, AllLabelled
<1>4. CASE r.kind # "remove"
  BY <1>1, <1>4 DEF Midway, Bears, Listed, Whole, AllLabelled
<1> QED BY <1>3, <1>4

\* An assignment that begins again finds a VM without label and list.
LEMMA RetryMidway ==
    ASSUME NEW w, NEW r \in Run, About(r), r.kind \in Machine, r.kind # "remove",
           r.phase = "try", r.stage = 1, r.todo = Stages(r)[1], Whole(w, r.vm), \A n \in Name : r.vm \notin w.vms[n]
    PROVE  Midway(w, r)
<1>1. 1 \in 1..Len(Stages(r))
  BY StageBounds
<1>2. /\ \A x \in Bearers(r.vm) : LabelDone(r, x) <=> 1 > LabelStage(r, x)
      /\ ListDone(r) <=> 1 > ListStage(r)
  BY <1>1, FullStage DEF Same
<1>3. ~ListDone(r) /\ \A x \in Bearers(r.vm) : ~LabelDone(r, x)
  BY <1>2 DEF ListStage, LabelStage
<1> QED BY <1>3 DEF Midway, Bears, Listed, Whole, AllLabelled

-----------------------------------------------------------------------------
(* Who makes and deletes a DRPC and its placement.                         *)

\* An operation on a VM that is under way.
Going(r) == r.kind \in Machine /\ r.phase \in Active
\* The DRPC of the name stands or falls with the run: nobody else is in its list.
Owner(r) == Going(r) /\ Listed(r) /\ (r.kind = "standalone" \/ (r.kind = "remove" /\ LastOfGroup(r)))
\* It is about to delete that DRPC, ...
Dooms(r) == \E t \in r.todo : t.do = "deleteDRPC" /\ t.on \in Name
\* ... or has the placement alone to itself, before the DRPC is made or to delete it.
Deletes(r) == \E t \in r.todo : t.do = "deletePlacement"
Holds(r) ==
    \/ r.kind = "standalone" /\ r.phase = "try" /\ r.stage = 1 /\ r.todo = {}
    \/ r.kind = "standalone" /\ r.phase = "try" /\ r.stage = 2 /\ r.todo # {}
    \/ Deletes(r)
Role(r) == Owner(r) \/ Dooms(r) \/ Holds(r)

Owners(R, n) == {u \in User : Owner(R[u]) /\ R[u].name = n}
Doomers(R, n) == {u \in User : Dooms(R[u]) /\ R[u].name = n}
Holders(R, n) == {u \in User : Holds(R[u]) /\ R[u].name = n}

\* A name has one owner and one holder at most, and its placement exists when it is
\* held, or its DRPC stands and is not about to go, which cannot be both.
Sited(O, K, H, placed, made) ==
    /\ \A u, o \in O : u = o
    /\ \A u, o \in H : u = o
    /\ placed <=> H # {} \/ (made /\ K = {})
    /\ made /\ K = {} => H = {}
Founded(w, R, n) == Sited(Owners(R, n), Doomers(R, n), Holders(R, n), n \in w.placements, n \in w.drpcs)
Rooted(w, R, n) ==
    /\ Doomers(R, n) \subseteq Owners(R, n)
    /\ Owners(R, n) # {} => n \in w.drpcs

\* The step of the user u from the run r to the run q bears on the name m only.
RolesMove(R, Q, u, r, q, m) ==
    /\ \A n : n # m => /\ Owners(Q, n) = Owners(R, n)
                       /\ Doomers(Q, n) = Doomers(R, n)
                       /\ Holders(Q, n) = Holders(R, n)
    /\ Owners(Q, m) = IF Owner(q) THEN Owners(R, m) \cup {u} ELSE Owners(R, m) \ {u}
    /\ Doomers(Q, m) = IF Dooms(q) THEN Doomers(R, m) \cup {u} ELSE Doomers(R, m) \ {u}
    /\ Holders(Q, m) = IF Holds(q) THEN Holders(R, m) \cup {u} ELSE Holders(R, m) \ {u}
    /\ u \in Owners(R, m) <=> Owner(r)
    /\ u \in Doomers(R, m) <=> Dooms(r)
    /\ u \in Holders(R, m) <=> Holds(r)

\* A step of one run bears on one name.
LEMMA RolesAfter ==
    ASSUME NEW R \in [User -> Run], NEW u \in User, NEW q, NEW m,
           Role(R[u]) => R[u].name = m, Role(q) => q.name = m
    PROVE  RolesMove(R, [R EXCEPT ![u] = q], u, R[u], q, m)
<1> DEFINE Q == [R EXCEPT ![u] = q]
<1>1. Q[u] = q /\ \A o \in User \ {u} : Q[o] = R[o]
  OBVIOUS
<1> HIDE DEF Q
<1>2. /\ Owners(Q, m) = IF Owner(q) THEN Owners(R, m) \cup {u} ELSE Owners(R, m) \ {u}
      /\ u \in Owners(R, m) <=> Owner(R[u])
      /\ \A n : n # m => Owners(Q, n) = Owners(R, n)
  BY <1>1 DEF Owners, Role
<1>3. /\ Doomers(Q, m) = IF Dooms(q) THEN Doomers(R, m) \cup {u} ELSE Doomers(R, m) \ {u}
      /\ u \in Doomers(R, m) <=> Dooms(R[u])
      /\ \A n : n # m => Doomers(Q, n) = Doomers(R, n)
  BY <1>1 DEF Doomers, Role
<1>4. /\ Holders(Q, m) = IF Holds(q) THEN Holders(R, m) \cup {u} ELSE Holders(R, m) \ {u}
      /\ u \in Holders(R, m) <=> Holds(R[u])
      /\ \A n : n # m => Holders(Q, n) = Holders(R, n)
  BY <1>1 DEF Holders, Role
<1> QED BY <1>2, <1>3, <1>4 DEF Q, RolesMove

\* Any other name stays founded.
LEMMA Elsewhere ==
    ASSUME NEW w, NEW x, NEW R, NEW Q, NEW u, NEW r, NEW q, NEW m, RolesMove(R, Q, u, r, q, m),
           NEW n, n # m, Founded(w, R, n),
           n \in x.placements <=> n \in w.placements, n \in x.drpcs <=> n \in w.drpcs
    PROVE  Founded(x, Q, n)
<1>1. Owners(Q, n) = Owners(R, n) /\ Doomers(Q, n) = Doomers(R, n) /\ Holders(Q, n) = Holders(R, n)
  BY DEF RolesMove
<1> QED BY <1>1 DEF Founded, Sited

\* One lemma for each way in which a step bears on a name: it does not, ...
LEMMA NoRole ==
    ASSUME NEW w, NEW x, NEW R, NEW Q, NEW u, NEW r, NEW q, NEW m, RolesMove(R, Q, u, r, q, m),
           Owner(q) => Owner(r), Dooms(q) <=> Dooms(r), Holds(q) <=> Holds(r), Founded(w, R, m),
           m \in x.placements <=> m \in w.placements, m \in x.drpcs <=> m \in w.drpcs
    PROVE  Founded(x, Q, m)
<1>1. Owners(Q, m) \subseteq Owners(R, m) /\ Doomers(Q, m) = Doomers(R, m) /\ Holders(Q, m) = Holders(R, m)
  BY DEF RolesMove
<1> QED BY <1>1 DEF Founded, Sited

\* ... the placement is made, ...
LEMMA Locking ==
    ASSUME NEW w, NEW x, NEW R, NEW Q, NEW u, NEW r, NEW q, NEW m, RolesMove(R, Q, u, r, q, m),
           Owner(q) => Owner(r), Dooms(q) <=> Dooms(r), Holds(q), Founded(w, R, m),
           m \notin w.placements, m \in x.placements, m \in x.drpcs <=> m \in w.drpcs
    PROVE  Founded(x, Q, m)
<1>1. /\ Owners(Q, m) \subseteq Owners(R, m) /\ Doomers(Q, m) = Doomers(R, m)
      /\ Holders(Q, m) = Holders(R, m) \cup {u}
  BY DEF RolesMove
<1> QED BY <1>1 DEF Founded, Sited

\* ... and the DRPC on it, ...
LEMMA Making ==
    ASSUME NEW w, NEW x, NEW R, NEW Q, NEW u, NEW r, NEW q, NEW m, RolesMove(R, Q, u, r, q, m),
           Holds(r), ~Dooms(q), ~Holds(q), Founded(w, R, m), Rooted(w, R, m),
           m \in x.placements <=> m \in w.placements, m \notin w.drpcs, m \in x.drpcs
    PROVE  Founded(x, Q, m)
<1>1. /\ Owners(Q, m) \subseteq Owners(R, m) \cup {u} /\ Doomers(Q, m) = Doomers(R, m) \ {u}
      /\ Holders(Q, m) = Holders(R, m) \ {u} /\ u \in Holders(R, m)
  BY DEF RolesMove
<1>2. Owners(R, m) = {} /\ Doomers(R, m) = {}
  BY DEF Rooted
<1> QED BY <1>1, <1>2 DEF Founded, Sited

\* ... the placement is deleted, ...
LEMMA Unlocking ==
    ASSUME NEW w, NEW x, NEW R, NEW Q, NEW u, NEW r, NEW q, NEW m, RolesMove(R, Q, u, r, q, m),
           Holds(r), ~Holds(q), Owner(q) => Owner(r), Dooms(q) <=> Dooms(r), Founded(w, R, m),
           m \notin x.placements, m \in x.drpcs <=> m \in w.drpcs
    PROVE  Founded(x, Q, m)
<1>1. /\ Owners(Q, m) \subseteq Owners(R, m) /\ Doomers(Q, m) = Doomers(R, m)
      /\ Holders(Q, m) = Holders(R, m) \ {u} /\ u \in Holders(R, m)
  BY DEF RolesMove
<1> QED BY <1>1 DEF Founded, Sited

\* ... the DRPC is deleted, ...
LEMMA Unmaking ==
    ASSUME NEW w, NEW x, NEW R, NEW Q, NEW u, NEW r, NEW q, NEW m, RolesMove(R, Q, u, r, q, m),
           Dooms(r), Owner(q) => Owner(r), Holds(q) <=> Holds(r), Founded(w, R, m), Rooted(w, R, m),
           m \in x.placements <=> m \in w.placements, m \notin x.drpcs
    PROVE  Founded(x, Q, m)
<1>1. /\ Owners(Q, m) \subseteq Owners(R, m) /\ Holders(Q, m) = Holders(R, m)
      /\ u \in Doomers(R, m)
  BY DEF RolesMove
<1>2. m \in w.drpcs /\ Doomers(R, m) # {}
  BY <1>1 DEF Rooted
<1> QED BY <1>1, <1>2 DEF Founded, Sited

\* ... both are to be deleted, ...
LEMMA Dooming ==
    ASSUME NEW w, NEW x, NEW R, NEW Q, NEW u, NEW r, NEW q, NEW m, RolesMove(R, Q, u, r, q, m),
           Owner(r), ~Dooms(r), Dooms(q), Holds(q), Founded(w, R, m), Rooted(w, R, m),
           m \in x.placements <=> m \in w.placements, m \in x.drpcs <=> m \in w.drpcs
    PROVE  Founded(x, Q, m)
<1>1. /\ Owners(Q, m) \subseteq Owners(R, m) \cup {u} /\ u \in Owners(R, m)
      /\ Doomers(Q, m) = Doomers(R, m) \cup {u} /\ u \notin Doomers(R, m)
      /\ Holders(Q, m) = Holders(R, m) \cup {u}
  BY DEF RolesMove
<1>2. m \in w.drpcs /\ Doomers(R, m) = {}
  BY <1>1 DEF Rooted, Founded, Sited
<1> QED BY <1>1, <1>2 DEF Founded, Sited

\* ... or the last VM of the list is chosen to be removed.
LEMMA Claiming ==
    ASSUME NEW w, NEW x, NEW R, NEW Q, NEW u, NEW r, NEW q, NEW m, RolesMove(R, Q, u, r, q, m),
           Owners(R, m) \subseteq {u}, Dooms(q) <=> Dooms(r), Holds(q) <=> Holds(r), Founded(w, R, m),
           m \in x.placements <=> m \in w.placements, m \in x.drpcs <=> m \in w.drpcs
    PROVE  Founded(x, Q, m)
<1>1. /\ Owners(Q, m) \subseteq {u} /\ Doomers(Q, m) = Doomers(R, m) /\ Holders(Q, m) = Holders(R, m)
  BY DEF RolesMove
<1> QED BY <1>1 DEF Founded, Sited

\* What a call does to the placements.
LEMMA PlacementsAfter ==
    ASSUME NEW w \in World, NEW t, Typed(t)
    PROVE  Effect(w, t).placements = CASE t.do = "createPlacement" -> w.placements \cup {t.on}
                                       [] t.do = "deletePlacement" -> w.placements \ {t.on}
                                       [] OTHER -> w.placements
<1>1. t.do \in Dos
  BY DEF Typed, Tasks, Dos
<1>2. t.do = "createDRPC" => t.on \in Name \/ (t.on \in Placement /\ t.on \notin Name)
  BY DEF Typed
<1> QED BY <1>1, <1>2 DEF Effect, World, Dos

\* The tasks on a managed application bear on no name.
LEMMA ManagedTodo ==
    ASSUME NEW r \in Run, About(r), Waits(r), r.kind \notin Machine, NEW t \in r.todo
    PROVE  /\ Owns(r, t) /\ t.on \in Placement
           /\ t.do \in {"mark", "unmark", "keep", "createDRPC", "deleteDRPC"}
<1>1. /\ r.phase \in {"try", "catch"} /\ r.stage \in 1..Len(Stages(r))
      /\ r.kind \in {"assignManaged", "removeManaged"}
  BY DEF Waits, Run
<1>2. Cleanup(r) = {}
  BY <1>1 DEF Cleanup
<1>3. t \in Stages(r)[r.stage] /\ r.seen \subseteq r.copy /\ r.copy \subseteq Placement
  BY <1>1, <1>2 DEF Waits, About
<1>4. PICK do \in {"mark", "unmark", "keep", "createDRPC", "deleteDRPC"}, p \in Placement :
          t = Task(do, p, {})
  <2>1. CASE r.kind = "assignManaged"
    <3>1. r.stage \in {1}
      BY <1>1, <2>1 DEF Stages, AssignManaged
    <3> QED BY <1>3, <2>1, <3>1 DEF Stages, AssignManaged
  <2>2. CASE r.kind = "removeManaged"
    <3>1. r.stage \in {1, 2, 3}
      BY <1>1, <2>2 DEF Stages, RemoveManaged
    <3> QED BY <1>3, <2>2, <3>1 DEF Stages, RemoveManaged, Unmark
  <2> QED BY <1>1, <2>1, <2>2
<1>5. t.do = do /\ t.on = p
  BY <1>4, TaskFields
<1>6. r.kind # "none"
  BY <1>1
<1> QED BY <1>1, <1>3, <1>5, <1>6, StageTasks

\* A run that is not under way owns no name.
LEMMA RoleLess ==
    ASSUME NEW r \in Run, About(r), Waits(r), ~Going(r)
    PROVE  ~Role(r)
<1>1. CASE r.kind \notin Machine
  <2>1. \A t \in r.todo : t.on \notin Name /\ t.do # "deletePlacement"
    BY <1>1, ManagedTodo
  <2> QED BY <1>1, <2>1 DEF Role, Owner, Dooms, Holds, Deletes, Machine
<1>2. CASE r.phase \notin Active
  <2>1. r.todo = {} /\ r.phase \notin {"try", "catch"}
    BY <1>2 DEF Active, Waits
  <2> QED BY <1>2, <2>1 DEF Role, Owner, Dooms, Holds, Deletes, Active
<1> QED BY <1>1, <1>2 DEF Going

\* Who deletes a DRPC was its owner.
LEMMA DoomsOwner ==
    ASSUME NEW r \in Run, About(r), Waits(r), Fits(r), Dooms(r)
    PROVE  Owner(r)
<1>1. PICK t \in r.todo : t.do = "deleteDRPC" /\ t.on \in Name
  BY DEF Dooms
<1>2. r.kind \in Machine
  BY <1>1, ManagedTodo
<1>3. r.phase \in {"try", "catch"} /\ r.stage \in 1..Len(Stages(r)) /\ PendingList(r)
  BY <1>1 DEF Waits, PendingList, Lists
<1>4. CASE r.phase = "catch"
  <2>1. t \in Cleanup(r)
    BY <1>4 DEF Waits
  <2>2. r.kind = "standalone"
    BY <1>1, <2>1, CleanupSets
  <2> QED BY <1>2, <1>3, <1>4, <2>2 DEF Owner, Going, Active, Listed
<1>5. CASE r.phase = "try"
  <2>1. StageTask(r, r.stage, t)
    BY <1>2, <1>3, <1>5, StageShape DEF Waits
  <2>2. r.kind = "remove" /\ r.stage = 2 /\ LastOfGroup(r)
    BY <1>1, <2>1 DEF StageTask
  <2>3. ~ListDone(r)
    BY <1>3, <2>2 DEF ListDone, ListStage
  <2> QED BY <1>2, <1>5, <2>2, <2>3 DEF Owner, Going, Active, Listed
<1> QED BY <1>3, <1>4, <1>5

\* What the world after a step may differ in, as far as names go.
SameNames(w, x, n) == (n \in x.placements <=> n \in w.placements) /\ (n \in x.drpcs <=> n \in w.drpcs)

\* A call of the run: what is left open, and what it owns.
LEMMA WorkRoles ==
    ASSUME NEW r \in Run, About(r), Waits(r), Fits(r), r.kind \in Machine, NEW t \in r.todo,
           NEW q, Same(q, r), q.phase = r.phase, q.stage = r.stage, q.todo = r.todo \ {t}
    PROVE  /\ ~Lists(t) => (Owner(q) <=> Owner(r))
           /\ t.do # "deleteDRPC" => (Dooms(q) <=> Dooms(r))
           /\ t.do # "deletePlacement" => (Deletes(q) <=> Deletes(r))
           /\ t.do = "deletePlacement" => ~Deletes(q)
<1>1. TodoTask(r, t)
  BY TodoShape
<1>2. ~Lists(t) => (Owner(q) <=> Owner(r))
  <2>1. SUFFICES ASSUME ~Lists(t) PROVE Owner(q) <=> Owner(r)
    OBVIOUS
  <2>2. PendingList(q) <=> PendingList(r)
    BY <2>1 DEF PendingList
  <2>3. Listed(q) <=> Listed(r)
    BY <2>2, SameStages DEF Listed, ListDone, Same
  <2> QED BY <2>3 DEF Owner, Going, Same, LastOfGroup
<1>3. t.do # "deleteDRPC" => (Dooms(q) <=> Dooms(r))
  BY DEF Dooms
<1>4. t.do # "deletePlacement" => (Deletes(q) <=> Deletes(r))
  BY DEF Deletes
<1>5. t.do = "deletePlacement" => ~Deletes(q)
  BY <1>1 DEF Deletes, TodoTask, Alike
<1> QED BY <1>2, <1>3, <1>4, <1>5

\* A call of the run keeps its name founded.
LEMMA WorkFounded ==
    ASSUME NEW w \in World, NEW r \in Run, About(r), Waits(r), Fits(r), r.kind \in Machine, NEW t \in r.todo,
           Accepts(w, t), NEW q, Same(q, r), q.phase = r.phase, q.stage = r.stage, q.todo = r.todo \ {t},
           NEW R, NEW Q, NEW u, RolesMove(R, Q, u, r, q, r.name), Founded(w, R, r.name), Rooted(w, R, r.name)
    PROVE  Founded(Effect(w, t), Q, r.name)
<1> DEFINE x == Effect(w, t)
           m == r.name
<1>1. TodoTask(r, t) /\ Typed(t) /\ m \in Name
  BY TodoShape DEF About
<1>2. x.placements = CASE t.do = "createPlacement" -> w.placements \cup {t.on}
                       [] t.do = "deletePlacement" -> w.placements \ {t.on}
                       [] OTHER -> w.placements
  BY <1>1, PlacementsAfter
<1>3. x.drpcs = DRPCsAfter(w, t)
  BY <1>1, EffectFacts
<1>4. /\ ~Lists(t) => (Owner(q) <=> Owner(r))
      /\ t.do # "deleteDRPC" => (Dooms(q) <=> Dooms(r))
      /\ t.do # "deletePlacement" => (Deletes(q) <=> Deletes(r))
      /\ t.do = "deletePlacement" => ~Deletes(q)
  BY WorkRoles
<1>5. r.phase \in {"try", "catch"} /\ r.stage \in 1..Len(Stages(r)) /\ t.on \in {m} \cup Holder
  <2>1. t.do # "label" => t.on = m
    BY <1>1 DEF TodoTask
  <2> QED BY <1>1, <2>1 DEF Waits, Typed
<1> HIDE DEF x
<1>t. r.phase = "try" => StageTask(r, r.stage, t) /\ r.todo \subseteq Stages(r)[r.stage]
  BY <1>5, StageShape DEF Waits
<1>c. r.phase = "catch" =>
        /\ t.do \in {"label", "deletePlacement", IF r.kind = "shared" THEN "patchVMs" ELSE "deleteDRPC"}
        /\ t.do = "deletePlacement" => r.kind = "standalone"
        /\ r.kind \in {"standalone", "shared"}
  BY CleanupSets DEF Waits
<1>6. CASE t.do = "createPlacement"
  <2>1. r.phase = "try" /\ r.kind = "standalone" /\ r.stage = 1 /\ t.on = m
    BY <1>1, <1>5, <1>6, <1>t, <1>c DEF StageTask, TodoTask
  <2>2. q.todo = {}
    <3>1. OneTask(Stages(r)[1], "createPlacement", r.name, {})
      BY <2>1, StandaloneSets
    <3>2. r.todo \subseteq Stages(r)[1]
      BY <2>1, <1>t
    <3> QED BY <3>1, <3>2 DEF OneTask
  <2>3. Holds(q)
    BY <2>1, <2>2 DEF Holds, Same
  <2>4. m \notin w.placements /\ m \in x.placements /\ x.drpcs = w.drpcs
    BY <1>2, <1>3, <1>6, <2>1 DEF Accepts, DRPCsAfter
  <2>5. Owner(q) <=> Owner(r)
    BY <1>4, <1>6 DEF Lists
  <2> QED BY <1>4, <1>6, <2>3, <2>4, <2>5, Locking DEF x
<1>7. CASE t.do = "createDRPC"
  <2>1. r.phase = "try" /\ r.kind = "standalone" /\ r.stage = 2 /\ t.on = m
    BY <1>1, <1>5, <1>7, <1>t, <1>c DEF StageTask, TodoTask
  <2>2. q.todo = {}
    <3>1. OneTask(Stages(r)[2], "createDRPC", r.name, {r.vm})
      BY <2>1, StandaloneSets
    <3>2. r.todo \subseteq Stages(r)[2]
      BY <2>1, <1>t
    <3> QED BY <3>1, <3>2 DEF OneTask
  <2>3. ~Holds(q) /\ ~Dooms(q)
    BY <2>1, <2>2 DEF Holds, Dooms, Deletes, Same
  <2>4. Holds(r)
    BY <2>1 DEF Holds
  <2>5. m \notin w.drpcs /\ m \in x.drpcs /\ x.placements = w.placements
    BY <1>2, <1>3, <1>7, <2>1 DEF Accepts, DRPCsAfter
  <2> QED BY <2>3, <2>4, <2>5, Making DEF x
<1>8. CASE t.do = "patchVMs"
  <2>1. Lists(t) /\ x.drpcs = w.drpcs /\ x.placements = w.placements
    BY <1>1, <1>2, <1>3, <1>8 DEF Lists, TodoTask, DRPCsAfter
  <2>2. r.kind # "standalone" /\ ~(r.kind = "remove" /\ LastOfGroup(r))
    <3>1. CASE r.phase = "try"
      <4>1. r.stage = ListStage(r)
        BY <1>t, <2>1, <3>1 DEF StageTask
      <4> QED BY <1>t, <1>8, <3>1, <4>1 DEF StageTask, ListStage
    <3>2. CASE r.phase = "catch"
      BY <1>8, <1>c, <3>2
    <3> QED BY <1>5, <3>1, <3>2
  <2>3. ~Owner(q)
    BY <2>2 DEF Owner, Same, LastOfGroup
  <2>4. Holds(q) <=> Holds(r)
    BY <1>4, <1>8, <2>2 DEF Holds, Same
  <2> QED BY <1>4, <1>8, <2>1, <2>3, <2>4, NoRole DEF x
<1>9. CASE t.do = "deleteDRPC"
  <2>1. t.on = m /\ Dooms(r)
    BY <1>1, <1>9 DEF TodoTask, Dooms
  <2>2. Owner(r)
    BY <2>1, DoomsOwner
  <2>3. r.phase = "try" => r.kind = "remove"
    BY <1>9, <1>t DEF StageTask
  <2>4. Holds(q) <=> Holds(r)
    BY <1>4, <1>5, <1>9, <2>3 DEF Holds, Same
  <2>5. m \notin x.drpcs /\ x.placements = w.placements
    BY <1>2, <1>3, <1>9, <2>1 DEF DRPCsAfter
  <2> QED BY <2>1, <2>2, <2>4, <2>5, Unmaking DEF x
<1>a. CASE t.do = "deletePlacement"
  <2>1. t.on = m /\ Holds(r)
    BY <1>1, <1>a DEF TodoTask, Holds, Deletes
  <2>2. r.phase = "try" => r.kind = "remove"
    BY <1>a, <1>t DEF StageTask
  <2>3. ~Holds(q)
    BY <1>4, <1>5, <1>a, <2>2 DEF Holds, Same
  <2>4. m \notin x.placements /\ x.drpcs = w.drpcs
    BY <1>2, <1>3, <1>a, <2>1 DEF DRPCsAfter
  <2>5. Owner(q) <=> Owner(r)
    BY <1>4, <1>a DEF Lists
  <2> QED BY <1>4, <1>a, <2>1, <2>3, <2>4, <2>5, Unlocking DEF x
<1>b. CASE t.do = "label"
  <2>1. x.placements = w.placements /\ x.drpcs = w.drpcs
    BY <1>2, <1>3, <1>b DEF DRPCsAfter
  <2>2. r.phase = "try" /\ r.kind = "standalone" => r.stage \notin {1, 2}
    BY <1>b, <1>t DEF StageTask
  <2>3. Holds(q) <=> Holds(r)
    BY <1>4, <1>5, <1>b, <2>2 DEF Holds, Same
  <2>4. Owner(q) <=> Owner(r)
    BY <1>4, <1>b DEF Lists
  <2> QED BY <1>4, <1>b, <2>1, <2>3, <2>4, NoRole DEF x
<1> QED BY <1>1, <1>6, <1>7, <1>8, <1>9, <1>a, <1>b DEF TodoTask

\* The same machine, whatever annotations its run has seen.
LEMMA SameMachine ==
    ASSUME NEW r, NEW q, Same(q, r), r.kind \in Machine
    PROVE  Stages(q) = Stages(r)
BY DEF Same, Machine, Stages, Standalone, Shared, Remove, LabelVM, LabelPVCs, PatchVMs, GroupTask, LastOfGroup

\* What the catch of a failed assignment takes on itself.
LEMMA RejectFounded ==
    ASSUME NEW w, NEW r \in Run, About(r), Waits(r), Fits(r), r.phase = "try",
           r.kind \in {"standalone", "shared"}, r.todo = Stages(r)[r.stage],
           NEW t, Stages(r)[r.stage] = {t},
           NEW q, Same(q, r), q.phase = "catch", q.stage = r.stage, q.todo = Cleanup(r),
           NEW R, NEW Q, NEW u, RolesMove(R, Q, u, r, q, r.name), Founded(w, R, r.name), Rooted(w, R, r.name)
    PROVE  Founded(w, Q, r.name)
<1>1. r.stage \in 1..4 /\ r.stage \in 1..Len(Stages(r)) /\ r.kind \in Machine /\ r.name \in Name
  BY DEF Waits, Machine, About, Run
<1>2. Listed(q) <=> Listed(r)
  BY RejectSame
<1>3. Owner(q) <=> Owner(r)
  BY <1>2 DEF Owner, Going, Same, LastOfGroup, Active
<1>4. ~Dooms(r) /\ ~Deletes(r)
  <2>1. StageTask(r, r.stage, t)
    BY <1>1, StageShape
  <2> QED BY <2>1 DEF StageTask, Dooms, Deletes
<1>5. Holds(r) <=> r.kind = "standalone" /\ r.stage = 2
  BY <1>4 DEF Holds
<1>6. Dooms(q) <=> r.kind = "standalone" /\ r.stage > 2
  <2>1. ASSUME NEW c \in Cleanup(r), c.do = "deleteDRPC", c.on \in Name
        PROVE  r.kind = "standalone" /\ r.stage > 2
    BY <2>1, CleanupSets DEF Lists, ListStage
  <2>2. r.kind = "standalone" /\ r.stage > 2 => \E c \in Cleanup(r) : c.do = "deleteDRPC" /\ c.on \in Name
    BY <1>1, CleanupHas
  <2> QED BY <2>1, <2>2 DEF Dooms
<1>7. Holds(q) <=> r.kind = "standalone" /\ r.stage > 1
  <2>1. ASSUME NEW c \in Cleanup(r), c.do = "deletePlacement"
        PROVE  r.kind = "standalone" /\ r.stage > 1
    BY <2>1, CleanupSets
  <2>2. r.kind = "standalone" /\ r.stage > 1 => \E c \in Cleanup(r) : c.do = "deletePlacement"
    BY CleanupHas
  <2> QED BY <2>1, <2>2 DEF Holds, Deletes
<1>8. CASE r.kind = "standalone" /\ r.stage > 2
  <2>1. Listed(r)
    BY <1>8 DEF Listed, ListDone, ListStage
  <2>2. Owner(r)
    BY <1>1, <1>8, <2>1 DEF Owner, Going, Active
  <2>3. Dooms(q) /\ Holds(q)
    BY <1>1, <1>6, <1>7, <1>8
  <2> QED BY <1>4, <2>2, <2>3, Dooming
<1>9. CASE ~(r.kind = "standalone" /\ r.stage > 2)
  <2>1. Holds(q) <=> Holds(r)
    BY <1>1, <1>5, <1>7, <1>9
  <2> QED BY <1>3, <1>4, <1>6, <1>9, <2>1, NoRole
<1> QED BY <1>8, <1>9

\* What the next await takes on itself.
LEMMA AdvanceFounded ==
    ASSUME NEW w, NEW r \in Run, About(r), Waits(r), Fits(r), r.kind \in Machine,
           r.phase \in {"chosen", "try"}, r.todo = {},
           NEW q, Same(q, r), q.phase = "try", q.stage = r.stage + 1,
           q.stage \in 1..Len(Stages(r)), q.todo = Stages(r)[q.stage],
           NEW R, NEW Q, NEW u, RolesMove(R, Q, u, r, q, r.name), Founded(w, R, r.name), Rooted(w, R, r.name)
    PROVE  Founded(w, Q, r.name)
<1>1. r.stage \in 0..4 /\ r.name \in Name
  BY DEF About, Run
<1>2. Listed(q) <=> Listed(r)
  BY AdvanceSame
<1>3. Owner(q) <=> Owner(r)
  BY <1>2 DEF Owner, Going, Same, LastOfGroup, Active
<1>4. ~Dooms(r) /\ ~Deletes(r)
  BY DEF Dooms, Deletes
<1>5. Holds(r) <=> r.kind = "standalone" /\ q.stage = 2
  BY <1>1, <1>4 DEF Holds, Fits
<1>6. \A s \in q.todo : s.do \in {"deleteDRPC", "deletePlacement"} =>
          r.kind = "remove" /\ q.stage = 2 /\ LastOfGroup(r)
  BY StageShape DEF StageTask
<1>7. CASE r.kind = "remove" /\ q.stage = 2 /\ LastOfGroup(r)
  <2>1. Listed(r)
    BY <1>1, <1>7 DEF Listed, ListDone, ListStage
  <2>2. Owner(r)
    BY <1>7, <2>1 DEF Owner, Going, Active
  <2>3. /\ \E s \in q.todo : s.do = "deleteDRPC" /\ s.on = r.name
        /\ \E s \in q.todo : s.do = "deletePlacement"
    BY <1>7, StageHas
  <2>4. Dooms(q) /\ Holds(q)
    BY <1>1, <2>3 DEF Dooms, Holds, Deletes
  <2> QED BY <1>4, <2>2, <2>4, Dooming
<1>8. CASE ~(r.kind = "remove" /\ q.stage = 2 /\ LastOfGroup(r))
  <2>1. ~Dooms(q) /\ ~Deletes(q)
    BY <1>6, <1>8 DEF Dooms, Deletes
  <2>2. r.kind = "standalone" /\ q.stage \in {1, 2} => q.todo # {}
    BY StageHas
  <2>3. Holds(q) <=> Holds(r)
    BY <1>5, <2>1, <2>2 DEF Holds, Same
  <2> QED BY <1>3, <1>4, <2>1, <2>3, NoRole
<1> QED BY <1>7, <1>8

\* An assignment that is tried again begins with no part in its name.
LEMMA RetryRoles ==
    ASSUME NEW q \in Run, About(q), q.kind \in {"standalone", "shared"}, q.phase = "try", q.stage = 1,
           q.todo = Stages(q)[1]
    PROVE  ~Role(q)
<1>1. q.kind \in Machine
  BY DEF Machine
<1>2. 1 \in 1..Len(Stages(q))
  BY <1>1, StageBounds
<1>3. ~ListDone(q)
  <2>1. ListDone(q) <=> 1 > ListStage(q)
    BY <1>1, <1>2, FullStage DEF Same
  <2> QED BY <2>1 DEF ListStage
<1>4. \A s \in q.todo : s.do \notin {"deleteDRPC", "deletePlacement"}
  BY <1>1, <1>2, StageShape DEF StageTask
<1>5. q.kind = "standalone" => q.todo # {}
  BY <1>1, <1>2, StageHas
<1> QED BY <1>3, <1>4, <1>5 DEF Role, Owner, Dooms, Holds, Deletes, Listed

-----------------------------------------------------------------------------
(* As long as no call fails beyond repair.                                 *)

\* Each run is of its kind, a DRPC lists a VM, a VM that a run is about is as far as
\* the run, any other is whole, and the names are founded.
AllFit(R) == \A u \in User : Fits(R[u])
ListsMatch(w) == \A n \in Name : n \in w.drpcs => w.vms[n] # {}
OnTheWay(w, R) == \A u \in User : Going(R[u]) => Midway(w, R[u])
AtRest(w, R) == \A v \in VM : (\A u \in User : Going(R[u]) => R[u].vm # v) => Whole(w, v)
AllFounded(w, R) == \A n \in Name : Founded(w, R, n)
Tidy(w, R) == AllFit(R) /\ ListsMatch(w) /\ OnTheWay(w, R) /\ AtRest(w, R) /\ AllFounded(w, R)

\* Only the owner of a DRPC deletes it, and an owned DRPC exists.
LEMMA AllRooted ==
    ASSUME NEW w \in World, Sane(w), NEW R \in [User -> Run], \A u \in User : About(R[u]) /\ Waits(R[u]),
           AllFit(R), OnTheWay(w, R), NEW n \in Name
    PROVE  Rooted(w, R, n)
<1>1. Doomers(R, n) \subseteq Owners(R, n)
  <2>1. ASSUME NEW u \in User, Dooms(R[u]) PROVE Owner(R[u])
    BY <2>1, DoomsOwner DEF AllFit
  <2> QED BY <2>1 DEF Doomers, Owners
<1>2. ASSUME NEW u \in Owners(R, n) PROVE n \in w.drpcs
  <2>1. u \in User /\ Going(R[u]) /\ Listed(R[u]) /\ R[u].name = n
    BY DEF Owners, Owner
  <2>2. R[u].vm \in w.vms[n]
    BY <2>1 DEF OnTheWay, Midway
  <2> QED BY <2>2 DEF Sane
<1> QED BY <1>1, <1>2 DEF Rooted

\* A step of one run, about the virtual machine v, or about none.
LEMMA TidyStep ==
    ASSUME NEW w, NEW x, NEW R \in [User -> Run], NEW u \in User, NEW q \in Run, NEW v \in VM \cup {None},
           Tidy(w, R), Fits(q), ListsMatch(x), AllFounded(x, [R EXCEPT ![u] = q]),
           Going(R[u]) => R[u].vm = v, Going(q) => q.vm = v /\ Midway(x, q),
           \A o \in User \ {u} : Going(R[o]) => R[o].vm # v /\ R[o].vm \in VM,
           \A y \in VM \ {v} : Untouched(w, x, y),
           ~Going(q) /\ v \in VM => Whole(x, v)
    PROVE  Tidy(x, [R EXCEPT ![u] = q])
<1> DEFINE Q == [R EXCEPT ![u] = q]
<1>1. Q[u] = q /\ \A o \in User \ {u} : Q[o] = R[o]
  OBVIOUS
<1> HIDE DEF Q
<1>2. AllFit(Q)
  BY <1>1 DEF Tidy, AllFit
<1>3. OnTheWay(x, Q)
  <2>1. ASSUME NEW o \in User \ {u}, Going(R[o]) PROVE Midway(x, R[o])
    <3>1. Untouched(w, x, R[o].vm) /\ Midway(w, R[o])
      BY <2>1 DEF Tidy, OnTheWay
    <3> QED BY <3>1, UntouchedStays
  <2> QED BY <1>1, <2>1 DEF OnTheWay
<1>4. AtRest(x, Q)
  <2>1. SUFFICES ASSUME NEW y \in VM, \A o \in User : Going(Q[o]) => Q[o].vm # y PROVE Whole(x, y)
    BY DEF AtRest
  <2>2. CASE y = v
    BY <1>1, <2>1, <2>2
  <2>3. CASE y # v
    <3>1. \A o \in User : Going(R[o]) => R[o].vm # y
      BY <1>1, <2>1, <2>3
    <3>2. Whole(w, y)
      BY <3>1 DEF Tidy, AtRest
    <3> QED BY <2>3, <3>2, UntouchedStays
  <2> QED BY <2>2, <2>3
<1> QED BY <1>2, <1>3, <1>4 DEF Tidy, Q

\* ... and about the name m.
LEMMA NamesStep ==
    ASSUME NEW w, NEW x, NEW R, NEW Q, NEW u, NEW r, NEW q, NEW m, RolesMove(R, Q, u, r, q, m),
           AllFounded(w, R), \A n \in Name : n # m => SameNames(w, x, n), m \in Name => Founded(x, Q, m)
    PROVE  AllFounded(x, Q)
BY Elsewhere DEF AllFounded, SameNames

\* A run about a managed application bears on no name.
LEMMA NoNames ==
    ASSUME NEW w, NEW x, NEW R \in [User -> Run], NEW u \in User, NEW q \in Run,
           ~Role(R[u]), ~Role(q), AllFounded(w, R), \A n \in Name : SameNames(w, x, n)
    PROVE  AllFounded(x, [R EXCEPT ![u] = q])
<1>1. RolesMove(R, [R EXCEPT ![u] = q], u, R[u], q, None)
  BY RolesAfter
<1> QED BY <1>1, NamesStep

\* A list never becomes empty unless its DRPC goes.
LEMMA ListsStay ==
    ASSUME NEW w \in World, ListsMatch(w), NEW t, Typed(t),
           Lists(t) => t.do = "deleteDRPC" \/ t.val # {}
    PROVE  ListsMatch(Effect(w, t))
<1> DEFINE x == Effect(w, t)
<1>1. x.drpcs = DRPCsAfter(w, t) /\ x.vms = ListsAfter(w, t)
  BY EffectFacts
<1> HIDE DEF x
<1>2. SUFFICES ASSUME NEW n \in Name, n \in x.drpcs PROVE x.vms[n] # {}
  BY DEF ListsMatch, x
<1>3. CASE Lists(t) /\ t.on = n
  BY <1>1, <1>2, <1>3 DEF DRPCsAfter, ListsAfter
<1>4. CASE ~(Lists(t) /\ t.on = n)
  <2>1. n \in w.drpcs
    BY <1>1, <1>2, <1>4 DEF DRPCsAfter, Lists
  <2> QED BY <1>1, <1>4, <2>1 DEF ListsAfter, ListsMatch
<1> QED BY <1>3, <1>4

\* A call changes no name but that of its run.
LEMMA NamesStay ==
    ASSUME NEW w \in World, NEW t, Typed(t), NEW n \in Name, t.on # n \/ t.do = "label"
    PROVE  SameNames(w, Effect(w, t), n)
<1>1. Effect(w, t).placements = CASE t.do = "createPlacement" -> w.placements \cup {t.on}
                                  [] t.do = "deletePlacement" -> w.placements \ {t.on}
                                  [] OTHER -> w.placements
  BY PlacementsAfter
<1>2. Effect(w, t).drpcs = DRPCsAfter(w, t)
  BY EffectFacts
<1> QED BY <1>1, <1>2 DEF DRPCsAfter, SameNames

\* This is so now, and no task is on its way that nobody awaits.
Tidied == late = {} /\ Tidy(world, run)

\* The runs under way are about other VMs, ...
LEMMA OthersAway ==
    ASSUME TInv, Separate, NEW u \in User, run[u].phase \in Active
    PROVE  \A o \in User \ {u} : Going(run[o]) => run[o].vm # run[u].vm /\ run[o].vm \in VM
<1>1. PICK O \in SUBSET User : Keep(O)
  BY DEF Separate
<1>2. u \in O /\ \A o \in User : Going(run[o]) => o \in O
  BY <1>1 DEF Keep, Going
<1>3. \A o \in User : Going(run[o]) => run[o].vm \in VM
  BY DEF TInv, Runs, About, Going
<1>4. ASSUME NEW o \in User \ {u}, Going(run[o]) PROVE run[o].vm # run[u].vm
  <2>1. Apart(run[o], run[u]) /\ run[o].vm # None
    BY <1>1, <1>2, <1>3, <1>4 DEF Keep
  <2> QED BY <2>1 DEF Apart
<1> QED BY <1>3, <1>4

\* This holds in every tidy state.
LEMMA RootedNow ==
    ASSUME TInv, Tidy(world, run), NEW n \in Name
    PROVE  Rooted(world, run, n)
BY AllRooted DEF TInv, Runs, Tidy

\* A task resolves.
LEMMA WorkTidy ==
    ASSUME OwnVolumes, TInv, Separate, Tidied, NEW u \in User, NEW t \in run[u].todo, Work(u, t), ~overlap'
    PROVE  Tidied'
<1> DEFINE r == run[u]
<1>1. PICK q \in Run :
          /\ run' = [run EXCEPT ![u] = q] /\ About(q) /\ Waits(q) /\ Same(q, r)
          /\ q.phase = r.phase /\ q.seen = r.seen /\ q.stage = r.stage /\ q.todo = r.todo \ {t}
  BY Working
<1>2. /\ r \in Run /\ About(r) /\ Waits(r) /\ Fits(r) /\ r.phase \in {"try", "catch"}
      /\ run \in [User -> Run] /\ world \in World /\ Sane(world) /\ Tidy(world, run)
  BY DEF TInv, Runs, Tidied, Tidy, AllFit, Work
<1>3. Accepts(world, t) /\ Fresh(world, t) /\ world' = Effect(world, t) /\ late' = {} /\ Owns(r, t)
      /\ t \in r.todo
  BY TodoOwned DEF Work, Stale, Fresh, Tidied
<1>4. \A o \in User \ {u} : Going(run[o]) => run[o].vm # r.vm /\ run[o].vm \in VM
  BY <1>2, OthersAway DEF Active
<1>r. \A n \in Name : Rooted(world, run, n)
  BY <1>2, RootedNow
<1> HIDE DEF r
<1>5. Fits(q)
  BY <1>1, <1>2 DEF Fits, Same
<1>6. \A y \in VM \ {r.vm} : Untouched(world, world', y)
  BY <1>2, <1>3, OthersVM
<1>7. CASE r.kind \in Machine
  <2>1. TodoTask(r, t) /\ Typed(t)
    BY <1>2, <1>3, <1>7, TodoShape
  <2>2. Going(r) /\ Going(q) /\ r.vm \in VM /\ r.name \in Name
    BY <1>1, <1>2, <1>7 DEF Going, Active, Same, About
  <2>3. Midway(world, r)
    BY <1>2, <2>2 DEF Tidy, OnTheWay, r
  <2>4. Midway(world', q)
    BY <1>1, <1>2, <1>3, <1>7, <2>3, WorkMidway
  <2>5. ListsMatch(world')
    <3>1. Lists(t) => t.do = "deleteDRPC" \/ t.val # {}
      BY <2>1 DEF Lists, TodoTask
    <3> QED BY <1>2, <1>3, <2>1, <3>1, ListsStay DEF Tidy
  <2>6. RolesMove(run, [run EXCEPT ![u] = q], u, r, q, r.name)
    BY <1>1, <1>2, RolesAfter DEF Same, r
  <2>7. Founded(world, run, r.name) /\ Rooted(world, run, r.name)
    BY <1>2, <1>r, <2>2 DEF Tidy, AllFounded
  <2>8. Founded(world', [run EXCEPT ![u] = q], r.name)
    BY <1>1, <1>2, <1>3, <1>7, <2>6, <2>7, WorkFounded
  <2>9. \A n \in Name : n # r.name => SameNames(world, world', n)
    <3>1. t.do = "label" \/ t.on = r.name
      BY <2>1 DEF TodoTask
    <3> QED BY <1>2, <1>3, <2>1, <3>1, NamesStay
  <2>a. AllFounded(world', [run EXCEPT ![u] = q])
    BY <1>2, <2>6, <2>8, <2>9, NamesStep DEF Tidy
  <2>b. q.vm = r.vm
    BY <1>1 DEF Same
  <2>c. Tidy(world', [run EXCEPT ![u] = q])
    BY <1>2, <1>4, <1>5, <1>6, <2>2, <2>4, <2>5, <2>a, <2>b, TidyStep DEF r
  <2> QED BY <1>1, <1>3, <2>c DEF Tidied
<1>8. CASE r.kind \notin Machine
  <2>1. /\ t.on \in Placement /\ Typed(t)
        /\ t.do \in {"mark", "unmark", "keep", "createDRPC", "deleteDRPC"}
    BY <1>2, <1>3, <1>8, ManagedTodo DEF Owns
  <2>2. ~Going(r) /\ ~Going(q) /\ r.vm = None
    BY <1>1, <1>2, <1>8 DEF Going, Same, About
  <2>3. ~Role(r) /\ ~Role(q)
    BY <1>1, <1>2, <2>2, RoleLess
  <2>4. \A n \in Name : SameNames(world, world', n)
    BY <1>2, <1>3, <2>1, NamesStay
  <2>5. AllFounded(world', [run EXCEPT ![u] = q])
    BY <1>2, <2>3, <2>4, NoNames DEF Tidy, r
  <2>6. ListsMatch(world')
    BY <1>2, <1>3, <2>1, ListsStay DEF Tidy, Lists
  <2>7. Tidy(world', [run EXCEPT ![u] = q])
    BY <1>2, <1>4, <1>5, <1>6, <2>2, <2>5, <2>6, TidyStep DEF r
  <2> QED BY <1>1, <1>3, <2>7 DEF Tidied
<1> QED BY <1>7, <1>8

\* A run goes on without a call: the step of u to the run q, about the virtual
\* machine v and the name m, or about none.
Calm(u, q, v, m) ==
    /\ run' = [run EXCEPT ![u] = q] /\ world' = world /\ late' = {} /\ Fits(q)
    /\ Going(run[u]) => run[u].vm = v
    /\ Going(q) => q.vm = v /\ Midway(world, q)
    /\ \A o \in User \ {u} : Going(run[o]) => run[o].vm # v /\ run[o].vm \in VM
    /\ ~Going(q) /\ v \in VM => Whole(world, v)
    /\ RolesMove(run, run', u, run[u], q, m)
    /\ m \in Name => Founded(world, run', m)

\* Such a step leaves everything tidy.
LEMMA CalmStep ==
    ASSUME TInv, Tidied, NEW u \in User, NEW q \in Run, NEW v \in VM \cup {None}, NEW m, Calm(u, q, v, m)
    PROVE  Tidied'
<1>0. run' = [run EXCEPT ![u] = q] /\ world' = world /\ late' = {}
  BY DEF Calm
<1>1. run \in [User -> Run] /\ Tidy(world, run)
  BY DEF TInv, Runs, Tidied
<1>2. \A y : Untouched(world, world, y)
  BY DEF Untouched
<1>3. \A n \in Name : n # m => SameNames(world, world, n)
  BY DEF SameNames
<1>4. AllFounded(world, run')
  BY <1>1, <1>3, NamesStep DEF Tidy, Calm
<1>5. AllFounded(world, [run EXCEPT ![u] = q])
  BY <1>0, <1>4
<1>6. Tidy(world, [run EXCEPT ![u] = q])
  <2>1. ListsMatch(world)
    BY <1>1 DEF Tidy
  <2> QED BY <1>1, <1>2, <1>5, <2>1, TidyStep DEF Calm
<1>7. Tidy(world', [run EXCEPT ![u] = q])
  BY <1>0, <1>6
<1> QED BY <1>0, <1>7 DEF Tidied

\* The only call of an await is rejected: the catch takes over where the try stopped.
LEMMA RejectTidy ==
    ASSUME TInv, Separate, Tidied, NEW u \in User, NEW t \in run[u].todo, Reject(u, t), ~unrepaired'
    PROVE  Tidied'
<1> DEFINE r == run[u]
           q == GiveUp(r)
<1>1. /\ r \in Run /\ About(r) /\ Waits(r) /\ Fits(r) /\ run \in [User -> Run]
      /\ Tidy(world, run) /\ late = {}
  BY DEF TInv, Runs, Tidied, Tidy, AllFit
<1>2. /\ Repaired(r, t) /\ world' = world /\ late' = late \cup (r.todo \ {t})
      /\ run' = [run EXCEPT ![u] = q]
  BY DEF Reject
<1>3. r.phase = "try" /\ r.kind \in {"standalone", "shared"} /\ Stages(r)[r.stage] = {t}
  BY <1>2 DEF Repaired
<1>4. r.todo = Stages(r)[r.stage] /\ late' = {}
  <2>1. r.todo \subseteq {t} /\ t \in r.todo
    BY <1>1, <1>3 DEF Waits
  <2> QED BY <1>1, <1>2, <1>3, <2>1
<1>5. /\ q \in Run /\ About(q) /\ Waits(q) /\ Same(q, r) /\ q.stage = r.stage /\ q.phase = "catch"
  BY <1>1, <1>3, GivingUp
<1>6. q.todo = Cleanup(r)
  <2>1. GiveUp(r) = To(r, "catch", Cleanup(r))
    BY <1>3 DEF GiveUp, To
  <2>2. Cleanup(r) \in SUBSET Tasks /\ "catch" \in Phases
    BY <1>1, CleanupTasks DEF Owns, Typed, Phases
  <2> QED BY <1>1, <2>1, <2>2, Moved
<1>7. \A o \in User \ {u} : Going(run[o]) => run[o].vm # r.vm /\ run[o].vm \in VM
  BY <1>3, OthersAway DEF Active
<1>r. \A n \in Name : Rooted(world, run, n)
  BY <1>1, RootedNow
<1> HIDE DEF q
<1>8. Going(r) /\ Going(q) /\ q.vm = r.vm /\ r.vm \in VM /\ r.name \in Name
  BY <1>1, <1>3, <1>5 DEF Going, Machine, Active, Same, About
<1>9. Midway(world, r) /\ Founded(world, run, r.name) /\ Rooted(world, run, r.name)
  BY <1>1, <1>8, <1>r DEF Tidy, OnTheWay, AllFounded
<1>m. RolesMove(run, run', u, r, q, r.name)
  BY <1>1, <1>2, <1>5, RolesAfter DEF Same
<1> HIDE DEF r
<1>a. Fits(q)
  BY <1>1, <1>3, <1>5 DEF Fits, Same
<1>b. Midway(world, q)
  <2>1. (Listed(q) <=> Listed(r)) /\ \A x \in Bearers(r.vm) : Bears(q, x) <=> Bears(r, x)
    BY <1>1, <1>3, <1>4, <1>5, <1>6, RejectSame
  <2> QED BY <1>5, <1>9, <2>1, SameMidway
<1>c. Founded(world, run', r.name)
  BY <1>1, <1>3, <1>4, <1>5, <1>6, <1>9, <1>m, RejectFounded
<1>d. Calm(u, q, r.vm, r.name)
  BY <1>2, <1>4, <1>7, <1>8, <1>a, <1>b, <1>c, <1>m DEF Calm, r
<1> QED BY <1>5, <1>8, <1>d, CalmStep

\* The run goes on to its next await, or is over.
LEMMA AdvanceTidy ==
    ASSUME TInv, Separate, Tidied, NEW u \in User, Advance(u)
    PROVE  Tidied'
<1> DEFINE r == run[u]
<1>1. PICK q \in Run :
          /\ run' = [run EXCEPT ![u] = q] /\ About(q) /\ Waits(q) /\ r.todo = {}
          /\ \/ r.phase = "catch" /\ q.phase = "failed" /\ Same(q, r)
             \/ r.phase = "try" /\ r.stage = Len(Stages(r)) /\ q.phase = "done" /\ q.kind = "none"
             \/ /\ r.phase = "try" /\ r.stage # Len(Stages(r)) /\ q.phase = "try" /\ Same(q, r)
                /\ q.seen = r.seen /\ q.stage = r.stage + 1 /\ q.todo = Stages(r)[r.stage + 1]
  BY Advancing
<1>2. /\ r \in Run /\ About(r) /\ Waits(r) /\ Fits(r) /\ run \in [User -> Run]
      /\ Tidy(world, run) /\ world' = world /\ late' = {}
  BY DEF TInv, Runs, Tidied, Tidy, AllFit, Advance
<1>3. \A o \in User \ {u} : Going(run[o]) => run[o].vm # r.vm /\ run[o].vm \in VM
  BY <1>1, OthersAway DEF Active
<1>4. r.phase \in {"try", "catch"} /\ r.vm \in VM \cup {None} /\ (r.kind \in Machine <=> Going(r))
  BY <1>1, <1>2 DEF Run, Going, Active
<1>5. r.kind \in Machine => r.vm \in VM /\ r.name \in Name
  BY <1>2 DEF About
<1>6. Going(r) => Midway(world, r) /\ Founded(world, run, r.name) /\ Rooted(world, run, r.name)
  BY <1>2, <1>4, <1>5, RootedNow DEF Tidy, OnTheWay, AllFounded
<1>7. CASE q.phase \in {"failed", "done"}
  <2>1. ~Going(q) /\ ~Role(q)
    BY <1>1, <1>7, RoleLess DEF Going, Active
  <2>2. Fits(q)
    BY <1>1, <1>2, <1>7 DEF Fits, Same
  <2>3. r.phase = "catch" \/ (r.phase = "try" /\ r.stage = Len(Stages(r)))
    BY <1>1, <1>7
  <2>4. r.vm \in VM => Whole(world, r.vm)
    <3>1. r.vm \in VM => r.kind \in Machine
      BY <1>2 DEF About
    <3> HIDE DEF r
    <3> QED BY <1>1, <1>2, <1>4, <1>6, <2>3, <3>1, EndWhole
  <2>5. CASE r.kind \in Machine
    <3>1. RolesMove(run, run', u, r, q, r.name)
      BY <1>1, <1>2, <2>1, RolesAfter
    <3>2. ~Dooms(r) /\ ~Holds(r)
      <4>1. r.kind = "standalone" => Len(Stages(r)) = 4
        BY <1>2, StandaloneSets
      <4> HIDE DEF r
      <4> QED BY <1>1, <2>3, <4>1 DEF Dooms, Holds, Deletes
    <3> HIDE DEF r
    <3>3. Founded(world, run', r.name)
      BY <1>4, <1>6, <2>1, <2>5, <3>1, <3>2, NoRole DEF Role
    <3>4. Calm(u, q, r.vm, r.name)
      BY <1>1, <1>2, <1>3, <2>1, <2>2, <2>4, <3>1, <3>3 DEF Calm, r
    <3> QED BY <1>4, <3>4, CalmStep
  <2>6. CASE r.kind \notin Machine
    <3>1. ~Role(r)
      BY <1>2, <1>4, <2>6, RoleLess
    <3>2. RolesMove(run, run', u, r, q, None)
      BY <1>1, <1>2, <2>1, <3>1, RolesAfter
    <3>3. Calm(u, q, r.vm, None)
      BY <1>1, <1>2, <1>3, <1>4, <2>1, <2>2, <2>4, <2>6, <3>2 DEF Calm
    <3> QED BY <1>4, <3>3, CalmStep
  <2> QED BY <2>5, <2>6
<1>8. CASE q.phase = "try"
  <2>1. /\ r.phase = "try" /\ Same(q, r) /\ q.stage = r.stage + 1 /\ q.todo = Stages(r)[q.stage]
        /\ r.stage # Len(Stages(r))
    BY <1>1, <1>8
  <2>2. q.stage \in 1..Len(Stages(r))
    <3>1. Len(Stages(q)) = Len(Stages(r))
      BY <1>1, <1>8, SameRun DEF Same
    <3> QED BY <1>1, <1>8, <3>1 DEF Waits
  <2>3. Fits(q)
    BY <1>2, <1>8, <2>1 DEF Fits, Same
  <2>4. CASE r.kind \in Machine
    <3>1. RolesMove(run, run', u, r, q, r.name)
      BY <1>1, <1>2, <2>1, RolesAfter DEF Same
    <3> HIDE DEF r
    <3>2. Midway(world, q)
      <4>1. (Listed(q) <=> Listed(r)) /\ \A x \in Bearers(r.vm) : Bears(q, x) <=> Bears(r, x)
        BY <1>1, <1>2, <1>8, <2>1, <2>2, <2>4, AdvanceSame
      <4> QED BY <1>4, <1>6, <2>1, <2>4, <4>1, SameMidway
    <3>3. Founded(world, run', r.name)
      BY <1>1, <1>2, <1>4, <1>6, <1>8, <2>1, <2>2, <2>4, <3>1, AdvanceFounded
    <3>4. Going(q) /\ q.vm = r.vm
      BY <1>8, <2>1, <2>4 DEF Going, Active, Same
    <3>5. Calm(u, q, r.vm, r.name)
      BY <1>1, <1>2, <1>3, <2>3, <3>1, <3>2, <3>3, <3>4 DEF Calm, r
    <3> QED BY <1>4, <3>5, CalmStep
  <2>5. CASE r.kind \notin Machine
    <3>1. ~Role(r) /\ ~Role(q) /\ ~Going(q) /\ r.vm = None
      <4>1. ~Going(q) /\ ~Going(r)
        BY <2>1, <2>5 DEF Going, Same
      <4> QED BY <1>1, <1>2, <2>5, <4>1, RoleLess DEF About
    <3>2. RolesMove(run, run', u, r, q, None)
      BY <1>1, <1>2, <3>1, RolesAfter
    <3>3. Calm(u, q, r.vm, None)
      BY <1>1, <1>2, <1>3, <1>4, <2>3, <2>5, <3>1, <3>2 DEF Calm
    <3> QED BY <1>4, <3>3, CalmStep
  <2> QED BY <2>4, <2>5
<1> QED BY <1>1, <1>7, <1>8

\* ... and so are they when a user is alone with one.
LEMMA AwayFrom ==
    ASSUME TInv, NEW u \in User, NEW r, Alone(u, r)
    PROVE  \A o \in User \ {u} : Going(run[o]) => run[o].vm # r.vm /\ run[o].vm \in VM
<1>1. \A o \in User : Going(run[o]) => run[o].vm \in VM /\ run[o].vm # None
  BY DEF TInv, Runs, About, Going
<1> QED BY <1>1 DEF Alone, Going

\* A click on Assign or Confirm remove, the first or after a failure.
LEMMA SubmitTidy ==
    ASSUME TInv, Tidied, NEW u \in User, Submit(u), ~overlap', ~unrepaired'
    PROVE  Tidied'
<1> DEFINE r == run[u]
<1>1. PICK q \in Run :
          /\ run' = [run EXCEPT ![u] = q] /\ About(q) /\ Waits(q) /\ q.kind = r.kind
          /\ q.vm = r.vm /\ q.name = r.name /\ q.copy = r.copy
          /\ q.phase = "try" /\ q.stage = 1 /\ q.todo = Stages(q)[1]
  BY Submitting
<1>2. /\ r \in Run /\ About(r) /\ Waits(r) /\ Fits(r) /\ run \in [User -> Run]
      /\ Tidy(world, run) /\ world' = world /\ late' = {} /\ Same(q, r)
  BY <1>1 DEF TInv, Runs, Tidied, Tidy, AllFit, Submit, Same
<1>3. Alone(u, r) /\ ~Outdated(r)
  BY DEF Submit
<1>4. \/ r.phase = "chosen"
      \/ r.phase = "failed" /\ r.kind \in {"standalone", "shared", "assignManaged"}
  BY DEF Submit
<1>5. \A o \in User \ {u} : Going(run[o]) => run[o].vm # r.vm /\ run[o].vm \in VM
  BY <1>3, AwayFrom
<1>6. Fits(q) /\ r.todo = {} /\ r.vm \in VM \cup {None}
  BY <1>1, <1>2, <1>4 DEF Fits, Waits, Same, Run
<1>7. CASE r.kind \notin Machine
  <2>1. ~Going(r) /\ ~Going(q) /\ r.vm = None
    BY <1>1, <1>2, <1>7 DEF Going, About
  <2>2. ~Role(r) /\ ~Role(q)
    BY <1>1, <1>2, <2>1, RoleLess
  <2>3. RolesMove(run, run', u, r, q, None)
    BY <1>1, <1>2, <2>2, RolesAfter
  <2>4. Calm(u, q, r.vm, None)
    BY <1>1, <1>2, <1>5, <1>6, <2>1, <2>3 DEF Calm
  <2> QED BY <1>6, <2>4, CalmStep
<1>8. CASE r.kind \in Machine
  <2>1. r.vm \in VM /\ r.name \in Name
    BY <1>2, <1>8 DEF About
  <2>2. Going(q) /\ 1 \in 1..Len(Stages(r)) /\ Stages(q) = Stages(r)
    BY <1>1, <1>2, <1>8, StageBounds, SameMachine DEF Going, Active
  <2>3. RolesMove(run, run', u, r, q, r.name)
    BY <1>1, <1>2, RolesAfter
  <2>4. Founded(world, run, r.name) /\ Rooted(world, run, r.name)
    BY <1>2, <2>1, RootedNow DEF Tidy, AllFounded
  <2>5. CASE r.phase = "chosen"
    <3>1. Midway(world, r)
      BY <1>2, <1>8, <2>5 DEF Tidy, OnTheWay, Going, Active
    <3> HIDE DEF r
    <3>2. r.stage = 0 /\ q.stage = r.stage + 1 /\ q.todo = Stages(r)[q.stage]
          /\ r.phase \in {"chosen", "try"} /\ q.stage \in 1..Len(Stages(r))
      BY <1>1, <1>2, <2>2, <2>5 DEF Fits
    <3>3. Midway(world, q)
      <4>1. (Listed(q) <=> Listed(r)) /\ \A x \in Bearers(r.vm) : Bears(q, x) <=> Bears(r, x)
        BY <1>1, <1>2, <1>6, <1>8, <3>2, AdvanceSame
      <4> QED BY <1>2, <3>1, <4>1, SameMidway
    <3>4. Founded(world, run', r.name)
      BY <1>1, <1>2, <1>6, <1>8, <2>3, <2>4, <3>2, AdvanceFounded
    <3>5. Calm(u, q, r.vm, r.name)
      BY <1>1, <1>2, <1>5, <1>6, <2>2, <2>3, <3>3, <3>4 DEF Calm, r
    <3> QED BY <1>6, <3>5, CalmStep
  <2>6. CASE r.phase = "failed" /\ r.kind \in {"standalone", "shared", "assignManaged"}
    <3>1. r.kind \in {"standalone", "shared"} /\ ~Going(r)
      BY <1>8, <2>6 DEF Machine, Going, Active
    <3>2. \A n \in Name : r.vm \notin world.vms[n]
      BY <1>3, <3>1 DEF Outdated, Protected
    <3>3. Whole(world, r.vm)
      BY <1>2, <1>5, <2>1, <3>1 DEF Tidy, AtRest
    <3>4. ~Role(r) /\ ~Role(q)
      BY <1>1, <1>2, <3>1, RoleLess, RetryRoles
    <3> HIDE DEF r
    <3>5. Midway(world, q)
      BY <1>1, <1>8, <3>1, <3>2, <3>3, RetryMidway
    <3>6. Founded(world, run', r.name)
      BY <2>3, <2>4, <3>4, NoRole DEF Role
    <3>7. Calm(u, q, r.vm, r.name)
      BY <1>1, <1>2, <1>5, <1>6, <2>2, <2>3, <3>1, <3>5, <3>6 DEF Calm, r
    <3> QED BY <1>6, <3>7, CalmStep
  <2> QED BY <1>4, <2>5, <2>6
<1> QED BY <1>7, <1>8

\* What is chosen takes at most one name on itself, that of which it removes the
\* last virtual machine.
LEMMA ChooseRoles ==
    ASSUME NEW q \in Run, About(q), Waits(q), q.phase = "chosen", q.stage = 0
    PROVE  /\ ~Dooms(q) /\ ~Holds(q)
           /\ Owner(q) => q.kind = "remove" /\ q.copy = {q.vm}
<1>1. q.todo = {}
  BY DEF Waits
<1>2. ~Dooms(q) /\ ~Holds(q)
  BY <1>1 DEF Dooms, Holds, Deletes
<1>3. ~ListDone(q)
  BY DEF ListDone, ListStage
<1>4. Owner(q) => q.kind = "remove" /\ LastOfGroup(q)
  BY <1>3 DEF Owner, Listed
<1> QED BY <1>2, <1>4, LastIsAlone

\* A click on something new.
LEMMA ChooseTidy ==
    ASSUME TInv, Tidied, NEW u \in User, ~overlap',
           ChooseStandalone(u) \/ ChooseShared(u) \/ ChooseRemove(u) \/ ChooseManaged(u)
    PROVE  Tidied'
<1> DEFINE r == run[u]
<1>1. PICK q \in Run : About(q) /\ Waits(q) /\ Suits(q) /\ Choose(u, q)
  BY ChoosingWell
<1>2. /\ r \in Run /\ About(r) /\ Waits(r) /\ ~Going(r) /\ run \in [User -> Run]
      /\ run' = [run EXCEPT ![u] = q] /\ Tidy(world, run) /\ world' = world /\ late' = {}
  BY <1>1 DEF TInv, Runs, Tidied, Choose, Going
<1>3. Alone(u, q)
  BY <1>1 DEF Choose
<1>4. \A o \in User \ {u} : Going(run[o]) => run[o].vm # q.vm /\ run[o].vm \in VM
  BY <1>3, AwayFrom
<1>5. ~Role(r) /\ q.vm \in VM \cup {None} /\ q.phase = "chosen" /\ q.stage = 0
  BY <1>1, <1>2, RoleLess DEF Run, Suits
<1>6. Fits(q)
  <2>1. q.kind = "shared" => q.name \in Name /\ q.name \in world.drpcs /\ q.copy = world.vms[q.name]
    BY <1>1 DEF Suits, About, Machine
  <2>2. q.kind = "shared" => q.vm \notin q.copy
    BY <1>1, <2>1 DEF Suits
  <2>3. q.kind = "shared" => q.copy # {}
    BY <1>2, <2>1 DEF Tidy, ListsMatch
  <2> QED BY <1>5, <2>2, <2>3 DEF Fits
<1>7. CASE q.kind \notin Machine
  <2>1. ~Going(q) /\ q.vm = None
    BY <1>1, <1>7 DEF Going, About
  <2>2. ~Role(q)
    BY <1>1, <2>1, RoleLess
  <2>3. RolesMove(run, run', u, r, q, None)
    BY <1>2, <1>5, <2>2, RolesAfter
  <2>4. Calm(u, q, q.vm, None)
    BY <1>2, <1>4, <1>6, <2>1, <2>3 DEF Calm
  <2> QED BY <1>5, <2>4, CalmStep
<1>8. CASE q.kind \in Machine
  <2>1. q.vm \in VM /\ q.name \in Name /\ Going(q)
    BY <1>1, <1>5, <1>8 DEF About, Going, Active
  <2>2. Whole(world, q.vm)
    BY <1>2, <1>4, <2>1 DEF Tidy, AtRest
  <2>3. IF q.kind = "remove" THEN q.vm \in world.vms[q.name] ELSE \A n \in Name : q.vm \notin world.vms[n]
    BY <1>1, <1>8 DEF Suits, Machine
  <2>4. Midway(world, q)
    <3>1. None \notin Name /\ q.phase # "catch"
      BY <1>5
    <3> QED BY <1>1, <1>5, <1>8, <2>2, <2>3, <3>1, ChooseMidway
  <2>5. RolesMove(run, run', u, r, q, q.name)
    BY <1>2, <1>5, RolesAfter
  <2>6. Founded(world, run, q.name)
    BY <1>2, <2>1 DEF Tidy, AllFounded
  <2>7. /\ ~Dooms(q) /\ ~Holds(q)
        /\ Owner(q) => q.kind = "remove" /\ q.copy = {q.vm}
    BY <1>1, <1>5, ChooseRoles
  <2>8. Founded(world, run', q.name)
    <3>1. CASE ~Owner(q)
      BY <1>5, <2>5, <2>6, <2>7, <3>1, NoRole DEF Role
    <3>2. CASE Owner(q)
      <4>1. world.vms[q.name] = {q.vm}
        BY <1>1, <2>7, <3>2 DEF Suits
      <4>2. ASSUME NEW o \in Owners(run, q.name) PROVE o = u
        <5>1. o \in User /\ Going(run[o]) /\ Listed(run[o]) /\ run[o].name = q.name
          BY DEF Owners, Owner
        <5>2. run[o].vm \in world.vms[q.name]
          BY <1>2, <2>1, <5>1 DEF Tidy, OnTheWay, Midway
        <5> QED BY <1>4, <4>1, <5>1, <5>2
      <4>3. Owners(run, q.name) \subseteq {u}
        BY <4>2
      <4> QED BY <1>5, <2>5, <2>6, <2>7, <4>3, Claiming DEF Role
    <3> QED BY <3>1, <3>2
  <2>9. Calm(u, q, q.vm, q.name)
    BY <1>2, <1>4, <1>6, <2>1, <2>4, <2>5, <2>8 DEF Calm
  <2> QED BY <1>5, <2>9, CalmStep
<1> QED BY <1>7, <1>8

\* Histories only grow.
LEMMA RepairBack == ASSUME TInv, [Next]_vars, ~unrepaired' PROVE ~unrepaired
<1>1. ASSUME NEW u \in User, Click(u) PROVE ~unrepaired
  <2>1. CASE ~Submit(u)
    <3>1. unrepaired' = unrepaired
      BY <1>1, <2>1, Choosing DEF Click, Choose
    <3> QED BY <3>1, Zenon
  <2> QED BY <1>1, <2>1 DEF Submit
<1>2. ASSUME NEW u \in User, Advance(u) PROVE ~unrepaired
  <2>1. unrepaired' = unrepaired
    BY <1>2 DEF Advance
  <2> QED BY <2>1, Zenon
<1>3. ASSUME NEW u \in User, NEW t, Work(u, t) PROVE ~unrepaired
  <2>1. unrepaired' = unrepaired
    BY <1>3 DEF Work
  <2> QED BY <2>1, Zenon
<1>4. ASSUME NEW u \in User, NEW t, Reject(u, t) PROVE ~unrepaired
  BY <1>4 DEF Reject
<1>5. ASSUME NEW t \in late, Straggle(t) PROVE ~unrepaired
  <2>1. unrepaired' = unrepaired
    BY <1>5 DEF Straggle
  <2> QED BY <2>1, Zenon
<1>6. CASE UNCHANGED vars
  <2>1. unrepaired' = unrepaired
    BY <1>6 DEF vars
  <2> QED BY <2>1, Zenon
<1> QED BY <1>1, <1>2, <1>3, <1>4, <1>5, <1>6 DEF Next, Go

\* Every step.
LEMMA StepTidy ==
    ASSUME OwnVolumes, TInv, Separate, Tidied, [Next]_vars, ~overlap', ~unrepaired'
    PROVE  Tidied'
<1>1. ASSUME NEW u \in User, Click(u) PROVE Tidied'
  BY <1>1, ChooseTidy, SubmitTidy DEF Click
<1>2. ASSUME NEW u \in User, Advance(u) PROVE Tidied'
  BY <1>2, AdvanceTidy
<1>3. ASSUME NEW u \in User, NEW t \in run[u].todo, Work(u, t) PROVE Tidied'
  BY <1>3, WorkTidy
<1>4. ASSUME NEW u \in User, NEW t \in run[u].todo, Reject(u, t) PROVE Tidied'
  BY <1>4, RejectTidy
<1>5. CASE UNCHANGED vars
  BY <1>5 DEF vars, Tidied
<1>6. late = {}
  BY DEF Tidied
<1> QED BY <1>1, <1>2, <1>3, <1>4, <1>5, <1>6 DEF Next, Go

\* At first nobody is about anything.
LEMMA InitTidy == ASSUME OwnVolumes, Init PROVE Tidied
<1>1. \A u \in User : run[u] = Idle
  BY DEF Init
<1>2. Idle.phase = "idle" /\ Idle.kind = "none" /\ Idle.todo = {} /\ Idle.stage = 0
  BY DEF Idle
<1>3. Fits(Idle) /\ ~Going(Idle) /\ ~Role(Idle)
  BY <1>2 DEF Fits, Going, Active, Role, Owner, Dooms, Holds, Deletes
<1>4. world \in {Empty, Managed} \/ \E v \in VM, n \in Name : world = Protecting(v, n)
  BY DEF Init
<1>5. /\ \A n \in Name : n \in world.placements <=> n \in world.drpcs
      /\ \A n \in Name : n \in world.drpcs => world.vms[n] # {}
      /\ \A v \in VM : Whole(world, v)
  <2>1. CASE world \in {Empty, Managed}
    <3>1. /\ \A n \in Name : world.vms[n] = {} /\ n \notin world.placements /\ n \notin world.drpcs
          /\ \A x \in Holder : world.label[x] = None
      <4>1. \A n \in Name : n \notin Placement
        OBVIOUS
      <4>2. CASE world = Empty
        <5>1. world.placements = Placement /\ world.drpcs = {} /\ world.vms = [n \in Name |-> {}]
              /\ world.label = [x \in VM \cup PVC |-> None]
          BY <4>2 DEF Empty
        <5> QED BY <4>1, <5>1 DEF Holder
      <4>3. CASE world = Managed
        <5>1. world.placements = Placement /\ world.drpcs = Placement /\ world.vms = [n \in Name |-> {}]
              /\ world.label = [x \in VM \cup PVC |-> None]
          BY <4>3 DEF Empty, Managed
        <5> QED BY <4>1, <5>1 DEF Holder
      <4> QED BY <2>1, <4>2, <4>3
    <3> QED BY <3>1 DEF Whole, AllLabelled, Bearers, Holder
  <2>2. ASSUME NEW v \in VM, NEW n \in Name, world = Protecting(v, n)
        PROVE  /\ \A m \in Name : m \in world.placements <=> m \in world.drpcs
               /\ \A m \in Name : m \in world.drpcs => world.vms[m] # {}
               /\ \A y \in VM : Whole(world, y)
    <3>1. /\ \A m \in Name : (m \in world.placements <=> m = n) /\ (m \in world.drpcs <=> m = n)
          /\ \A m \in Name : world.vms[m] = IF m = n THEN {v} ELSE {}
          /\ \A x \in Holder : world.label[x] = IF x \in Bearers(v) THEN n ELSE None
      BY <2>2 DEF Protecting, Empty, Holder, Bearers
    <3>2. ASSUME NEW y \in VM PROVE Whole(world, y)
      <4>1. Bearers(y) \subseteq Holder
        BY DEF Bearers, Holder
      <4>2. CASE y = v
        BY <3>1, <4>1, <4>2 DEF Whole, AllLabelled
      <4>3. CASE y # v
        <5>1. Bearers(y) \cap Bearers(v) = {}
          <6>1. Volumes[y] \subseteq PVC /\ Volumes[v] \subseteq PVC /\ Volumes[y] \cap Volumes[v] = {}
            BY <4>3 DEF OwnVolumes
          <6> QED BY <4>3, <6>1 DEF Bearers
        <5> QED BY <3>1, <4>1, <4>3, <5>1 DEF Whole, AllLabelled
      <4> QED BY <4>2, <4>3
    <3> QED BY <3>1, <3>2
  <2> QED BY <1>4, <2>1, <2>2
<1>6. ASSUME NEW n \in Name PROVE Founded(world, run, n)
  <2>1. Owners(run, n) = {} /\ Doomers(run, n) = {} /\ Holders(run, n) = {}
    BY <1>1, <1>3 DEF Role, Owners, Doomers, Holders
  <2> QED BY <1>5, <2>1 DEF Founded, Sited
<1> QED BY <1>1, <1>3, <1>5, <1>6 DEF Init, Tidied, Tidy, AllFit, ListsMatch, OnTheWay, AtRest, AllFounded

\* Once nobody is under way, what is tidy is consistent.
LEMMA QuietTidy ==
    ASSUME TInv, Tidied, \A u \in User : run[u].phase \notin {"try", "catch"}
    PROVE  Consistent
<1>1. \A u \in User : run[u] \in Run /\ About(run[u]) /\ Waits(run[u]) /\ Fits(run[u])
  BY DEF TInv, Runs, Tidied, Tidy, AllFit
<1>2. \A u \in User : ~Dooms(run[u]) /\ ~Holds(run[u])
  BY <1>1 DEF Waits, Dooms, Holds, Deletes
<1>3. ASSUME NEW v \in VM PROVE Whole(world, v)
  <2>1. CASE \A u \in User : Going(run[u]) => run[u].vm # v
    BY <2>1 DEF Tidied, Tidy, AtRest
  <2>2. ASSUME NEW u \in User, Going(run[u]), run[u].vm = v PROVE Whole(world, v)
    <3> DEFINE r == run[u]
    <3>1. r.phase = "chosen" /\ r.stage = 0 /\ r.name \in Name
      BY <1>1, <2>2 DEF Going, Active, Fits, About
    <3>2. Midway(world, r)
      BY <2>2 DEF Tidied, Tidy, OnTheWay
    <3> HIDE DEF r
    <3>3. ~ListDone(r) /\ \A x : ~LabelDone(r, x)
      BY <3>1 DEF ListDone, LabelDone, ListStage, LabelStage
    <3>4. r.vm = v
      BY <2>2 DEF r
    <3> QED BY <3>1, <3>2, <3>3, <3>4 DEF Midway, Bears, Listed, Whole, AllLabelled
  <2> QED BY <2>1, <2>2
<1>4. ASSUME NEW n \in Name
      PROVE  /\ n \in world.drpcs <=> n \in world.placements
             /\ n \in world.drpcs <=> world.vms[n] # {}
             /\ \A v \in world.vms[n] : Labelled(v, n)
  <2>1. Founded(world, run, n) /\ Doomers(run, n) = {} /\ Holders(run, n) = {}
    BY <1>2 DEF Tidied, Tidy, AllFounded, Doomers, Holders
  <2>2. n \in world.drpcs <=> n \in world.placements
    BY <2>1 DEF Founded, Sited
  <2>3. n \in world.drpcs <=> world.vms[n] # {}
    BY DEF Tidied, Tidy, ListsMatch, TInv, Sane
  <2>4. world.vms[n] \subseteq VM
    BY DEF TInv, World
  <2> QED BY <1>3, <2>2, <2>3, <2>4 DEF Whole, AllLabelled, Labelled, Bearers
<1>5. \A v \in VM : Protected(v) \/ Labelled(v, None)
  BY <1>3 DEF Whole, AllLabelled, Labelled, Bearers, Protected
<1> QED BY <1>4, <1>5 DEF Consistent

\* Once every operation has ended, DRPCs, placements, lists and labels agree: a
\* failed assignment is undone whole, whichever call failed, as long as no two
\* operations met and no call failed beyond what its catch repairs
\* (assignPromisesForDiscovered and unAssignPromisesForDiscovered).
THEOREM QuietConsistent == ASSUME OwnVolumes PROVE Spec => []QuietIsConsistent
<1> DEFINE QInv == IInv /\ (~overlap /\ ~unrepaired => Tidied)
<1>1. Init => QInv
  BY InitInv, InitTidy
<1>2. QInv /\ [Next]_vars => QInv'
  <2> SUFFICES ASSUME QInv, [Next]_vars PROVE QInv'
    OBVIOUS
  <2>1. IInv /\ IInv' /\ TInv
    BY StepInv DEF IInv
  <2>2. ASSUME ~overlap', ~unrepaired' PROVE Tidied'
    <3>1. ~overlap /\ ~unrepaired
      BY <2>1, <2>2, StepBack, RepairBack
    <3> QED BY <2>1, <2>2, <3>1, StepTidy DEF IInv
  <2> QED BY <2>1, <2>2
<1>3. QInv => QuietIsConsistent
  BY QuietTidy DEF QuietIsConsistent, IInv
<1>4. QInv /\ UNCHANGED vars => QInv'
  BY <1>2
<1> HIDE DEF QInv
<1> QED BY <1>1, <1>2, <1>3, <1>4, PTL DEF Spec

=============================================================================

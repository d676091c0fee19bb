--------------------------- MODULE LunGroupsProofs ---------------------------
(***************************************************************************)
(* Proofs about LunGroups: for any number of forms, groups, devices,       *)
(* attempts and faults, a group keeps its disks and shares none, and the   *)
(* modal that deletes it leaves none behind in silence.                    *)
(*                                                                         *)
(* The invariant says who owns a LocalDisk: a live group, or a form that   *)
(* has made it and not yet made its group, never two of them, and that a   *)
(* deletion is after disks of its own group only, as long as they were     *)
(* there all the time.                                                     *)
(***************************************************************************)
EXTENDS LunGroups, TLAPS

USE DEF RegistryCalls

USE RunAssumption, PoolAssumption

-----------------------------------------------------------------------------
(* One form.                                                               *)

\* What a form is at each of its steps.
Sound(f) ==
    /\ f \in Forms
    /\ f.left \cup f.kept \cup f.disks \subseteq f.picked
    /\ f.pc \in {"disks", "group"} => f.kind # "delete"
    /\ f.pc \in {"allow", "delete", "deleteDisks"} => f.kind = "delete"
    /\ f.pc \in SetupCalls \cup RegistryCalls => f.kind = "connect"
    /\ f.pc = "group" => f.left = {}

\* A step of a form keeps what was picked.
Same(h, f) == h.kind = f.kind /\ h.group = f.group /\ h.picked = f.picked

LEMMA UnopenedForm ==
    /\ Sound(Unopened) /\ Unopened.kind = "create" /\ Unopened.pc = "none"
    /\ Unopened.left = {} /\ Unopened.kept = {} /\ Unopened.disks = {}
    /\ Unopened.tries \in [Device -> 0..MaxTries - 1]
BY DEF Sound, Unopened, Forms, Kinds, Steps, Waiting, SetupCalls

\* A form as it opens.
Opened(k, g, D) == [Unopened EXCEPT !.kind = k, !.group = g, !.picked = D, !.pc = "form"]

LEMMA OpenForms ==
    ASSUME NEW k \in Kinds, NEW g \in Group, NEW D \in SUBSET Device
    PROVE  LET h == Opened(k, g, D) IN
           Sound(h) /\ h.kind = k /\ h.group = g /\ h.picked = D /\ h.pc = "form"
BY UnopenedForm DEF Opened, Sound, Forms, Kinds, Steps, Waiting, SetupCalls

LEMMA FailForm ==
    ASSUME NEW f, Sound(f)
    PROVE  LET h == [f EXCEPT !.pc = "form", !.error = TRUE, !.left = {}] IN
           Sound(h) /\ Same(h, f) /\ h.pc = "form"
BY DEF Sound, Same, Forms, Steps, Waiting, SetupCalls

LEMMA GotoForm ==
    ASSUME NEW f, Sound(f), NEW p \in Steps \ {"group"},
           p = "disks" => f.kind # "delete",
           p \in {"allow", "delete", "deleteDisks"} => f.kind = "delete",
           p \in SetupCalls \cup RegistryCalls => f.kind = "connect"
    PROVE  LET h == [f EXCEPT !.pc = p] IN Sound(h) /\ Same(h, f) /\ h.pc = p
BY DEF Sound, Same, Forms, Steps, Waiting, SetupCalls

LEMMA StartForm ==
    ASSUME NEW f, Sound(f), NEW D \in SUBSET f.picked, f.kind # "delete"
    PROVE  LET h == [f EXCEPT !.pc = "disks", !.disks = D, !.left = D, !.error = FALSE] IN
           Sound(h) /\ Same(h, f) /\ h.pc = "disks" /\ h.disks = D /\ h.left = D
BY DEF Sound, Same, Forms, Steps, Waiting, SetupCalls

LEMMA MadeForm ==
    ASSUME NEW f, Sound(f), NEW d, f.pc = "disks"
    PROVE  LET h == [f EXCEPT !.left = @ \ {d},
                              !.pc = IF f.left = {d} THEN "group" ELSE "disks"] IN
           Sound(h) /\ Same(h, f) /\ h.pc \in {"disks", "group"}
           /\ h.disks = f.disks /\ h.left = f.left \ {d}
BY DEF Sound, Same, Forms, Steps, Waiting, SetupCalls

LEMMA DeletingForm ==
    ASSUME NEW f, Sound(f), f.pc = "delete"
    PROVE  LET h == [f EXCEPT !.pc = "deleteDisks", !.left = f.picked, !.kept = {},
                              !.tries = Unopened.tries] IN
           Sound(h) /\ Same(h, f) /\ h.pc = "deleteDisks" /\ h.left = f.picked
BY UnopenedForm DEF Sound, Same, Forms, Steps, Waiting, SetupCalls

LEMMA GoneForm ==
    ASSUME NEW f, Sound(f), NEW d, f.pc = "deleteDisks"
    PROVE  LET h == [f EXCEPT !.left = @ \ {d}] IN
           Sound(h) /\ Same(h, f) /\ h.pc = f.pc /\ h.left = f.left \ {d} /\ h.kept = f.kept
BY DEF Sound, Same, Forms, Steps, Waiting, SetupCalls

LEMMA DroppedForm ==
    ASSUME NEW f, Sound(f), NEW d, NEW K \in SUBSET f.picked,
           f.pc = "deleteDisks"
    PROVE  LET h == [f EXCEPT !.left = @ \ {d}, !.kept = K] IN
           Sound(h) /\ Same(h, f) /\ h.pc = f.pc
BY DEF Sound, Same, Forms, Steps, Waiting, SetupCalls

\* A form that tries once more.
Again(f, d) == [f EXCEPT !.tries[d] = @ + 1]

LEMMA AgainForm ==
    ASSUME NEW f, Sound(f), NEW d \in f.left, f.tries[d] + 1 # MaxTries
    PROVE  LET h == Again(f, d) IN
           Sound(h) /\ Same(h, f) /\ h.pc = f.pc /\ h.disks = f.disks /\ h.left = f.left
<1> DEFINE t == [f.tries EXCEPT ![d] = @ + 1]
<1>1. d \in Device /\ f.tries \in [Device -> 0..MaxTries - 1]
  BY DEF Sound, Forms
<1>2. t \in [Device -> 0..MaxTries - 1]
  BY <1>1
<1> HIDE DEF t
<1>3. [f EXCEPT !.tries = t] \in Forms
  BY <1>2 DEF Sound, Forms
<1> QED
  BY <1>3 DEF Sound, Same, Forms, Again, t

-----------------------------------------------------------------------------
(* The invariant.                                                          *)

FormsOK == form \in [Run -> Forms] /\ \A r \in Run : Sound(form[r])

OthersOK ==
    /\ localDisks \subseteq Device /\ late \subseteq Device
    /\ fs \in [Group -> [state : States, pool : SUBSET Device]]
    /\ setup \subseteq SetupCalls
    /\ faults \in 0..MaxFaults
    /\ away \in [Group -> SUBSET Device] /\ absent \in [Run -> SUBSET Device]
    /\ crossed \in BOOLEAN

\* The LocalDisks that a form has made for its group to come.
Made(r) == IF form[r].pc \in {"disks", "group"} THEN form[r].disks \ form[r].left ELSE {}

\* What a deletion was opened for and was there all the time.
Doomed(r) == IF form[r].kind = "delete" /\ form[r].pc # "none" THEN form[r].picked \ absent[r] ELSE {}

\* What is left of a group that the operator has not let go of yet.
Leftover(g) == IF fs[g].state = "dying" THEN fs[g].pool \ away[g] ELSE {}

PoolsStand == \A g \in Group : Live(g) => fs[g].pool \subseteq localDisks
PoolsApart == \A g, h \in Group : Live(g) /\ Live(h) /\ g # h => fs[g].pool \cap fs[h].pool = {}
MadeStand == \A r \in Run : Made(r) \subseteq localDisks
MadeFree == \A r \in Run, g \in Group : Live(g) => Made(r) \cap fs[g].pool = {}
MadeApart == \A r, q \in Run : r # q => Made(r) \cap Made(q) = {}
DoomedOwn == \A r \in Run : \A d \in Doomed(r) :
    /\ d \in localDisks
    /\ \A q \in Run : d \notin Made(q)
    /\ \A g \in Group : Live(g) /\ d \in fs[g].pool => g = form[r].group /\ form[r].pc # "deleteDisks"
LeftoverOwn == \A g \in Group : \A d \in Leftover(g) :
    /\ d \in localDisks
    /\ \A q \in Run : d \notin Made(q)
    /\ \A h \in Group : Live(h) => d \notin fs[h].pool

Owned == PoolsStand /\ PoolsApart /\ MadeStand /\ MadeFree /\ MadeApart /\ DoomedOwn /\ LeftoverOwn

IInv == OthersOK /\ FormsOK /\ (~crossed => Owned)

LEMMA Types == IInv => TypeOK
<1> SUFFICES ASSUME IInv PROVE TypeOK
    OBVIOUS
<1>1. \A r \in Run : form[r].left \cup form[r].kept \cup form[r].disks \subseteq form[r].picked
  BY DEF IInv, FormsOK, Sound
<1> QED
  BY <1>1 DEF IInv, OthersOK, FormsOK, TypeOK

LEMMA InitIInv == Init => IInv
<1> SUFFICES ASSUME Init PROVE IInv
    OBVIOUS
<1>0. PICK pool \in Pools :
        /\ fs = [g \in Group |-> [state |-> IF pool[g] = {} THEN "absent" ELSE "live",
                                  pool |-> pool[g]]]
        /\ localDisks = UNION {pool[g] : g \in Group}
  BY DEF Init
<1>1. FormsOK /\ \A r \in Run : form[r] = Unopened
  BY UnopenedForm DEF Init, FormsOK, Sound
<1>2. OthersOK
  <2>1. localDisks \subseteq Device /\ fs \in [Group -> [state : States, pool : SUBSET Device]]
    BY <1>0 DEF States
  <2>2. faults \in 0..MaxFaults
    BY DEF Init
  <2> QED
    BY <2>1, <2>2 DEF Init, OthersOK
<1>3. Owned
  <2>1. \A r \in Run : Made(r) = {} /\ Doomed(r) = {}
    BY <1>1, UnopenedForm DEF Made, Doomed
  <2>2. \A g \in Group : Leftover(g) = {}
    BY <1>0 DEF Leftover
  <2>3. PoolsStand /\ PoolsApart
    BY <1>0 DEF PoolsStand, PoolsApart, Live
  <2> QED
    BY <2>1, <2>2, <2>3 DEF Owned, MadeStand, MadeFree, MadeApart, DoomedOwn, LeftoverOwn
<1> QED
  BY <1>1, <1>2, <1>3 DEF IInv

-----------------------------------------------------------------------------
(* Owners.                                                                 *)

\* Nobody gets a disk by a step under which pools and what forms have made only
\* shrink, and a LocalDisk goes only if nobody owns it.
LEMMA NobodyGets ==
    ASSUME Owned,
           \A g \in Group : Live(g)' => Live(g) /\ fs'[g].pool = fs[g].pool,
           \A r \in Run : Made(r)' \subseteq Made(r),
           \A r \in Run : \A d \in Doomed(r)' :
              /\ d \in Doomed(r) /\ form'[r].group = form[r].group
              /\ form'[r].pc = "deleteDisks" => form[r].pc = "deleteDisks" \/ ~Live(form[r].group)',
           \A g \in Group : \A d \in Leftover(g)' :
              d \in Leftover(g) \/ (Live(g) /\ ~Live(g)' /\ d \in fs[g].pool),
           \A d \in localDisks \ localDisks' :
              /\ \A g \in Group : Live(g) => d \notin fs[g].pool
              /\ \A r \in Run : d \notin Made(r) /\ d \notin Doomed(r)'
              /\ \A g \in Group : d \notin Leftover(g)'
    PROVE  Owned'
<1>1. PoolsStand'
  BY DEF Owned, PoolsStand
<1>2. PoolsApart'
  BY DEF Owned, PoolsApart
<1>3. MadeStand'
  BY DEF Owned, MadeStand
<1>4. MadeFree'
  BY DEF Owned, MadeFree
<1>5. MadeApart'
  BY DEF Owned, MadeApart
<1>6. DoomedOwn'
  <2> SUFFICES ASSUME NEW r \in Run, NEW d \in Doomed(r)'
               PROVE  /\ d \in localDisks'
                      /\ \A q \in Run : d \notin Made(q)'
                      /\ \A g \in Group : Live(g)' /\ d \in fs'[g].pool
                            => g = form'[r].group /\ form'[r].pc # "deleteDisks"
      BY DEF DoomedOwn
  <2>1. d \in Doomed(r) /\ d \in localDisks'
    BY DEF Owned, DoomedOwn
  <2> QED
    BY <2>1 DEF Owned, DoomedOwn
<1>7. LeftoverOwn'
  <2> SUFFICES ASSUME NEW g \in Group, NEW d \in Leftover(g)'
               PROVE  /\ d \in localDisks'
                      /\ \A q \in Run : d \notin Made(q)'
                      /\ \A h \in Group : Live(h)' => d \notin fs'[h].pool
      BY DEF LeftoverOwn
  <2>1. CASE d \in Leftover(g)
    BY <2>1 DEF Owned, LeftoverOwn
  <2>2. CASE Live(g) /\ ~Live(g)' /\ d \in fs[g].pool
    BY <2>2 DEF Owned, PoolsStand, PoolsApart, MadeFree
  <2> QED
    BY <2>1, <2>2
<1> QED
  BY <1>1, <1>2, <1>3, <1>4, <1>5, <1>6, <1>7 DEF Owned

-----------------------------------------------------------------------------
(* Steps of one form that make nothing.                                    *)

\* A form goes on, with what it had picked, and has made no more than before.
Calm(r) ==
    /\ FormsOK'
    /\ \A q \in Run \ {r} : form'[q] = form[q]
    /\ form[r].pc # "none" /\ Same(form'[r], form[r])
    /\ Made(r)' \subseteq Made(r)
    /\ form'[r].pc = "deleteDisks" => form[r].pc = "deleteDisks"

LEMMA BecomeSound ==
    ASSUME FormsOK, NEW r \in Run, NEW h, Sound(h), Become(r, h)
    PROVE  FormsOK' /\ form'[r] = h /\ \A q \in Run \ {r} : form'[q] = form[q]
BY DEF FormsOK, Become, Sound

LEMMA FailCalm ==
    ASSUME FormsOK, NEW r \in Run, form[r].pc # "none", Fail(r)
    PROVE  Calm(r) /\ Made(r)' = {} /\ form'[r].pc = "form"
<1> DEFINE h == [form[r] EXCEPT !.pc = "form", !.error = TRUE, !.left = {}]
<1>1. Sound(h) /\ Same(h, form[r]) /\ h.pc = "form"
  BY FailForm DEF FormsOK
<1>2. Become(r, h)
  BY DEF Fail
<1> HIDE DEF h
<1>3. FormsOK' /\ form'[r] = h /\ \A q \in Run \ {r} : form'[q] = form[q]
  BY <1>1, <1>2, BecomeSound
<1> QED
  BY <1>1, <1>3 DEF Calm, Made

LEMMA GotoCalm ==
    ASSUME FormsOK, NEW r \in Run, form[r].pc # "none",
           NEW p \in Steps \ {"disks", "group", "deleteDisks"}, Goto(r, p),
           p \in {"allow", "delete"} => form[r].kind = "delete",
           p \in SetupCalls \cup RegistryCalls => form[r].kind = "connect"
    PROVE  Calm(r) /\ Made(r)' = {} /\ form'[r].pc = p
<1> DEFINE h == [form[r] EXCEPT !.pc = p]
<1>1. Sound(h) /\ Same(h, form[r]) /\ h.pc = p
  BY GotoForm DEF FormsOK
<1>2. Become(r, h)
  BY DEF Goto
<1> HIDE DEF h
<1>3. FormsOK' /\ form'[r] = h /\ \A q \in Run \ {r} : form'[q] = form[q]
  BY <1>1, <1>2, BecomeSound
<1> QED
  BY <1>1, <1>3 DEF Calm, Made

LEMMA CloseCalm ==
    ASSUME FormsOK, NEW r \in Run, form[r].pc # "none", Close(r)
    PROVE  Calm(r) /\ Made(r)' = {} /\ form'[r].pc = "closed"
BY GotoCalm DEF Close, Steps, Waiting, SetupCalls

LEMMA StartCalm ==
    ASSUME FormsOK, NEW r \in Run, form[r].pc # "none", form[r].kind # "delete",
           NEW D \in SUBSET form[r].picked, StartDisks(r, D)
    PROVE  Calm(r)
<1>1. CASE D = {}
  BY <1>1, FailCalm DEF StartDisks
<1>2. CASE D # {}
  <2> DEFINE h == [form[r] EXCEPT !.pc = "disks", !.disks = D, !.left = D, !.error = FALSE]
  <2>1. Sound(h) /\ Same(h, form[r]) /\ h.pc = "disks" /\ h.disks = D /\ h.left = D
    BY StartForm DEF FormsOK
  <2>2. Become(r, h)
    BY <1>2 DEF StartDisks
  <2> HIDE DEF h
  <2>3. FormsOK' /\ form'[r] = h /\ \A q \in Run \ {r} : form'[q] = form[q]
    BY <2>1, <2>2, BecomeSound
  <2> QED
    BY <2>1, <2>3 DEF Calm, Made
<1> QED
  BY <1>1, <1>2

LEMMA AfterSetupCalm ==
    ASSUME FormsOK, NEW r \in Run, form[r].pc # "none", form[r].kind = "connect", AfterSetup(r)
    PROVE  Calm(r)
BY StartCalm, CloseCalm DEF AfterSetup

\* Such a step disturbs nobody, whatever LocalDisks it makes in passing.
LEMMA CalmKeeps ==
    ASSUME Owned, NEW r \in Run, Calm(r),
           fs' = fs, away' = away, absent' = absent, localDisks \subseteq localDisks'
    PROVE  Owned'
<1>1. \A g \in Group : (Live(g)' <=> Live(g)) /\ Leftover(g)' = Leftover(g)
  BY DEF Live, Leftover
<1>2. \A q \in Run : Made(q)' \subseteq Made(q)
  BY DEF Calm, Made
<1>3. \A q \in Run : \A d \in Doomed(q)' :
        /\ d \in Doomed(q) /\ form'[q].group = form[q].group
        /\ form'[q].pc = "deleteDisks" => form[q].pc = "deleteDisks"
  BY DEF Calm, Same, Doomed
<1> QED
  BY <1>1, <1>2, <1>3, NobodyGets

LEMMA SubmitCalm ==
    ASSUME IInv, NEW r \in Run, Submit(r)
    PROVE  Calm(r) /\ (form[r].kind = "delete" => form'[r].pc = "allow")
<1>1. Sound(form[r]) /\ form[r].pc = "form" /\ form[r].kind \in Kinds
  BY DEF IInv, FormsOK, Sound, Forms, Submit
<1>2. CASE form[r].kind = "connect"
  <2>1. {"label", "registry", "registryOnly"} \subseteq Steps \ {"disks", "group", "deleteDisks"}
    BY DEF Steps, SetupCalls
  <2>2. AfterSetup(r) \/ \E p \in {"label", "registry", "registryOnly"} : Goto(r, p)
    BY <1>2 DEF Submit
  <2> QED
    BY <1>1, <1>2, <2>1, <2>2, AfterSetupCalm, GotoCalm DEF IInv
<1>3. CASE form[r].kind \in {"create", "expand"}
  <2>1. PICK D \in SUBSET form[r].picked : StartDisks(r, D)
    BY <1>3 DEF Submit
  <2> QED
    BY <1>1, <1>3, <2>1, StartCalm DEF IInv
<1>4. CASE form[r].kind = "delete"
  <2>1. "allow" \in Steps \ {"disks", "group", "deleteDisks"} /\ "allow" \notin SetupCalls
    BY DEF Steps, SetupCalls
  <2>2. Goto(r, "allow")
    BY <1>4 DEF Submit
  <2> QED
    BY <1>1, <1>4, <2>1, <2>2, GotoCalm DEF IInv
<1> QED
  BY <1>1, <1>2, <1>3, <1>4 DEF Kinds

LEMMA SubmitKeeps == ASSUME IInv, NEW r \in Run, Submit(r) PROVE IInv'
<1>1. OthersOK'
  BY DEF IInv, OthersOK, Submit
<1>2. Calm(r)
  BY SubmitCalm
<1>3. ~crossed' => Owned'
  BY <1>2, CalmKeeps DEF IInv, Submit
<1> QED
  BY <1>1, <1>2, <1>3 DEF IInv, Calm

LEMMA TestRegistryCalm ==
    ASSUME IInv, NEW r \in Run, TestRegistry(r)
    PROVE  Calm(r) /\ form[r].kind = "connect"
<1>1. form[r].pc \in RegistryCalls /\ form[r].kind = "connect" /\ form[r].pc # "none"
  BY DEF IInv, FormsOK, Sound, TestRegistry
<1>2. CASE Fail(r)
  BY <1>1, <1>2, FailCalm DEF IInv
<1>3. CASE AfterSetup(r)
  BY <1>1, <1>3, AfterSetupCalm DEF IInv
<1>4. CASE Goto(r, "label")
  <2>1. "label" \in Steps \ {"disks", "group", "deleteDisks"}
    BY DEF Steps, SetupCalls
  <2> QED
    BY <1>1, <1>4, <2>1, GotoCalm DEF IInv
<1> QED
  BY <1>1, <1>2, <1>3, <1>4 DEF TestRegistry

LEMMA TestRegistryKeeps == ASSUME IInv, NEW r \in Run, TestRegistry(r) PROVE IInv'
<1>1. OthersOK'
  BY DEF IInv, OthersOK, TestRegistry
<1>2. Calm(r)
  BY TestRegistryCalm
<1>3. ~crossed' => Owned'
  BY <1>2, CalmKeeps DEF IInv, TestRegistry
<1> QED
  BY <1>1, <1>2, <1>3 DEF IInv, Calm

LEMMA SetUpCalm ==
    ASSUME IInv, NEW r \in Run, SetUp(r)
    PROVE  Calm(r) /\ form[r].kind = "connect"
<1>1. form[r].pc \in SetupCalls /\ form[r].kind = "connect" /\ form[r].pc # "none"
  BY DEF IInv, FormsOK, Sound, SetUp, SetupCalls
<1>2. CASE Fail(r)
  BY <1>1, <1>2, FailCalm DEF IInv
<1>3. CASE AfterSetup(r)
  BY <1>1, <1>3, AfterSetupCalm DEF IInv
<1>4. CASE form[r].pc # "metrics" /\ Goto(r, NextSetup(form[r].pc))
  <2>1. NextSetup(form[r].pc) \in {"cluster", "csi", "metrics"}
    BY <1>1, <1>4 DEF NextSetup, SetupCalls
  <2>2. \A p \in {"cluster", "csi", "metrics"} :
          p \in Steps \ {"disks", "group", "deleteDisks"} /\ p \notin {"allow", "delete"}
    BY DEF Steps, SetupCalls
  <2> QED
    BY <1>1, <1>4, <2>1, <2>2, GotoCalm DEF IInv
<1> QED
  BY <1>1, <1>2, <1>3, <1>4 DEF SetUp

LEMMA SetUpKeeps == ASSUME IInv, NEW r \in Run, SetUp(r) PROVE IInv'
<1>1. OthersOK'
  <2>1. faults' \in 0..MaxFaults /\ setup' \subseteq SetupCalls
    BY DEF IInv, OthersOK, SetUp, Fault
  <2> QED
    BY <2>1 DEF IInv, OthersOK, SetUp
<1>2. Calm(r)
  BY SetUpCalm
<1>3. ~crossed' => Owned'
  BY <1>2, CalmKeeps DEF IInv, SetUp
<1> QED
  BY <1>1, <1>2, <1>3 DEF IInv, Calm

LEMMA RefuseDiskKeeps == ASSUME IInv, NEW r \in Run, NEW d \in Device, RefuseDisk(r, d) PROVE IInv'
<1>1. form[r].pc # "none" /\ form[r].left \subseteq Device
  BY DEF IInv, FormsOK, Forms, RefuseDisk
<1>2. OthersOK'
  <2>1. faults' \in 0..MaxFaults /\ localDisks' \subseteq Device /\ localDisks \subseteq localDisks'
    BY DEF IInv, OthersOK, RefuseDisk, Fault
  <2> QED
    BY <1>1, <2>1 DEF IInv, OthersOK, RefuseDisk
<1>3. Calm(r)
  BY <1>1, FailCalm DEF IInv, RefuseDisk
<1>4. ~crossed' => Owned'
  <2>1. localDisks \subseteq localDisks'
    BY DEF RefuseDisk
  <2> QED
    BY <1>3, <2>1, CalmKeeps DEF IInv, RefuseDisk
<1> QED
  BY <1>2, <1>3, <1>4 DEF IInv, Calm

LEMMA AllowCalm ==
    ASSUME IInv, NEW r \in Run, Allow(r)
    PROVE  Calm(r) /\ form'[r].pc \in {"delete", "form"}
<1>1. form[r].pc # "none" /\ form[r].kind = "delete"
  BY DEF IInv, FormsOK, Sound, Allow
<1>2. "delete" \in Steps \ {"disks", "group", "deleteDisks"} /\ "delete" \notin SetupCalls
  BY DEF Steps, SetupCalls
<1>3. Goto(r, "delete") \/ Fail(r)
  BY DEF Allow
<1> QED
  BY <1>1, <1>2, <1>3, FailCalm, GotoCalm DEF IInv

LEMMA AllowKeeps == ASSUME IInv, NEW r \in Run, Allow(r) PROVE IInv'
<1>1. OthersOK'
  <2>1. faults' \in 0..MaxFaults
    BY DEF IInv, OthersOK, Allow, Fault
  <2> QED
    BY <2>1 DEF IInv, OthersOK, Allow
<1>2. Calm(r)
  BY AllowCalm
<1>3. ~crossed' => Owned'
  BY <1>2, CalmKeeps DEF IInv, Allow
<1> QED
  BY <1>1, <1>2, <1>3 DEF IInv, Calm

LEMMA SettleKeeps == ASSUME IInv, NEW r \in Run, Settle(r) PROVE IInv'
<1>1. OthersOK'
  BY DEF IInv, OthersOK, Settle
<1>2. Calm(r)
  BY FailCalm, CloseCalm DEF IInv, Settle
<1>3. ~crossed' => Owned'
  BY <1>2, CalmKeeps DEF IInv, Settle
<1> QED
  BY <1>1, <1>2, <1>3 DEF IInv, Calm

LEMMA MakeLateKeeps == ASSUME IInv, NEW d \in Device, MakeLate(d) PROVE IInv'
<1>1. OthersOK'
  BY DEF IInv, OthersOK, MakeLate
<1>2. FormsOK'
  BY DEF IInv, FormsOK, MakeLate
<1>3. ASSUME Owned PROVE Owned'
  <2>1. \A g \in Group : (Live(g)' <=> Live(g)) /\ Leftover(g)' = Leftover(g)
    BY DEF MakeLate, Live, Leftover
  <2>2. \A r \in Run : Made(r)' = Made(r) /\ Doomed(r)' = Doomed(r)
    BY DEF MakeLate, Made, Doomed
  <2>3. localDisks \subseteq localDisks' /\ form' = form /\ fs' = fs
    BY DEF MakeLate
  <2> QED
    BY <1>3, <2>1, <2>2, <2>3, NobodyGets
<1> QED
  BY <1>1, <1>2, <1>3 DEF IInv, MakeLate

-----------------------------------------------------------------------------
(* Steps that make or delete something.                                    *)

\* A form that opens has made nothing, and the others do not notice.
LEMMA Opens ==
    ASSUME IInv, NEW r \in Run, NEW k \in Kinds, NEW g \in Group, NEW D \in SUBSET Device,
           Open(r, k, g, D)
    PROVE  /\ OthersOK' /\ FormsOK'
           /\ \A q \in Run : Made(q)' \subseteq Made(q)
           /\ \A q \in Run \ {r} : Doomed(q)' = Doomed(q) /\ form'[q] = form[q]
           /\ form'[r].group = g /\ form'[r].pc = "form"
           /\ Doomed(r)' = IF k = "delete" THEN D \ (Free \cup away[g]) ELSE {}
<1> DEFINE h == Opened(k, g, D)
<1>1. Sound(h) /\ h.kind = k /\ h.group = g /\ h.picked = D /\ h.pc = "form"
  BY OpenForms
<1>2. Become(r, h)
  BY DEF Open, Opened
<1> HIDE DEF h
<1>3. FormsOK' /\ form'[r] = h /\ \A q \in Run \ {r} : form'[q] = form[q]
  BY <1>1, <1>2, BecomeSound DEF IInv
<1>4. /\ absent' \in [Run -> SUBSET Device]
      /\ absent'[r] = Free \cup (IF k = "delete" THEN away[g] ELSE {})
      /\ \A q \in Run \ {r} : absent'[q] = absent[q]
  BY DEF IInv, OthersOK, Open, Free
<1>5. OthersOK'
  BY <1>4 DEF IInv, OthersOK, Open
<1>6. \A q \in Run : Made(q)' \subseteq Made(q)
  BY <1>1, <1>3 DEF Made
<1>7. \A q \in Run \ {r} : Doomed(q)' = Doomed(q)
  BY <1>3, <1>4 DEF Doomed
<1>8. Doomed(r)' = IF k = "delete" THEN D \ (Free \cup away[g]) ELSE {}
  BY <1>1, <1>3, <1>4 DEF Doomed
<1> QED
  BY <1>1, <1>3, <1>5, <1>6, <1>7, <1>8

LEMMA OpenFormKeeps == ASSUME IInv, NEW r \in Run, OpenForm(r) PROVE IInv'
<1>1. PICK k \in Kinds, g \in Group, D \in SUBSET Device :
        Open(r, k, g, D) /\ (k = "delete" => fs[g].state # "absent" /\ D = fs[g].pool)
  BY DEF IInv, OthersOK, OpenForm, OpenCreate, OpenExpand, OpenDelete, Kinds, Free
<1>2. /\ OthersOK' /\ FormsOK'
      /\ \A q \in Run : Made(q)' \subseteq Made(q)
      /\ \A q \in Run \ {r} : Doomed(q)' = Doomed(q) /\ form'[q] = form[q]
      /\ form'[r].group = g /\ form'[r].pc = "form"
      /\ Doomed(r)' = IF k = "delete" THEN D \ (Free \cup away[g]) ELSE {}
  BY <1>1, Opens
<1>3. UNCHANGED <<localDisks, fs, away, crossed>>
  BY <1>1 DEF Open
<1>4. ASSUME Owned PROVE Owned'
  <2>1. \A h \in Group : (Live(h)' <=> Live(h)) /\ Leftover(h)' = Leftover(h)
    BY <1>3 DEF Live, Leftover
  <2>2. (PoolsStand /\ PoolsApart /\ MadeStand /\ MadeFree /\ MadeApart /\ LeftoverOwn)'
    BY <1>2, <1>3, <1>4, <2>1
       DEF Owned, PoolsStand, PoolsApart, MadeStand, MadeFree, MadeApart, LeftoverOwn
  <2>3. DoomedOwn'
    <3>1. ASSUME NEW d \in Doomed(r)'
          PROVE  /\ d \in localDisks'
                 /\ \A q \in Run : d \notin Made(q)'
                 /\ \A h \in Group : Live(h)' /\ d \in fs'[h].pool
                       => h = form'[r].group /\ form'[r].pc # "deleteDisks"
      <4>1. k = "delete" /\ d \in fs[g].pool /\ d \notin Free /\ d \notin away[g]
        BY <1>1, <1>2
      <4>2. d \in localDisks /\ fs[g].state \in States \ {"absent"}
        BY <1>1, <4>1 DEF IInv, OthersOK, Free
      <4>3. CASE Live(g)
        BY <1>2, <1>3, <1>4, <2>1, <4>1, <4>2, <4>3 DEF Owned, PoolsApart, MadeFree
      <4>4. CASE d \in Leftover(g)
        BY <1>2, <1>3, <1>4, <2>1, <4>2, <4>4 DEF Owned, LeftoverOwn
      <4> QED
        BY <4>1, <4>2, <4>3, <4>4 DEF Live, Leftover, States
    <3>2. ASSUME NEW q \in Run \ {r}, NEW d \in Doomed(q)'
          PROVE  /\ d \in localDisks'
                 /\ \A p \in Run : d \notin Made(p)'
                 /\ \A h \in Group : Live(h)' /\ d \in fs'[h].pool
                       => h = form'[q].group /\ form'[q].pc # "deleteDisks"
      BY <1>2, <1>3, <1>4, <2>1, <3>2 DEF Owned, DoomedOwn
    <3> QED
      BY <3>1, <3>2 DEF DoomedOwn
  <2> QED
    BY <2>2, <2>3 DEF Owned
<1> QED
  BY <1>2, <1>3, <1>4 DEF IInv

\* The LocalDisk is new: nobody owned it.
LEMMA MakeDiskKeeps == ASSUME IInv, NEW r \in Run, NEW d \in Device, MakeDisk(r, d) PROVE IInv'
<1> DEFINE h == [form[r] EXCEPT !.left = @ \ {d},
                                !.pc = IF form[r].left = {d} THEN "group" ELSE "disks"]
<1>1. /\ Sound(h) /\ Same(h, form[r]) /\ h.pc \in {"disks", "group"}
      /\ h.disks = form[r].disks /\ h.left = form[r].left \ {d}
  BY MadeForm DEF IInv, FormsOK, MakeDisk
<1>2. Become(r, h)
  BY DEF MakeDisk
<1> HIDE DEF h
<1>3. FormsOK' /\ form'[r] = h /\ \A q \in Run \ {r} : form'[q] = form[q]
  BY <1>1, <1>2, BecomeSound DEF IInv
<1>4. OthersOK'
  BY DEF IInv, OthersOK, MakeDisk
<1>5. ASSUME Owned PROVE Owned'
  <2>1. d \notin localDisks /\ localDisks' = localDisks \cup {d} /\ fs' = fs /\ form[r].pc = "disks"
    BY DEF MakeDisk, Taken
  <2>2. \A g \in Group : (Live(g)' <=> Live(g)) /\ Leftover(g)' = Leftover(g)
    BY DEF MakeDisk, Live, Leftover
  <2>3. /\ Made(r)' \subseteq Made(r) \cup {d}
        /\ \A q \in Run \ {r} : Made(q)' = Made(q)
    BY <1>1, <1>3, <2>1 DEF Made
  <2>4. ASSUME NEW q \in Run
        PROVE  /\ Doomed(q)' = Doomed(q) /\ form'[q].group = form[q].group
               /\ form'[q].pc = "deleteDisks" => form[q].pc = "deleteDisks"
    <3>0. absent' = absent
      BY DEF MakeDisk
    <3>1. CASE q = r
      BY <1>1, <1>3, <2>1, <3>0, <3>1 DEF Doomed, Same
    <3>2. CASE q # r
      BY <1>3, <3>0, <3>2 DEF Doomed
    <3> QED BY <3>1, <3>2
  <2>5. (PoolsStand /\ PoolsApart /\ MadeStand)'
    BY <1>5, <2>1, <2>2, <2>3 DEF Owned, PoolsStand, PoolsApart, MadeStand
  <2>6. (MadeFree /\ MadeApart)'
    BY <1>5, <2>1, <2>2, <2>3 DEF Owned, PoolsStand, MadeStand, MadeFree, MadeApart
  <2>7. (DoomedOwn /\ LeftoverOwn)'
    BY <1>5, <2>1, <2>2, <2>3, <2>4 DEF Owned, DoomedOwn, LeftoverOwn
  <2> QED
    BY <2>5, <2>6, <2>7 DEF Owned
<1> QED
  BY <1>3, <1>4, <1>5 DEF IInv, MakeDisk

\* The group takes over what the form has made, whether or not the answer arrives.
LEMMA MakeGroupKeeps == ASSUME IInv, NEW r \in Run, MakeGroup(r) PROVE IInv'
<1> DEFINE f == form[r]
<1>0. PICK g \in Group : g = f.group
  BY DEF IInv, FormsOK, Forms
<1>1. /\ f.pc = "group" /\ f.left = {} /\ f.kind # "delete" /\ f \in Forms
      /\ f.disks \subseteq Device /\ Made(r) = f.disks
  BY DEF IInv, FormsOK, Sound, Forms, Made, MakeGroup
<1>2. Calm(r) /\ Made(r)' = {}
  BY <1>1, FailCalm, CloseCalm DEF IInv, MakeGroup
<1>3. fs' = fs \/ (fs' # fs /\ GroupThere(r) /\ fs' = Grown(r))
  BY DEF MakeGroup
<1>4. OthersOK'
  <2>1. Grown(r) \in [Group -> [state : States, pool : SUBSET Device]]
    BY <1>0, <1>1 DEF IInv, OthersOK, Grown, States
  <2>2. fs' \in [Group -> [state : States, pool : SUBSET Device]]
    BY <1>3, <2>1 DEF IInv, OthersOK
  <2>3. away' \in [Group -> SUBSET Device] /\ faults' \in 0..MaxFaults
    BY <1>0, <1>1 DEF IInv, OthersOK, MakeGroup, Fault
  <2> QED
    BY <2>2, <2>3 DEF IInv, OthersOK, MakeGroup
<1>5. CASE fs' = fs
  <2>1. ~crossed' => Owned'
    BY <1>2, <1>5, CalmKeeps DEF IInv, MakeGroup
  <2> QED
    BY <1>2, <1>4, <2>1 DEF IInv, Calm
<1>6. CASE fs' # fs /\ GroupThere(r) /\ fs' = Grown(r)
  <2>1. ASSUME Owned PROVE Owned'
    <3>1. /\ \A h \in Group \ {g} : (Live(h)' <=> Live(h)) /\ fs'[h] = fs[h] /\ away'[h] = away[h]
          /\ away'[g] = away[g] \ f.disks
          /\ localDisks' = localDisks /\ absent' = absent
      BY <1>0, <1>1, <1>6 DEF IInv, OthersOK, MakeGroup, Grown, Live
    <3>2. /\ Live(g)' => \A d \in fs'[g].pool : d \in f.disks \/ (Live(g) /\ d \in fs[g].pool)
          /\ \A d \in Leftover(g)' : d \in f.disks \/ d \in Leftover(g)
      <4>1. CASE f.kind = "expand"
        <5>1. fs' = [fs EXCEPT ![g].pool = @ \cup f.disks]
          BY <1>0, <1>6, <4>1 DEF Grown
        <5>2. fs'[g].state = fs[g].state /\ fs'[g].pool = fs[g].pool \cup f.disks
          BY <1>1, <5>1 DEF IInv, OthersOK
        <5> QED
          BY <3>1, <5>2 DEF Live, Leftover
      <4>2. CASE f.kind # "expand"
        <5>1. fs' = [fs EXCEPT ![g] = [state |-> "live", pool |-> f.disks]]
          BY <1>0, <1>6, <4>2 DEF Grown
        <5>2. fs'[g].state = "live" /\ fs'[g].pool = f.disks
          BY <1>1, <5>1 DEF IInv, OthersOK
        <5> QED
          BY <5>2 DEF Live, Leftover
      <4> QED
        BY <4>1, <4>2
    <3>3. \A h \in Group \ {g} : Leftover(h)' = Leftover(h)
      BY <3>1 DEF Leftover
    <3>4. \A q \in Run \ {r} : Made(q)' = Made(q)
      BY <1>2 DEF Calm, Made
    <3>5. \A q \in Run : /\ Doomed(q)' \subseteq Doomed(q) /\ form'[q].group = form[q].group
                         /\ form'[q].pc = "deleteDisks" => form[q].pc = "deleteDisks"
      BY <1>2, <3>1 DEF Calm, Same, Doomed
    <3>6. (PoolsStand /\ MadeStand)'
      <4>1. f.disks \subseteq localDisks
        BY <1>1, <2>1 DEF Owned, MadeStand
      <4>2. PoolsStand'
        BY <2>1, <3>1, <3>2, <4>1 DEF Owned, PoolsStand
      <4>3. MadeStand'
        BY <1>2, <2>1, <3>1, <3>4 DEF Owned, MadeStand
      <4> QED
        BY <4>2, <4>3
    <3>7. PoolsApart'
      BY <1>1, <2>1, <3>1, <3>2 DEF Owned, PoolsApart, MadeFree
    <3>8. (MadeFree /\ MadeApart)'
      BY <1>1, <1>2, <2>1, <3>1, <3>2, <3>4 DEF Owned, MadeFree, MadeApart
    <3>9. DoomedOwn'
      <4> SUFFICES ASSUME NEW q \in Run, NEW d \in Doomed(q)'
                   PROVE  /\ d \in localDisks'
                          /\ \A p \in Run : d \notin Made(p)'
                          /\ \A h \in Group : Live(h)' /\ d \in fs'[h].pool
                                => h = form'[q].group /\ form'[q].pc # "deleteDisks"
          BY DEF DoomedOwn
      <4>1. /\ d \in Doomed(q) /\ d \in localDisks
            /\ \A p \in Run : d \notin Made(p)
            /\ \A h \in Group : Live(h) /\ d \in fs[h].pool
                  => h = form[q].group /\ form[q].pc # "deleteDisks"
        BY <2>1, <3>5 DEF Owned, DoomedOwn
      <4> QED
        BY <1>1, <1>2, <3>1, <3>2, <3>4, <3>5, <4>1
    <3>10. LeftoverOwn'
      <4> SUFFICES ASSUME NEW i \in Group, NEW d \in Leftover(i)'
                   PROVE  /\ d \in localDisks'
                          /\ \A p \in Run : d \notin Made(p)'
                          /\ \A h \in Group : Live(h)' => d \notin fs'[h].pool
          BY DEF LeftoverOwn
      <4>1. CASE d \in Leftover(i)
        BY <1>1, <1>2, <2>1, <3>1, <3>2, <3>4, <4>1 DEF Owned, LeftoverOwn
      <4>2. CASE i = g /\ d \in f.disks
        <5>1. ~Live(g)'
          BY <4>2 DEF Live, Leftover
        <5> QED
          BY <1>1, <1>2, <2>1, <3>1, <3>4, <4>2, <5>1 DEF Owned, MadeStand, MadeApart, MadeFree
      <4> QED
        BY <3>2, <3>3, <4>1, <4>2
    <3> QED
      BY <3>6, <3>7, <3>8, <3>9, <3>10 DEF Owned
  <2> QED
    BY <1>2, <1>4, <2>1 DEF IInv, Calm, MakeGroup
<1> QED
  BY <1>3, <1>5, <1>6

\* A live group that is deleted leaves its disks to the deletions that are after them.
LEMMA DeleteFSKeeps == ASSUME IInv, NEW r \in Run, DeleteFS(r) PROVE IInv'
<1> DEFINE f == form[r]
<1>0. PICK g \in Group : g = f.group
  BY DEF IInv, FormsOK, Forms
<1> DEFINE Dying == [fs EXCEPT ![g].state = "dying"]
<1>1. f.pc = "delete" /\ f.kind = "delete" /\ Sound(f)
  BY DEF IInv, FormsOK, Sound, Forms, DeleteFS
<1>2. fs' = fs \/ (fs[g].state # "absent" /\ fs' = Dying)
  BY <1>0 DEF DeleteFS
<1>3. OthersOK'
  <2>1. fs' \in [Group -> [state : States, pool : SUBSET Device]]
    BY <1>1, <1>2 DEF IInv, OthersOK, States
  <2>2. faults' \in 0..MaxFaults
    BY DEF IInv, OthersOK, DeleteFS, Fault
  <2> QED
    BY <2>1, <2>2 DEF IInv, OthersOK, DeleteFS
<1>4. /\ FormsOK' /\ Same(form'[r], f)
      /\ \A q \in Run \ {r} : form'[q] = form[q]
      /\ form'[r].pc = "form" \/ (form'[r].pc = "deleteDisks" /\ fs' = Dying)
  <2>1. CASE Fail(r)
    BY <1>1, <2>1, FailCalm DEF IInv, Calm
  <2>2. CASE ~Fail(r)
    <3> DEFINE h == [f EXCEPT !.pc = "deleteDisks", !.left = f.picked, !.kept = {},
                              !.tries = Unopened.tries]
    <3>1. Sound(h) /\ Same(h, f) /\ h.pc = "deleteDisks"
      BY <1>1, DeletingForm
    <3>2. Become(r, h) /\ fs' = Dying
      BY <1>0, <2>2 DEF DeleteFS
    <3> HIDE DEF h
    <3> QED
      BY <3>1, <3>2, BecomeSound DEF IInv
  <2> QED
    BY <2>1, <2>2
<1>5. ASSUME Owned PROVE Owned'
  <2>1. localDisks' = localDisks /\ away' = away /\ absent' = absent
    BY DEF DeleteFS
  <2>2. \A h \in Group \ {g} : fs'[h] = fs[h]
    BY <1>1, <1>2 DEF IInv, OthersOK
  <2>3. fs' = fs \/ (fs'[g].state = "dying" /\ fs[g].state # "absent" /\ fs'[g].pool = fs[g].pool)
    BY <1>1, <1>2 DEF IInv, OthersOK
  <2>4. \A h \in Group : Live(h)' => Live(h) /\ fs'[h].pool = fs[h].pool
    BY <2>2, <2>3 DEF Live
  <2>5. \A h \in Group : \A d \in Leftover(h)' :
          d \in Leftover(h) \/ (Live(h) /\ ~Live(h)' /\ d \in fs[h].pool)
    BY <1>1, <2>1, <2>2, <2>3 DEF IInv, OthersOK, States, Live, Leftover
  <2>6. \A q \in Run : Made(q)' \subseteq Made(q)
    BY <1>4 DEF Made
  <2>7. form'[r].pc = "deleteDisks" => ~Live(g)'
    BY <1>1, <1>4 DEF IInv, OthersOK, Live
  <2>8. \A q \in Run : \A d \in Doomed(q)' :
          /\ d \in Doomed(q) /\ form'[q].group = form[q].group
          /\ form'[q].pc = "deleteDisks" => form[q].pc = "deleteDisks" \/ ~Live(form[q].group)'
    BY <1>0, <1>1, <1>4, <2>1, <2>7 DEF Same, Doomed
  <2> QED
    BY <1>5, <2>1, <2>4, <2>5, <2>6, <2>8, NobodyGets
<1> QED
  BY <1>3, <1>4, <1>5 DEF IInv, DeleteFS

LEMMA FinalizeKeeps == ASSUME IInv, NEW g \in Group, Finalize(g) PROVE IInv'
<1>1. OthersOK'
  <2>1. fs' \in [Group -> [state : States, pool : SUBSET Device]]
    BY DEF IInv, OthersOK, Finalize, States
  <2> QED
    BY <2>1 DEF IInv, OthersOK, Finalize
<1>2. FormsOK'
  BY DEF IInv, FormsOK, Finalize
<1>3. ASSUME Owned PROVE Owned'
  <2>1. /\ \A h \in Group \ {g} : fs'[h] = fs[h]
        /\ fs'[g].state = "absent" /\ fs'[g].pool = {}
    BY DEF IInv, OthersOK, Finalize
  <2>2. \A h \in Group : /\ Live(h)' => Live(h) /\ fs'[h].pool = fs[h].pool
                         /\ Leftover(h)' \subseteq Leftover(h)
    BY <2>1 DEF Finalize, Live, Leftover
  <2>3. \A r \in Run : Made(r)' = Made(r) /\ Doomed(r)' = Doomed(r)
    BY DEF Finalize, Made, Doomed
  <2>4. form' = form /\ localDisks' = localDisks
    BY DEF Finalize
  <2> QED
    BY <1>3, <2>2, <2>3, <2>4, NobodyGets
<1> QED
  BY <1>1, <1>2, <1>3 DEF IInv, Finalize

\* A disk that a deletion is after is still the one it was opened for, or else the
\* deletion has met a successor: nobody owns it.
LEMMA RemovedKeeps ==
    ASSUME IInv, NEW r \in Run, NEW d \in form[r].left, form[r].pc = "deleteDisks",
           Removed(r, d), fs' = fs, ~crossed',
           FormsOK', Same(form'[r], form[r]), form'[r].pc = "deleteDisks",
           \A q \in Run \ {r} : form'[q] = form[q]
    PROVE  Owned'
<1>1. Owned /\ d \in Doomed(r) /\ d \in Device
  BY DEF IInv, OthersOK, FormsOK, Sound, Forms, Removed, Doomed
<1>2. \A q \in Run : absent'[q] = absent[q] \cup {d}
  BY DEF Removed
<1>3. \A g \in Group : away'[g] = away[g] \cup {d}
  BY DEF Removed
<1>4. \A g \in Group : Live(g)' <=> Live(g)
  BY DEF Live
<1>5. \A q \in Run : Made(q)' \subseteq Made(q)
  BY DEF Made
<1>6. \A q \in Run : /\ d \notin Doomed(q)' /\ form'[q].group = form[q].group
                     /\ Doomed(q)' \subseteq Doomed(q)
                     /\ form'[q].pc = "deleteDisks" => form[q].pc = "deleteDisks"
  BY <1>2 DEF Same, Doomed
<1>7. \A g \in Group : d \notin Leftover(g)' /\ Leftover(g)' \subseteq Leftover(g)
  BY <1>3 DEF Leftover
<1>8. /\ \A g \in Group : Live(g) => d \notin fs[g].pool
      /\ \A q \in Run : d \notin Made(q)
  BY <1>1 DEF Owned, DoomedOwn
<1>9. localDisks' = localDisks \ {d}
  BY DEF Removed
<1> QED
  BY <1>1, <1>4, <1>5, <1>6, <1>7, <1>8, <1>9, NobodyGets

\* Whatever is removed, the variables stay in their sets.
LEMMA RemovedTypes ==
    ASSUME OthersOK, NEW r \in Run, NEW d \in Device, Removed(r, d)
    PROVE  /\ localDisks' \subseteq Device /\ crossed' \in BOOLEAN
           /\ away' \in [Group -> SUBSET Device] /\ absent' \in [Run -> SUBSET Device]
BY DEF OthersOK, Removed

LEMMA DeleteDiskKeeps == ASSUME IInv, NEW r \in Run, NEW d \in Device, DeleteDisk(r, d) PROVE IInv'
<1> DEFINE h == [form[r] EXCEPT !.left = @ \ {d}]
<1>1. Sound(h) /\ Same(h, form[r]) /\ h.pc = "deleteDisks"
  BY GoneForm DEF IInv, FormsOK, DeleteDisk
<1>2. Become(r, h)
  BY DEF DeleteDisk
<1> HIDE DEF h
<1>3. FormsOK' /\ form'[r] = h /\ \A q \in Run \ {r} : form'[q] = form[q]
  BY <1>1, <1>2, BecomeSound DEF IInv
<1>4. OthersOK'
  BY RemovedTypes DEF IInv, OthersOK, DeleteDisk
<1>5. ~crossed' => Owned'
  BY <1>1, <1>3, RemovedKeeps DEF DeleteDisk
<1> QED
  BY <1>3, <1>4, <1>5 DEF IInv

LEMMA RejectDiskKeeps == ASSUME IInv, NEW r \in Run, NEW d \in Device, RejectDisk(r, d) PROVE IInv'
<1>1. PICK fault \in BOOLEAN, gone \in BOOLEAN, last \in BOOLEAN :
        /\ IF fault THEN Fault ELSE UNCHANGED faults
        /\ IF gone THEN Removed(r, d) ELSE UNCHANGED <<localDisks, away, absent, crossed>>
        /\ LastTry(r, d) => last
        /\ IF last
           THEN Become(r, [form[r] EXCEPT !.left = @ \ {d},
                                          !.kept = IF Failure(d, fault) THEN @ \cup {d} ELSE @])
           ELSE Become(r, [form[r] EXCEPT !.tries[d] = @ + 1])
  BY DEF RejectDisk
<1>2. /\ form[r].pc = "deleteDisks" /\ d \in form[r].left /\ fs' = fs
      /\ setup' = setup /\ late' = late
  BY DEF RejectDisk
<1>3. Sound(form[r])
  BY DEF IInv, FormsOK
<1>4. OthersOK'
  <2>1. faults' \in 0..MaxFaults
    BY <1>1 DEF IInv, OthersOK, Fault
  <2>2. /\ localDisks' \subseteq Device /\ crossed' \in BOOLEAN
        /\ away' \in [Group -> SUBSET Device] /\ absent' \in [Run -> SUBSET Device]
    BY <1>1, RemovedTypes DEF IInv, OthersOK
  <2> QED
    BY <1>2, <2>1, <2>2 DEF IInv, OthersOK
<1>5. /\ FormsOK' /\ Same(form'[r], form[r]) /\ form'[r].pc = "deleteDisks"
      /\ \A q \in Run \ {r} : form'[q] = form[q]
  <2>1. CASE last
    <3> DEFINE K == IF Failure(d, fault) THEN form[r].kept \cup {d} ELSE form[r].kept
               h == [form[r] EXCEPT !.left = @ \ {d}, !.kept = K]
    <3>0. Become(r, h)
      BY <1>1, <2>1
    <3>1. K \in SUBSET form[r].picked
      BY <1>2, <1>3 DEF Sound
    <3> HIDE DEF K
    <3>2. Sound(h) /\ Same(h, form[r]) /\ h.pc = "deleteDisks"
      BY <1>2, <1>3, <3>1, DroppedForm
    <3> HIDE DEF h
    <3> QED
      BY <3>0, <3>2, BecomeSound DEF IInv
  <2>2. CASE ~last
    <3> DEFINE h == Again(form[r], d)
    <3>1. form[r].tries[d] + 1 # MaxTries
      BY <1>1, <2>2 DEF LastTry
    <3>2. Sound(h) /\ Same(h, form[r]) /\ h.pc = form[r].pc
      BY <1>2, <1>3, <3>1, AgainForm
    <3>3. Become(r, h)
      BY <1>1, <2>2 DEF Again
    <3> HIDE DEF h
    <3> QED
      BY <1>2, <3>2, <3>3, BecomeSound DEF IInv
  <2> QED
    BY <2>1, <2>2
<1>6. ~crossed' => Owned'
  <2>1. CASE gone
    BY <1>1, <1>2, <1>5, <2>1, RemovedKeeps
  <2>2. CASE ~gone
    <3>1. Calm(r)
      BY <1>2, <1>5 DEF Calm, Made
    <3> QED
      BY <1>1, <1>2, <2>2, <3>1, CalmKeeps DEF IInv
  <2> QED
    BY <2>1, <2>2
<1> QED
  BY <1>4, <1>5, <1>6 DEF IInv

-----------------------------------------------------------------------------
LEMMA StepIInv == IInv /\ [Next]_vars => IInv'
<1> SUFFICES ASSUME IInv, [Next]_vars PROVE IInv'
    OBVIOUS
<1>1. CASE UNCHANGED vars
  BY <1>1 DEF vars, IInv, OthersOK, FormsOK, Owned, PoolsStand, PoolsApart, MadeStand, MadeFree,
              MadeApart, DoomedOwn, LeftoverOwn, Live, Made, Doomed, Leftover
<1>2. ASSUME NEW r \in Run, OpenForm(r) \/ Submit(r) PROVE IInv'
  BY <1>2, OpenFormKeeps, SubmitKeeps
<1>3. ASSUME NEW r \in Run, Step(r) PROVE IInv'
  BY <1>3, TestRegistryKeeps, SetUpKeeps, MakeGroupKeeps, AllowKeeps, DeleteFSKeeps, SettleKeeps,
     MakeDiskKeeps, RefuseDiskKeeps, DeleteDiskKeeps, RejectDiskKeeps DEF Step
<1>4. ASSUME NEW d \in Device, MakeLate(d) PROVE IInv'
  BY <1>4, MakeLateKeeps
<1>5. ASSUME NEW g \in Group, Finalize(g) PROVE IInv'
  BY <1>5, FinalizeKeeps
<1> QED
  BY <1>1, <1>2, <1>3, <1>4, <1>5 DEF Next

-----------------------------------------------------------------------------
(* What a deletion knows to be gone.                                       *)

Accounted(r) ==
    form[r].kind = "delete" /\ form[r].pc # "none" =>
        /\ form[r].picked \subseteq localDisks \cup absent[r]
        /\ form[r].pc = "deleteDisks" =>
              form[r].picked \subseteq form[r].left \cup form[r].kept \cup absent[r]
        /\ form[r].pc = "closed" => form[r].picked \subseteq absent[r]

GInv == IInv /\ \A r \in Run : Accounted(r)

LEMMA InitGInv == Init => GInv
<1> SUFFICES ASSUME Init PROVE GInv
    OBVIOUS
<1>1. \A r \in Run : form[r] = Unopened
  BY DEF Init
<1> QED
  BY <1>1, InitIInv, UnopenedForm DEF GInv, Accounted

\* No LocalDisk goes unnoticed.
LEMMA Noticed ==
    ASSUME IInv, [Next]_vars, NEW q \in Run, form[q].pc # "none"
    PROVE  absent[q] \subseteq absent'[q] /\ localDisks \subseteq localDisks' \cup absent'[q]
<1>1. ASSUME NEW r \in Run, NEW d \in Device, Removed(r, d)
      PROVE  absent[q] \subseteq absent'[q] /\ localDisks \subseteq localDisks' \cup absent'[q]
  BY <1>1 DEF IInv, OthersOK, Removed
<1>2. ASSUME NEW r \in Run, OpenForm(r)
      PROVE  absent'[q] = absent[q] /\ localDisks' = localDisks
  <2>1. PICK k \in Kinds, g \in Group, D \in SUBSET Device : Open(r, k, g, D)
    BY <1>2 DEF IInv, OthersOK, OpenForm, OpenCreate, OpenExpand, OpenDelete, Kinds, Free
  <2> QED
    BY <2>1 DEF IInv, OthersOK, Open
<1>3. CASE absent' = absent /\ localDisks \subseteq localDisks'
  BY <1>3
<1>4. CASE UNCHANGED vars
  BY <1>4 DEF vars
<1>5. ASSUME NEW r \in Run, \/ Submit(r) \/ TestRegistry(r) \/ SetUp(r) \/ MakeGroup(r)
                            \/ Allow(r) \/ DeleteFS(r) \/ Settle(r)
      PROVE  absent' = absent /\ localDisks' = localDisks
  BY <1>5 DEF Submit, TestRegistry, SetUp, MakeGroup, Allow, DeleteFS, Settle
<1>6. ASSUME NEW r \in Run, NEW d \in Device, MakeDisk(r, d) \/ RefuseDisk(r, d) \/ MakeLate(d)
      PROVE  absent' = absent /\ localDisks \subseteq localDisks'
  BY <1>6 DEF MakeDisk, RefuseDisk, MakeLate
<1>7. ASSUME NEW r \in Run, NEW d \in Device, DeleteDisk(r, d) \/ RejectDisk(r, d)
      PROVE  Removed(r, d) \/ (absent' = absent /\ localDisks' = localDisks)
  BY <1>7 DEF DeleteDisk, RejectDisk
<1>8. ASSUME NEW g \in Group, Finalize(g)
      PROVE  absent' = absent /\ localDisks' = localDisks
  BY <1>8 DEF Finalize
<1> QED
  BY <1>1, <1>2, <1>3, <1>4, <1>5, <1>6, <1>7, <1>8 DEF Next, Step

\* A form that did nothing stays accounted for.
LEMMA StillAccounted ==
    ASSUME GInv, [Next]_vars, NEW q \in Run, form'[q] = form[q]
    PROVE  Accounted(q)'
<1>1. CASE form[q].pc = "none"
  BY <1>1 DEF Accounted
<1>2. CASE form[q].pc # "none"
  <2>1. absent[q] \subseteq absent'[q] /\ localDisks \subseteq localDisks' \cup absent'[q]
    BY <1>2, Noticed DEF GInv
  <2> QED
    BY <2>1 DEF GInv, Accounted
<1> QED
  BY <1>1, <1>2

\* So does one that goes on, neither deleting nor closed.
LEMMA GoesOn ==
    ASSUME GInv, [Next]_vars, NEW r \in Run, form[r].pc # "none", Same(form'[r], form[r]),
           form[r].kind = "delete" => form'[r].pc \notin {"deleteDisks", "closed"}
    PROVE  Accounted(r)'
<1>1. absent[r] \subseteq absent'[r] /\ localDisks \subseteq localDisks' \cup absent'[r]
  BY Noticed DEF GInv
<1> QED
  BY <1>1 DEF GInv, Accounted, Same

LEMMA OpenAccounted ==
    ASSUME GInv, [Next]_vars, NEW r \in Run, OpenForm(r)
    PROVE  \A q \in Run : Accounted(q)'
<1>1. PICK k \in Kinds, g \in Group, D \in SUBSET Device : Open(r, k, g, D)
  BY DEF GInv, IInv, OthersOK, OpenForm, OpenCreate, OpenExpand, OpenDelete, Kinds, Free
<1>2. Become(r, Opened(k, g, D)) /\ Sound(Opened(k, g, D))
  BY <1>1, OpenForms DEF Open, Opened
<1>3. form'[r] = Opened(k, g, D) /\ \A q \in Run \ {r} : form'[q] = form[q]
  BY <1>2, BecomeSound DEF GInv, IInv
<1>4. form'[r].picked = D /\ form'[r].pc = "form"
  BY <1>3, OpenForms
<1>5. Free \subseteq absent'[r] /\ localDisks' = localDisks
  BY <1>1 DEF GInv, IInv, OthersOK, Open
<1>6. Accounted(r)'
  BY <1>4, <1>5 DEF Accounted, Free
<1> QED
  BY <1>3, <1>6, StillAccounted

\* Deleting begins with all the disks that the modal was opened for.
LEMMA DeleteFSAccounted ==
    ASSUME GInv, [Next]_vars, NEW r \in Run, DeleteFS(r)
    PROVE  \A q \in Run : Accounted(q)'
<1>1. Sound(form[r]) /\ form[r].pc = "delete"
  BY DEF GInv, IInv, FormsOK, DeleteFS
<1>2. CASE Fail(r)
  BY <1>1, <1>2, FailCalm, GoesOn, StillAccounted DEF GInv, IInv, Calm
<1>3. CASE ~Fail(r)
  <2> DEFINE h == [form[r] EXCEPT !.pc = "deleteDisks", !.left = form[r].picked, !.kept = {},
                                  !.tries = Unopened.tries]
  <2>1. Sound(h) /\ Same(h, form[r]) /\ h.pc = "deleteDisks" /\ h.left = form[r].picked
    BY <1>1, DeletingForm
  <2>2. Become(r, h) /\ absent' = absent /\ localDisks' = localDisks
    BY <1>3 DEF DeleteFS
  <2> HIDE DEF h
  <2>3. form'[r] = h /\ \A q \in Run \ {r} : form'[q] = form[q]
    BY <2>1, <2>2, BecomeSound DEF GInv, IInv
  <2>4. Accounted(r)'
    BY <1>1, <2>1, <2>2, <2>3 DEF GInv, Accounted, Same
  <2> QED
    BY <2>3, <2>4, StillAccounted
<1> QED
  BY <1>2, <1>3

\* A disk is struck off when it is gone, or kept as a failure.
LEMMA StruckOff ==
    ASSUME GInv, [Next]_vars, NEW r \in Run, NEW d, form[r].pc = "deleteDisks",
           Same(form'[r], form[r]), form'[r].pc = "deleteDisks",
           form[r].left \subseteq form'[r].left \cup {d}, form[r].kept \subseteq form'[r].kept,
           d \in form'[r].left \cup form'[r].kept \cup absent'[r] \/ d \notin form[r].picked
    PROVE  Accounted(r)'
<1>1. absent[r] \subseteq absent'[r] /\ localDisks \subseteq localDisks' \cup absent'[r]
  BY Noticed DEF GInv
<1>2. form[r].kind = "delete"
  BY DEF GInv, IInv, FormsOK, Sound
<1>3. /\ form[r].picked \subseteq localDisks \cup absent[r]
      /\ form[r].picked \subseteq form[r].left \cup form[r].kept \cup absent[r]
  BY <1>2 DEF GInv, Accounted
<1>4. form'[r].picked = form[r].picked
  BY DEF Same
<1> QED
  BY <1>1, <1>3, <1>4 DEF Accounted

LEMMA DeleteDiskAccounted ==
    ASSUME GInv, [Next]_vars, NEW r \in Run, NEW d \in Device, DeleteDisk(r, d)
    PROVE  \A q \in Run : Accounted(q)'
<1> DEFINE h == [form[r] EXCEPT !.left = @ \ {d}]
<1>1. Sound(h) /\ Same(h, form[r]) /\ h.pc = "deleteDisks"
      /\ h.left = form[r].left \ {d} /\ h.kept = form[r].kept
  BY GoneForm DEF GInv, IInv, FormsOK, DeleteDisk
<1>2. Become(r, h) /\ form[r].pc = "deleteDisks"
  BY DEF DeleteDisk
<1> HIDE DEF h
<1>3. form'[r] = h /\ \A q \in Run \ {r} : form'[q] = form[q]
  BY <1>1, <1>2, BecomeSound DEF GInv, IInv
<1>4. d \in absent'[r]
  BY DEF GInv, IInv, OthersOK, DeleteDisk, Removed
<1>5. Accounted(r)'
  BY <1>1, <1>2, <1>3, <1>4, StruckOff
<1> QED
  BY <1>3, <1>5, StillAccounted

LEMMA RejectDiskAccounted ==
    ASSUME GInv, [Next]_vars, NEW r \in Run, NEW d \in Device, RejectDisk(r, d)
    PROVE  \A q \in Run : Accounted(q)'
<1>1. PICK fault \in BOOLEAN, gone \in BOOLEAN, last \in BOOLEAN :
        /\ ~fault => ~gone
        /\ IF gone THEN Removed(r, d) ELSE UNCHANGED <<localDisks, away, absent, crossed>>
        /\ LastTry(r, d) => last
        /\ IF last
           THEN Become(r, [form[r] EXCEPT !.left = @ \ {d},
                                          !.kept = IF Failure(d, fault) THEN @ \cup {d} ELSE @])
           ELSE Become(r, [form[r] EXCEPT !.tries[d] = @ + 1])
  BY DEF RejectDisk
<1>2. form[r].pc = "deleteDisks" /\ d \in form[r].left /\ Sound(form[r])
  BY DEF GInv, IInv, FormsOK, RejectDisk
<1>3. CASE last
  <2> DEFINE K == IF Failure(d, fault) THEN form[r].kept \cup {d} ELSE form[r].kept
             h == [form[r] EXCEPT !.left = @ \ {d}, !.kept = K]
  <2>1. Become(r, h)
    BY <1>1, <1>3
  <2>2. K \in SUBSET form[r].picked /\ form[r].kept \subseteq K
    BY <1>2 DEF Sound
  <2>3. d \in K \/ d \in absent[r] \/ d \notin form[r].picked \/ form[r].kind # "delete"
    BY <1>2 DEF GInv, Accounted, Failure
  <2> HIDE DEF K
  <2>4. Sound(h) /\ Same(h, form[r]) /\ h.pc = "deleteDisks"
    BY <1>2, <2>2, DroppedForm
  <2>5. h.left = form[r].left \ {d} /\ h.kept = K
    BY <1>2 DEF Sound, Forms
  <2> HIDE DEF h
  <2>6. form'[r] = h /\ \A q \in Run \ {r} : form'[q] = form[q]
    BY <2>1, <2>4, BecomeSound DEF GInv, IInv
  <2>7. absent[r] \subseteq absent'[r]
    BY <1>2, Noticed DEF GInv
  <2>8. form[r].kind = "delete"
    BY <1>2 DEF Sound
  <2>9. Accounted(r)'
    BY <1>2, <2>2, <2>3, <2>4, <2>5, <2>6, <2>7, <2>8, StruckOff
  <2> QED
    BY <2>6, <2>9, StillAccounted
<1>4. CASE ~last
  <2> DEFINE h == Again(form[r], d)
  <2>1. form[r].tries[d] + 1 # MaxTries
    BY <1>1, <1>4 DEF LastTry
  <2>2. Sound(h) /\ Same(h, form[r]) /\ h.pc = form[r].pc /\ h.left = form[r].left
    BY <1>2, <2>1, AgainForm
  <2>3. h.kept = form[r].kept
    BY <1>2 DEF Again, Sound, Forms
  <2>4. Become(r, h)
    BY <1>1, <1>4 DEF Again
  <2> HIDE DEF h
  <2>5. form'[r] = h /\ \A q \in Run \ {r} : form'[q] = form[q]
    BY <2>2, <2>4, BecomeSound DEF GInv, IInv
  <2>6. Accounted(r)'
    BY <1>2, <2>2, <2>3, <2>5, StruckOff
  <2> QED
    BY <2>5, <2>6, StillAccounted
<1> QED
  BY <1>3, <1>4

\* The modal closes when nothing is left to be done and nothing was kept.
LEMMA SettleAccounted ==
    ASSUME GInv, [Next]_vars, NEW r \in Run, Settle(r)
    PROVE  \A q \in Run : Accounted(q)'
<1>1. form[r].pc = "deleteDisks" /\ form[r].left = {} /\ absent' = absent
  BY DEF Settle
<1>2. CASE form[r].kept # {}
  BY <1>1, <1>2, FailCalm, GoesOn, StillAccounted DEF GInv, IInv, Calm, Settle
<1>3. CASE form[r].kept = {}
  <2>1. Calm(r) /\ form'[r].pc = "closed"
    BY <1>1, <1>3, CloseCalm DEF GInv, IInv, Settle
  <2>2. Accounted(r)'
    BY <1>1, <1>3, <2>1 DEF GInv, Accounted, Calm, Same
  <2> QED
    BY <2>1, <2>2, StillAccounted DEF Calm
<1> QED
  BY <1>2, <1>3

LEMMA StepGInv == GInv /\ [Next]_vars => GInv'
<1> SUFFICES ASSUME GInv, [Next]_vars PROVE \A q \in Run : Accounted(q)'
    BY StepIInv DEF GInv
<1>1. CASE UNCHANGED vars
  BY <1>1, StillAccounted DEF vars
<1>2. ASSUME NEW r \in Run, Submit(r) \/ TestRegistry(r) \/ SetUp(r) \/ Allow(r)
      PROVE  \A q \in Run : Accounted(q)'
  <2>1. Calm(r) /\ (form[r].kind = "delete" => form'[r].pc \notin {"deleteDisks", "closed"})
    BY <1>2, SubmitCalm, TestRegistryCalm, SetUpCalm, AllowCalm DEF GInv
  <2> QED
    BY <2>1, GoesOn, StillAccounted DEF Calm
<1>3. ASSUME NEW r \in Run, NEW d \in Device, RefuseDisk(r, d) PROVE \A q \in Run : Accounted(q)'
  <2>1. Calm(r) /\ form'[r].pc = "form"
    BY <1>3, FailCalm DEF GInv, IInv, RefuseDisk
  <2> QED
    BY <2>1, GoesOn, StillAccounted DEF Calm
<1>4. ASSUME NEW r \in Run, NEW d \in Device, MakeDisk(r, d) PROVE \A q \in Run : Accounted(q)'
  <2> DEFINE h == [form[r] EXCEPT !.left = @ \ {d},
                                  !.pc = IF form[r].left = {d} THEN "group" ELSE "disks"]
  <2>1. Sound(h) /\ Same(h, form[r]) /\ h.pc \in {"disks", "group"}
    BY <1>4, MadeForm DEF GInv, IInv, FormsOK, MakeDisk
  <2>2. Become(r, h) /\ form[r].pc = "disks"
    BY <1>4 DEF MakeDisk
  <2> HIDE DEF h
  <2>3. form'[r] = h /\ \A q \in Run \ {r} : form'[q] = form[q]
    BY <2>1, <2>2, BecomeSound DEF GInv, IInv
  <2> QED
    BY <2>1, <2>2, <2>3, GoesOn, StillAccounted
<1>5. ASSUME NEW r \in Run, MakeGroup(r) PROVE \A q \in Run : Accounted(q)'
  <2>1. Calm(r) /\ form[r].kind # "delete"
    BY <1>5, FailCalm, CloseCalm DEF GInv, IInv, FormsOK, Sound, MakeGroup
  <2> QED
    BY <2>1, GoesOn, StillAccounted DEF Calm
<1>6. ASSUME form' = form PROVE \A q \in Run : Accounted(q)'
  BY <1>6, StillAccounted
<1>7. ASSUME NEW r \in Run, Step(r) PROVE \A q \in Run : Accounted(q)'
  BY <1>2, <1>3, <1>4, <1>5, <1>7, DeleteFSAccounted, SettleAccounted,
     DeleteDiskAccounted, RejectDiskAccounted DEF Step
<1> QED
  BY <1>1, <1>2, <1>6, <1>7, OpenAccounted DEF Next, MakeLate, Finalize

\* Every variable stays in its set and a form works on what was picked in it,
\* whatever forms are at work: of CreateSANSystem, AddLunGroupModal and
\* DeleteLUNModal.
THEOREM TypeCorrect == Spec => []TypeOK
<1>1. Spec => []IInv
  BY InitIInv, StepIInv, PTL DEF Spec
<1> QED
  BY <1>1, Types, PTL

\* A group keeps its disks and shares none, for any number of forms, devices,
\* attempts and faults: as long as no deletion by name has met a successor of its
\* disk, no createLocalDisks that is refused or half made, no expansion and no
\* deleteFileSystem takes a LocalDisk from a group that stands.
THEOREM DisksKept == Spec => []GroupsKeepTheirDisks
<1>1. IInv => GroupsKeepTheirDisks
  BY DEF IInv, Owned, PoolsStand, PoolsApart, GroupsKeepTheirDisks
<1>2. Spec => []IInv
  BY InitIInv, StepIInv, PTL DEF Spec
<1> QED
  BY <1>1, <1>2, PTL

\* The modal that deletes a group closes only when each of its LocalDisks has been
\* away, those it was opened for, for any number of attempts, faults and other forms:
\* a deleteFileSystem that left one of them behind shows an error.
THEOREM NothingLeftBehind == Spec => []ClosedMeansGone
<1>1. GInv => ClosedMeansGone
  BY DEF GInv, Accounted, ClosedMeansGone
<1>2. Spec => []GInv
  BY InitGInv, StepGInv, PTL DEF Spec
<1> QED
  BY <1>1, <1>2, PTL
=============================================================================

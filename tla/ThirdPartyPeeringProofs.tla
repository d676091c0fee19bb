------------------------ MODULE ThirdPartyPeeringProofs ------------------------
(***************************************************************************)
(* Proofs about ThirdPartyPeering, for any clusters, profile names, clicks,*)
(* faults and changes of the pair: the type invariant, that a DRCluster    *)
(* comes after its profile and Secret, that a DRPolicy reported as created *)
(* stands on two backed clusters, that a failed run is taken back, and that*)
(* every step of a run brings it nearer to its end.                        *)
(***************************************************************************)
EXTENDS ThirdPartyPeering, FiniteSetTheorems, TLAPS

USE NoneAssumption, BoundAssumption

-----------------------------------------------------------------------------
(* What a call does to the hub, and a record to what was created.          *)

WithSecret(h, c, n) == [h EXCEPT !.secret = @ \cup {<<c, n>>}]
WithoutSecret(h, s) == [h EXCEPT !.secret = @ \ {s}]
WithProfile(h, n, c) == [h EXCEPT !.profile[n] = c]
WithDRCluster(h, c, n) == [h EXCEPT !.drCluster[c] = n]
WithPolicy(h, P) == [h EXCEPT !.policy = P]
WithoutDRCluster(h, c) == [h EXCEPT !.drCluster[c] = None, !.dying = @ \ {c}]

LEMMA SecretHub ==
    ASSUME NEW h \in Hub, NEW c \in Cluster, NEW n \in Name
    PROVE  LET k == WithSecret(h, c, n) IN
           /\ k \in Hub /\ k.drCluster = h.drCluster /\ k.dying = h.dying
           /\ k.profile = h.profile /\ k.secret = h.secret \cup {<<c, n>>} /\ k.policy = h.policy
BY DEF Hub, WithSecret

LEMMA NoSecretHub ==
    ASSUME NEW h \in Hub, NEW s
    PROVE  LET k == WithoutSecret(h, s) IN
           /\ k \in Hub /\ k.drCluster = h.drCluster /\ k.dying = h.dying
           /\ k.profile = h.profile /\ k.secret = h.secret \ {s} /\ k.policy = h.policy
BY DEF Hub, WithoutSecret

LEMMA ProfileHub ==
    ASSUME NEW h \in Hub, NEW n \in Name, NEW c \in Cluster \cup {None}
    PROVE  LET k == WithProfile(h, n, c) IN
           /\ k \in Hub /\ k.drCluster = h.drCluster /\ k.dying = h.dying
           /\ k.profile = [h.profile EXCEPT ![n] = c] /\ k.secret = h.secret /\ k.policy = h.policy
<1>1. [h.profile EXCEPT ![n] = c] \in [Name -> Cluster \cup {None}]
  BY DEF Hub
<1> QED BY <1>1 DEF Hub, WithProfile

LEMMA DRClusterHub ==
    ASSUME NEW h \in Hub, NEW c \in Cluster, NEW n \in Name
    PROVE  LET k == WithDRCluster(h, c, n) IN
           /\ k \in Hub /\ k.drCluster = [h.drCluster EXCEPT ![c] = n] /\ k.dying = h.dying
           /\ k.profile = h.profile /\ k.secret = h.secret /\ k.policy = h.policy
<1>1. [h.drCluster EXCEPT ![c] = n] \in DRClusters
  BY DEF Hub, DRClusters
<1> QED BY <1>1 DEF Hub, WithDRCluster

LEMMA DeletedHub ==
    ASSUME NEW h \in Hub, NEW c \in Cluster
    PROVE  LET k == Deleted(h, c) IN
           /\ k \in Hub /\ k.drCluster = h.drCluster /\ k.dying = h.dying \cup {c}
           /\ k.profile = h.profile /\ k.secret = h.secret /\ k.policy = h.policy
BY DEF Hub, Deleted

LEMMA GoneHub ==
    ASSUME NEW h \in Hub, NEW c \in Cluster
    PROVE  LET k == WithoutDRCluster(h, c) IN
           /\ k \in Hub /\ k.drCluster = [h.drCluster EXCEPT ![c] = None]
           /\ k.dying = h.dying \ {c}
           /\ k.profile = h.profile /\ k.secret = h.secret /\ k.policy = h.policy
<1>1. [h.drCluster EXCEPT ![c] = None] \in DRClusters
  BY DEF Hub, DRClusters
<1> QED BY <1>1 DEF Hub, WithoutDRCluster

LEMMA PolicyHub ==
    ASSUME NEW h \in Hub, NEW P \in SUBSET Cluster
    PROVE  LET k == WithPolicy(h, P) IN
           /\ k \in Hub /\ k.drCluster = h.drCluster /\ k.dying = h.dying
           /\ k.profile = h.profile /\ k.secret = h.secret /\ k.policy = P
BY DEF Hub, WithPolicy

\* What is recorded, or struck off by the rollback.
LEMMA Recorded ==
    ASSUME NEW x \in Resources, NEW c \in Cluster, NEW n \in Name, NEW s
    PROVE  /\ [x EXCEPT !.secrets = @ \cup {<<c, n>>}] \in Resources
           /\ [x EXCEPT !.profiles = @ \cup {n}] \in Resources
           /\ [x EXCEPT !.drClusters = @ \cup {c}] \in Resources
           /\ [x EXCEPT !.secrets = @ \ {s}] \in Resources
           /\ [x EXCEPT !.profiles = @ \ {s}] \in Resources
           /\ [x EXCEPT !.drClusters = @ \ {s}] \in Resources
BY DEF Resources

LEMMA NothingRecorded == Nothing \in Resources
BY DEF Nothing, Resources

-----------------------------------------------------------------------------
(* The invariant.                                                          *)

AtCall == {"recreate", "secret", "profile", "drCluster"}
Looping == AtCall \cup {"cluster"}

\* The loop calls for a cluster that has details.
Named == pc \in AtCall => at \in 1..2 /\ HereName # None

\* A DRCluster is only deleted to be made anew under another name.
Recreated == pc = "recreate" => NeedsRecreate

\* What the calls before have written for this cluster.
Written ==
    /\ pc \in {"profile", "drCluster"} => <<Here, HereName>> \in hub.secret
    /\ pc = "drCluster" => hub.profile[HereName] = Here

DyingExist == \A c \in hub.dying : hub.drCluster[c] # None

\* A run from a sound start: each form is about its cluster, the names differ, ...
FormsApart ==
    sound /\ pc \in Looping => /\ \A i \in 1..2 : slot[i].cluster = pair[i] /\ slot[i].name # None
                               /\ slot[1].name # slot[2].name
\* ... the clusters that are done are backed, under their own names, ...
Done ==
    sound /\ pc \in Looping => \A i \in 1..2 : i < at =>
        Backed(hub, pair[i]) /\ hub.drCluster[pair[i]] = slot[i].name
\* ... and those to come are as the run has seen them, but for the one that it
\* has just deleted.
ToCome ==
    sound /\ pc \in Looping => \A i \in 1..2 : i >= at =>
        \/ hub.drCluster[pair[i]] = sel[pair[i]] /\ pair[i] \notin hub.dying
        \/ /\ i = at /\ pc \in {"secret", "profile", "drCluster"} /\ NeedsRecreate
           /\ hub.drCluster[pair[i]] \in {sel[pair[i]], None}

BothBacked == sound /\ pc \in {"policy", "created"} => \A i \in 1..2 : Backed(hub, pair[i])
PolicyThere == sound /\ pc = "created" => hub.policy = {pair[1], pair[2]}

SoundRun == FormsApart /\ Done /\ ToCome /\ BothBacked /\ PolicyThere

IInv == TypeOK /\ Named /\ Recreated /\ Written /\ DyingExist /\ SoundRun

\* The type invariant in three parts.
FormType == seen \in DRClusters /\ pair \in Pairs /\ slot \in [1..2 -> Details]
RunType ==
    /\ sel \in DRClusters /\ at \in 1..3
    /\ pc \in Running \cup Editing \cup {"created"}
    /\ created \in Resources /\ undo \in Resources
HistoryType ==
    /\ before \in Hub /\ {sound, lost, undoFailed} \subseteq BOOLEAN
    /\ submits \in Nat /\ faults \in Nat /\ selections \in Nat

LEMMA TypeParts == hub \in Hub /\ FormType /\ RunType /\ HistoryType <=> TypeOK
BY Zenon DEF TypeOK, FormType, RunType, HistoryType

LEMMA Names ==
    ASSUME TypeOK, Named
    PROVE  /\ \A c \in Cluster : DetailsFor(c) \in Name \cup {None}
           /\ \A i \in 1..2 : pair[i] \in Cluster
           /\ pc \in AtCall => Here \in Cluster /\ HereName \in Name
BY DEF TypeOK, Named, DetailsFor, Details, Pairs, Here, HereName

LEMMA InitIInv == Init => IInv
<1> SUFFICES ASSUME Init PROVE IInv
    OBVIOUS
<1>1. hub \in Hub
  BY DEF Init, Hub, DRClusters
<1>2. FormType
  BY <1>1 DEF Init, FormType, Hub, Details, Blank
<1>3. RunType
  BY NothingRecorded DEF Init, RunType, NoView, DRClusters, Editing
<1>4. HistoryType
  BY <1>1 DEF Init, HistoryType
<1>5. Named /\ Recreated /\ Written /\ DyingExist /\ SoundRun
  BY DEF Init, Named, Recreated, Written, DyingExist, SoundRun, FormsApart, Done, ToCome, BothBacked,
         PolicyThere, AtCall, Looping
<1> QED BY <1>1, <1>2, <1>3, <1>4, <1>5, TypeParts DEF IInv

-----------------------------------------------------------------------------
(* Steps of the form, of the environment and of the rollback.              *)

\* Without a run there is nothing but types to keep.
LEMMA NoRun ==
    ASSUME pc' \in Editing \cup {"rollback"}
    PROVE  (Named /\ Recreated /\ Written /\ SoundRun)'
BY DEF Named, Recreated, Written, SoundRun, FormsApart, Done, ToCome, BothBacked, PolicyThere,
       AtCall, Looping, Editing

LEMMA EditKeeps ==
    ASSUME IInv, SelectClusters \/ EditDetails \/ UseSameConnection \/ PrefillDetails
    PROVE  IInv'
<1>1. Touch /\ UNCHANGED <<hub, seen, at, sel, created, undo, submits, faults>>
      /\ (selections' = selections \/ selections' = selections + 1)
  BY DEF SelectClusters, EditDetails, UseSameConnection, PrefillDetails, bounds
<1>2. pair' \in Pairs
  BY DEF IInv, TypeOK, SelectClusters, EditDetails, UseSameConnection, PrefillDetails
<1>3. slot' \in [1..2 -> Details]
  <2>1. CASE SelectClusters
    BY <2>1 DEF IInv, TypeOK, SelectClusters
  <2>2. CASE EditDetails
    <3>1. PICK i \in 1..2, n \in Name : slot' = [slot EXCEPT ![i] = [cluster |-> pair[i], name |-> n, filled |-> TRUE]]
      BY <2>2 DEF EditDetails
    <3>2. [cluster |-> pair[i], name |-> n, filled |-> TRUE] \in Details
      BY DEF IInv, TypeOK, Pairs, Details
    <3> QED BY <3>1, <3>2 DEF IInv, TypeOK
  <2>3. CASE UseSameConnection
    <3>1. slot \in [1..2 -> Details] /\ slot[2] \in Details /\ slot[1].filled \in BOOLEAN
          /\ pair[2] \in Cluster
      BY DEF IInv, TypeOK, Pairs, Details
    <3>2. \A b \in BOOLEAN : [slot[2] EXCEPT !.cluster = pair[2], !.filled = b] \in Details
      BY <3>1 DEF Details
    <3>3. slot' = [slot EXCEPT ![2] = [slot[2] EXCEPT !.cluster = pair[2], !.filled = slot[1].filled]]
      BY <2>3, <3>1 DEF UseSameConnection
    <3> QED BY <3>1, <3>2, <3>3
  <2>4. CASE PrefillDetails
    <3>1. \A i \in 1..2 : [cluster |-> pair[i], name |-> seen[pair[i]], filled |-> FALSE] \in Details
      BY DEF IInv, TypeOK, Pairs, Details, DRClusters
    <3> QED BY <2>4, <3>1 DEF IInv, TypeOK, PrefillDetails
  <2> QED BY <2>1, <2>2, <2>3, <2>4
<1>4. pc' \in Editing
  BY <1>1 DEF Touch, Editing
<1>5. FormType'
  BY <1>1, <1>2, <1>3 DEF IInv, TypeOK, FormType
<1>6. RunType'
  BY <1>1, <1>4 DEF IInv, TypeOK, RunType
<1>7. HistoryType'
  <2>1. {sound', lost', undoFailed'} \subseteq BOOLEAN
    BY <1>1, Zenon DEF Touch
  <2>2. before' \in Hub /\ submits' \in Nat /\ faults' \in Nat /\ selections' \in Nat
    BY <1>1 DEF IInv, TypeOK, Touch
  <2> QED BY <2>1, <2>2, Zenon DEF HistoryType
<1>8. TypeOK'
  BY <1>1, <1>5, <1>6, <1>7 DEF IInv, TypeOK, FormType, RunType, HistoryType
<1> QED BY <1>1, <1>4, <1>8, NoRun DEF IInv, DyingExist

LEMMA ReopenKeeps == ASSUME IInv, Reopen PROVE IInv'
<1>1. slot' \in [1..2 -> Details]
  BY DEF Reopen, Blank, Details
<1>2. RunType'
  BY NothingRecorded DEF Reopen, Return, RunType, NoView, DRClusters, Editing
<1>3. hub' \in Hub /\ FormType' /\ HistoryType'
  BY <1>1 DEF IInv, TypeOK, Reopen, bounds, FormType, HistoryType, Hub
<1>4. pc' \in Editing /\ hub' = hub
  BY DEF Reopen, Return, Editing
<1>5. TypeOK'
  BY <1>2, <1>3 DEF TypeOK, FormType, RunType, HistoryType
<1> QED BY <1>4, <1>5, NoRun DEF IInv, DyingExist

LEMMA WatchKeeps == ASSUME IInv, WatchDelivers PROVE IInv'
<1>1. TypeOK'
  BY DEF IInv, TypeOK, WatchDelivers, history, bounds, Hub
<1>2. UNCHANGED <<hub, pair, slot, pc, at, sel, sound>>
  BY DEF WatchDelivers, history
<1>3. (Named /\ Recreated /\ Written /\ DyingExist /\ SoundRun)'
  BY <1>2 DEF IInv, Named, Recreated, Written, DyingExist, SoundRun, FormsApart, Done, ToCome, BothBacked,
     PolicyThere, Here, HereName, DetailsFor, NeedsRecreate
<1> QED BY <1>1, <1>3 DEF IInv

LEMMA FinalizeKeeps == ASSUME IInv, FinalizeDRCluster PROVE IInv'
<1>1. PICK c \in hub.dying : hub' = WithoutDRCluster(hub, c)
  BY DEF FinalizeDRCluster, WithoutDRCluster
<1>2. c \in Cluster /\ hub \in Hub
  BY DEF IInv, TypeOK, Hub
<1>3. /\ hub' \in Hub /\ hub'.drCluster = [hub.drCluster EXCEPT ![c] = None]
      /\ hub'.dying = hub.dying \ {c}
      /\ hub'.profile = hub.profile /\ hub'.secret = hub.secret /\ hub'.policy = hub.policy
  BY <1>1, <1>2, GoneHub
<1>4. UNCHANGED <<wizard, pc, at, sel, created, undo, history, bounds>>
  BY DEF FinalizeDRCluster
<1>5. TypeOK'
  BY <1>3, <1>4 DEF IInv, TypeOK, wizard, history, bounds
<1>6. \A d \in Cluster \ {c} : hub'.drCluster[d] = hub.drCluster[d] /\ (d \in hub'.dying <=> d \in hub.dying)
  BY <1>2, <1>3 DEF Hub, DRClusters
<1>7. hub'.drCluster[c] = None
  BY <1>2, <1>3 DEF Hub, DRClusters
<1>8. (Named /\ Recreated /\ Written /\ DyingExist)'
  BY <1>2, <1>3, <1>4, <1>6 DEF IInv, Named, Recreated, NeedsRecreate, Written, DyingExist, Here, HereName, DetailsFor, wizard, Hub
<1>9. \A d \in Cluster : Backed(hub, d) => Backed(hub, d)'
  BY <1>2, <1>3, <1>6 DEF Backed
<1>10. (FormsApart /\ Done /\ BothBacked /\ PolicyThere)'
  BY <1>2, <1>3, <1>4, <1>6, <1>9, Names
     DEF IInv, SoundRun, FormsApart, Done, BothBacked, PolicyThere, Backed, wizard, history
<1>11. ToCome'
  BY <1>2, <1>3, <1>4, <1>6, <1>7, Names
     DEF IInv, SoundRun, ToCome, NeedsRecreate, Here, HereName, DetailsFor, wizard, history
<1> QED BY <1>5, <1>8, <1>10, <1>11 DEF IInv, SoundRun

\* A call that is answered, and what is recorded of it.
LEMMA CallType ==
    ASSUME TypeOK, NEW eff \in Hub, Answered(eff),
           created' \in Resources, undo' \in Resources, at' \in 1..3, sel' \in DRClusters,
           pc' \in Running \cup Editing \cup {"created"}, undoFailed' \in BOOLEAN,
           UNCHANGED <<wizard, before, sound, submits, selections>>
    PROVE  TypeOK'
<1>1. hub' \in Hub /\ FormType' /\ RunType'
  BY DEF TypeOK, Answered, wizard, FormType, RunType
<1>2. {sound', lost', undoFailed'} \subseteq BOOLEAN
  BY Zenon DEF TypeOK, Answered
<1>3. before' \in Hub /\ submits' \in Nat /\ faults' \in Nat /\ selections' \in Nat
  BY DEF TypeOK, Answered
<1> QED BY <1>1, <1>2, <1>3, Zenon DEF TypeOK, FormType, RunType

\* A call that is rejected, with its effect or without.
LEMMA RejectedType ==
    ASSUME TypeOK, NEW eff \in Hub, Rejected(eff),
           created' \in Resources, undo' \in Resources, at' = at, sel' = sel,
           pc' = "rollback", undoFailed' \in BOOLEAN,
           UNCHANGED <<wizard, before, sound, submits, selections>>
    PROVE  TypeOK'
<1>1. hub' \in Hub /\ FormType' /\ RunType'
  BY DEF TypeOK, Rejected, wizard, FormType, RunType, Running
<1>2. lost' \in BOOLEAN
  BY Zenon DEF TypeOK, Rejected
<1>3. {sound', lost', undoFailed'} \subseteq BOOLEAN
  BY <1>2, Zenon DEF TypeOK
<1>4. before' \in Hub /\ submits' \in Nat /\ faults' \in Nat /\ selections' \in Nat
  BY DEF TypeOK, Rejected
<1> QED BY <1>1, <1>3, <1>4, Zenon DEF TypeOK, FormType, RunType

\* The catch block, after a call that was rejected or refused.
LEMMA FailKeeps ==
    ASSUME IInv, NEW eff \in Hub, Rejected(eff) \/ (Answered(hub) /\ eff = hub), Fail,
           \A c \in eff.dying : eff.drCluster[c] # None,
           UNCHANGED <<wizard, at, sel, before, sound, undoFailed, submits, selections>>
    PROVE  IInv'
<1>1. TypeOK /\ created' \in Resources /\ undo' \in Resources /\ pc' = "rollback" /\ pc' \in Running
  BY DEF IInv, TypeOK, Fail, Running
<1>2. undoFailed' \in BOOLEAN
  BY Zenon DEF IInv, TypeOK
<1>3. TypeOK'
  <2>1. CASE Rejected(eff)
    BY <1>1, <1>2, <2>1, RejectedType
  <2>2. CASE Answered(hub) /\ eff = hub
    BY <1>1, <1>2, <2>2, CallType DEF TypeOK
  <2> QED BY <2>1, <2>2
<1>4. DyingExist'
  BY DEF IInv, DyingExist, Rejected, Answered
<1> QED BY <1>1, <1>3, <1>4, NoRun DEF IInv

LEMMA ReportKeeps == ASSUME IInv, ReportFailure PROVE IInv'
<1>1. pc' = "failed" /\ pc' \in Editing /\ UNCHANGED <<hub, wizard, history, bounds>>
  BY DEF ReportFailure, Return, Editing
<1>2. RunType'
  BY NothingRecorded DEF ReportFailure, Return, RunType, NoView, DRClusters, Editing
<1>3. TypeOK'
  BY <1>1, <1>2 DEF IInv, TypeOK, RunType, wizard, history, bounds
<1> QED BY <1>1, <1>3, NoRun DEF IInv, DyingExist

\* A call of the rollback.
LEMMA SettleKeeps ==
    ASSUME IInv, NEW eff \in Hub, Settles(eff), pc' = "rollback", undo' \in Resources,
           \A c \in eff.dying : eff.drCluster[c] # None,
           UNCHANGED <<wizard, at, sel, created, before, sound, submits, selections>>
    PROVE  IInv'
<1>1. TypeOK /\ created' \in Resources /\ pc' \in Running
  BY DEF IInv, TypeOK, Running
<1>2. undoFailed' \in BOOLEAN
  BY Zenon DEF IInv, TypeOK, Settles
<1>3. TypeOK'
  <2>1. CASE Rejected(eff)
    BY <1>1, <1>2, <2>1, RejectedType
  <2>2. CASE Answered(eff)
    BY <1>1, <1>2, <2>2, CallType DEF TypeOK
  <2> QED BY <2>1, <2>2 DEF Settles
<1>4. DyingExist'
  BY DEF IInv, DyingExist, Settles, Rejected, Answered
<1> QED BY <1>3, <1>4, NoRun DEF IInv

LEMMA RollbackKeeps == ASSUME IInv, UndoDRCluster \/ UndoProfile \/ UndoSecret PROVE IInv'
<1>1. hub \in Hub /\ undo \in Resources /\ DyingExist
  BY DEF IInv, TypeOK
<1>2. CASE UndoDRCluster
  <2>1. PICK c \in undo.drClusters :
          /\ undo' = [undo EXCEPT !.drClusters = @ \ {c}]
          /\ Settles(IF hub.drCluster[c] = None THEN hub ELSE Deleted(hub, c))
    BY <1>2 DEF UndoDRCluster
  <2> DEFINE eff == IF hub.drCluster[c] = None THEN hub ELSE Deleted(hub, c)
  <2>2. c \in Cluster
    BY <1>1 DEF Resources
  <2>3. undo' \in Resources
    BY <1>1, <2>1 DEF Resources
  <2>4. eff \in Hub /\ \A d \in eff.dying : eff.drCluster[d] # None
    BY <1>1, <2>2, DeletedHub DEF DyingExist
  <2>5. Settles(eff)
    BY <2>1
  <2> HIDE DEF eff
  <2> QED BY <1>2, <2>3, <2>4, <2>5, SettleKeeps DEF UndoDRCluster
<1>3. CASE UndoProfile
  <2>1. PICK n \in undo.profiles :
          undo' = [undo EXCEPT !.profiles = @ \ {n}] /\ Settles(WithProfile(hub, n, None))
    BY <1>3 DEF UndoProfile, WithProfile
  <2>2. n \in Name /\ undo' \in Resources
    BY <1>1, <2>1 DEF Resources
  <2>3. WithProfile(hub, n, None) \in Hub
        /\ \A d \in WithProfile(hub, n, None).dying : WithProfile(hub, n, None).drCluster[d] # None
    <3>1. hub \in Hub /\ n \in Name /\ None \in Cluster \cup {None}
      BY <1>1, <2>2
    <3>2. WithProfile(hub, n, None) \in Hub /\ WithProfile(hub, n, None).drCluster = hub.drCluster
          /\ WithProfile(hub, n, None).dying = hub.dying
      BY <3>1, ProfileHub
    <3> QED BY <1>1, <3>2 DEF DyingExist
  <2> QED BY <1>3, <2>1, <2>2, <2>3, SettleKeeps DEF UndoProfile
<1>4. CASE UndoSecret
  <2>1. PICK s \in undo.secrets :
          undo' = [undo EXCEPT !.secrets = @ \ {s}] /\ Settles(WithoutSecret(hub, s))
    BY <1>4 DEF UndoSecret, WithoutSecret
  <2>2. undo' \in Resources
    BY <1>1, <2>1 DEF Resources
  <2>3. WithoutSecret(hub, s) \in Hub
        /\ \A d \in WithoutSecret(hub, s).dying : WithoutSecret(hub, s).drCluster[d] # None
    BY <1>1, NoSecretHub DEF DyingExist
  <2> QED BY <1>4, <2>1, <2>2, <2>3, SettleKeeps DEF UndoSecret
<1> QED BY <1>2, <1>3, <1>4

-----------------------------------------------------------------------------
(* Steps of the run.                                                       *)

\* From a sound start with valid inputs, either both clusters are backed or both
\* forms are filled in, with different names.
LEMMA SubmitKeeps == ASSUME IInv, Submit PROVE IInv'
<1>1. UNCHANGED <<hub, wizard, faults, selections>> /\ sel' = seen /\ at' = 1 /\ sound' = SoundStart
  BY DEF Submit
<1>2. pc' \in {"policy", "cluster"}
  BY DEF Submit
<1>3. TypeOK'
  <2>1. FormType' /\ RunType'
    BY <1>1, <1>2, NothingRecorded DEF IInv, TypeOK, Submit, wizard, FormType, RunType, Running
  <2>2. sound' \in BOOLEAN
    BY <1>1, Zenon DEF SoundStart
  <2>3. {sound', lost', undoFailed'} \subseteq BOOLEAN
    BY <2>2, Zenon DEF Submit
  <2>4. hub' \in Hub /\ before' \in Hub /\ submits' \in Nat /\ faults' \in Nat /\ selections' \in Nat
    BY DEF IInv, TypeOK, Submit
  <2> QED BY <2>1, <2>3, <2>4, Zenon DEF TypeOK, FormType, RunType
<1>4. (Named /\ Recreated /\ Written /\ DyingExist)'
  BY <1>1, <1>2 DEF IInv, Named, Recreated, Written, DyingExist, AtCall
<1>5. \A i \in 1..2 : pair[i] \in Cluster
  BY DEF IInv, TypeOK, Pairs
<1>6. ASSUME SoundStart, ~AllDRClustersExist(seen)
      PROVE  /\ \A i \in 1..2 : slot[i].cluster = pair[i] /\ slot[i].name # None
             /\ slot[1].name # slot[2].name
             /\ \A i \in 1..2 : hub.drCluster[pair[i]] = seen[pair[i]] /\ pair[i] \notin hub.dying
  BY <1>6 DEF Submit, ValidInputs, SoundStart
<1>7. ASSUME SoundStart, AllDRClustersExist(seen) PROVE \A i \in 1..2 : Backed(hub, pair[i])
  BY <1>5, <1>7 DEF SoundStart, AllDRClustersExist
<1>8. pc' = IF AllDRClustersExist(seen) THEN "policy" ELSE "cluster"
  BY DEF Submit
<1>9. SoundRun'
  BY <1>1, <1>6, <1>7, <1>8
     DEF SoundRun, FormsApart, Done, ToCome, BothBacked, PolicyThere, Looping, AtCall, wizard, Backed
<1> QED BY <1>3, <1>4, <1>9 DEF IInv

LEMMA NextClusterKeeps == ASSUME IInv, NextCluster PROVE IInv'
<1>1. pc = "cluster" /\ UNCHANGED <<hub, wizard, sel, created, undo, history, bounds>>
  BY DEF NextCluster
<1>2. \/ at = 3 /\ pc' = "policy" /\ at' = at
      \/ at < 3 /\ HereName = None /\ at' = at + 1 /\ pc' = pc
      \/ at < 3 /\ HereName # None /\ at' = at /\ pc' = IF NeedsRecreate THEN "recreate" ELSE "secret"
  BY DEF NextCluster, Advance, FirstCall
<1>3. at \in 1..3 /\ at' \in 1..3 /\ pc' \in Running
  BY <1>1, <1>2 DEF IInv, TypeOK, Running
<1>4. TypeOK'
  BY <1>1, <1>3 DEF IInv, TypeOK, wizard, history, bounds
<1>5. (Named /\ Recreated /\ Written /\ DyingExist)'
  BY <1>1, <1>2, <1>3 DEF IInv, Named, Recreated, NeedsRecreate, Written, DyingExist, AtCall, HereName, Here, DetailsFor, wizard
<1>6. sound => (at < 3 => HereName # None)
  BY <1>1, <1>3 DEF IInv, TypeOK, Pairs, SoundRun, FormsApart, Looping, HereName, Here, DetailsFor
<1>7. (FormsApart /\ Done)'
  BY <1>1, <1>2, <1>3, <1>6
     DEF IInv, SoundRun, FormsApart, Done, Looping, AtCall, wizard, history, Backed
<1>8. ToCome'
  BY <1>1, <1>2, <1>3, <1>6
     DEF IInv, SoundRun, ToCome, Looping, AtCall, wizard, history, NeedsRecreate, HereName, Here, DetailsFor
<1>9. (BothBacked /\ PolicyThere)'
  BY <1>1, <1>2, <1>3 DEF IInv, SoundRun, Done, BothBacked, PolicyThere, Looping, wizard, history, Backed
<1> QED BY <1>4, <1>5, <1>7, <1>8, <1>9 DEF IInv, SoundRun

\* While a call of the loop is made, the form and the loop stand still.
LEMMA Stands ==
    ASSUME UNCHANGED <<wizard, at, sel>>
    PROVE  Here' = Here /\ HereName' = HereName /\ (NeedsRecreate' <=> NeedsRecreate)
BY DEF wizard, Here, HereName, DetailsFor, NeedsRecreate

\* From a sound start, the details for a cluster are those of its own form.
LEMMA OwnDetails ==
    ASSUME IInv, sound, pc \in Looping
    PROVE  \A i \in 1..2 : DetailsFor(pair[i]) = slot[i].name
BY DEF IInv, TypeOK, Pairs, SoundRun, FormsApart, DetailsFor

LEMMA RecreateKeeps == ASSUME IInv, RecreateDRCluster PROVE IInv'
<1>1. pc = "recreate" /\ UNCHANGED <<wizard, at, sel, before, sound, undoFailed, submits, selections>>
  BY DEF RecreateDRCluster
<1>2. TypeOK /\ hub \in Hub /\ Here \in Cluster /\ HereName \in Name /\ at \in 1..2
  BY <1>1, Names DEF IInv, TypeOK, AtCall, Named
<1>3. LET k == Deleted(hub, Here) IN
        /\ k \in Hub /\ k.drCluster = hub.drCluster /\ k.dying = hub.dying \cup {Here}
        /\ k.profile = hub.profile /\ k.secret = hub.secret /\ k.policy = hub.policy
  BY <1>2, DeletedHub
<1>4. CASE Fail
  <2>1. \E eff \in Hub : /\ Rejected(eff) \/ (Answered(hub) /\ eff = hub)
                         /\ \A c \in eff.dying : eff.drCluster[c] # None
    BY <1>2, <1>3, <1>4 DEF IInv, RecreateDRCluster, DyingExist, Fail
  <2> QED BY <1>1, <1>4, <2>1, FailKeeps
<1>5. CASE ~Fail
  <2>1. /\ hub.drCluster[Here] # None /\ Answered(Deleted(hub, Here))
        /\ pc' = "secret" /\ UNCHANGED <<created, undo>>
    BY <1>5 DEF RecreateDRCluster
  <2>2. TypeOK'
    BY <1>1, <1>2, <1>3, <2>1, CallType DEF TypeOK, Running
  <2>3. /\ hub'.drCluster = hub.drCluster /\ hub'.dying = hub.dying \cup {Here}
        /\ hub'.profile = hub.profile /\ hub'.secret = hub.secret
    BY <1>3, <2>1 DEF Answered
  <2>4. (Named /\ Recreated /\ Written /\ DyingExist)'
    BY <1>1, <1>2, <2>1, <2>3, Stands DEF IInv, Named, Recreated, Written, DyingExist, AtCall
  <2>5. (FormsApart /\ BothBacked /\ PolicyThere)'
    BY <1>1, <2>1 DEF IInv, SoundRun, FormsApart, BothBacked, PolicyThere, Looping, AtCall, wizard
  <2>6. ASSUME sound, NEW i \in 1..2, i < at
        PROVE  Backed(hub, pair[i])' /\ hub'.drCluster[pair[i]] = slot[i].name
    <3>1. pair[i] # Here
      BY <1>2, <2>6 DEF IInv, TypeOK, Pairs, Here
    <3> QED BY <1>1, <2>3, <2>6, <3>1 DEF IInv, SoundRun, Done, Looping, AtCall, Backed, wizard
  <2>7. Done'
    BY <1>1, <2>1, <2>6 DEF Done, wizard
  <2>8. ASSUME sound, NEW i \in 1..2, i >= at
        PROVE  \/ hub'.drCluster[pair[i]] = sel[pair[i]] /\ pair[i] \notin hub'.dying
               \/ /\ i = at /\ NeedsRecreate
                  /\ hub'.drCluster[pair[i]] \in {sel[pair[i]], None}
    <3>1. hub.drCluster[pair[i]] = sel[pair[i]] /\ pair[i] \notin hub.dying
      BY <1>1, <2>8 DEF IInv, SoundRun, ToCome, Looping, AtCall
    <3>2. CASE i # at
      <4>1. pair[i] # Here
        BY <1>2, <2>8, <3>2 DEF IInv, TypeOK, Pairs, Here
      <4> QED BY <2>3, <3>1, <4>1
    <3>3. CASE i = at
      BY <1>1, <2>3, <3>1, <3>3 DEF IInv, Recreated
    <3> QED BY <3>2, <3>3
  <2>9. ToCome'
    BY <1>1, <2>1, <2>8, Stands DEF ToCome, wizard
  <2> QED BY <2>2, <2>4, <2>5, <2>7, <2>9 DEF IInv, SoundRun
<1> QED BY <1>4, <1>5

LEMMA PutSecretKeeps == ASSUME IInv, PutSecret PROVE IInv'
<1> DEFINE eff == WithSecret(hub, Here, HereName)
<1>1. pc = "secret" /\ UNCHANGED <<wizard, at, sel, before, sound, undoFailed, submits, selections>>
  BY DEF PutSecret
<1>2. TypeOK /\ hub \in Hub /\ Here \in Cluster /\ HereName \in Name
  BY <1>1, Names DEF IInv, TypeOK, AtCall
<1>3. /\ eff \in Hub /\ eff.drCluster = hub.drCluster /\ eff.dying = hub.dying
      /\ eff.profile = hub.profile /\ eff.secret = hub.secret \cup {<<Here, HereName>>}
  BY <1>2, SecretHub
<1>4. \/ Rejected(eff) /\ Fail
      \/ /\ Answered(eff) /\ pc' = "profile" /\ undo' = undo
         /\ created' = [created EXCEPT !.secrets = @ \cup {<<Here, HereName>>}]
  BY DEF PutSecret, WithSecret, Record
<1> HIDE DEF eff
<1>5. CASE Rejected(eff) /\ Fail
  BY <1>1, <1>3, <1>5, FailKeeps DEF IInv, DyingExist
<1>6. CASE /\ Answered(eff) /\ pc' = "profile" /\ undo' = undo
           /\ created' = [created EXCEPT !.secrets = @ \cup {<<Here, HereName>>}]
  <2>1. created' \in Resources
    BY <1>2, <1>6, Recorded DEF TypeOK
  <2>2. TypeOK'
    <3>1. /\ at' \in 1..3 /\ pc' \in Running /\ undo' \in Resources
          /\ sel' \in DRClusters /\ undoFailed' \in BOOLEAN
      BY <1>1, <1>2, <1>6 DEF TypeOK, Running
    <3> QED BY <1>1, <1>2, <1>3, <1>6, <2>1, <3>1, CallType
  <2>3. /\ hub'.drCluster = hub.drCluster /\ hub'.dying = hub.dying
        /\ hub'.profile = hub.profile /\ hub'.secret = hub.secret \cup {<<Here, HereName>>}
    BY <1>3, <1>6 DEF Answered
  <2>4. (Named /\ Recreated /\ Written /\ DyingExist)'
    BY <1>1, <1>6, <2>3, Stands DEF IInv, Named, Recreated, Written, DyingExist, AtCall
  <2>5. \A c \in Cluster : Backed(hub, c) => Backed(hub, c)'
    BY <2>3 DEF Backed
  <2>6. (FormsApart /\ BothBacked /\ PolicyThere)'
    BY <1>1, <1>6 DEF IInv, SoundRun, FormsApart, BothBacked, PolicyThere, Looping, AtCall, wizard
  <2>7. (Done /\ ToCome)'
    BY <1>1, <1>2, <1>6, <2>3, <2>5, Names, Stands
       DEF IInv, SoundRun, Done, ToCome, Looping, AtCall, wizard
  <2> QED BY <2>2, <2>4, <2>6, <2>7 DEF IInv, SoundRun
<1> QED BY <1>4, <1>5, <1>6

\* From a sound start the profile that is written has no other cluster's name.
LEMMA PutProfileKeeps == ASSUME IInv, PutProfile PROVE IInv'
<1> DEFINE eff == WithProfile(hub, HereName, Here)
<1>1. pc = "profile" /\ UNCHANGED <<wizard, sel, before, sound, undoFailed, submits, selections>>
  BY DEF PutProfile
<1>2. /\ TypeOK /\ hub \in Hub /\ Here \in Cluster /\ HereName \in Name /\ at \in 1..2
      /\ <<Here, HereName>> \in hub.secret
  BY <1>1, Names DEF IInv, TypeOK, AtCall, Named, Written
<1>3. /\ eff \in Hub /\ eff.drCluster = hub.drCluster /\ eff.dying = hub.dying
      /\ eff.profile = [hub.profile EXCEPT ![HereName] = Here] /\ eff.secret = hub.secret
  BY <1>2, ProfileHub
<1>4. \/ Rejected(eff) /\ Fail /\ at' = at
      \/ /\ Answered(eff) /\ undo' = undo
         /\ created' = [created EXCEPT !.profiles = @ \cup {HereName}]
         /\ \/ CreatesDRCluster /\ pc' = "drCluster" /\ at' = at
            \/ ~CreatesDRCluster /\ pc' = "cluster" /\ at' = at + 1
  BY DEF PutProfile, WithProfile, Record, Advance
<1> HIDE DEF eff
<1>5. CASE Rejected(eff) /\ Fail /\ at' = at
  BY <1>1, <1>3, <1>5, FailKeeps DEF IInv, DyingExist
<1>6. CASE /\ Answered(eff) /\ undo' = undo
           /\ created' = [created EXCEPT !.profiles = @ \cup {HereName}]
           /\ \/ CreatesDRCluster /\ pc' = "drCluster" /\ at' = at
              \/ ~CreatesDRCluster /\ pc' = "cluster" /\ at' = at + 1
  <2>1. created' \in Resources
    BY <1>2, <1>6, Recorded DEF TypeOK
  <2>2. TypeOK'
    <3>1. /\ at' \in 1..3 /\ pc' \in Running /\ undo' \in Resources
          /\ sel' \in DRClusters /\ undoFailed' \in BOOLEAN
      BY <1>1, <1>2, <1>6 DEF TypeOK, Running
    <3> QED BY <1>1, <1>2, <1>3, <1>6, <2>1, <3>1, CallType
  <2>3. /\ hub'.drCluster = hub.drCluster /\ hub'.dying = hub.dying /\ hub'.secret = hub.secret
        /\ hub'.profile[HereName] = Here
        /\ \A n \in Name \ {HereName} : hub'.profile[n] = hub.profile[n]
    BY <1>2, <1>3, <1>6 DEF Answered, Hub
  <2>4. (Named /\ Recreated /\ Written /\ DyingExist)'
    BY <1>1, <1>2, <1>6, <2>3, Stands DEF IInv, Named, Recreated, Written, DyingExist, AtCall
  <2>5. (FormsApart /\ BothBacked /\ PolicyThere)'
    BY <1>1, <1>6 DEF IInv, SoundRun, FormsApart, BothBacked, PolicyThere, Looping, AtCall, wizard
  <2>6. ASSUME sound, NEW i \in 1..2, i < at
        PROVE  Backed(hub, pair[i])' /\ hub'.drCluster[pair[i]] = slot[i].name
    <3>1. Backed(hub, pair[i]) /\ hub.drCluster[pair[i]] = slot[i].name
      BY <1>1, <2>6 DEF IInv, SoundRun, Done, Looping, AtCall
    <3>2. HereName = slot[at].name
      BY <1>1, <1>2, <2>6, OwnDetails DEF HereName, Here, Looping, AtCall
    <3>3. slot[i].name # HereName /\ slot[i].name \in Name
      BY <1>1, <1>2, <2>6, <3>2 DEF IInv, TypeOK, Details, SoundRun, FormsApart, Looping, AtCall
    <3> QED BY <1>1, <2>3, <3>1, <3>3 DEF Backed, wizard
  <2>7. ASSUME sound, ~CreatesDRCluster, NEW i \in 1..2, i = at
        PROVE  Backed(hub, pair[i])' /\ hub'.drCluster[pair[i]] = slot[i].name
    <3>1. sel[Here] = HereName /\ Here = pair[i]
      BY <2>7 DEF CreatesDRCluster, NeedsRecreate, Here
    <3>2. hub.drCluster[Here] = HereName /\ Here \notin hub.dying
      BY <1>1, <1>2, <2>7, <3>1 DEF IInv, SoundRun, ToCome, Looping, AtCall, NeedsRecreate
    <3>3. HereName = slot[i].name
      BY <1>1, <1>2, <2>7, OwnDetails DEF HereName, Here, Looping, AtCall
    <3> QED BY <1>1, <1>2, <2>3, <3>1, <3>2, <3>3 DEF Backed, wizard
  <2>8. Done'
    <3>1. at' = at \/ (at' = at + 1 /\ ~CreatesDRCluster)
      BY <1>6
    <3> QED BY <1>1, <1>2, <2>6, <2>7, <3>1 DEF Done, wizard
  <2>9. ToCome'
    <3>1. CASE at' = at /\ pc' = "drCluster"
      BY <1>1, <2>3, <3>1, Stands DEF IInv, SoundRun, ToCome, Looping, AtCall, wizard
    <3>2. CASE at' = at + 1
      BY <1>1, <1>2, <2>3, <3>2 DEF IInv, SoundRun, ToCome, Looping, AtCall, wizard
    <3> QED BY <1>6, <3>1, <3>2
  <2> QED BY <2>2, <2>4, <2>5, <2>8, <2>9 DEF IInv, SoundRun
<1> QED BY <1>4, <1>5, <1>6

\* The DRCluster is new, or has the name already; a dying one is refused.
LEMMA PutDRClusterKeeps == ASSUME IInv, PutDRCluster PROVE IInv'
<1> DEFINE eff == WithDRCluster(hub, Here, HereName)
<1>1. pc = "drCluster" /\ UNCHANGED <<wizard, sel, before, sound, undoFailed, submits, selections>>
  BY DEF PutDRCluster
<1>2. /\ TypeOK /\ hub \in Hub /\ Here \in Cluster /\ HereName \in Name /\ at \in 1..2
      /\ <<Here, HereName>> \in hub.secret /\ hub.profile[HereName] = Here
  BY <1>1, Names DEF IInv, TypeOK, AtCall, Named, Written
<1>3. /\ eff \in Hub /\ eff.drCluster = [hub.drCluster EXCEPT ![Here] = HereName]
      /\ eff.dying = hub.dying /\ eff.profile = hub.profile /\ eff.secret = hub.secret
  BY <1>2, DRClusterHub
<1>4. \/ Rejected(eff) /\ Fail /\ at' = at
      \/ Answered(hub) /\ Fail /\ at' = at
      \/ /\ Answered(eff) /\ undo' = undo /\ hub.drCluster[Here] \in {None, HereName}
         /\ created' = [created EXCEPT !.drClusters = @ \cup {Here}]
         /\ pc' = "cluster" /\ at' = at + 1
  BY DEF PutDRCluster, WithDRCluster, Record, Advance
<1> HIDE DEF eff
<1>5. \A c \in eff.dying : eff.drCluster[c] # None
  BY <1>2, <1>3 DEF IInv, DyingExist, Hub, DRClusters
<1>6. CASE Rejected(eff) /\ Fail /\ at' = at
  BY <1>1, <1>3, <1>5, <1>6, FailKeeps
<1>7. CASE Answered(hub) /\ Fail /\ at' = at
  BY <1>1, <1>2, <1>7, FailKeeps DEF IInv, DyingExist
<1>8. CASE /\ Answered(eff) /\ undo' = undo /\ hub.drCluster[Here] \in {None, HereName}
           /\ created' = [created EXCEPT !.drClusters = @ \cup {Here}]
           /\ pc' = "cluster" /\ at' = at + 1
  <2>1. created' \in Resources
    BY <1>2, <1>8, Recorded DEF TypeOK
  <2>2. TypeOK'
    <3>1. /\ at' \in 1..3 /\ pc' \in Running /\ undo' \in Resources
          /\ sel' \in DRClusters /\ undoFailed' \in BOOLEAN
      BY <1>1, <1>2, <1>8 DEF TypeOK, Running
    <3> QED BY <1>1, <1>2, <1>3, <1>8, <2>1, <3>1, CallType
  <2>3. /\ hub'.dying = hub.dying /\ hub'.secret = hub.secret /\ hub'.profile = hub.profile
        /\ hub'.drCluster[Here] = HereName
        /\ \A c \in Cluster \ {Here} : hub'.drCluster[c] = hub.drCluster[c]
    BY <1>2, <1>3, <1>8 DEF Answered, Hub, DRClusters
  <2>4. (Named /\ Recreated /\ Written /\ DyingExist)'
    BY <1>3, <1>5, <1>8 DEF Named, Recreated, Written, DyingExist, AtCall, Answered
  <2>5. (FormsApart /\ BothBacked /\ PolicyThere)'
    BY <1>1, <1>8 DEF IInv, SoundRun, FormsApart, BothBacked, PolicyThere, Looping, AtCall, wizard
  <2>6. \A i \in 1..2 : i # at => pair[i] \in Cluster \ {Here}
    BY <1>2 DEF TypeOK, Pairs, Here
  <2>7. ASSUME sound, NEW i \in 1..2, i < at
        PROVE  Backed(hub, pair[i])' /\ hub'.drCluster[pair[i]] = slot[i].name
    BY <1>1, <1>2, <2>3, <2>6, <2>7 DEF IInv, SoundRun, Done, Looping, AtCall, Backed, wizard
  <2>8. ASSUME sound, NEW i \in 1..2, i = at
        PROVE  Backed(hub, pair[i])' /\ hub'.drCluster[pair[i]] = slot[i].name
    <3>1. HereName = slot[i].name /\ Here = pair[i]
      BY <1>1, <1>2, <2>8, OwnDetails DEF HereName, Here, Looping, AtCall
    <3>2. Here \notin hub.dying
      BY <1>1, <1>2, <1>8, <2>8
         DEF IInv, SoundRun, ToCome, Looping, AtCall, NeedsRecreate, Here, DyingExist
    <3> QED BY <1>1, <1>2, <2>3, <3>1, <3>2 DEF Backed, wizard, Here
  <2>9. Done'
    BY <1>1, <1>2, <1>8, <2>7, <2>8 DEF Done, wizard
  <2>10. ToCome'
    BY <1>1, <1>2, <1>8, <2>3, <2>6 DEF IInv, SoundRun, ToCome, Looping, AtCall, wizard
  <2> QED BY <2>2, <2>4, <2>5, <2>9, <2>10 DEF IInv, SoundRun
<1> QED BY <1>4, <1>6, <1>7, <1>8

LEMMA PutDRPolicyKeeps == ASSUME IInv, PutDRPolicy PROVE IInv'
<1> DEFINE eff == WithPolicy(hub, {pair[1], pair[2]})
<1>1. pc = "policy" /\ UNCHANGED <<wizard, before, sound, undoFailed, submits, selections>>
  BY DEF PutDRPolicy
<1>2. TypeOK /\ hub \in Hub /\ \A i \in 1..2 : pair[i] \in Cluster
  BY DEF IInv, TypeOK, Pairs
<1>3. /\ eff \in Hub /\ eff.drCluster = hub.drCluster /\ eff.dying = hub.dying
      /\ eff.profile = hub.profile /\ eff.secret = hub.secret /\ eff.policy = {pair[1], pair[2]}
  BY <1>2, PolicyHub
<1>4. \/ Rejected(eff) /\ Fail /\ at' = at /\ sel' = sel
      \/ Answered(eff) /\ Return("created")
  BY DEF PutDRPolicy, WithPolicy
<1> HIDE DEF eff
<1>5. CASE Rejected(eff) /\ Fail /\ at' = at /\ sel' = sel
  BY <1>1, <1>3, <1>5, FailKeeps DEF IInv, DyingExist
<1>6. CASE Answered(eff) /\ Return("created")
  <2>1. TypeOK'
    BY <1>1, <1>2, <1>3, <1>6, NothingRecorded, CallType DEF TypeOK, Return, NoView, DRClusters
  <2>2. hub' = eff /\ pc' = "created"
    BY <1>6 DEF Answered, Return
  <2>3. (Named /\ Recreated /\ Written /\ DyingExist)'
    BY <1>3, <2>2 DEF IInv, Named, Recreated, Written, DyingExist, AtCall
  <2>4. (FormsApart /\ Done /\ ToCome)'
    BY <2>2 DEF FormsApart, Done, ToCome, Looping, AtCall
  <2>5. (BothBacked /\ PolicyThere)'
    BY <1>1, <1>3, <2>2 DEF IInv, SoundRun, BothBacked, PolicyThere, Backed, wizard
  <2> QED BY <2>1, <2>3, <2>4, <2>5 DEF IInv, SoundRun
<1> QED BY <1>4, <1>5, <1>6

-----------------------------------------------------------------------------
LEMMA StepIInv == IInv /\ [Next]_vars => IInv'
<1> SUFFICES ASSUME IInv, [Next]_vars PROVE IInv'
    OBVIOUS
<1>1. CASE UNCHANGED vars
  <2>1. TypeOK'
    BY <1>1 DEF IInv, TypeOK, vars, wizard, history, bounds
  <2>2. (Named /\ Recreated /\ Written /\ DyingExist /\ SoundRun)'
    BY <1>1 DEF IInv, vars, wizard, history, bounds, Named, Recreated, Written, DyingExist, SoundRun,
       FormsApart, Done, ToCome, BothBacked, PolicyThere, Here, HereName, DetailsFor, NeedsRecreate
  <2> QED BY <2>1, <2>2 DEF IInv
<1>2. CASE Run
  BY <1>2, NextClusterKeeps, RecreateKeeps, PutSecretKeeps, PutProfileKeeps, PutDRClusterKeeps,
     PutDRPolicyKeeps, RollbackKeeps, ReportKeeps DEF Run
<1> QED
  BY <1>1, <1>2, EditKeeps, SubmitKeeps, WatchKeeps, FinalizeKeeps, ReopenKeeps DEF Next

\* Every variable stays in its set: of the form, of createPolicyPromises and of
\* rollbackThirdPartyResources.
THEOREM TypeCorrect == Spec => []TypeOK
<1>1. IInv => TypeOK
  BY DEF IInv
<1> QED BY InitIInv, StepIInv, <1>1, PTL DEF Spec

\* A DRPolicy that createPolicyPromises reports as created stands on two clusters
\* whose DRCluster, S3 profile and Secret are all in place, for any clusters and
\* profile names, faults and earlier runs, when the run started from a sound view.
THEOREM PolicyStands == Spec => []PolicyOverBackedClusters
<1>1. IInv => PolicyOverBackedClusters
  BY DEF IInv, SoundRun, BothBacked, PolicyThere, PolicyOverBackedClusters
<1> QED BY InitIInv, StepIInv, <1>1, PTL DEF Spec

\* A DRCluster never appears before the profile and the Secret it refers to are
\* there: prepareThirdPartyPeering awaits its writes in that order.
THEOREM DRClusterLast == Spec => DRClusterComesLast
<1> DEFINE Last == \A c \in Cluster :
                       hub.drCluster[c] = None /\ hub'.drCluster[c] # None =>
                           /\ hub.profile[hub'.drCluster[c]] = c
                           /\ <<c, hub'.drCluster[c]>> \in hub.secret
<1>1. IInv /\ [Next]_vars => [Last]_vars
  <2> SUFFICES ASSUME IInv, Next PROVE Last
    BY DEF vars
  <2> SUFFICES ASSUME NEW c \in Cluster, hub.drCluster[c] = None, hub'.drCluster[c] # None
               PROVE  /\ hub.profile[hub'.drCluster[c]] = c
                      /\ <<c, hub'.drCluster[c]>> \in hub.secret
    OBVIOUS
  <2>1. hub \in Hub
    BY DEF IInv, TypeOK
  <2>2. CASE PutDRCluster
    <3>1. /\ Here \in Cluster /\ HereName \in Name
          /\ <<Here, HereName>> \in hub.secret /\ hub.profile[HereName] = Here
      BY <2>2, Names DEF PutDRCluster, IInv, TypeOK, AtCall, Named, Written
    <3>2. hub' \in {hub, WithDRCluster(hub, Here, HereName)}
      BY <2>2 DEF PutDRCluster, WithDRCluster, Answered, Rejected
    <3>3. c = Here /\ hub'.drCluster[c] = HereName
      <4>1. WithDRCluster(hub, Here, HereName).drCluster
              = [hub.drCluster EXCEPT ![Here] = HereName]
        BY <2>1, <3>1, DRClusterHub
      <4>2. hub'.drCluster = [hub.drCluster EXCEPT ![Here] = HereName]
        BY <3>2, <4>1
      <4> QED BY <2>1, <3>1, <4>2 DEF Hub, DRClusters
    <3> QED BY <3>1, <3>3
  <2>3. CASE RecreateDRCluster
    <3>1. Here \in Cluster
      BY <2>3, Names DEF RecreateDRCluster, IInv, TypeOK, AtCall, Named
    <3>2. hub' \in {hub, Deleted(hub, Here)}
      BY <2>3 DEF RecreateDRCluster, Answered, Rejected
    <3> QED BY <2>1, <3>1, <3>2, DeletedHub
  <2>4. CASE PutSecret \/ PutProfile \/ PutDRPolicy
    BY <2>1, <2>4 DEF PutSecret, PutProfile, PutDRPolicy, Answered, Rejected, Hub
  <2>5. CASE UndoDRCluster \/ UndoProfile \/ UndoSecret
    BY <2>1, <2>5 DEF UndoDRCluster, UndoProfile, UndoSecret, Settles, Answered, Rejected, Deleted, Hub
  <2>6. CASE FinalizeDRCluster
    <3>1. PICK d \in hub.dying : hub' = WithoutDRCluster(hub, d)
      BY <2>6 DEF FinalizeDRCluster, WithoutDRCluster
    <3>2. d \in Cluster
      BY <2>1 DEF Hub
    <3>3. hub'.drCluster = [hub.drCluster EXCEPT ![d] = None]
      BY <2>1, <3>1, <3>2, GoneHub
    <3> QED BY <2>1, <3>3 DEF Hub, DRClusters
  <2>7. CASE \/ SelectClusters \/ EditDetails \/ UseSameConnection \/ PrefillDetails \/ Submit
             \/ NextCluster \/ ReportFailure \/ WatchDelivers \/ Reopen
    BY <2>7 DEF SelectClusters, EditDetails, UseSameConnection, PrefillDetails, Submit,
       NextCluster, ReportFailure, WatchDelivers, Reopen
  <2> QED BY <2>2, <2>3, <2>4, <2>5, <2>6, <2>7 DEF Next, Run
<1> QED BY InitIInv, StepIInv, <1>1, PTL DEF Spec, DRClusterComesLast

-----------------------------------------------------------------------------
(* What a failed run leaves behind.                                        *)

\* What the run owes to the rollback: all that it has recorded, or what the
\* rollback has still to undo.
Owed == IF pc = "rollback" THEN undo ELSE created

\* No fault has hidden a write, and the run has overwritten nothing.
Untouched == ~lost /\ ~undoFailed /\ NothingExisted

\* The hub h is the hub b and what is owed, DRClusters on their way out aside.
TracedBy(b, h, owed) ==
    /\ h.secret = b.secret \cup owed.secrets /\ b.secret \cap owed.secrets = {}
    /\ \A n \in Name : IF n \in owed.profiles THEN b.profile[n] = None
                       ELSE h.profile[n] = b.profile[n]
    /\ \A c \in Cluster : \/ h.drCluster[c] \in {b.drCluster[c], None}
                          \/ c \in h.dying \cup owed.drClusters
    /\ h.policy = b.policy

Traced == pc \in Running \cup {"failed"} /\ Untouched => TracedBy(before, hub, Owed)

\* A run that is over owes nothing.
Idle == pc = "failed" => created = Nothing

RInv == IInv /\ Traced /\ Idle

\* The resources that a call is about are new to the hub of the click.
LEMMA NewToHub ==
    ASSUME IInv, NothingExisted, pc \in AtCall
    PROVE  /\ before.profile[HereName] = None
           /\ <<Here, HereName>> \notin before.secret
<1>1. HereName # None /\ HereName = DetailsFor(Here)
  BY DEF IInv, Named, HereName
<1>2. PICK i \in 1..2 : slot[i].cluster = Here /\ slot[i].name = HereName
  BY <1>1 DEF DetailsFor
<1> QED BY <1>2 DEF NothingExisted

\* The same form, the same history and the same or fewer faults.
LEMMA SameRun ==
    ASSUME IInv, Untouched', UNCHANGED <<wizard, before>>,
           lost' = lost \/ lost' = TRUE, undoFailed' = undoFailed \/ undoFailed' = TRUE
    PROVE  Untouched
BY DEF Untouched, NothingExisted, wizard

\* A call that was rejected or refused has changed nothing, and what was recorded
\* is what the rollback owes.
LEMMA FailTraced ==
    ASSUME RInv, NEW eff, Rejected(eff) \/ Answered(hub), Fail,
           pc \in Running \ {"rollback"}, UNCHANGED <<wizard, before, undoFailed>>
    PROVE  Traced' /\ Idle'
<1>1. pc' = "rollback" /\ undo' = created /\ created' = created
  BY DEF Fail
<1>2. ASSUME Untouched' PROVE TracedBy(before, hub, created)'
  <2>1. hub' = hub /\ lost' = lost
    BY <1>2 DEF Rejected, Answered, Untouched
  <2>2. Untouched
    BY <1>2, <2>1, SameRun DEF RInv
  <2>3. TracedBy(before, hub, created)
    BY <2>2 DEF RInv, Traced, Owed
  <2> QED BY <1>1, <2>1, <2>3
<1>3. Owed' = created'
  BY <1>1 DEF Owed
<1> QED BY <1>1, <1>2, <1>3 DEF Traced, Idle

\* A call that was answered, or one of the rollback.
LEMMA CallTraced ==
    ASSUME RInv, pc \in Running, pc' \in Running, UNCHANGED <<wizard, before>>,
           lost' = lost \/ lost' = TRUE, undoFailed' = undoFailed \/ undoFailed' = TRUE,
           NEW owed, Owed' = owed,
           Untouched /\ Untouched' /\ TracedBy(before, hub, Owed) => TracedBy(before, hub', owed)
    PROVE  Traced' /\ Idle'
<1>1. ASSUME Untouched' PROVE TracedBy(before', hub', Owed')
  <2>1. Untouched
    BY <1>1, SameRun DEF RInv
  <2>2. TracedBy(before, hub, Owed)
    BY <2>1 DEF RInv, Traced
  <2> QED BY <1>1, <2>1, <2>2
<1>2. pc' # "failed"
  BY DEF Running
<1> QED BY <1>1, <1>2 DEF Traced, Idle

LEMMA FormTraced ==
    ASSUME pc' \in {"form", "created"}
    PROVE  Traced' /\ Idle'
BY DEF Traced, Idle, Running

LEMMA SubmitTraced == ASSUME RInv, Submit PROVE Traced' /\ Idle'
<1>1. pc' \in {"policy", "cluster"} /\ before' = hub /\ hub' = hub /\ created' = Nothing
  BY DEF Submit
<1>2. TracedBy(hub, hub, Nothing)
  BY DEF TracedBy, Nothing
<1> QED BY <1>1, <1>2 DEF Traced, Idle, Owed

LEMMA NextTraced == ASSUME RInv, NextCluster PROVE Traced' /\ Idle'
<1>1. pc = "cluster" /\ UNCHANGED <<hub, wizard, sel, created, undo, history, bounds>>
  BY DEF NextCluster
<1>2. pc' \in Running \ {"rollback"}
  BY <1>1 DEF NextCluster, FirstCall, Running
<1> QED BY <1>1, <1>2, CallTraced DEF Owed, history, Running

LEMMA RecreateTraced == ASSUME RInv, RecreateDRCluster PROVE Traced' /\ Idle'
<1>1. pc = "recreate" /\ UNCHANGED <<wizard, at, sel, before, sound, undoFailed, submits, selections>>
  BY DEF RecreateDRCluster
<1>2. hub \in Hub /\ Here \in Cluster
  BY <1>1, Names DEF RInv, IInv, TypeOK, AtCall
<1>3. CASE Fail
  <2>1. Rejected(Deleted(hub, Here)) \/ Answered(hub)
    BY <1>3 DEF RecreateDRCluster, Fail
  <2> QED BY <1>1, <1>3, <2>1, FailTraced DEF Running
<1>4. CASE ~Fail
  <2>1. Answered(Deleted(hub, Here)) /\ pc' = "secret" /\ UNCHANGED <<created, undo>>
    BY <1>4 DEF RecreateDRCluster
  <2>2. TracedBy(before, hub, created) => TracedBy(before, hub', created)
    BY <1>2, <2>1, DeletedHub DEF TracedBy, Answered
  <2> QED BY <1>1, <2>1, <2>2, CallTraced DEF Owed, Running, Answered
<1> QED BY <1>3, <1>4

LEMMA PutSecretTraced == ASSUME RInv, PutSecret PROVE Traced' /\ Idle'
<1> DEFINE eff == WithSecret(hub, Here, HereName)
<1>1. pc = "secret" /\ UNCHANGED <<wizard, at, sel, before, sound, undoFailed, submits, selections>>
  BY DEF PutSecret
<1>2. hub \in Hub /\ Here \in Cluster /\ HereName \in Name /\ created \in Resources
  BY <1>1, Names DEF RInv, IInv, TypeOK, AtCall
<1>3. /\ eff.drCluster = hub.drCluster /\ eff.dying = hub.dying /\ eff.policy = hub.policy
      /\ eff.profile = hub.profile /\ eff.secret = hub.secret \cup {<<Here, HereName>>}
  BY <1>2, SecretHub
<1>4. \/ Rejected(eff) /\ Fail
      \/ /\ Answered(eff) /\ pc' = "profile" /\ undo' = undo
         /\ created' = [created EXCEPT !.secrets = @ \cup {<<Here, HereName>>}]
  BY DEF PutSecret, WithSecret, Record
<1> HIDE DEF eff
<1>5. CASE Rejected(eff) /\ Fail
  BY <1>1, <1>5, FailTraced DEF Running
<1>6. CASE /\ Answered(eff) /\ pc' = "profile" /\ undo' = undo
           /\ created' = [created EXCEPT !.secrets = @ \cup {<<Here, HereName>>}]
  <2>1. /\ created'.secrets = created.secrets \cup {<<Here, HereName>>}
        /\ created'.profiles = created.profiles /\ created'.drClusters = created.drClusters
    BY <1>2, <1>6 DEF Resources
  <2>2. Untouched => <<Here, HereName>> \notin before.secret
    BY <1>1, NewToHub DEF RInv, Untouched, AtCall
  <2>3. Untouched /\ TracedBy(before, hub, created) => TracedBy(before, hub', created')
    BY <1>3, <1>6, <2>1, <2>2 DEF TracedBy, Answered
  <2>4. Owed = created /\ Owed' = created' /\ pc \in Running /\ pc' \in Running /\ lost' = lost
    BY <1>1, <1>6 DEF Owed, Running, Answered
  <2> QED BY <1>1, <2>3, <2>4, CallTraced
<1> QED BY <1>4, <1>5, <1>6

LEMMA PutProfileTraced == ASSUME RInv, PutProfile PROVE Traced' /\ Idle'
<1> DEFINE eff == WithProfile(hub, HereName, Here)
<1>1. pc = "profile" /\ UNCHANGED <<wizard, sel, before, sound, undoFailed, submits, selections>>
  BY DEF PutProfile
<1>2. hub \in Hub /\ Here \in Cluster /\ HereName \in Name /\ created \in Resources
  BY <1>1, Names DEF RInv, IInv, TypeOK, AtCall
<1>3. /\ eff.drCluster = hub.drCluster /\ eff.dying = hub.dying /\ eff.policy = hub.policy
      /\ eff.profile = [hub.profile EXCEPT ![HereName] = Here] /\ eff.secret = hub.secret
  BY <1>2, ProfileHub
<1>4. \/ Rejected(eff) /\ Fail
      \/ /\ Answered(eff) /\ undo' = undo /\ pc' \in {"drCluster", "cluster"}
         /\ created' = [created EXCEPT !.profiles = @ \cup {HereName}]
  BY DEF PutProfile, WithProfile, Record
<1> HIDE DEF eff
<1>5. CASE Rejected(eff) /\ Fail
  BY <1>1, <1>5, FailTraced DEF Running
<1>6. CASE /\ Answered(eff) /\ undo' = undo /\ pc' \in {"drCluster", "cluster"}
           /\ created' = [created EXCEPT !.profiles = @ \cup {HereName}]
  <2>1. /\ created'.profiles = created.profiles \cup {HereName}
        /\ created'.secrets = created.secrets /\ created'.drClusters = created.drClusters
    BY <1>2, <1>6 DEF Resources
  <2>2. Untouched => before.profile[HereName] = None
    BY <1>1, NewToHub DEF RInv, Untouched, AtCall
  <2>3. \A n \in Name \ {HereName} : hub'.profile[n] = hub.profile[n]
    BY <1>2, <1>3, <1>6 DEF Answered, Hub
  <2>4. Untouched /\ TracedBy(before, hub, created) => TracedBy(before, hub', created')
    BY <1>3, <1>6, <2>1, <2>2, <2>3 DEF TracedBy, Answered
  <2>5. Owed = created /\ Owed' = created' /\ pc \in Running /\ pc' \in Running /\ lost' = lost
    BY <1>1, <1>6 DEF Owed, Running, Answered
  <2> QED BY <1>1, <2>4, <2>5, CallTraced
<1> QED BY <1>4, <1>5, <1>6

LEMMA PutDRClusterTraced == ASSUME RInv, PutDRCluster PROVE Traced' /\ Idle'
<1> DEFINE eff == WithDRCluster(hub, Here, HereName)
<1>1. pc = "drCluster" /\ UNCHANGED <<wizard, sel, before, sound, undoFailed, submits, selections>>
  BY DEF PutDRCluster
<1>2. hub \in Hub /\ Here \in Cluster /\ HereName \in Name /\ created \in Resources
  BY <1>1, Names DEF RInv, IInv, TypeOK, AtCall
<1>3. /\ eff.drCluster = [hub.drCluster EXCEPT ![Here] = HereName] /\ eff.policy = hub.policy
      /\ eff.dying = hub.dying /\ eff.profile = hub.profile /\ eff.secret = hub.secret
  BY <1>2, DRClusterHub
<1>4. \/ (Rejected(eff) \/ Answered(hub)) /\ Fail
      \/ /\ Answered(eff) /\ undo' = undo /\ pc' = "cluster"
         /\ created' = [created EXCEPT !.drClusters = @ \cup {Here}]
  BY DEF PutDRCluster, WithDRCluster, Record
<1> HIDE DEF eff
<1>5. CASE (Rejected(eff) \/ Answered(hub)) /\ Fail
  BY <1>1, <1>5, FailTraced DEF Running
<1>6. CASE /\ Answered(eff) /\ undo' = undo /\ pc' = "cluster"
           /\ created' = [created EXCEPT !.drClusters = @ \cup {Here}]
  <2>1. /\ created'.drClusters = created.drClusters \cup {Here}
        /\ created'.secrets = created.secrets /\ created'.profiles = created.profiles
    BY <1>2, <1>6 DEF Resources
  <2>2. \A c \in Cluster \ {Here} : hub'.drCluster[c] = hub.drCluster[c]
    BY <1>2, <1>3, <1>6 DEF Answered, Hub, DRClusters
  <2>3. TracedBy(before, hub, created) => TracedBy(before, hub', created')
    BY <1>3, <1>6, <2>1, <2>2 DEF TracedBy, Answered
  <2>4. Owed = created /\ Owed' = created' /\ pc \in Running /\ pc' \in Running /\ lost' = lost
    BY <1>1, <1>6 DEF Owed, Running, Answered
  <2> QED BY <1>1, <2>3, <2>4, CallTraced
<1> QED BY <1>4, <1>5, <1>6

LEMMA PutDRPolicyTraced == ASSUME RInv, PutDRPolicy PROVE Traced' /\ Idle'
<1> DEFINE eff == WithPolicy(hub, {pair[1], pair[2]})
<1>1. pc = "policy" /\ UNCHANGED <<wizard, before, undoFailed>>
  BY DEF PutDRPolicy
<1>2. (Rejected(eff) /\ Fail) \/ pc' = "created"
  BY DEF PutDRPolicy, WithPolicy, Return
<1> HIDE DEF eff
<1> QED BY <1>1, <1>2, FailTraced, FormTraced DEF Running

\* A call of the rollback that succeeds takes its resource off the hub; one that
\* is rejected leaves its trace in undoFailed.
LEMMA UndoTraced ==
    ASSUME RInv, UndoDRCluster \/ UndoProfile \/ UndoSecret
    PROVE  Traced' /\ Idle'
<1>1. /\ pc = "rollback" /\ pc' = "rollback" /\ pc \in Running
      /\ UNCHANGED <<wizard, before>> /\ Owed = undo /\ Owed' = undo'
  BY DEF UndoDRCluster, UndoProfile, UndoSecret, Owed, Running
<1>2. hub \in Hub /\ undo \in Resources /\ before \in Hub
  BY DEF RInv, IInv, TypeOK
<1>3. ASSUME NEW eff, Settles(eff)
      PROVE  /\ lost' = lost \/ lost' = TRUE
             /\ undoFailed' = undoFailed \/ undoFailed' = TRUE
             /\ Untouched' => hub' = eff
  BY <1>3 DEF Settles, Answered, Rejected, Untouched
<1>4. CASE UndoDRCluster
  <2>1. PICK c \in undo.drClusters :
          /\ undo' = [undo EXCEPT !.drClusters = @ \ {c}]
          /\ Settles(IF hub.drCluster[c] = None THEN hub ELSE Deleted(hub, c))
    BY <1>4 DEF UndoDRCluster
  <2> DEFINE eff == IF hub.drCluster[c] = None THEN hub ELSE Deleted(hub, c)
  <2>2. c \in Cluster
    BY <1>2 DEF Resources
  <2>3. /\ undo'.drClusters = undo.drClusters \ {c}
        /\ undo'.secrets = undo.secrets /\ undo'.profiles = undo.profiles
    BY <1>2, <2>1 DEF Resources
  <2>4. /\ eff.drCluster = hub.drCluster /\ eff.policy = hub.policy
        /\ eff.profile = hub.profile /\ eff.secret = hub.secret /\ hub.dying \subseteq eff.dying
        /\ eff.drCluster[c] = None \/ c \in eff.dying
    BY <1>2, <2>2, DeletedHub
  <2>5. Settles(eff)
    BY <2>1
  <2> HIDE DEF eff
  <2>6. TracedBy(before, hub, undo) => TracedBy(before, eff, undo')
    BY <2>3, <2>4 DEF TracedBy
  <2> QED BY <1>1, <1>3, <2>5, <2>6, CallTraced
<1>5. CASE UndoProfile
  <2>1. PICK n \in undo.profiles :
          undo' = [undo EXCEPT !.profiles = @ \ {n}] /\ Settles(WithProfile(hub, n, None))
    BY <1>5 DEF UndoProfile, WithProfile
  <2> DEFINE eff == WithProfile(hub, n, None)
  <2>2. n \in Name
    BY <1>2 DEF Resources
  <2>3. /\ undo'.profiles = undo.profiles \ {n}
        /\ undo'.secrets = undo.secrets /\ undo'.drClusters = undo.drClusters
    BY <1>2, <2>1 DEF Resources
  <2>4. /\ eff.drCluster = hub.drCluster /\ eff.policy = hub.policy /\ eff.dying = hub.dying
        /\ eff.profile = [hub.profile EXCEPT ![n] = None] /\ eff.secret = hub.secret
    BY <1>2, <2>2, ProfileHub
  <2>5. eff.profile[n] = None /\ \A m \in Name \ {n} : eff.profile[m] = hub.profile[m]
    BY <1>2, <2>2, <2>4 DEF Hub
  <2>6. Settles(eff)
    BY <2>1
  <2> HIDE DEF eff
  <2>7. TracedBy(before, hub, undo) => TracedBy(before, eff, undo')
    BY <2>2, <2>3, <2>4, <2>5 DEF TracedBy
  <2> QED BY <1>1, <1>3, <2>6, <2>7, CallTraced
<1>6. CASE UndoSecret
  <2>1. PICK s \in undo.secrets :
          undo' = [undo EXCEPT !.secrets = @ \ {s}] /\ Settles(WithoutSecret(hub, s))
    BY <1>6 DEF UndoSecret, WithoutSecret
  <2> DEFINE eff == WithoutSecret(hub, s)
  <2>2. /\ undo'.secrets = undo.secrets \ {s}
        /\ undo'.profiles = undo.profiles /\ undo'.drClusters = undo.drClusters
    BY <1>2, <2>1 DEF Resources
  <2>3. /\ eff.drCluster = hub.drCluster /\ eff.policy = hub.policy /\ eff.dying = hub.dying
        /\ eff.profile = hub.profile /\ eff.secret = hub.secret \ {s}
    BY <1>2, NoSecretHub
  <2>4. Settles(eff)
    BY <2>1
  <2> HIDE DEF eff
  <2>5. TracedBy(before, hub, undo) => TracedBy(before, eff, undo')
    BY <2>1, <2>2, <2>3 DEF TracedBy
  <2> QED BY <1>1, <1>3, <2>4, <2>5, CallTraced
<1> QED BY <1>4, <1>5, <1>6

LEMMA ReportTraced == ASSUME RInv, ReportFailure PROVE Traced' /\ Idle'
<1>1. /\ pc = "rollback" /\ undo = Nothing /\ pc' = "failed" /\ created' = Nothing
      /\ UNCHANGED <<hub, wizard, history>>
  BY DEF ReportFailure, Return
<1>2. Untouched' <=> Untouched
  BY <1>1 DEF Untouched, NothingExisted, wizard, history
<1>3. Owed = Nothing /\ Owed' = Nothing
  BY <1>1 DEF Owed
<1> QED BY <1>1, <1>2, <1>3 DEF RInv, Traced, Idle, history, Running

\* The hub operator and the watch.
LEMMA AroundTraced ==
    ASSUME RInv, WatchDelivers \/ FinalizeDRCluster
    PROVE  Traced' /\ Idle'
<1>1. UNCHANGED <<pair, slot, pc, at, sel, created, undo, history, bounds>>
  BY DEF WatchDelivers, FinalizeDRCluster, wizard
<1>2. (Untouched' <=> Untouched) /\ Owed' = Owed /\ before' = before
  BY <1>1 DEF Untouched, NothingExisted, Owed, history
<1>3. TracedBy(before, hub, Owed) => TracedBy(before, hub', Owed)
  <2>1. CASE WatchDelivers
    BY <2>1 DEF WatchDelivers
  <2>2. CASE FinalizeDRCluster
    <3>1. PICK c \in hub.dying : hub' = WithoutDRCluster(hub, c)
      BY <2>2 DEF FinalizeDRCluster, WithoutDRCluster
    <3>2. c \in Cluster /\ hub \in Hub
      BY DEF RInv, IInv, TypeOK, Hub
    <3>3. /\ hub'.drCluster = [hub.drCluster EXCEPT ![c] = None] /\ hub'.dying = hub.dying \ {c}
          /\ hub'.profile = hub.profile /\ hub'.secret = hub.secret /\ hub'.policy = hub.policy
      BY <3>1, <3>2, GoneHub
    <3>4. /\ hub'.drCluster[c] = None
          /\ \A d \in Cluster \ {c} : hub'.drCluster[d] = hub.drCluster[d]
      BY <3>2, <3>3 DEF Hub, DRClusters
    <3> QED BY <3>3, <3>4 DEF TracedBy
  <2> QED BY <2>1, <2>2
<1> QED BY <1>1, <1>2, <1>3 DEF RInv, Traced, Idle

LEMMA StepRInv == RInv /\ [Next]_vars => RInv'
<1> SUFFICES ASSUME RInv, [Next]_vars PROVE Traced' /\ Idle'
  BY StepIInv DEF RInv
<1>1. CASE UNCHANGED vars
  BY <1>1 DEF RInv, Traced, Idle, Untouched, NothingExisted, Owed, vars, wizard, history
<1>2. CASE SelectClusters \/ EditDetails \/ UseSameConnection \/ PrefillDetails \/ Reopen
  <2>1. pc' = "form"
    BY <1>2 DEF SelectClusters, EditDetails, UseSameConnection, PrefillDetails, Reopen, Touch, Return
  <2> QED BY <2>1, FormTraced
<1>3. CASE Run
  BY <1>3, NextTraced, RecreateTraced, PutSecretTraced, PutProfileTraced, PutDRClusterTraced,
     PutDRPolicyTraced, UndoTraced, ReportTraced DEF Run
<1> QED BY <1>1, <1>2, <1>3, SubmitTraced, AroundTraced DEF Next

\* A failed run leaves the hub as it found it, for any clusters, names, faults
\* and order of the rollback's calls, when no answer was lost, none of these calls
\* was rejected and the run overwrote nothing (rollbackThirdPartyResources).
THEOREM RollbackRestores == Spec => []RollbackRestoresHub
<1>1. Init => RInv
  BY InitIInv DEF Init, RInv, Traced, Idle, Running
<1>2. RInv => RollbackRestoresHub
  <2> SUFFICES ASSUME RInv, pc = "failed", Untouched
               PROVE  /\ hub.secret = before.secret /\ hub.profile = before.profile
                      /\ hub.policy = before.policy
                      /\ \A c \in Cluster : \/ hub.drCluster[c] \in {before.drCluster[c], None}
                                            \/ c \in hub.dying
    BY DEF RollbackRestoresHub, Untouched
  <2>1. TracedBy(before, hub, Nothing)
    BY DEF RInv, Traced, Idle, Owed
  <2>2. hub \in Hub /\ before \in Hub
    BY DEF RInv, IInv, TypeOK
  <2>3. \A n \in Name : hub.profile[n] = before.profile[n]
    BY <2>1 DEF TracedBy, Nothing
  <2>4. hub.profile = before.profile
    BY <2>2, <2>3 DEF Hub
  <2> QED BY <2>1, <2>4 DEF TracedBy, Nothing
<1> QED BY <1>1, <1>2, StepRInv, PTL DEF Spec
-----------------------------------------------------------------------------
(* How long a run goes on.                                                 *)

\* S has no elements but a and b.
OfTwo(S, a, b) == S \subseteq {a, b}

\* A run records one Secret, one profile and one DRCluster for each cluster of
\* the pair, so that at most two of each are to be undone.
Few(x) ==
    /\ OfTwo(x.secrets, <<pair[1], DetailsFor(pair[1])>>, <<pair[2], DetailsFor(pair[2])>>)
    /\ OfTwo(x.profiles, DetailsFor(pair[1]), DetailsFor(pair[2]))
    /\ OfTwo(x.drClusters, pair[1], pair[2])

FewRecorded == pc \in Running => Few(created) /\ Few(undo)

PInv == IInv /\ FewRecorded

LEMMA TwoAtMost ==
    ASSUME NEW S, NEW a, NEW b, OfTwo(S, a, b)
    PROVE  IsFiniteSet(S) /\ Cardinality(S) \in 0..2
<1>1. IsFiniteSet({a}) /\ Cardinality({a}) = 1
  BY FS_Singleton
<1>2. /\ IsFiniteSet({a} \cup {b})
      /\ Cardinality({a} \cup {b}) = IF b \in {a} THEN Cardinality({a}) ELSE Cardinality({a}) + 1
  BY <1>1, FS_AddElement, Zenon
<1>3. Cardinality({a} \cup {b}) \in {1, 2}
  BY <1>1, <1>2
<1>4. S \in SUBSET ({a} \cup {b})
  BY DEF OfTwo
<1>5. IsFiniteSet(S) /\ Cardinality(S) <= Cardinality({a} \cup {b})
  BY <1>2, <1>4, FS_Subset
<1>6. Cardinality(S) \in Nat
  BY <1>5, FS_CardinalityType
<1> QED BY <1>3, <1>5, <1>6

LEMMA FewUndos ==
    ASSUME NEW x, Few(x)
    PROVE  /\ IsFiniteSet(x.secrets) /\ IsFiniteSet(x.profiles) /\ IsFiniteSet(x.drClusters)
           /\ Cardinality(x.secrets) \in 0..2 /\ Cardinality(x.profiles) \in 0..2
           /\ Cardinality(x.drClusters) \in 0..2
<1>1. IsFiniteSet(x.secrets) /\ Cardinality(x.secrets) \in 0..2
  BY TwoAtMost DEF Few
<1>2. IsFiniteSet(x.profiles) /\ Cardinality(x.profiles) \in 0..2
  BY TwoAtMost DEF Few
<1>3. IsFiniteSet(x.drClusters) /\ Cardinality(x.drClusters) \in 0..2
  BY TwoAtMost DEF Few
<1> QED BY <1>1, <1>2, <1>3

\* The record of a run grows by the cluster it is at.
LEMMA FewHere ==
    ASSUME at \in 1..2, Few(created), created \in Resources
    PROVE  /\ Few([created EXCEPT !.secrets = @ \cup {<<Here, HereName>>}])
           /\ Few([created EXCEPT !.profiles = @ \cup {HereName}])
           /\ Few([created EXCEPT !.drClusters = @ \cup {Here}])
<1>1. Here \in {pair[1], pair[2]} /\ HereName \in {DetailsFor(pair[1]), DetailsFor(pair[2])}
      /\ <<Here, HereName>> \in {<<pair[1], DetailsFor(pair[1])>>, <<pair[2], DetailsFor(pair[2])>>}
  <2>1. at = 1 \/ at = 2
    OBVIOUS
  <2> QED BY <2>1 DEF Here, HereName
<1>2. Few([created EXCEPT !.secrets = @ \cup {<<Here, HereName>>}])
  BY <1>1 DEF Few, OfTwo, Resources
<1>3. Few([created EXCEPT !.profiles = @ \cup {HereName}])
  BY <1>1 DEF Few, OfTwo, Resources
<1>4. Few([created EXCEPT !.drClusters = @ \cup {Here}])
  BY <1>1 DEF Few, OfTwo, Resources
<1> QED BY <1>2, <1>3, <1>4

LEMMA RunFew == ASSUME PInv, Run PROVE FewRecorded'
<1>1. /\ pc \in Running /\ created \in Resources /\ undo \in Resources
      /\ pc \in AtCall => at \in 1..2
  BY DEF PInv, IInv, TypeOK, Named, Run, NextCluster, RecreateDRCluster, PutSecret, PutProfile,
         PutDRCluster, PutDRPolicy, UndoDRCluster, UndoProfile, UndoSecret, ReportFailure, Running
<1>2. Few(created) /\ Few(undo)
  BY <1>1 DEF PInv, FewRecorded
<1>3. pair' = pair /\ slot' = slot
  BY DEF Run, NextCluster, RecreateDRCluster, PutSecret, PutProfile, PutDRCluster, PutDRPolicy,
         UndoDRCluster, UndoProfile, UndoSecret, ReportFailure, wizard
<1>4. \A i \in 1..2 : pair'[i] = pair[i] /\ (DetailsFor(pair[i]))' = DetailsFor(pair[i])
  BY <1>3 DEF DetailsFor
<1>6. Few(Nothing)
  BY DEF Few, OfTwo, Nothing
<1>7. CASE NextCluster
  BY <1>2, <1>3, <1>4, <1>7 DEF NextCluster, FewRecorded, Few
<1>8. CASE RecreateDRCluster \/ PutSecret \/ PutProfile \/ PutDRCluster \/ PutDRPolicy
  <2>1. \/ UNCHANGED <<created, undo>>
        \/ created' = Nothing /\ undo' = Nothing
        \/ undo' = created /\ created' = created
        \/ /\ undo' = undo /\ pc \in AtCall
           /\ created' \in {[created EXCEPT !.secrets = @ \cup {<<Here, HereName>>}],
                            [created EXCEPT !.profiles = @ \cup {HereName}],
                            [created EXCEPT !.drClusters = @ \cup {Here}]}
    BY <1>8 DEF RecreateDRCluster, PutSecret, PutProfile, PutDRCluster, PutDRPolicy, Fail, Record,
       Return, AtCall
  <2> DEFINE now == created'
             then == undo'
  <2>2. Few(now) /\ Few(then)
    <3>1. pc \in AtCall => /\ Few([created EXCEPT !.secrets = @ \cup {<<Here, HereName>>}])
                           /\ Few([created EXCEPT !.profiles = @ \cup {HereName}])
                           /\ Few([created EXCEPT !.drClusters = @ \cup {Here}])
      BY <1>1, <1>2, FewHere
    <3> QED BY <1>2, <1>6, <2>1, <3>1
  <2> QED BY <1>3, <1>4, <2>2 DEF FewRecorded, Few
<1>9. CASE UndoDRCluster \/ UndoProfile \/ UndoSecret \/ ReportFailure
  <2>1. /\ created' \in {created, Nothing}
        /\ \/ undo' = Nothing
           \/ /\ undo'.secrets \subseteq undo.secrets /\ undo'.profiles \subseteq undo.profiles
              /\ undo'.drClusters \subseteq undo.drClusters
    BY <1>1, <1>9 DEF UndoDRCluster, UndoProfile, UndoSecret, ReportFailure, Return, Resources
  <2> DEFINE now == created'
             then == undo'
  <2>2. Few(now) /\ Few(then)
    BY <1>2, <1>6, <2>1 DEF Few, OfTwo
  <2> QED BY <1>3, <1>4, <2>2 DEF FewRecorded, Few
<1> QED BY <1>7, <1>8, <1>9 DEF Run

LEMMA StepPInv == PInv /\ [Next]_vars => PInv'
<1> SUFFICES ASSUME PInv, [Next]_vars PROVE FewRecorded'
  BY StepIInv DEF PInv
<1>1. Few(Nothing)' /\ Few(Nothing)
  BY DEF Few, OfTwo, Nothing
<1>2. CASE \/ UNCHANGED vars \/ WatchDelivers \/ FinalizeDRCluster
  <2>1. UNCHANGED <<pc, created, undo, pair, slot>>
    BY <1>2 DEF vars, wizard, WatchDelivers, FinalizeDRCluster
  <2> QED BY <2>1 DEF PInv, FewRecorded, Few, DetailsFor
<1>3. CASE SelectClusters \/ EditDetails \/ UseSameConnection \/ PrefillDetails \/ Reopen
  <2>1. pc' \notin Running
    BY <1>3 DEF SelectClusters, EditDetails, UseSameConnection, PrefillDetails, Reopen, Touch,
       Return, Running
  <2> QED BY <2>1 DEF FewRecorded
<1>4. CASE Submit
  BY <1>4 DEF Submit, FewRecorded, Few, OfTwo, Nothing
<1> QED BY <1>2, <1>3, <1>4, RunFew DEF Next

LEMMA StageIs ==
    /\ Stage["cluster"] = 5 /\ Stage["recreate"] = 4 /\ Stage["secret"] = 3
    /\ Stage["profile"] = 2 /\ Stage["drCluster"] = 1 /\ Stage["policy"] = 0
BY DEF Stage

\* A rejected call: what there is to undo is less than what a run has before it.
LEMMA FailProgress ==
    ASSUME PInv, FewRecorded', Fail, pc \in Running \ {"rollback"}
    PROVE  Rank' < Rank
<1>1. pc' = "rollback" /\ pc' \in Running /\ at \in 1..3
  BY DEF PInv, IInv, TypeOK, Fail, Running
<1>2. Few(undo)'
  BY <1>1 DEF FewRecorded
<1>3. /\ Cardinality(undo'.secrets) \in 0..2 /\ Cardinality(undo'.profiles) \in 0..2
      /\ Cardinality(undo'.drClusters) \in 0..2
  <2>1. /\ OfTwo(undo'.secrets, <<pair'[1], DetailsFor(pair[1])'>>, <<pair'[2], DetailsFor(pair[2])'>>)
        /\ OfTwo(undo'.profiles, DetailsFor(pair[1])', DetailsFor(pair[2])')
        /\ OfTwo(undo'.drClusters, pair'[1], pair'[2])
    BY <1>2 DEF Few, OfTwo
  <2>2. Cardinality(undo'.secrets) \in 0..2
    BY <2>1, TwoAtMost
  <2>3. Cardinality(undo'.profiles) \in 0..2
    BY <2>1, TwoAtMost
  <2>4. Cardinality(undo'.drClusters) \in 0..2
    BY <2>1, TwoAtMost
  <2> QED BY <2>2, <2>3, <2>4
<1>4. Stage[pc] \in 0..5
  BY StageIs DEF Running
<1>5. Rank = 7 + 6 * (3 - at) + Stage[pc]
  BY DEF Rank, Running
<1>6. Rank' = Cardinality(undo'.secrets) + Cardinality(undo'.profiles) + Cardinality(undo'.drClusters)
  BY <1>1 DEF Rank
<1> QED BY <1>1, <1>3, <1>4, <1>5, <1>6

\* A call of the run that is answered.
LEMMA CallProgress ==
    ASSUME PInv, ~Fail, pc' \in Running,
           NextCluster \/ RecreateDRCluster \/ PutSecret \/ PutProfile \/ PutDRCluster \/ PutDRPolicy
    PROVE  Rank' < Rank
<1>1. at \in 1..3 /\ (pc \in AtCall => at \in 1..2)
  BY DEF PInv, IInv, TypeOK, Named
<1>2. \/ pc = "cluster" /\ pc' = "policy" /\ at' = at
      \/ pc = "cluster" /\ pc' = "cluster" /\ at' = at + 1 /\ at < 3
      \/ pc = "cluster" /\ pc' \in {"recreate", "secret"} /\ at' = at
      \/ pc = "recreate" /\ pc' = "secret" /\ at' = at
      \/ pc = "secret" /\ pc' = "profile" /\ at' = at
      \/ pc = "profile" /\ pc' = "drCluster" /\ at' = at
      \/ pc \in {"profile", "drCluster"} /\ pc' = "cluster" /\ at' = at + 1
  BY DEF NextCluster, FirstCall, Advance, RecreateDRCluster, PutSecret, PutProfile, PutDRCluster,
     PutDRPolicy, Record, Return, Running
<1>3. Stage' = Stage
  BY DEF Stage
<1>4. pc # "rollback" /\ pc' # "rollback"
  BY <1>2
<1>5. Rank = 7 + 6 * (3 - at) + Stage[pc] /\ Rank' = 7 + 6 * (3 - at') + Stage[pc']
  BY <1>3, <1>4 DEF Rank
<1>6. pc \in AtCall <=> pc \in {"recreate", "secret", "profile", "drCluster"}
  BY DEF AtCall
<1> QED BY <1>1, <1>2, <1>5, <1>6, StageIs

\* A call of the rollback.
LEMMA UndoProgress ==
    ASSUME PInv, UndoDRCluster \/ UndoProfile \/ UndoSecret
    PROVE  Rank' < Rank
<1>1. pc = "rollback" /\ pc' = "rollback" /\ undo \in Resources
  BY DEF PInv, IInv, TypeOK, UndoDRCluster, UndoProfile, UndoSecret
<1>2. /\ IsFiniteSet(undo.secrets) /\ IsFiniteSet(undo.profiles) /\ IsFiniteSet(undo.drClusters)
      /\ Cardinality(undo.secrets) \in 0..2 /\ Cardinality(undo.profiles) \in 0..2
      /\ Cardinality(undo.drClusters) \in 0..2
  BY <1>1, FewUndos DEF PInv, FewRecorded, Running
<1>3. /\ Rank = Cardinality(undo.secrets) + Cardinality(undo.profiles) + Cardinality(undo.drClusters)
      /\ Rank' = Cardinality(undo'.secrets) + Cardinality(undo'.profiles)
                   + Cardinality(undo'.drClusters)
  BY <1>1 DEF Rank
<1>4. CASE UndoDRCluster
  <2>1. PICK c \in undo.drClusters : undo' = [undo EXCEPT !.drClusters = @ \ {c}]
    BY <1>4 DEF UndoDRCluster
  <2>2. /\ undo'.drClusters = undo.drClusters \ {c}
        /\ undo'.secrets = undo.secrets /\ undo'.profiles = undo.profiles
    BY <1>1, <2>1 DEF Resources
  <2>3. Cardinality(undo'.drClusters) = Cardinality(undo.drClusters) - 1
    BY <1>2, <2>1, <2>2, FS_RemoveElement
  <2> QED BY <1>2, <1>3, <2>2, <2>3
<1>5. CASE UndoProfile
  <2>1. PICK n \in undo.profiles : undo' = [undo EXCEPT !.profiles = @ \ {n}]
    BY <1>5 DEF UndoProfile
  <2>2. /\ undo'.profiles = undo.profiles \ {n}
        /\ undo'.secrets = undo.secrets /\ undo'.drClusters = undo.drClusters
    BY <1>1, <2>1 DEF Resources
  <2>3. Cardinality(undo'.profiles) = Cardinality(undo.profiles) - 1
    BY <1>2, <2>1, <2>2, FS_RemoveElement
  <2> QED BY <1>2, <1>3, <2>2, <2>3
<1>6. CASE UndoSecret
  <2>1. PICK s \in undo.secrets : undo' = [undo EXCEPT !.secrets = @ \ {s}]
    BY <1>6 DEF UndoSecret
  <2>2. /\ undo'.secrets = undo.secrets \ {s}
        /\ undo'.profiles = undo.profiles /\ undo'.drClusters = undo.drClusters
    BY <1>1, <2>1 DEF Resources
  <2>3. Cardinality(undo'.secrets) = Cardinality(undo.secrets) - 1
    BY <1>2, <2>1, <2>2, FS_RemoveElement
  <2> QED BY <1>2, <1>3, <2>2, <2>3
<1> QED BY <1>4, <1>5, <1>6

\* Every step that a run takes while it stays a run, whichever calls are
\* rejected, lowers the bound on those it has before it, so that a click on
\* Create ends: prepareThirdPartyPeering loops twice at most, and
\* rollbackThirdPartyResources settles each recorded resource once.
THEOREM RunEnds == Spec => EveryStepIsProgress
<1>1. Init => PInv
  BY InitIInv DEF Init, PInv, FewRecorded, Running
<1>2. PInv /\ PInv' /\ [Next]_vars
        => [(pc \in Running /\ pc' \in Running /\ Run) => (Rank' < Rank)]_vars
  <2> SUFFICES ASSUME PInv, FewRecorded', Run, pc \in Running, pc' \in Running PROVE Rank' < Rank
    BY DEF PInv
  <2>1. CASE NextCluster \/ RecreateDRCluster \/ PutSecret \/ PutProfile \/ PutDRCluster \/ PutDRPolicy
    <3>1. pc # "rollback"
      BY <2>1 DEF NextCluster, RecreateDRCluster, PutSecret, PutProfile, PutDRCluster, PutDRPolicy
    <3> QED BY <2>1, <3>1, CallProgress, FailProgress
  <2>2. CASE UndoDRCluster \/ UndoProfile \/ UndoSecret
    BY <2>2, UndoProgress
  <2>3. CASE ReportFailure
    BY <2>3 DEF ReportFailure, Return, Running
  <2> QED BY <2>1, <2>2, <2>3 DEF Run
<1> QED BY <1>1, <1>2, StepPInv, PTL DEF Spec, EveryStepIsProgress
=============================================================================

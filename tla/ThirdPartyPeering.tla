-------------------------- MODULE ThirdPartyPeering --------------------------
(***************************************************************************)
(* The third-party branch of the "Create DRPolicy" wizard of packages/mco: *)
(* the S3 details form, and the run of createPolicyPromises that writes,   *)
(* cluster after cluster, a Ramen S3 Secret, a profile of the Ramen hub    *)
(* ConfigMap and a DRCluster, then the DRPolicy, and rolls back what it    *)
(* recorded as created when a call is rejected.                            *)
(*                                                                         *)
(* The hub cluster's API server is external.  A call is one step: it is    *)
(* answered, or it is rejected without effect, or it takes effect and its  *)
(* answer is lost, which the code cannot tell from a rejection.            *)
(***************************************************************************)
EXTENDS Naturals, FiniteSets

CONSTANTS
    Cluster,      \* the managed clusters the wizard offers
    Name,         \* the S3 profile names a user may type
    None,         \* no profile name, no DRCluster, no profile
    MaxSubmits,   \* bound: clicks on Create
    MaxFaults,    \* bound: rejected API calls
    MaxSelections \* bound: changes of the selected pair after the first

ASSUME NoneAssumption == None \notin Cluster /\ None \notin Name
ASSUME BoundAssumption == {MaxSubmits, MaxFaults, MaxSelections} \subseteq Nat

VARIABLES
    hub,        \* the resources of the hub cluster
    seen,       \* the DRClusters the watch of the wizard has delivered
    pair,       \* state.clusters.selectedClusters
    slot,       \* state.configure.cluster1S3Details and cluster2S3Details
    pc,         \* the await at which the run stands, or the wizard's page
    at,         \* the position in the loop over selectedClusters
    sel,        \* selectedDRClusters as the run captured them
    created,    \* CreatedResources of the run
    undo,       \* rollback calls that have not settled
    before,     \* history: the hub when Create was clicked
    sound,      \* history: SoundStart held when Create was clicked
    lost,       \* history: a call of this run took effect and was rejected
    undoFailed, \* history: a rollback call of this run was rejected or cut off
    submits, faults, selections

wizard == <<pair, slot, seen>>
history == <<before, sound, lost, undoFailed>>
bounds == <<submits, faults, selections>>
vars == <<hub, wizard, pc, at, sel, created, undo, history, bounds>>

Pairs == {p \in [1..2 -> Cluster] : p[1] # p[2]}
\* filled: the bucket, the endpoint, the region and the credentials.
Details == [cluster : Cluster \cup {None}, name : Name \cup {None}, filled : BOOLEAN]
DRClusters == [Cluster -> Name \cup {None}]
Hub == [drCluster : DRClusters,                  \* spec.s3ProfileName
        dying : SUBSET Cluster,                  \* DRClusters with a deletionTimestamp
        profile : [Name -> Cluster \cup {None}], \* whose bucket the profile names
        secret : SUBSET (Cluster \X Name),       \* named by a hash of the details
        policy : SUBSET Cluster]                 \* spec.drClusters, {} when absent
Resources == [secrets : SUBSET (Cluster \X Name),
              profiles : SUBSET Name,
              drClusters : SUBSET Cluster]

Blank == [cluster |-> None, name |-> None, filled |-> FALSE]
Nothing == [secrets |-> {}, profiles |-> {}, drClusters |-> {}]
Running == {"cluster", "recreate", "secret", "profile", "drCluster", "policy",
            "rollback"}
Editing == {"form", "failed"}

-----------------------------------------------------------------------------
(* What the code computes from the form and from the watched lists.        *)

\* Every cluster of the pair has a DRCluster in the given view.
AllDRClustersExist(view) == \A i \in 1..2 : view[pair[i]] # None

\* detailsByCluster[c]: keyed by the cluster name stored in the details, the
\* second details over the first; None when neither is about c.
DetailsFor(c) == IF slot[2].cluster = c THEN slot[2].name
                 ELSE IF slot[1].cluster = c THEN slot[1].name ELSE None

\* validateThirdPartyConfigureInputs: it never looks at the clusterName of the
\* details.
ValidInputs == \/ AllDRClustersExist(seen)
               \/ /\ \A i \in 1..2 : slot[i].name # None /\ slot[i].filled
                  /\ slot[1].name # slot[2].name

\* Mutant: the loop stays at the same cluster.
AdvanceM == at' = at
\* On to the next of selectedClusters.
Advance == at' = at + 1

\* The cluster and the profile name the loop is at.
Here == pair[at]
\* Mutant: every cluster gets the profile of the first form.
HereNameM == slot[1].name
HereName == DetailsFor(Here)
NeedsRecreate == sel[Here] # None /\ sel[Here] # HereName

CreatesDRCluster == sel[Here] = None \/ NeedsRecreate

\* Mutant: the secret is left for later.
FirstCallM == IF NeedsRecreate THEN "recreate" ELSE "profile"
\* DRCluster spec is immutable: delete first if s3ProfileName changed.
FirstCall == IF NeedsRecreate THEN "recreate" ELSE "secret"

-----------------------------------------------------------------------------
(* What the properties compare a run with.                                 *)

\* The cluster has a DRCluster that is staying, its profile names the cluster's
\* own bucket and the Secret of the profile exists.
Backed(h, c) == /\ h.drCluster[c] # None /\ c \notin h.dying
                /\ h.profile[h.drCluster[c]] = c
                /\ <<c, h.drCluster[c]>> \in h.secret

\* What the user sees at the click is what the hub holds, each details form is
\* about a selected cluster, and the DRClusters already there are backed.
SoundStart == /\ seen = hub.drCluster /\ hub.dying = {}
              /\ \A i \in 1..2 : slot[i].cluster = pair[i]
              /\ \A c \in Cluster : hub.drCluster[c] # None => Backed(hub, c)

-----------------------------------------------------------------------------
(* One awaited call of the run, `eff` being the hub once it has taken      *)
(* effect.                                                                 *)

Answered(eff) == hub' = eff /\ UNCHANGED <<faults, lost>>

Rejected(eff) == /\ faults < MaxFaults
                 /\ faults' = faults + 1
                 /\ \/ hub' = hub /\ lost' = lost
                    \/ hub' = eff /\ lost' = TRUE

\* Mutant: the rollback forgets the secrets.
FailM == /\ pc' = "rollback"
         /\ undo' = [created EXCEPT !.secrets = {}]
         /\ UNCHANGED created
\* The catch block: rollbackThirdPartyResources(created) starts every
\* compensating call at once.
Fail == /\ pc' = "rollback"
        /\ undo' = created
        /\ UNCHANGED created

\* The run records what it has written, and only then goes on.
Record(resources, next) == /\ created' = resources
                           /\ pc' = next
                           /\ UNCHANGED undo

NoView == [c \in Cluster |-> None]

\* createPolicyPromises returns or throws: its locals are gone.
Return(page) == /\ pc' = page
                /\ created' = Nothing /\ undo' = Nothing
                /\ sel' = NoView /\ at' = 1

Init ==
    /\ hub = [drCluster |-> [c \in Cluster |-> None], dying |-> {},
              profile |-> [n \in Name |-> None], secret |-> {}, policy |-> {}]
    /\ seen = hub.drCluster
    /\ pair \in Pairs
    /\ slot = [i \in 1..2 |-> Blank]
    /\ pc = "form" /\ at = 1 /\ sel = NoView
    /\ created = Nothing /\ undo = Nothing
    /\ before = hub /\ sound = FALSE /\ lost = FALSE /\ undoFailed = FALSE
    /\ submits = 0 /\ faults = 0 /\ selections = 0

-----------------------------------------------------------------------------
(* The form.  A run works on the state its closure captured at the click,  *)
(* so an edit made while it runs commutes with it: the form moves only     *)
(* while no run does.                                                      *)

\* The history of a run is kept until the form it came back to is touched.
Touch == /\ pc \in Editing /\ pc' = "form"
         /\ before' = hub /\ sound' = FALSE /\ lost' = FALSE /\ undoFailed' = FALSE

\* SET_SELECTED_CLUSTERS: another pair, the S3 details stay as they are.
SelectClusters ==
    /\ Touch /\ selections < MaxSelections
    /\ selections' = selections + 1
    /\ \E p \in Pairs \ {pair} : pair' = p
    /\ UNCHANGED <<hub, seen, slot, at, sel, created, undo,
                   submits, faults>>

\* update(): typing in the fields of a cluster, disabled when its DRCluster
\* is in the watched list.
EditDetails ==
    /\ Touch
    /\ \E i \in 1..2, n \in Name :
          /\ seen[pair[i]] = None
          /\ slot' = [slot EXCEPT ![i] = [cluster |-> pair[i], name |-> n,
                                               filled |-> TRUE]]
    /\ UNCHANGED <<hub, seen, pair, at, sel, created, undo, bounds>>

\* The "use the same S3 connection" effect copies the details of the first
\* cluster under the second one's name and keeps its profile name, be it the one
\* of another cluster that was selected before.
UseSameConnection ==
    /\ Touch
    /\ ~AllDRClustersExist(seen)
    /\ slot' = [slot EXCEPT ![2].cluster = pair[2], ![2].filled = slot[1].filled]
    /\ UNCHANGED <<hub, seen, pair, at, sel, created, undo, bounds>>

\* loadS3ProfileDetails: when both DRClusters exist the form shows the profiles
\* that are found, with their names and without their credentials.
PrefillDetails ==
    /\ Touch
    /\ AllDRClustersExist(seen)
    /\ slot' = [i \in 1..2 |->
                  IF hub.profile[seen[pair[i]]] # None
                  THEN [cluster |-> pair[i], name |-> seen[pair[i]], filled |-> FALSE]
                  ELSE slot[i]]
    /\ UNCHANGED <<hub, seen, pair, at, sel, created, undo, bounds>>

\* onCreate -> createPolicyPromises: the shortcut when both DRClusters exist,
\* prepareThirdPartyPeering otherwise.
Submit ==
    /\ pc \in Editing /\ submits < MaxSubmits /\ ValidInputs
    /\ submits' = submits + 1
    /\ sel' = seen /\ at' = 1
    /\ created' = Nothing /\ undo' = Nothing
    /\ before' = hub /\ sound' = SoundStart /\ lost' = FALSE /\ undoFailed' = FALSE
    /\ pc' = IF AllDRClustersExist(seen) THEN "policy" ELSE "cluster"
    /\ UNCHANGED <<hub, wizard, faults, selections>>

-----------------------------------------------------------------------------
(* prepareThirdPartyPeering, one action per await.                         *)

\* The head of the loop: a cluster without details is skipped.
NextCluster ==
    /\ pc = "cluster"
    /\ \/ at = 3 /\ pc' = "policy" /\ UNCHANGED at
       \/ at < 3 /\ HereName = None /\ Advance /\ UNCHANGED pc
       \/ /\ at < 3 /\ HereName # None /\ UNCHANGED at
          /\ pc' = FirstCall
    /\ UNCHANGED <<hub, wizard, sel, created, undo, history, bounds>>

\* Mutant: the blank s3ProfileName of the payload replaces the spec.
DeletedM(h, c) == [h EXCEPT !.dying = @ \cup {c}, !.drCluster[c] = ""]
\* deleteDRCluster: the object is marked for deletion; a missing one is a 404,
\* which rejects.
Deleted(h, c) == [h EXCEPT !.dying = @ \cup {c}]

RecreateDRCluster ==
    /\ pc = "recreate"
    /\ \/ /\ hub.drCluster[Here] # None
          /\ Answered(Deleted(hub, Here))
          /\ pc' = "secret" /\ UNCHANGED <<created, undo>>
       \/ /\ hub.drCluster[Here] # None
          /\ Rejected(Deleted(hub, Here)) /\ Fail
       \/ /\ hub.drCluster[Here] = None
          /\ Answered(hub) /\ Fail
    /\ UNCHANGED <<wizard, at, sel, before, sound, undoFailed, submits, selections>>

\* createOrUpdateRamenS3Secret, then created.secrets.push.
PutSecret ==
    /\ pc = "secret"
    /\ LET eff == [hub EXCEPT !.secret = @ \cup {<<Here, HereName>>}]
           rec == [created EXCEPT !.secrets = @ \cup {<<Here, HereName>>}]
       IN \/ Answered(eff) /\ Record(rec, "profile")
          \/ Rejected(eff) /\ Fail
    /\ UNCHANGED <<wizard, at, sel, before, sound, undoFailed, submits, selections>>

\* updateRamenHubOperatorConfig, then created.profiles.push: a profile of that
\* name is overwritten whoever wrote it.
PutProfile ==
    /\ pc = "profile"
    /\ LET eff == [hub EXCEPT !.profile[HereName] = Here]
           rec == [created EXCEPT !.profiles = @ \cup {HereName}]
       IN \/ /\ Answered(eff)
             /\ IF CreatesDRCluster THEN Record(rec, "drCluster") /\ UNCHANGED at
                ELSE Record(rec, "cluster") /\ Advance
          \/ Rejected(eff) /\ Fail /\ UNCHANGED at
    /\ UNCHANGED <<wizard, sel, before, sound, undoFailed, submits, selections>>

\* createDRCluster, then created.drClusters.push.  The spec is immutable: the
\* server refuses to change the profile of a DRCluster that still exists.
PutDRCluster ==
    /\ pc = "drCluster"
    /\ LET eff == [hub EXCEPT !.drCluster[Here] = HereName]
           rec == [created EXCEPT !.drClusters = @ \cup {Here}]
           writable == hub.drCluster[Here] \in {None, HereName}
       IN \/ writable /\ Answered(eff) /\ Record(rec, "cluster") /\ Advance
          \/ writable /\ Rejected(eff) /\ Fail /\ UNCHANGED at
          \/ ~writable /\ Answered(hub) /\ Fail /\ UNCHANGED at
    /\ UNCHANGED <<wizard, sel, before, sound, undoFailed, submits, selections>>

\* createDRPolicy over the names of the selected clusters.
PutDRPolicy ==
    /\ pc = "policy"
    /\ LET eff == [hub EXCEPT !.policy = {pair[1], pair[2]}]
       IN \/ Answered(eff) /\ Return("created")
          \/ Rejected(eff) /\ Fail /\ UNCHANGED <<at, sel>>
    /\ UNCHANGED <<wizard, before, sound, undoFailed, submits, selections>>

-----------------------------------------------------------------------------
(* rollbackThirdPartyResources: Promise.allSettled over every recorded     *)
(* resource.  The calls settle in any order; a rejected one is logged.     *)

Settles(eff) ==
    \/ Answered(eff) /\ UNCHANGED undoFailed
    \/ Rejected(eff) /\ undoFailed' = TRUE

UndoDRCluster ==
    /\ pc = "rollback"
    /\ \E c \in undo.drClusters :
          /\ undo' = [undo EXCEPT !.drClusters = @ \ {c}]
          /\ Settles(IF hub.drCluster[c] = None THEN hub ELSE Deleted(hub, c))
    /\ UNCHANGED <<wizard, pc, at, sel, created, before, sound, submits, selections>>

UndoProfile ==
    /\ pc = "rollback"
    /\ \E n \in undo.profiles :
          /\ undo' = [undo EXCEPT !.profiles = @ \ {n}]
          /\ Settles([hub EXCEPT !.profile[n] = None])
    /\ UNCHANGED <<wizard, pc, at, sel, created, before, sound, submits, selections>>

UndoSecret ==
    /\ pc = "rollback"
    /\ \E s \in undo.secrets :
          /\ undo' = [undo EXCEPT !.secrets = @ \ {s}]
          /\ Settles([hub EXCEPT !.secret = @ \ {s}])
    /\ UNCHANGED <<wizard, pc, at, sel, created, before, sound, submits, selections>>

\* throw error -> setCreateErrorMessage: the form is back with its contents.
ReportFailure ==
    /\ pc = "rollback" /\ undo = Nothing
    /\ Return("failed")
    /\ UNCHANGED <<hub, wizard, history, bounds>>

-----------------------------------------------------------------------------
(* The environment.                                                        *)

\* The watch delivers the current list of DRClusters.
WatchDelivers ==
    /\ seen' = hub.drCluster /\ seen' # seen
    /\ UNCHANGED <<hub, pair, slot, pc, at, sel, created, undo, history, bounds>>

\* The hub operator lifts the finalizers of a DRCluster being deleted.
FinalizeDRCluster ==
    /\ \E c \in hub.dying :
          hub' = [hub EXCEPT !.drCluster[c] = None, !.dying = @ \ {c}]
    /\ UNCHANGED <<wizard, pc, at, sel, created, undo, history, bounds>>

\* The wizard is opened afresh: after a success, a cancel, or a closed tab,
\* which stops a run between two calls and leaves what it did.
Reopen ==
    /\ submits > 0 /\ submits < MaxSubmits
    /\ Return("form")
    /\ slot' = [i \in 1..2 |-> Blank]
    /\ pair' \in Pairs
    /\ seen' = hub.drCluster
    /\ before' = hub /\ sound' = FALSE /\ lost' = FALSE /\ undoFailed' = FALSE
    /\ UNCHANGED <<hub, bounds>>

Run == \/ NextCluster \/ RecreateDRCluster \/ PutSecret \/ PutProfile
       \/ PutDRCluster \/ PutDRPolicy
       \/ UndoDRCluster \/ UndoProfile \/ UndoSecret \/ ReportFailure

Next == \/ SelectClusters \/ EditDetails \/ UseSameConnection \/ PrefillDetails
        \/ Submit \/ Run
        \/ WatchDelivers \/ FinalizeDRCluster \/ Reopen

Spec == Init /\ [][Next]_vars
-----------------------------------------------------------------------------
(* Properties.                                                             *)

\* Every variable stays in its set (the type of hub, form and run).
TypeOK ==
    /\ hub \in Hub
    /\ seen \in DRClusters /\ sel \in DRClusters
    /\ pair \in Pairs /\ slot \in [1..2 -> Details]
    /\ pc \in Running \cup Editing \cup {"created"}
    /\ at \in 1..3
    /\ created \in Resources /\ undo \in Resources
    /\ before \in Hub /\ {sound, lost, undoFailed} \subseteq BOOLEAN
    /\ submits \in Nat /\ faults \in Nat /\ selections \in Nat

\* A DRPolicy that the wizard reports as created stands on two clusters whose
\* DRCluster, S3 profile and Secret are all in place, whatever call failed and
\* was retried before, when the run started from a sound view of the hub
\* (createPolicyPromises returns only after prepareThirdPartyPeering did).
PolicyOverBackedClusters ==
    pc = "created" /\ sound =>
        /\ hub.policy = {pair[1], pair[2]}
        /\ \A i \in 1..2 : Backed(hub, pair[i])

\* The run meets none of the resources it is about to write.
NothingExisted ==
    \A i \in 1..2 : LET c == slot[i].cluster
                        n == slot[i].name
                    IN /\ c \in Cluster /\ n \in Name
                       /\ before.drCluster[c] = None
                       /\ before.profile[n] = None /\ <<c, n>> \notin before.secret

\* A failed run leaves the hub as it found it, DRClusters on their way out
\* aside, when no answer was lost, every rollback call succeeded and the run
\* overwrote nothing (rollbackThirdPartyResources).
RollbackRestoresHub ==
    pc = "failed" /\ ~lost /\ ~undoFailed /\ NothingExisted =>
        /\ hub.secret = before.secret /\ hub.profile = before.profile
        /\ hub.policy = before.policy
        /\ \A c \in Cluster : \/ hub.drCluster[c] \in {before.drCluster[c], None}
                               \/ c \in hub.dying

\* A DRCluster never appears before the profile and the Secret it refers to
\* (the order of the awaits in prepareThirdPartyPeering).
DRClusterComesLast ==
    [][\A c \in Cluster :
          hub.drCluster[c] = None /\ hub'.drCluster[c] # None =>
              /\ hub.profile[hub'.drCluster[c]] = c
              /\ <<c, hub'.drCluster[c]>> \in hub.secret]_vars

\* Steps a run still has before it, at most: the calls of the clusters not yet
\* done and the DRPolicy, or the rollback calls not yet settled.
Stage == [cluster |-> 5, recreate |-> 4, secret |-> 3, profile |-> 2, drCluster |-> 1,
          policy |-> 0, rollback |-> 0]
Rank == IF pc = "rollback"
        THEN Cardinality(undo.secrets) + Cardinality(undo.profiles)
               + Cardinality(undo.drClusters)
        ELSE 7 + 6 * (3 - at) + Stage[pc]

\* Clicking Create ends in a success or in an error on the form: every step a
\* run takes while it stays a run, whichever calls are rejected, is one it never
\* has to take again, so neither the loop nor the rollback goes on for ever.
EveryStepIsProgress ==
    [][(pc \in Running /\ pc' \in Running /\ Run) => (Rank' < Rank)]_vars

\* "each DRCluster must reference a unique profile" (s3-bucket-details-form.tsx):
\* two DRClusters of the hub never share an S3 profile.
UniqueProfilePerDRCluster ==
    \A c, d \in Cluster :
        c # d /\ hub.drCluster[c] # None => hub.drCluster[c] # hub.drCluster[d]
=============================================================================

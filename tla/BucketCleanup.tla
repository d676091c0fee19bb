----------------------------- MODULE BucketCleanup -----------------------------
(***************************************************************************)
(* The operations that delete what a versioned S3 bucket holds (packages/  *)
(* odf): emptying it (EmptyBucketModal), deleting all versions of an object*)
(* and deleting selected rows (DeleteObjectsModal), and deleting the bucket*)
(* itself (DeleteBucketModal).  The first two are loops over the pages of  *)
(* ListObjectVersions.                                                     *)
(*                                                                         *)
(* A version or delete marker is the place it has in that listing, which   *)
(* is by key and then by age; the S3 service is external.  One operation   *)
(* runs at a time; another client may add versions meanwhile.              *)
(***************************************************************************)
EXTENDS Naturals, FiniteSets, FiniteSetsExt

CONSTANTS
    Last,       \* the number of places: versions and markers are 1..Last
    Key,        \* object keys
    KeyAt,      \* the key of each place
    Markers,    \* the places of delete markers, the first of their keys
    HasPrefix,  \* the keys that begin with a key, itself included
    Locked,     \* versions that object lock or a policy may not let go
    PageSize,   \* versions in a page of the service
    Buckets,    \* what the bucket may hold at first
    MaxOps,     \* bound: operations
    MaxFaults   \* bound: rejected calls

Entry == 1..Last
ASSUME KeyAssumption == Last \in Nat /\ KeyAt \in [Entry -> Key]
ASSUME PrefixAssumption == HasPrefix \in [Key -> SUBSET Key] /\ \A k \in Key : k \in HasPrefix[k]
ASSUME BucketAssumption == Buckets \subseteq SUBSET (Entry \ Markers)
ASSUME OrderAssumption ==
    \A e, d \in Entry : KeyAt[d] \in HasPrefix[KeyAt[e]] /\ KeyAt[d] # KeyAt[e] => e < d
ASSUME PlaceAssumption == Locked \subseteq Entry /\ Markers \subseteq Entry /\ PageSize \in Nat \ {0}
ASSUME BoundsAssumption == MaxOps \in Nat /\ MaxFaults \in Nat

VARIABLES
    bucket, \* the versions and markers that there are
    unused, \* the versions that were never put: the bound on other clients
    exists, \* the bucket itself
    op,     \* the operation, or "none"
    pc,     \* the await at which it stands
    target, \* the key, or the rows, it is about
    marker, \* KeyMarker and VersionIdMarker
    page,   \* what it asks to delete next
    more,   \* isTruncated && !stopFetchEarly
    gone,   \* successfullyDeletedObjectVersions
    answer, \* deleteResponse of the loop: undefined, ok or errors
    alert,  \* what the page shows of the last operation
    atClick,\* history: the versions that the operation is to delete
    refused,\* history: a call of the operation was rejected
    ops, faults

cleanup == <<op, pc, target, marker, page, more, gone, answer>>
history == <<alert, atClick, refused>>
cvars == <<bucket, unused, exists, cleanup, history, ops, faults>>

\* rows: versions; hide: objects, which get a delete marker.
Ops == {"empty", "permanent", "rows", "hide"}
Alerts == {"none", "success", "danger", "deleted", "partly", "error"}

CInit ==
    /\ bucket \in Buckets /\ exists = TRUE
    /\ op = "none" /\ pc = "idle" /\ target = {} /\ marker = 0
    /\ page = {} /\ more = FALSE /\ gone = {} /\ answer = "undefined"
    /\ alert = "none" /\ atClick = {} /\ refused = FALSE
    /\ unused = Entry \ (Markers \cup bucket) /\ ops = 0 /\ faults = 0

\* The first n of the places of s.
FirstOf(s, n) == {e \in s : Cardinality({d \in s : d <= e}) <= n}
OfKeys(ks) == {e \in Entry : KeyAt[e] \in ks}

-----------------------------------------------------------------------------
(* The clicks.                                                             *)

Begin(o, rows) ==
    /\ op = "none" /\ exists /\ ops < MaxOps /\ ops' = ops + 1
    /\ op' = o /\ target' = rows
    /\ marker' = 0 /\ more' = TRUE /\ gone' = {} /\ answer' = "undefined"
    /\ refused' = FALSE
    /\ UNCHANGED <<bucket, unused, exists, alert, faults>>

ClickEmpty == /\ Begin("empty", Entry) /\ pc' = "list" /\ page' = {}
              /\ atClick' = bucket

\* The "permanently delete" checkbox, for one object.
ClickPermanent(k) ==
    /\ Begin("permanent", OfKeys({k})) /\ pc' = "list" /\ page' = {}
    /\ atClick' = bucket \cap OfKeys({k})

\* Rows of the list of all versions have a VersionId, those of the list of
\* objects have not: the service then puts a delete marker in front.
ClickRows(rows, versioned) ==
    /\ Begin(IF versioned THEN "rows" ELSE "hide", rows) /\ pc' = "delete" /\ page' = rows
    /\ atClick' = IF versioned THEN rows \cap bucket ELSE {}

-----------------------------------------------------------------------------
(* The loop.                                                               *)

\* What the listing finds: all of the bucket, or the keys that begin with the
\* object's.
Listed == IF op = "permanent" THEN OfKeys(UNION {HasPrefix[KeyAt[e]] : e \in target}) ELSE Entry

\* Mutant: all that the listing found by the prefix.
CollectedM(found) == found
\* deleteObjectKeys, deleteVersionKeys: those of the object's own key.
Collected(found) == found \cap target

\* listObjectVersions.
List ==
    /\ pc = "list"
    /\ LET rest == {e \in bucket \cap Listed : e > marker}
           found == FirstOf(rest, PageSize) IN
       /\ page' = Collected(found)
       \* IsTruncated, and the page does not reach beyond the object's key
       /\ more' = (found # rest /\ found \subseteq target)
       /\ marker' = IF found = {} THEN marker ELSE Max(found)
    /\ pc' = "delete"
    /\ UNCHANGED <<bucket, unused, exists, op, target, gone, answer, history, ops, faults>>

\* successfullyDeletedObjectVersions
Reported(done) == gone \cup done

\* Mutant: the loop ends after its first page.
LoopsM == FALSE
\* Mutant: isTruncated is not read again.
LoopsAlways == TRUE
Loops == more

\* The bucket when the rows done of the page are deleted.
AfterDelete(done) ==
    IF op = "hide" THEN bucket \cup {m \in Markers : \E e \in done : KeyAt[m] = KeyAt[e]}
    ELSE bucket \ done

\* deleteObjects.  It keeps some versions, its Errors, which end the loop: by a
\* throw, or by stopFetchEarly.
DeletePage ==
    /\ pc = "delete"
    /\ \E kept \in SUBSET (page \cap Locked) :
          /\ bucket' = AfterDelete(page \ kept)
          /\ answer' = IF kept = {} THEN "ok" ELSE "errors"
          /\ gone' = IF op \in {"permanent", "rows"} THEN Reported(page \ kept) ELSE gone
          /\ pc' = IF op \in {"empty", "permanent"} /\ kept = {} /\ Loops THEN "list" ELSE "end"
    /\ UNCHANGED <<unused, exists, op, target, marker, page, more, history, ops, faults>>

\* A call is rejected, or an empty list is refused; of a deletion the effect
\* may be there all the same.
Rejected ==
    /\ pc \in {"list", "delete"}
    /\ \/ faults < MaxFaults /\ faults' = faults + 1
       \/ pc = "delete" /\ page = {} /\ UNCHANGED faults
    /\ bucket' \in {bucket} \cup (IF pc = "delete" THEN {AfterDelete(page)} ELSE {})
    /\ pc' = "catch" /\ refused' = TRUE
    /\ UNCHANGED <<unused, exists, op, target, marker, page, more, gone, answer, alert, atClick, ops>>

\* EmptyBucketAlerts: a response with Errors is a danger, and any other but
\* null is a success, undefined included.
Emptied == IF answer = "errors" THEN "danger" ELSE "success"

Reset == /\ op' = "none" /\ pc' = "idle" /\ target' = {} /\ marker' = 0 /\ page' = {}
         /\ more' = FALSE /\ gone' = {} /\ answer' = "undefined"
         /\ atClick' = {} /\ refused' = FALSE

\* The finally clause of onEmpty.
EndEmpty ==
    /\ op = "empty" /\ pc \in {"end", "catch"}
    /\ alert' = Emptied /\ Reset
    /\ UNCHANGED <<bucket, unused, exists, ops, faults>>

\* setDeleteResponse and closeModal.
EndDelete ==
    /\ op \in Ops \ {"empty"} /\ pc = "end"
    /\ alert' = (IF answer = "errors" THEN "partly" ELSE "deleted")
    /\ Reset /\ UNCHANGED <<bucket, unused, exists, ops, faults>>

\* The catch of DeleteObjectsModal's onDelete: the error is shown in the modal
\* and nothing is refreshed.
FailDelete ==
    /\ op \in Ops \ {"empty"} /\ pc = "catch"
    /\ alert' = "error" /\ Reset
    /\ UNCHANGED <<bucket, unused, exists, ops, faults>>

\* onDelete of DeleteBucketModal, offered while its own look at the bucket has
\* found no object; the service refuses a bucket that is not empty.
DeleteBucket ==
    /\ op = "none" /\ exists /\ bucket = {}
    /\ exists' = FALSE
    /\ UNCHANGED <<bucket, unused, cleanup, history, ops, faults>>

\* Another client puts an object: a version before the others of its key.
Put ==
    /\ exists
    /\ \E e \in unused :
          /\ \A d \in bucket : KeyAt[d] = KeyAt[e] => e < d
          /\ bucket' = bucket \cup {e} /\ unused' = unused \ {e}
    /\ UNCHANGED <<exists, cleanup, history, ops, faults>>

LoopStep == List \/ DeletePage \/ Rejected
-----------------------------------------------------------------------------
(* Properties.                                                             *)

CTypeOK ==
    /\ bucket \subseteq Entry /\ unused \subseteq Entry \ bucket /\ exists \in BOOLEAN
    /\ op \in Ops \cup {"none"}
    /\ pc \in {"idle", "list", "delete", "end", "catch"} /\ (pc = "idle" <=> op = "none")
    /\ target \subseteq Entry /\ page \subseteq target /\ gone \subseteq target
    /\ marker \in 0..Last /\ more \in BOOLEAN
    /\ answer \in {"undefined", "ok", "errors"} /\ alert \in Alerts
    /\ atClick \subseteq Entry /\ refused \in BOOLEAN /\ (refused <=> pc = "catch")
    /\ ops \in 0..MaxOps /\ faults \in 0..MaxFaults

\* An operation deletes what it is about and nothing else.  Deleting an object for
\* good takes no version of another object, not even of one whose key begins with
\* its key.  "Successfully emptied bucket", or a deletion without errors, is shown
\* only when every version and marker of the moment of the click is gone: no page
\* is skipped, none is left unread.  The summary of a deletion counts the versions
\* of all its pages, and none that is still there.  After a rejected call, which
\* is left out, onEmpty reports a success all the same.
DeletesExactlyItsOwn ==
    [][/\ op \in {"permanent", "rows"} => bucket \ bucket' \subseteq target
       /\ op # "none" /\ op' = "none" /\ ~refused =>
             /\ alert' \in {"success", "deleted"} => atClick \cap bucket = {}
             /\ op # "empty" => atClick \ bucket \subseteq gone /\ gone \cap bucket = {}]_cvars

\* Every deletion ends, however many pages it has.
DeletionEnds == op # "none" ~> op = "none"
=============================================================================

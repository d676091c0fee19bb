------------------------------- MODULE Uploads -------------------------------
(***************************************************************************)
(* The object uploads of the S3 browser of packages/odf: the drop handler  *)
(* of FileUploadComponent, uploadFile, which uploads a batch of files at a *)
(* time, and the global UploadStore that the alert, the list and the       *)
(* cancel buttons show and write.                                          *)
(*                                                                         *)
(* JavaScript runs one task at a time and every promise continuation       *)
(* before the next task, so tasks (clicks, drops, network events) wait for *)
(* Quiet, while the continuations Launch and Settle do not.                *)
(*                                                                         *)
(* The uploader of the S3 SDK is external.  It reports progress, and is    *)
(* resolved or rejected once; the last progress report comes before the    *)
(* upload is resolved, and may come after abort() has rejected it, when    *)
(* the request was already with the server.                                *)
(***************************************************************************)
EXTENDS Naturals, FiniteSets, Sequences

CONSTANTS
    Key,       \* object keys: folder and file name
    FileLists, \* the lists of files, by key, that may be dropped
    BatchSize, \* files uploaded at a time, 6 in the code
    MaxDrops   \* bound: drops of files

ASSUME SizeAssumption == BatchSize \in Nat \ {0} /\ MaxDrops \in Nat
ASSUME FileAssumption ==
    \A s \in FileLists : /\ s \in Seq(Key)
                         /\ \A i, j \in DOMAIN s : s[i] = s[j] => i = j

VARIABLES
    store,        \* UploadStore.uploads
    uploadStatus, \* what FileUploadComponent shows
    drops,        \* onDrop calls so far
    files,        \* acceptedFiles of each call
    batch,        \* the batch each call is at
    pc,           \* the await at which each call stands
    live,         \* allUploadPromise of each call, by key
    up,           \* the uploader each call made for each key
    cancelled,    \* history: "Yes, cancel" was clicked since the last drop
    cleared,      \* history: the store was cleared under a call or an uploader
    skipped,      \* history: a cancelled file was left out of a batch
    reported      \* history: files that an uploader has reported whole since the
                  \* last drop

calls == <<drops, files, batch, pc, live>>
history == <<cancelled, cleared, skipped, reported>>
vars == <<store, uploadStatus, calls, up, history>>

Drop == 1..MaxDrops

Ongoing == {"init", "started"}
\* owner: the call whose uploader `abort` belongs to, 0 for null.  keyed: the
\* entry was made by addFile and knows its own key.  full: loaded = total.
Entry == [st : Ongoing \cup {"complete", "failed", "cancelled", "absent"},
          owner : 0..MaxDrops, keyed : BOOLEAN, full : BOOLEAN]
Absent == [st |-> "absent", owner |-> 0, keyed |-> FALSE, full |-> FALSE]
\* Mutant: a file is added without its initial state.
AddedM == [Absent EXCEPT !.st = "", !.keyed = TRUE]
\* addFile of convertFileToUploadProgress.
Added == [Absent EXCEPT !.st = "init", !.keyed = TRUE]
Present == {k \in Key : store[k].st # "absent"}
Rejected == {"failed", "aborted"}
Running == {d \in Drop : pc[d] \in {"launch", "wait"}}

Init ==
    /\ store = [k \in Key |-> Absent]
    /\ uploadStatus = "init"
    /\ drops = 0
    /\ files = [d \in Drop |-> <<>>] /\ live = [d \in Drop |-> <<>>]
    /\ batch = [d \in Drop |-> 1] /\ pc = [d \in Drop |-> "none"]
    /\ up = [d \in Drop |-> [k \in Key |-> "idle"]]
    /\ cancelled = FALSE /\ cleared = FALSE /\ skipped = FALSE /\ reported = {}

-----------------------------------------------------------------------------
(* uploadFile and the loop of onDrop that awaits it, one batch at a time.  *)

\* _.chunk(acceptedFiles, 6)[b].
Chunk(d, b) == LET first == (b - 1) * BatchSize + 1
                   last == b * BatchSize
               IN SubSeq(files[d], first,
                         IF last < Len(files[d]) THEN last ELSE Len(files[d]))
Batch(d) == Chunk(d, batch[d])

\* All uploads of the batch are settled: a continuation is due.
BatchSettled(d) ==
    pc[d] = "wait" /\ \A i \in DOMAIN live[d] : up[d][live[d][i]] # "sending"
Quiet == \A d \in Drop : pc[d] # "launch" /\ ~BatchSettled(d)

\* Mutant: the state of a file is not looked at before its upload.
ToUploadM(d) == Batch(d)
\* The filter of uploadFile keeps these places of the batch, in their order.
Kept(d) == {i \in DOMAIN Batch(d) : store[Batch(d)[i]].st # "cancelled"}
Nth(places, n) == CHOOSE i \in places : Cardinality({j \in places : j <= i}) = n
ToUpload(d) == [n \in 1..Cardinality(Kept(d)) |-> Batch(d)[Nth(Kept(d), n)]]

\* performUploadPromise for each file of `started`: the aborter is set and the
\* upload begins.
Begin(d, started) ==
    /\ live' = [live EXCEPT ![d] = started]
    /\ LET keys == {started[i] : i \in DOMAIN started}
       IN /\ store' = [k \in Key |->
                          IF k \in keys THEN [store[k] EXCEPT !.owner = d] ELSE store[k]]
          /\ up' = [up EXCEPT ![d] = [k \in Key |->
                                         IF k \in keys THEN "sending" ELSE @[k]]]

\* Mutant: an error of uploadFile is not caught.
CatchM(d) == UNCHANGED <<batch, pc>>
\* processFiles logs the error of uploadFile and the loop goes on.
Catch(d) == batch' = [batch EXCEPT ![d] = @ + 1] /\ pc' = [pc EXCEPT ![d] = "launch"]

\* The next batch, up to its await.  A file that is no more in the store makes
\* the filter throw before any upload of the batch has begun.
Launch(d) ==
    /\ pc[d] = "launch" /\ Batch(d) # <<>>
    /\ IF \E i \in DOMAIN Batch(d) : Batch(d)[i] \notin Present
       THEN Catch(d) /\ UNCHANGED <<store, live, up, skipped>>
       ELSE /\ Begin(d, ToUpload(d))
            /\ pc' = [pc EXCEPT ![d] = "wait"]
            /\ skipped' = (skipped \/ Len(ToUpload(d)) \notin {0, Len(Batch(d))})
            /\ UNCHANGED batch
    /\ UNCHANGED <<uploadStatus, drops, files, cancelled, cleared, reported>>

\* Mutant: rejected uploads are not looked for.
MarkedM(d) == {}
\* The loop over settledPromises.  Its i-th promise is the i-th file that was
\* not filtered out, but the key is that of the i-th file of the batch; a file
\* that is no more in the store ends the loop with an error.
Marked(d) ==
    {Batch(d)[i] : i \in {j \in DOMAIN live[d] :
                             /\ up[d][live[d][j]] \in Rejected
                             /\ \A h \in 1..j : Batch(d)[h] \in Present}}

Settle(d) ==
    /\ BatchSettled(d)
    /\ store' = [k \in Key |-> IF k \in Marked(d) /\ store[k].st # "complete"
                               THEN [store[k] EXCEPT !.st = "failed"] ELSE store[k]]
    /\ live' = [live EXCEPT ![d] = <<>>]
    /\ batch' = [batch EXCEPT ![d] = @ + 1]
    /\ pc' = [pc EXCEPT ![d] = "launch"]
    /\ UNCHANGED <<uploadStatus, drops, files, up, history>>

\* The end of onDrop.
Finish(d) ==
    /\ pc[d] = "launch" /\ Batch(d) = <<>>
    /\ pc' = [pc EXCEPT ![d] = "done"]
    /\ uploadStatus' = "complete"
    /\ UNCHANGED <<store, drops, files, batch, live, up, history>>

-----------------------------------------------------------------------------
(* Tasks: what the user does.                                              *)

\* An uploader may still write the store.
Reporting == \E d \in Drop, k \in Key : up[d][k] \in {"sending", "aborted"}

\* closeAlert: clearAll forgets the uploads, none of them is aborted.
CloseAlert(entries) ==
    /\ store' = entries
    /\ cleared' = (cleared \/ Running # {} \/ Reporting)
    /\ UNCHANGED <<up, skipped>>

\* Files are dropped; the first batch follows without an await.
DropFiles ==
    /\ Quiet /\ drops < MaxDrops
    /\ \E fs \in FileLists :
          /\ CloseAlert([k \in Key |-> IF \E i \in DOMAIN fs : fs[i] = k
                                       THEN Added ELSE Absent])
          /\ uploadStatus' = IF fs = <<>> THEN "init" ELSE "start"
          /\ files' = [files EXCEPT ![drops + 1] = fs]
    /\ drops' = drops + 1
    /\ pc' = [pc EXCEPT ![drops + 1] = "launch"]
    /\ cancelled' = FALSE /\ reported' = {}
    /\ UNCHANGED <<batch, live>>

\* No file of the store is on its way.
ShowSuccess == \A k \in Key : store[k].st \notin Ongoing

Dismiss ==
    /\ Quiet /\ uploadStatus # "init" /\ ShowSuccess
    /\ uploadStatus' = "init"
    /\ CloseAlert([k \in Key |-> Absent])
    /\ UNCHANGED <<calls, cancelled, reported>>

\* Mutant: a completed file may be cancelled too.
AfterAbortM(e) == [e EXCEPT !.st = "cancelled"]
AfterAbort(e) == IF e.st = "complete" THEN e ELSE [e EXCEPT !.st = "cancelled"]

\* performAbort of each key; an entry that does not know its key is passed over.
PerformAbort(keys) ==
    LET known == {k \in keys : store[k].keyed}
    IN /\ store' = [k \in Key |-> IF k \in known THEN AfterAbort(store[k]) ELSE store[k]]
       /\ up' = [d \in Drop |-> [k \in Key |->
                    IF k \in known /\ store[k].owner = d /\ up[d][k] = "sending"
                    THEN "aborted" ELSE up[d][k]]]

\* The button of a row of the list of uploads.
CancelOne ==
    /\ Quiet
    /\ \E k \in Key : /\ store[k].keyed /\ ~store[k].full
                      /\ store[k].st \notin {"failed", "cancelled"}
                      /\ PerformAbort({k})
    /\ UNCHANGED <<uploadStatus, calls, history>>

\* "Yes, cancel" in AbortUploadsModal.
CancelAll ==
    /\ Quiet /\ uploadStatus # "init" /\ ~ShowSuccess
    /\ uploadStatus' = "complete"
    /\ PerformAbort(Key)
    /\ cancelled' = TRUE
    /\ UNCHANGED <<calls, cleared, skipped, reported>>

-----------------------------------------------------------------------------
(* Tasks: the uploader.                                                    *)

\* httpUploadProgress -> updateProgress.
Progress(d, k) ==
    /\ Quiet /\ up[d][k] \in {"sending", "aborted"} /\ k \in Present
    /\ \/ /\ store' = [store EXCEPT ![k].full = TRUE, ![k].st = "complete"]
          /\ reported' = reported \cup {k}
       \/ /\ up[d][k] = "sending" /\ UNCHANGED reported
          /\ store' = [store EXCEPT ![k].full = FALSE,
                                    ![k].st = IF @ = "init" THEN "started" ELSE @]
    /\ UNCHANGED <<uploadStatus, calls, up, cancelled, cleared, skipped>>

\* done() is resolved -> uploadCompleted, which makes an entry that knows
\* nothing but its state when there is none.
Resolve(d, k) ==
    /\ Quiet /\ up[d][k] = "sending"
    /\ up' = [up EXCEPT ![d][k] = "done"]
    /\ store' = [store EXCEPT ![k].st = "complete"]
    /\ UNCHANGED <<uploadStatus, calls, history>>

Reject(d, k) ==
    /\ Quiet /\ up[d][k] = "sending"
    /\ up' = [up EXCEPT ![d][k] = "failed"]
    /\ UNCHANGED <<store, uploadStatus, calls, history>>

Continue(d) == Launch(d) \/ Settle(d) \/ Finish(d)
Upload(d, k) == Progress(d, k) \/ Resolve(d, k) \/ Reject(d, k)

\* Nothing is left to do once the drops are used up and have been dismissed.
Next == \/ DropFiles \/ Dismiss \/ CancelOne \/ CancelAll
        \/ \E d \in Drop : Continue(d) \/ \E k \in Key : Upload(d, k)

Spec == Init /\ [][Next]_vars

\* Continuations run, and every upload is resolved or rejected at last.
Fairness == \A d \in Drop : /\ WF_vars(Continue(d))
                            /\ \A k \in Key : WF_vars(Resolve(d, k) \/ Reject(d, k))
FairSpec == Spec /\ Fairness
-----------------------------------------------------------------------------
(* Properties.                                                             *)

\* Every variable stays in its set.
TypeOK ==
    /\ store \in [Key -> Entry]
    /\ uploadStatus \in {"init", "start", "complete"}
    /\ drops \in 0..MaxDrops
    /\ files \in [Drop -> Seq(Key)] /\ live \in [Drop -> Seq(Key)]
    /\ batch \in [Drop -> Nat \ {0}]
    /\ pc \in [Drop -> {"none", "launch", "wait", "done"}]
    /\ up \in [Drop -> [Key -> {"idle", "sending", "done", "failed", "aborted"}]]
    /\ {cancelled, cleared, skipped} \subseteq BOOLEAN /\ reported \subseteq Key

\* After "Yes, cancel" no upload goes on and none begins, the batches still to
\* come included, as long as the store was not cleared under an earlier drop
\* (abortAll, and the filter of uploadFile).
CancelAllIsFinal ==
    cancelled /\ ~cleared => \A d \in Drop, k \in Key : up[d][k] # "sending"

\* What the list may show of the file k when its upload has come to u.  A file
\* whose last byte was reported is complete, even if its upload is rejected or
\* aborted after all; and where a cancelled file was left out of a batch the
\* failure of another may be written to the wrong file.
ShownAs(k, u) ==
    IF u = "done" \/ k \in reported THEN {"complete"}
    ELSE {"failed", "cancelled"} \cup (IF skipped /\ u = "failed" THEN Ongoing ELSE {})

\* When a drop is over nothing of it is on its way any more, and each of its
\* files, as long as it is listed, is shown as complete if and only if its upload
\* was resolved or its last byte reported; one that was never begun, that was
\* aborted or that was rejected before its last byte is shown as failed or
\* cancelled (the exception is in ShownAs: the loop over settledPromises).
EveryFileAccountedFor ==
    drops > 0 /\ ~cleared /\ pc[drops] = "done" =>
        \A i \in DOMAIN files[drops] :
            LET k == files[drops][i]
                u == up[drops][k]
            IN u # "sending" /\ store[k].st \in {"absent"} \cup ShownAs(k, u)

\* A file that was shown as uploaded is never shown as failed or cancelled, by
\* whatever settles or is cancelled later; it only leaves with the whole list.
CompletedStays ==
    [][\A k \in Key : store[k].st = "complete" =>
          store'[k].st \in {"complete", "absent"} \/ drops' # drops]_vars

\* onDrop ends, whatever files it lost: the list of objects is refreshed.
DropFinishes == \A d \in Drop : pc[d] = "launch" ~> pc[d] = "done"

\* "Any files currently being uploaded will be stopped" (AbortUploadsModal.tsx).
CancelStopsUploads ==
    cancelled => \A d \in Drop, k \in Key : up[d][k] # "sending"
=============================================================================

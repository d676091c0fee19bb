----------------------------- MODULE UploadsProofs -----------------------------
(***************************************************************************)
(* Proofs about Uploads, for any files, batch size and number of drops: the*)
(* type invariant, that nothing is uploaded after "Yes, cancel", that each *)
(* file of a drop is accounted for when it is over, and that a file shown  *)
(* as uploaded stays so.                                                   *)
(***************************************************************************)
EXTENDS Uploads, FiniteSetTheorems, SequenceTheorems, TLAPS

\* The files of a drop before its present batch.
Upto(d) == (batch[d] - 1) * BatchSize
\* The files that it has begun to upload, or passed over.
Reached(d) == Upto(d) + (IF pc[d] = "wait" THEN BatchSize ELSE 0)

-----------------------------------------------------------------------------
(* The invariant.                                                          *)

NotBegun == \A d \in Drop : d > drops => /\ pc[d] = "none" /\ batch[d] = 1
                                         /\ \A k \in Key : up[d][k] = "idle"
Distinct == \A d \in Drop : \A i, j \in DOMAIN files[d] : files[d][i] = files[d][j] => i = j
Over == \A d \in Drop : pc[d] = "done" => Len(files[d]) <= Upto(d)
Keyed == \A k \in Key : store[k].keyed => store[k].st # "absent"

\* Until the store is cleared under a drop, that drop is the only one at work, ...
OneAtATime == \A d \in Drop : d # drops =>
    /\ d \notin Running
    /\ \A k \in Key : up[d][k] \notin {"sending", "aborted"}
\* ... its uploaders can be aborted through the entries of their files, ...
Owned == \A d \in Drop, k \in Key : up[d][k] = "sending" => store[k].keyed /\ store[k].owner = d
\* ... all of its files are listed, ...
Listed == \A d \in Running : \A i \in DOMAIN files[d] :
    LET e == store[files[d][i]] IN e.keyed /\ e.st # "absent"
\* ... those it has not come to are as they were dropped, or cancelled, ...
ToCome == \A d \in Running : \A i \in DOMAIN files[d] : i > Reached(d) =>
    LET k == files[d][i] IN
    /\ up[d][k] = "idle" /\ store[k].st \in {"init", "cancelled"}
    /\ cancelled => store[k].st = "cancelled"
\* ... it awaits no more promises than its batch has files, ...
Awaited == \A d \in Drop : pc[d] = "wait" => Len(live[d]) <= Len(Batch(d))
\* ... a file is shown as complete if its upload was resolved or all of its bytes
\* were reported, and not as on its way if it was aborted, ...
Shown == \A k \in Key : drops > 0 =>
    LET u == up[drops][k]
        st == store[k].st
    IN /\ st = "complete" => u = "done" \/ k \in reported
       /\ u = "done" \/ k \in reported => st \in {"complete", "absent"}
       /\ u = "aborted" => st \notin Ongoing
\* ... the files of the batch that it awaits were begun, or passed over because
\* they are cancelled, ...
Passed == \A d \in Drop : pc[d] = "wait" =>
    \A i \in DOMAIN Batch(d) : LET k == Batch(d)[i] IN
        \/ up[d][k] # "idle" /\ \E j \in DOMAIN live[d] : live[d][j] = k
        \/ up[d][k] = "idle" /\ store[k].st = "cancelled"
\* ... the promises are those of the batch, as long as the filter took each batch
\* whole or left it whole, ...
Whole == \A d \in Drop : pc[d] = "wait" => live[d] = Batch(d) \/ live[d] = <<>>
\* ... and a file of an earlier batch has come to its end: Fits is ShownAs for the
\* state st of a file, what became of its upload, whether its bytes were reported,
\* and whether a cancelled file was left out of a batch.
Fits(st, u, whole, left) == st \in {"absent"} \cup
    (IF u = "done" \/ whole THEN {"complete"}
     ELSE {"failed", "cancelled"} \cup (IF left /\ u = "failed" THEN Ongoing ELSE {}))
Handled == \A i \in DOMAIN files[drops] : i <= Upto(drops) =>
    LET k == files[drops][i] IN
    /\ up[drops][k] # "sending"
    /\ Fits(store[k].st, up[drops][k], k \in reported, skipped)

Tidy == OneAtATime /\ Owned /\ Listed /\ ToCome /\ Awaited /\ Shown /\ Passed /\ CancelAllIsFinal

Undisturbed == ~cleared => Tidy /\ (drops > 0 => Handled) /\ (~skipped => Whole)

IInv == TypeOK /\ NotBegun /\ Distinct /\ Over /\ Keyed /\ Undisturbed

USE SizeAssumption

-----------------------------------------------------------------------------
(* Batches, and what the filter of uploadFile makes of one.                *)

LEMMA Products ==
    ASSUME NEW b \in Nat \ {0}
    PROVE  /\ (b - 1) * BatchSize \in Nat
           /\ b * BatchSize = (b - 1) * BatchSize + BatchSize
           /\ (b + 1 - 1) * BatchSize = (b - 1) * BatchSize + BatchSize
OBVIOUS

LEMMA BatchFacts ==
    ASSUME TypeOK, NEW d \in Drop
    PROVE  /\ Upto(d) \in Nat /\ Batch(d) \in Seq(Key)
           /\ \A i \in DOMAIN Batch(d) : /\ i \in Nat /\ i <= BatchSize /\ Upto(d) + i \in DOMAIN files[d]
                                         /\ Batch(d)[i] = files[d][Upto(d) + i]
           /\ \A j \in DOMAIN files[d] : j > Upto(d) /\ j <= Upto(d) + BatchSize =>
                  \E i \in DOMAIN Batch(d) : j = Upto(d) + i
           /\ Batch(d) = <<>> => Len(files[d]) <= Upto(d)
<1> DEFINE s == files[d]
           m == Upto(d)
           n == IF m + BatchSize < Len(s) THEN m + BatchSize ELSE Len(s)
<1>1. s \in Seq(Key) /\ batch[d] \in Nat \ {0}
  BY DEF TypeOK
<1>2. m \in Nat /\ batch[d] * BatchSize = m + BatchSize
  BY <1>1, Products DEF Upto
<1>3. Len(s) \in Nat /\ n \in Nat /\ n <= Len(s) /\ n <= m + BatchSize
      /\ (n = Len(s) \/ n = m + BatchSize)
  BY <1>1, <1>2, LenProperties
<1>4. Batch(d) = SubSeq(s, m + 1, n)
  BY <1>2 DEF Batch, Chunk, Upto
<1> HIDE DEF s, m, n
<1>5. \A i \in (m + 1)..n : s[i] \in Key
  BY <1>1, <1>2, <1>3, ElementOfSeq
<1>6. /\ Batch(d) \in Seq(Key)
      /\ Len(Batch(d)) = IF m + 1 <= n THEN n - (m + 1) + 1 ELSE 0
      /\ \A i \in 1..(n - (m + 1) + 1) : Batch(d)[i] = s[m + 1 + i - 1]
  BY <1>2, <1>3, <1>4, <1>5, SubSeqProperties
<1>7. /\ DOMAIN Batch(d) = 1..Len(Batch(d)) /\ Len(Batch(d)) \in Nat
      /\ DOMAIN s = 1..Len(s)
  BY <1>1, <1>6, LenProperties
<1>8. \A i \in 1..Len(Batch(d)) : /\ i \in 1..(n - (m + 1) + 1) /\ m + 1 + i - 1 = m + i
                                  /\ i <= BatchSize /\ m + i \in 1..Len(s)
  <2> SUFFICES ASSUME NEW i \in 1..Len(Batch(d))
               PROVE  /\ i \in 1..(n - (m + 1) + 1) /\ m + 1 + i - 1 = m + i
                      /\ i <= BatchSize /\ m + i \in 1..Len(s)
    OBVIOUS
  <2>1. m + 1 <= n /\ Len(Batch(d)) = n - m
    BY <1>2, <1>3, <1>6
  <2> QED BY <1>2, <1>3, <2>1
<1>9. \A j \in 1..Len(s) : j > m /\ j <= m + BatchSize =>
          j - m \in 1..Len(Batch(d)) /\ j = m + (j - m)
  BY <1>2, <1>3, <1>6
<1>10. Batch(d) = <<>> => Len(s) <= m
  <2>1. Batch(d) = <<>> => Len(Batch(d)) = 0
    OBVIOUS
  <2> QED BY <1>2, <1>3, <1>6, <2>1
<1>11. \A i \in 1..Len(Batch(d)) : Batch(d)[i] = s[m + i]
  BY <1>6, <1>8
<1> QED
  <2>1. s = files[d] /\ m = Upto(d)
    BY DEF s, m
  <2>2. \A i \in DOMAIN Batch(d) : /\ i \in Nat /\ i <= BatchSize /\ m + i \in DOMAIN s
                                   /\ Batch(d)[i] = s[m + i]
    BY <1>7, <1>8, <1>11
  <2>3. \A j \in DOMAIN s : j > m /\ j <= m + BatchSize => \E i \in DOMAIN Batch(d) : j = m + i
    BY <1>7, <1>9
  <2> QED BY <1>2, <1>6, <1>10, <2>1, <2>2, <2>3

\* The n-th element of a finite set of numbers is one of it, and each has its
\* place.
LEMMA NthFacts ==
    ASSUME NEW L \in Nat, NEW S \in SUBSET (1..L)
    PROVE  /\ Cardinality(S) \in Nat /\ Cardinality(S) <= L
           /\ \A n \in 1..Cardinality(S) : Nth(S, n) \in S
           /\ \A i \in S : \E n \in 1..Cardinality(S) : Nth(S, n) = i
           /\ Cardinality(S) = 0 => S = {}
           /\ Cardinality(S) = L => \A n \in 1..L : Nth(S, n) = n
<1> DEFINE Rank(i) == Cardinality({j \in S : j <= i})
           rank == [i \in S |-> Rank(i)]
           N == Cardinality(S)
<1>1. IsFiniteSet(1..L) /\ Cardinality(1..L) = L
  BY FS_Interval
<1>2. IsFiniteSet(S) /\ N \in Nat /\ N <= L /\ (N = L => S = 1..L)
  BY <1>1, FS_Subset, FS_CardinalityType
<1>3. ASSUME NEW i \in S
      PROVE  /\ IsFiniteSet({j \in S : j <= i}) /\ Rank(i) \in 1..N
  <2>1. {j \in S : j <= i} \in SUBSET S /\ i \in {j \in S : j <= i}
    OBVIOUS
  <2>2. IsFiniteSet({j \in S : j <= i}) /\ Rank(i) <= N
    BY <1>2, <2>1, FS_Subset
  <2>3. Rank(i) \in Nat /\ Rank(i) # 0
    BY <2>1, <2>2, FS_EmptySet, FS_CardinalityType
  <2> QED BY <1>2, <2>2, <2>3
<1>4. ASSUME NEW i \in S, NEW h \in S, i < h PROVE Rank(i) # Rank(h)
  <2>1. /\ \A j \in S : j <= i => j <= h
        /\ h <= h /\ ~(h <= i)
    BY <1>4
  <2>2. /\ {j \in S : j <= i} \in SUBSET {j \in S : j <= h}
        /\ {j \in S : j <= i} # {j \in S : j <= h}
    BY <2>1
  <2> QED BY <1>3, <2>2, FS_Subset
<1>5. rank \in Injection(S, 1..N)
  <2>1. rank \in [S -> 1..N]
    BY <1>3
  <2>2. ASSUME NEW i \in S, NEW h \in S, rank[i] = rank[h] PROVE i = h
    <3>1. i < h \/ h < i \/ i = h
      OBVIOUS
    <3> QED BY <1>4, <2>2, <3>1
  <2> QED BY <2>1, <2>2 DEF Injection, IsInjective
<1>6. IsFiniteSet(1..N) /\ Cardinality(1..N) = N
  BY <1>2, FS_Interval
<1>7. rank \in Surjection(S, 1..N)
  BY <1>2, <1>5, <1>6, FS_Injection
<1>8. ASSUME NEW n \in 1..N PROVE Nth(S, n) \in S /\ Rank(Nth(S, n)) = n
  <2>1. \E i \in S : Rank(i) = n
    BY <1>7 DEF Surjection
  <2> QED BY <2>1 DEF Nth
<1>9. ASSUME N = L, NEW n \in 1..L PROVE Nth(S, n) = n
  <2>1. S = 1..L /\ Nth(S, n) \in 1..L /\ Rank(Nth(S, n)) = n
    BY <1>2, <1>8, <1>9
  <2>2. {j \in S : j <= Nth(S, n)} = 1..Nth(S, n)
    BY <2>1
  <2>3. Cardinality(1..Nth(S, n)) = Nth(S, n)
    BY <2>1, FS_Interval
  <2> QED BY <2>1, <2>2, <2>3
<1>10. ASSUME NEW i \in S PROVE Nth(S, Rank(i)) = i
  <2>1. Rank(i) \in 1..N
    BY <1>3
  <2>2. Nth(S, Rank(i)) \in S /\ Rank(Nth(S, Rank(i))) = Rank(i)
    BY <1>8, <2>1
  <2> DEFINE h == Nth(S, Rank(i))
  <2>3. h \in S /\ i \in S /\ S \subseteq Nat
    BY <2>2
  <2> HIDE DEF h
  <2>4. h < i \/ i < h \/ h = i
    BY <2>3
  <2> QED BY <1>4, <2>2, <2>3, <2>4 DEF h
<1>11. \A i \in S : \E n \in 1..N : Nth(S, n) = i
  BY <1>3, <1>10
<1> QED BY <1>2, <1>8, <1>9, <1>11, FS_EmptySet

LEMMA Chosen ==
    ASSUME TypeOK, NEW d \in Drop
    PROVE  /\ ToUpload(d) \in Seq(Key) /\ Len(ToUpload(d)) <= Len(Batch(d))
           /\ \A n \in DOMAIN ToUpload(d) : \E i \in DOMAIN Batch(d) :
                  ToUpload(d)[n] = Batch(d)[i] /\ store[Batch(d)[i]].st # "cancelled"
           /\ \A i \in DOMAIN Batch(d) : \/ store[Batch(d)[i]].st = "cancelled"
                                          \/ \E n \in DOMAIN ToUpload(d) : ToUpload(d)[n] = Batch(d)[i]
           /\ Len(ToUpload(d)) = 0 =>
                  \A i \in DOMAIN Batch(d) : store[Batch(d)[i]].st = "cancelled"
           /\ Len(ToUpload(d)) = Len(Batch(d)) => ToUpload(d) = Batch(d)
<1> DEFINE b == Batch(d)
           S == Kept(d)
           N == Cardinality(S)
<1>1. b \in Seq(Key)
  BY BatchFacts
<1>2. Len(b) \in Nat /\ DOMAIN b = 1..Len(b) /\ S \in SUBSET (1..Len(b))
  BY <1>1 DEF Kept
<1>3. /\ N \in Nat /\ N <= Len(b) /\ \A n \in 1..N : Nth(S, n) \in S
      /\ \A i \in S : \E n \in 1..N : Nth(S, n) = i
      /\ N = 0 => S = {}
      /\ N = Len(b) => \A n \in 1..Len(b) : Nth(S, n) = n
  BY <1>2, NthFacts
<1>4. ToUpload(d) = [n \in 1..N |-> b[Nth(S, n)]]
  BY DEF ToUpload
<1>5. \A i \in S : i \in DOMAIN b /\ b[i] \in Key /\ store[b[i]].st # "cancelled"
  BY <1>1, <1>2 DEF Kept
<1> HIDE DEF b, S, N
<1>6. ToUpload(d) \in Seq(Key) /\ Len(ToUpload(d)) = N /\ DOMAIN ToUpload(d) = 1..N
  BY <1>3, <1>4, <1>5
<1>7. N = Len(b) => ToUpload(d) = b
  BY <1>1, <1>2, <1>3, <1>4, <1>6
<1>8. N = 0 => \A i \in DOMAIN b : store[b[i]].st = "cancelled"
  BY <1>3 DEF S, b, Kept
<1>9. \A i \in DOMAIN b : i \in S \/ store[b[i]].st = "cancelled"
  BY DEF S, b, Kept
<1> QED BY <1>3, <1>4, <1>5, <1>6, <1>7, <1>8, <1>9 DEF b

-----------------------------------------------------------------------------
(* Type correctness.                                                       *)

States == Ongoing \cup {"complete", "failed", "cancelled", "absent"}

LEMMA WithState ==
    ASSUME NEW e \in Entry, NEW st \in States
    PROVE  LET f == [e EXCEPT !.st = st]
           IN f \in Entry /\ f.st = st /\ f.keyed = e.keyed /\ f.owner = e.owner
BY DEF Entry, States

LEMMA WithOwner == ASSUME NEW e \in Entry, NEW d \in Drop PROVE [e EXCEPT !.owner = d] \in Entry
<1>1. d \in 0..MaxDrops
  BY DEF Drop
<1> QED BY <1>1 DEF Entry

LEMMA WithProgress ==
    ASSUME NEW e \in Entry, NEW b \in BOOLEAN, NEW st \in States
    PROVE  LET f == [e EXCEPT !.full = b, !.st = st]
           IN f \in Entry /\ f.st = st /\ f.keyed = e.keyed /\ f.owner = e.owner
BY DEF Entry, States

LEMMA NewEntries ==
    /\ Absent \in Entry /\ Absent.st = "absent" /\ ~Absent.keyed
    /\ Added \in Entry /\ Added.st = "init" /\ Added.keyed
<1>1. 0 \in 0..MaxDrops
  OBVIOUS
<1> QED BY <1>1 DEF Entry, Absent, Added, Ongoing

LEMMA Aborted ==
    ASSUME NEW e \in Entry
    PROVE  /\ AfterAbort(e) \in Entry /\ AfterAbort(e).keyed = e.keyed
           /\ AfterAbort(e).owner = e.owner
           /\ AfterAbort(e).st = IF e.st = "complete" THEN "complete" ELSE "cancelled"
BY DEF Entry, AfterAbort

LEMMA InitIInv == Init => IInv
<1> SUFFICES ASSUME Init PROVE IInv
  OBVIOUS
<1>1. TypeOK
  <2>1. store \in [Key -> Entry] /\ drops \in 0..MaxDrops /\ <<>> \in Seq(Key)
    BY NewEntries DEF Init
  <2>2. {cancelled, cleared, skipped} \subseteq BOOLEAN /\ reported = {}
    BY Zenon DEF Init
  <2> QED BY <2>1, <2>2 DEF Init, TypeOK
<1>2. NotBegun /\ Distinct /\ Over /\ Keyed
  BY NewEntries DEF Init, NotBegun, Distinct, Over, Keyed
<1>3. Tidy /\ drops = 0 /\ Whole
  BY DEF Init, Tidy, OneAtATime, Owned, Listed, ToCome, Awaited, Shown, Passed, Whole,
         CancelAllIsFinal, Running
<1> QED BY <1>1, <1>2, <1>3 DEF IInv, Undisturbed

LEMMA TypeStep == ASSUME TypeOK, Distinct, Next PROVE TypeOK' /\ Distinct'
<1>1. ASSUME NEW d \in Drop, Launch(d) PROVE TypeOK' /\ Distinct'
  <2>1. ToUpload(d) \in Seq(Key)
    BY Chosen
  <2>2. CASE Catch(d) /\ UNCHANGED <<store, live, up, skipped>>
    BY <1>1, <2>2 DEF Launch, Catch, TypeOK, Distinct
  <2>3. CASE /\ Begin(d, ToUpload(d)) /\ pc' = [pc EXCEPT ![d] = "wait"] /\ UNCHANGED batch
             /\ skipped' = (skipped \/ Len(ToUpload(d)) \notin {0, Len(Batch(d))})
    <3>1. store' \in [Key -> Entry]
      BY <2>3, WithOwner DEF Begin, TypeOK
    <3>2. up' \in [Drop -> [Key -> {"idle", "sending", "done", "failed", "aborted"}]]
      BY <2>3 DEF Begin, TypeOK
    <3>3. live' \in [Drop -> Seq(Key)] /\ pc' \in [Drop -> {"none", "launch", "wait", "done"}]
      BY <2>1, <2>3 DEF Begin, TypeOK
    <3>4. skipped' \in BOOLEAN
      BY <2>3 DEF TypeOK
    <3> QED BY <1>1, <2>3, <3>1, <3>2, <3>3, <3>4 DEF Launch, TypeOK, Distinct
  <2> QED BY <1>1, <2>2, <2>3 DEF Launch
<1>2. ASSUME NEW d \in Drop, Settle(d) PROVE TypeOK' /\ Distinct'
  <2>1. store' \in [Key -> Entry]
    BY <1>2, WithState DEF Settle, TypeOK, States
  <2> QED BY <1>2, <2>1 DEF Settle, TypeOK, Distinct, history
<1>3. ASSUME NEW d \in Drop, Finish(d) PROVE TypeOK' /\ Distinct'
  BY <1>3 DEF Finish, TypeOK, Distinct, history
<1>4. CASE DropFiles
  <2>1. PICK fs \in FileLists :
            /\ CloseAlert([k \in Key |-> IF \E i \in DOMAIN fs : fs[i] = k THEN Added ELSE Absent])
            /\ uploadStatus' = IF fs = <<>> THEN "init" ELSE "start"
            /\ files' = [files EXCEPT ![drops + 1] = fs]
    BY <1>4 DEF DropFiles
  <2>2. drops + 1 \in Drop /\ drops' = drops + 1 /\ pc' = [pc EXCEPT ![drops + 1] = "launch"]
    BY <1>4 DEF DropFiles, TypeOK, Drop
  <2>3. store' \in [Key -> Entry] /\ cleared' \in BOOLEAN /\ UNCHANGED <<up, skipped>>
    BY <2>1, NewEntries DEF CloseAlert, TypeOK
  <2>4. fs \in Seq(Key) /\ \A i, j \in DOMAIN fs : fs[i] = fs[j] => i = j
    BY FileAssumption
  <2>5. files' \in [Drop -> Seq(Key)] /\ Distinct'
    BY <2>1, <2>2, <2>4 DEF TypeOK, Distinct
  <2>6. drops' \in 0..MaxDrops /\ pc' \in [Drop -> {"none", "launch", "wait", "done"}]
        /\ uploadStatus' \in {"init", "start", "complete"}
        /\ cancelled' = FALSE /\ reported' = {} /\ UNCHANGED <<batch, live>>
    BY <1>4, <2>1, <2>2 DEF DropFiles, TypeOK, Drop
  <2> QED BY <2>3, <2>5, <2>6 DEF TypeOK
<1>5. CASE Dismiss
  <2>1. store' \in [Key -> Entry] /\ cleared' \in BOOLEAN
    BY <1>5, NewEntries DEF Dismiss, CloseAlert, TypeOK
  <2> QED BY <1>5, <2>1 DEF Dismiss, CloseAlert, TypeOK, Distinct, calls
<1>6. ASSUME NEW keys \in SUBSET Key, PerformAbort(keys)
      PROVE  /\ store' \in [Key -> Entry]
             /\ up' \in [Drop -> [Key -> {"idle", "sending", "done", "failed", "aborted"}]]
  BY <1>6, Aborted DEF PerformAbort, TypeOK
<1>7. CASE CancelOne
  BY <1>6, <1>7 DEF CancelOne, TypeOK, Distinct, calls, history
<1>8. CASE CancelAll
  BY <1>6, <1>8 DEF CancelAll, TypeOK, Distinct, calls
<1>9. ASSUME NEW d \in Drop, NEW k \in Key, Progress(d, k) PROVE TypeOK' /\ Distinct'
  <2>1. PICK e \in Entry : store' = [store EXCEPT ![k] = e]
    <3>1. CASE store' = [store EXCEPT ![k].full = TRUE, ![k].st = "complete"]
      <4>1. [store[k] EXCEPT !.full = TRUE, !.st = "complete"] \in Entry
        BY WithProgress, <1>9 DEF TypeOK, States
      <4> QED BY <3>1, <4>1
    <3>2. CASE store' = [store EXCEPT ![k].full = FALSE,
                                      ![k].st = IF @ = "init" THEN "started" ELSE @]
      <4> DEFINE st == IF store[k].st = "init" THEN "started" ELSE store[k].st
      <4>1. st \in States
        BY <1>9 DEF TypeOK, Entry, States, Ongoing
      <4>2. [store[k] EXCEPT !.full = FALSE, !.st = st] \in Entry
        BY WithProgress, <1>9, <4>1 DEF TypeOK
      <4> QED BY <3>2, <4>2
    <3> QED BY <1>9, <3>1, <3>2 DEF Progress
  <2>2. reported' \subseteq Key
    BY <1>9 DEF Progress, TypeOK
  <2> QED BY <1>9, <2>1, <2>2 DEF Progress, TypeOK, Distinct, calls
<1>10. ASSUME NEW d \in Drop, NEW k \in Key, Resolve(d, k) \/ Reject(d, k) PROVE TypeOK' /\ Distinct'
  <2>1. store' \in [Key -> Entry]
    <3>1. [store[k] EXCEPT !.st = "complete"] \in Entry
      BY WithState, <1>10 DEF TypeOK, States
    <3> QED BY <1>10, <3>1 DEF Resolve, Reject, TypeOK
  <2>2. up' \in [Drop -> [Key -> {"idle", "sending", "done", "failed", "aborted"}]]
    <3>1. PICK u \in {"done", "failed"} : up' = [up EXCEPT ![d][k] = u]
      BY <1>10 DEF Resolve, Reject
    <3> QED BY <3>1 DEF TypeOK
  <2> QED BY <1>10, <2>1, <2>2 DEF Resolve, Reject, TypeOK, Distinct, calls, history
<1> QED
  BY <1>1, <1>2, <1>3, <1>4, <1>5, <1>7, <1>8, <1>9, <1>10 DEF Next, Continue, Upload

-----------------------------------------------------------------------------
(* The other parts, step by step.                                          *)

Rest == NotBegun /\ Over /\ Keyed /\ Undisturbed

LEMMA CallsFrame ==
    ASSUME UNCHANGED calls
    PROVE  /\ UNCHANGED <<drops, files, batch, pc, live>> /\ Running' = Running
           /\ \A d \in Drop : Upto(d)' = Upto(d) /\ Reached(d)' = Reached(d) /\ Batch(d)' = Batch(d)
BY DEF calls, Running, Upto, Reached, Batch, Chunk

\* Until the store is cleared, only the last drop is at work.
LEMMA LastDrop ==
    ASSUME IInv, ~cleared, NEW d \in Drop
    PROVE  /\ d \in Running => d = drops
           /\ \A k \in Key : up[d][k] \in {"sending", "aborted"} => d = drops
BY DEF IInv, Undisturbed, Tidy, OneAtATime

\* The uploader reports on a file of an earlier or of the present batch.
LEMMA UploadKeeps == ASSUME IInv, TypeOK', NEW d \in Drop, NEW k \in Key, Upload(d, k) PROVE Rest'
<1>1. PICK u \in {"sending", "aborted", "done", "failed"}, e \in Entry :
          /\ store' = [store EXCEPT ![k] = e] /\ up' = [up EXCEPT ![d][k] = u]
          /\ e.keyed = store[k].keyed /\ e.owner = store[k].owner
          /\ up[d][k] \in {"sending", "aborted"} /\ (u = "sending" => up[d][k] = "sending")
          /\ e.st # "absent" \/ (store[k].st = "absent" /\ ~e.keyed)
          /\ u = "done" \/ up[d][k] = "aborted" => e.st = "complete"
          /\ store[k].st = "complete" => e.st = "complete"
          /\ e.st = "complete" => store[k].st = "complete" \/ u = "done" \/ k \in reported'
          /\ reported' = reported \/ (reported' = reported \cup {k} /\ e.st = "complete")
          /\ up[d][k] = "aborted" => k \in reported'
          /\ u = "aborted" <=> up[d][k] = "aborted"
  <2> DEFINE Effect(u, e) ==
          /\ store' = [store EXCEPT ![k] = e] /\ up' = [up EXCEPT ![d][k] = u]
          /\ e.keyed = store[k].keyed /\ e.owner = store[k].owner
          /\ up[d][k] \in {"sending", "aborted"} /\ (u = "sending" => up[d][k] = "sending")
          /\ e.st # "absent" \/ (store[k].st = "absent" /\ ~e.keyed)
          /\ u = "done" \/ up[d][k] = "aborted" => e.st = "complete"
          /\ store[k].st = "complete" => e.st = "complete"
          /\ e.st = "complete" => store[k].st = "complete" \/ u = "done" \/ k \in reported'
          /\ reported' = reported \/ (reported' = reported \cup {k} /\ e.st = "complete")
          /\ up[d][k] = "aborted" => k \in reported'
          /\ u = "aborted" <=> up[d][k] = "aborted"
  <2> SUFFICES \E u \in {"sending", "aborted", "done", "failed"}, e \in Entry : Effect(u, e)
    OBVIOUS
  <2>1. TypeOK /\ Keyed /\ store[k] \in Entry
    BY DEF IInv, TypeOK
  <2>2. up = [up EXCEPT ![d][k] = up[d][k]] /\ store = [store EXCEPT ![k] = store[k]]
    BY <2>1 DEF TypeOK
  <2>3. ASSUME Progress(d, k) PROVE \E e \in Entry : Effect(up[d][k], e)
    <3>1. up[d][k] \in {"sending", "aborted"} /\ up' = up /\ store[k].st # "absent"
      BY <2>3 DEF Progress, Present
    <3>2. PICK b \in BOOLEAN, st \in States :
              /\ store' = [store EXCEPT ![k] = [store[k] EXCEPT !.full = b, !.st = st]]
              /\ st # "absent" /\ (up[d][k] = "aborted" => st = "complete" /\ k \in reported')
              /\ store[k].st = "complete" => st = "complete"
              /\ st = "complete" => store[k].st = "complete" \/ k \in reported'
              /\ reported' = reported \/ (reported' = reported \cup {k} /\ st = "complete")
      <4>1. CASE /\ store' = [store EXCEPT ![k].full = TRUE, ![k].st = "complete"]
                 /\ reported' = reported \cup {k}
        BY <4>1 DEF States
      <4>2. CASE /\ up[d][k] = "sending" /\ UNCHANGED reported
                 /\ store' = [store EXCEPT ![k].full = FALSE,
                                           ![k].st = IF @ = "init" THEN "started" ELSE @]
        <5> DEFINE st == IF store[k].st = "init" THEN "started" ELSE store[k].st
        <5>1. /\ st \in States /\ st # "absent"
              /\ store[k].st = "complete" <=> st = "complete"
          BY <2>1, <3>1 DEF Entry, States, Ongoing
        <5>2. store' = [store EXCEPT ![k] = [store[k] EXCEPT !.full = FALSE, !.st = st]]
          BY <4>2
        <5> QED BY <4>2, <5>1, <5>2
      <4> QED BY <2>3, <4>1, <4>2 DEF Progress
    <3> DEFINE e == [store[k] EXCEPT !.full = b, !.st = st]
    <3>3. e \in Entry /\ e.st = st /\ e.keyed = store[k].keyed /\ e.owner = store[k].owner
      BY <2>1, <3>2 DEF Entry, States
    <3> HIDE DEF e
    <3>4. store' = [store EXCEPT ![k] = e]
      BY <3>2 DEF e
    <3> QED BY <2>2, <3>1, <3>2, <3>3, <3>4
  <2>4. ASSUME Resolve(d, k) PROVE \E e \in Entry : Effect("done", e)
    <3> DEFINE e == [store[k] EXCEPT !.st = "complete"]
    <3>1. e \in Entry /\ e.st = "complete" /\ e.keyed = store[k].keyed /\ e.owner = store[k].owner
      BY <2>1, WithState DEF States
    <3>2. /\ store' = [store EXCEPT ![k] = e] /\ up[d][k] = "sending" /\ reported' = reported
          /\ up' = [up EXCEPT ![d][k] = "done"]
      BY <2>4 DEF Resolve, history
    <3> HIDE DEF e
    <3> QED BY <3>1, <3>2
  <2>5. ASSUME Reject(d, k) PROVE Effect("failed", store[k])
    BY <2>1, <2>2, <2>5 DEF Reject, Keyed, Entry, history
  <2>6. up[d][k] \in {"sending", "aborted"}
    BY DEF Upload, Progress, Resolve, Reject
  <2> HIDE DEF Effect
  <2> QED BY <2>1, <2>3, <2>4, <2>5, <2>6 DEF Upload
<1>2. UNCHANGED calls /\ UNCHANGED <<cancelled, cleared, skipped>>
  BY DEF Upload, Progress, Resolve, Reject, history
<1>3. /\ \A c \in Drop, j \in Key : up'[c][j] = IF c = d /\ j = k THEN u ELSE up[c][j]
      /\ \A j \in Key : store'[j] = IF j = k THEN e ELSE store[j]
  BY <1>1 DEF IInv, TypeOK
<1>4. (NotBegun /\ Over /\ Keyed)'
  BY <1>1, <1>2, <1>3, CallsFrame DEF IInv, NotBegun, Over, Keyed
<1>5. ASSUME ~cleared PROVE d = drops
  BY <1>1, <1>5, LastDrop
<1>6. ASSUME ~cleared PROVE Tidy' /\ (~skipped => Whole')
  <2>1. /\ OneAtATime /\ Owned /\ Listed /\ ToCome /\ Awaited /\ Shown /\ Passed
        /\ CancelAllIsFinal /\ TypeOK /\ (~skipped => Whole)
    BY <1>6 DEF IInv, Undisturbed, Tidy
  <2>2. OneAtATime' /\ Awaited' /\ CancelAllIsFinal' /\ (~skipped => Whole')
    BY <1>1, <1>2, <1>3, <1>5, <1>6, <2>1, CallsFrame DEF OneAtATime, Awaited, CancelAllIsFinal, Whole
  <2>3. Owned'
    BY <1>1, <1>2, <1>3, <1>5, <1>6, <2>1, CallsFrame DEF Owned
  <2>4. ASSUME NEW c \in Running, NEW i \in DOMAIN files[c]
        PROVE  c = drops /\ c \in Drop /\ files[c][i] \in Key
    BY <1>6, <2>1, LastDrop DEF TypeOK, Running
  <2>5. Listed' /\ ToCome'
    BY <1>1, <1>2, <1>3, <1>5, <1>6, <2>1, <2>4, CallsFrame DEF Listed, ToCome
  <2>6. Shown'
    <3> SUFFICES ASSUME NEW j \in Key, drops > 0
                 PROVE  LET v == up'[drops][j]
                            st == store'[j].st
                        IN /\ st = "complete" => v = "done" \/ j \in reported'
                           /\ v = "done" \/ j \in reported' => st \in {"complete", "absent"}
                           /\ v = "aborted" => st \notin Ongoing
      BY <1>2, CallsFrame DEF Shown
    <3>1. d = drops /\ drops \in Drop
      BY <1>5, <1>6
    <3>2. LET v == up[drops][j]
              st == store[j].st
          IN /\ st = "complete" => v = "done" \/ j \in reported
             /\ v = "done" \/ j \in reported => st \in {"complete", "absent"}
             /\ v = "aborted" => st \notin Ongoing
      BY <2>1 DEF Shown
    <3>3. CASE j # k
      BY <1>1, <1>3, <3>1, <3>2, <3>3
    <3>4. CASE j = k
      <4>1. store'[j].st = e.st /\ up'[drops][j] = u
        BY <1>3, <3>1, <3>4
      <4>2. up[d][k] = "sending" => store[k].st # "absent"
        BY <2>1 DEF Owned, IInv, Keyed
      <4> QED BY <1>1, <3>1, <3>2, <3>4, <4>1, <4>2 DEF Ongoing
    <3> QED BY <3>3, <3>4
  <2>7. Passed'
    <3> SUFFICES ASSUME NEW c \in Drop, pc[c] = "wait", NEW i \in DOMAIN Batch(c)
                 PROVE  LET j == Batch(c)[i] IN
                        \/ up'[c][j] # "idle" /\ \E h \in DOMAIN live[c] : live[c][h] = j
                        \/ up'[c][j] = "idle" /\ store'[j].st = "cancelled"
      BY <1>2, CallsFrame DEF Passed
    <3> DEFINE j == Batch(c)[i]
    <3>1. j \in Key /\ c = drops
      BY <1>6, <2>1, BatchFacts, LastDrop DEF Running
    <3>2. \/ up[c][j] # "idle" /\ \E h \in DOMAIN live[c] : live[c][h] = j
          \/ up[c][j] = "idle" /\ store[j].st = "cancelled"
      BY <2>1 DEF Passed
    <3>3. up[c][j] = "idle" => up'[c][j] = "idle" /\ store'[j] = store[j]
      BY <1>1, <1>3, <1>5, <1>6, <3>1
    <3>4. up[c][j] # "idle" => up'[c][j] # "idle"
      BY <1>1, <1>3, <3>1
    <3> QED BY <3>2, <3>3, <3>4
  <2> QED BY <2>2, <2>3, <2>5, <2>6, <2>7 DEF Tidy
<1>7. ASSUME ~cleared, drops > 0 PROVE Handled'
  <2>1. Handled /\ TypeOK
    BY <1>7 DEF IInv, Undisturbed
  <2>2. \A i \in DOMAIN files[drops] : files[drops][i] \in Key
    BY <1>5, <1>7, <2>1 DEF TypeOK
  <2> SUFFICES ASSUME NEW i \in DOMAIN files[drops], i <= Upto(drops)
               PROVE  LET j == files[drops][i] IN
                      /\ up'[drops][j] # "sending"
                      /\ Fits(store'[j].st, up'[drops][j], j \in reported', skipped)
    BY <1>2, <1>5, <1>7, CallsFrame DEF Handled
  <2> DEFINE j == files[drops][i]
  <2>3. /\ up[drops][j] # "sending" /\ j \in Key
        /\ Fits(store[j].st, up[drops][j], j \in reported, skipped)
    BY <2>1, <2>2 DEF Handled
  <2>4. CASE j # k
    <3>1. store'[j] = store[j] /\ up'[drops][j] = up[drops][j] /\ (j \in reported' <=> j \in reported)
      BY <1>1, <1>3, <1>5, <1>7, <2>3, <2>4
    <3> QED BY <2>3, <3>1 DEF Fits
  <2>5. CASE j = k
    <3>1. up[d][k] = "aborted" /\ store'[j].st = "complete" /\ k \in reported' /\ u = "aborted"
      BY <1>1, <1>3, <1>5, <1>7, <2>3, <2>5
    <3>2. up'[drops][j] = "aborted"
      BY <1>3, <1>5, <1>7, <2>3, <2>5, <3>1
    <3> QED BY <2>5, <3>1, <3>2 DEF Fits
  <2> QED BY <2>4, <2>5
<1> QED BY <1>2, <1>4, <1>6, <1>7, CallsFrame DEF Rest, Undisturbed

\* performAbort of some keys, and of all of them.
LEMMA AbortKeeps ==
    ASSUME IInv, TypeOK', NEW keys \in SUBSET Key, PerformAbort(keys), UNCHANGED calls,
           UNCHANGED <<cleared, skipped, reported>>, cancelled' = cancelled \/ (cancelled' = TRUE /\ keys = Key)
    PROVE  Rest'
<1>1. TypeOK
  BY DEF IInv
<1>2. /\ \A k \in Key : /\ store'[k].keyed = store[k].keyed /\ store'[k].owner = store[k].owner
                        /\ store'[k].st \in {store[k].st, "cancelled"}
                        /\ ~store[k].keyed \/ store[k].st = "complete" => store'[k].st = store[k].st
                        /\ k \in keys /\ store[k].keyed => store'[k].st \in {"complete", "cancelled"}
                        /\ store'[k].st = "complete" => store[k].st = "complete"
      /\ \A d \in Drop, k \in Key :
            /\ up'[d][k] = up[d][k] \/ (up[d][k] = "sending" /\ up'[d][k] = "aborted")
            /\ k \in keys /\ store[k].keyed /\ store[k].owner = d => up'[d][k] # "sending"
            /\ up'[d][k] # up[d][k] => k \in keys /\ store[k].keyed
  BY <1>1, Aborted DEF PerformAbort, TypeOK
<1>3. (NotBegun /\ Over /\ Keyed)'
  BY <1>2, CallsFrame DEF IInv, NotBegun, Over, Keyed
<1>4. ASSUME ~cleared PROVE Tidy' /\ (~skipped => Whole')
  <2>1. /\ OneAtATime /\ Owned /\ Listed /\ ToCome /\ Awaited /\ Shown /\ Passed
        /\ CancelAllIsFinal /\ (~skipped => Whole)
    BY <1>4 DEF IInv, Undisturbed, Tidy
  <2>2. OneAtATime' /\ Awaited' /\ Owned' /\ CancelAllIsFinal' /\ (~skipped => Whole')
    BY <1>2, <2>1, CallsFrame DEF OneAtATime, Awaited, Owned, CancelAllIsFinal, Whole
  <2>3. drops > 0 => drops \in Drop
    BY <1>1 DEF TypeOK, Drop
  <2>4. Shown'
    <3> SUFFICES ASSUME NEW k \in Key, drops > 0
                 PROVE  LET v == up'[drops][k]
                            st == store'[k].st
                        IN /\ st = "complete" => v = "done" \/ k \in reported
                           /\ v = "done" \/ k \in reported => st \in {"complete", "absent"}
                           /\ v = "aborted" => st \notin Ongoing
      BY CallsFrame DEF Shown
    <3>1. LET v == up[drops][k]
              st == store[k].st
          IN /\ st = "complete" => v = "done" \/ k \in reported
             /\ v = "done" \/ k \in reported => st \in {"complete", "absent"}
             /\ v = "aborted" => st \notin Ongoing
      BY <2>1 DEF Shown
    <3>2. store[k].st = "absent" => store'[k].st = "absent"
      BY <1>2 DEF IInv, Keyed
    <3> QED BY <1>2, <2>3, <3>1, <3>2 DEF Ongoing
  <2>5. ASSUME NEW c \in Running, NEW i \in DOMAIN files[c] PROVE c \in Drop /\ files[c][i] \in Key
    BY <1>1 DEF TypeOK, Running
  <2>6. Listed' /\ ToCome'
    BY <1>2, <2>1, <2>5, CallsFrame DEF Listed, ToCome
  <2>7. \A c \in Drop : \A i \in DOMAIN Batch(c) : Batch(c)[i] \in Key
    BY <1>1, BatchFacts
  <2>8. Passed'
    <3> SUFFICES ASSUME NEW c \in Drop, pc[c] = "wait", NEW i \in DOMAIN Batch(c)
                 PROVE  LET j == Batch(c)[i] IN
                        \/ up'[c][j] # "idle" /\ \E h \in DOMAIN live[c] : live[c][h] = j
                        \/ up'[c][j] = "idle" /\ store'[j].st = "cancelled"
      BY CallsFrame DEF Passed
    <3> DEFINE j == Batch(c)[i]
    <3>1. j \in Key
      BY <2>7
    <3>2. \/ up[c][j] # "idle" /\ \E h \in DOMAIN live[c] : live[c][h] = j
          \/ up[c][j] = "idle" /\ store[j].st = "cancelled"
      BY <2>1 DEF Passed
    <3>3. /\ up[c][j] = "idle" => up'[c][j] = "idle"
          /\ up[c][j] # "idle" => up'[c][j] # "idle"
          /\ store[j].st = "cancelled" => store'[j].st = "cancelled"
      BY <1>2, <3>1
    <3> QED BY <3>2, <3>3
  <2> QED BY <2>2, <2>4, <2>6, <2>8 DEF Tidy
<1>5. ASSUME ~cleared, drops > 0 PROVE Handled'
  <2>1. Handled /\ drops \in Drop /\ Keyed
    BY <1>1, <1>5 DEF IInv, Undisturbed, TypeOK, Drop
  <2>2. \A i \in DOMAIN files[drops] : files[drops][i] \in Key
    BY <1>1, <2>1 DEF TypeOK
  <2> SUFFICES ASSUME NEW i \in DOMAIN files[drops], i <= Upto(drops)
               PROVE  LET j == files[drops][i] IN
                      /\ up'[drops][j] # "sending"
                      /\ Fits(store'[j].st, up'[drops][j], j \in reported, skipped)
    BY CallsFrame, <2>1 DEF Handled
  <2> DEFINE j == files[drops][i]
  <2>3. /\ up[drops][j] # "sending" /\ j \in Key
        /\ Fits(store[j].st, up[drops][j], j \in reported, skipped)
    BY <2>1, <2>2 DEF Handled
  <2>4. /\ up'[drops][j] = up[drops][j]
        /\ store'[j].st \in {store[j].st, "cancelled"}
        /\ store[j].st \in {"complete", "absent"} => store'[j].st = store[j].st
    BY <1>2, <2>1, <2>3 DEF Keyed
  <2> QED BY <2>3, <2>4 DEF Fits
<1> QED BY <1>3, <1>4, <1>5, CallsFrame DEF Rest, Undisturbed

LEMMA CancelKeeps == ASSUME IInv, TypeOK', CancelOne \/ CancelAll PROVE Rest'
BY AbortKeeps DEF CancelOne, CancelAll, history

LEMMA DismissKeeps == ASSUME IInv, TypeOK', Dismiss PROVE Rest'
<1>1. /\ UNCHANGED calls /\ UNCHANGED <<up, cancelled, skipped, reported>>
      /\ store' = [k \in Key |-> Absent] /\ (~cleared' => ~cleared /\ Running = {} /\ ~Reporting)
  BY DEF Dismiss, CloseAlert
<1>2. (NotBegun /\ Over /\ Keyed)'
  BY <1>1, CallsFrame, NewEntries DEF IInv, NotBegun, Over, Keyed
<1>3. ASSUME ~cleared' PROVE \A d \in Drop : d \notin Running /\
                                  \A k \in Key : up[d][k] \notin {"sending", "aborted"}
  BY <1>1, <1>3 DEF Reporting
<1>4. ASSUME ~cleared' PROVE Tidy' /\ Whole'
  <2>1. (OneAtATime /\ Owned /\ Listed /\ ToCome /\ CancelAllIsFinal)'
    BY <1>1, <1>3, <1>4, CallsFrame DEF OneAtATime, Owned, Listed, ToCome, CancelAllIsFinal
  <2>2. (Awaited /\ Passed /\ Whole)'
    BY <1>1, <1>3, <1>4, CallsFrame DEF Awaited, Passed, Whole, Running
  <2>3. Shown'
    BY <1>1, CallsFrame, NewEntries DEF Shown, Ongoing
  <2> QED BY <2>1, <2>2, <2>3 DEF Tidy
<1>5. ASSUME ~cleared', drops > 0 PROVE Handled'
  <2>1. drops \in Drop /\ \A i \in DOMAIN files[drops] : files[drops][i] \in Key
    <3>1. drops \in Drop /\ files \in [Drop -> Seq(Key)]
      BY <1>5, SizeAssumption DEF IInv, TypeOK, Drop
    <3> QED BY <3>1
  <2> QED BY <1>1, <1>3, <1>5, <2>1, CallsFrame, NewEntries DEF Handled, Fits
<1> QED BY <1>1, <1>2, <1>4, <1>5, CallsFrame DEF Rest, Undisturbed

LEMMA FinishKeeps == ASSUME IInv, TypeOK', NEW d \in Drop, Finish(d) PROVE Rest'
<1>1. /\ UNCHANGED <<store, drops, files, batch, live, up, cancelled, cleared, skipped, reported>>
      /\ pc[d] = "launch" /\ Batch(d) = <<>> /\ pc' = [pc EXCEPT ![d] = "done"] /\ TypeOK
  BY DEF Finish, history, IInv
<1>2. \A c \in Drop : /\ pc'[c] = IF c = d THEN "done" ELSE pc[c]
                      /\ Upto(c)' = Upto(c) /\ Batch(c)' = Batch(c)
                      /\ c \in Running' => c \in Running /\ Reached(c)' = Reached(c)
  BY <1>1 DEF TypeOK, Running, Upto, Reached, Batch, Chunk
<1>3. (NotBegun /\ Over /\ Keyed)'
  BY <1>1, <1>2, BatchFacts DEF IInv, NotBegun, Over, Keyed
<1>4. ASSUME ~cleared PROVE Tidy' /\ (~skipped => Whole') /\ (drops > 0 => Handled')
  <2>1. /\ OneAtATime /\ Owned /\ Listed /\ ToCome /\ Awaited /\ Shown /\ Passed
        /\ CancelAllIsFinal /\ (~skipped => Whole) /\ (drops > 0 => Handled)
    BY <1>4 DEF IInv, Undisturbed, Tidy
  <2>2. (OneAtATime /\ Owned /\ Shown /\ CancelAllIsFinal)'
    BY <1>1, <1>2, <2>1 DEF OneAtATime, Owned, Shown, CancelAllIsFinal
  <2>3. Running' \subseteq Drop
    BY DEF Running
  <2>4. Listed' /\ ToCome'
    BY <1>1, <1>2, <2>1, <2>3 DEF Listed, ToCome
  <2>5. Awaited' /\ Passed' /\ (~skipped => Whole')
    BY <1>1, <1>2, <2>1 DEF Awaited, Passed, Whole
  <2>6. drops > 0 => drops \in Drop
    BY <1>1 DEF TypeOK, Drop
  <2>7. drops > 0 => Handled'
    BY <1>1, <1>2, <2>1, <2>6 DEF Handled
  <2> QED BY <2>2, <2>4, <2>5, <2>7 DEF Tidy
<1> QED BY <1>1, <1>3, <1>4 DEF Rest, Undisturbed

\* Dropping files under which nothing was at work begins a new drop; else the
\* store is cleared under it.
LEMMA DropKeeps == ASSUME IInv, TypeOK', DropFiles PROVE Rest'
<1>1. TypeOK /\ NotBegun /\ Distinct /\ Over
  BY DEF IInv
<1> PICK n \in Drop : n = drops + 1
  BY <1>1 DEF DropFiles, TypeOK, Drop
<1>2. PICK fs \in FileLists :
          /\ store' = [k \in Key |-> IF \E i \in DOMAIN fs : fs[i] = k THEN Added ELSE Absent]
          /\ cleared' = (cleared \/ Running # {} \/ Reporting)
          /\ files' = [files EXCEPT ![n] = fs]
  BY DEF DropFiles, CloseAlert
<1>3. /\ n > 0 /\ drops' = n /\ pc' = [pc EXCEPT ![n] = "launch"] /\ ~cancelled' /\ reported' = {}
      /\ UNCHANGED <<batch, live, up, skipped>> /\ drops \in Nat
  BY <1>1 DEF DropFiles, CloseAlert, TypeOK, Drop
<1>4. /\ pc[n] = "none" /\ batch[n] = 1 /\ \A k \in Key : up[n][k] = "idle"
      /\ \A c \in Drop : c > n => c > drops
  BY <1>1, <1>3 DEF NotBegun, Drop
<1>5. \A c \in Drop : /\ pc'[c] = IF c = n THEN "launch" ELSE pc[c]
                      /\ files'[c] = IF c = n THEN fs ELSE files[c]
                      /\ Upto(c)' = Upto(c)
  BY <1>1, <1>2, <1>3 DEF TypeOK, Upto
<1>6. \A k \in Key : /\ store'[k].keyed => store'[k].st # "absent"
                     /\ store'[k].st \in {"init", "absent"}
  BY <1>2, NewEntries
<1>7. (NotBegun /\ Over /\ Keyed)'
  BY <1>1, <1>3, <1>4, <1>5, <1>6 DEF NotBegun, Over, Keyed
<1>8. ASSUME ~cleared'
      PROVE  Tidy'
  <2>1. \A c \in Drop : pc[c] \notin {"launch", "wait"}
                       /\ \A k \in Key : up[c][k] \notin {"sending", "aborted"}
    BY <1>2, <1>8 DEF Running, Reporting
  <2>2. Running' = {n}
    BY <1>3, <1>5, <2>1 DEF Running
  <2>3. (OneAtATime /\ Owned /\ CancelAllIsFinal)'
    BY <1>3, <2>1, <2>2 DEF OneAtATime, Owned, CancelAllIsFinal
  <2>4. \A i \in DOMAIN fs : fs[i] \in Key /\ store'[fs[i]] = Added
    BY <1>2, FileAssumption
  <2>5. Listed' /\ ToCome'
    BY <1>3, <1>4, <1>5, <2>2, <2>4, NewEntries DEF Listed, ToCome
  <2>6. Awaited' /\ Passed'
    <3>1. \A c \in Drop : pc'[c] # "wait"
      BY <1>5, <2>1
    <3>2. \A c \in Drop, k \in Key : up'[c][k] # "sending"
      BY <1>3, <2>1
    <3> QED BY <3>1, <3>2 DEF Awaited, Passed
  <2>7. \A k \in Key : /\ up'[n][k] = "idle" /\ k \notin reported'
                       /\ store'[k].st # "complete"
    BY <1>3, <1>4, <1>6
  <2>8. Shown'
    BY <1>3, <2>7 DEF Shown
  <2> QED BY <2>3, <2>5, <2>6, <2>8 DEF Tidy
<1>9. ASSUME ~cleared' PROVE (Whole /\ Handled)'
  <2>1. \A c \in Drop : pc'[c] # "wait"
    BY <1>2, <1>5, <1>9 DEF Running, Reporting
  <2>2. Upto(n)' = 0
    BY <1>3, <1>4, <1>5 DEF Upto
  <2>3. DOMAIN fs \subseteq Nat \ {0} /\ files'[drops'] = fs
    BY <1>3, <1>5, FileAssumption
  <2>4. \A i \in DOMAIN files'[drops'] : ~(i <= Upto(drops)')
    BY <1>3, <2>2, <2>3
  <2>5. Handled'
    BY <2>4 DEF Handled
  <2> QED BY <2>1, <2>5 DEF Whole
<1> QED BY <1>7, <1>8, <1>9 DEF Rest, Undisturbed

LEMMA SettleKeeps == ASSUME IInv, TypeOK', NEW d \in Drop, Settle(d) PROVE Rest'
<1>1. /\ TypeOK /\ pc[d] = "wait" /\ pc' = [pc EXCEPT ![d] = "launch"]
      /\ batch' = [batch EXCEPT ![d] = @ + 1] /\ live' = [live EXCEPT ![d] = <<>>]
      /\ UNCHANGED <<drops, files, up, cancelled, cleared, skipped, reported>>
      /\ \A i \in DOMAIN live[d] : up[d][live[d][i]] # "sending"
  BY DEF IInv, Settle, BatchSettled, history
<1>2. /\ Upto(d) \in Nat /\ Reached(d) = Upto(d) + BatchSize
      /\ Upto(d)' = Reached(d) /\ Reached(d)' = Reached(d)
  <2>1. batch[d] \in Nat \ {0} /\ batch'[d] = batch[d] + 1 /\ pc'[d] = "launch"
    BY <1>1 DEF TypeOK
  <2>2. /\ (batch[d] - 1) * BatchSize \in Nat
        /\ (batch[d] + 1 - 1) * BatchSize = (batch[d] - 1) * BatchSize + BatchSize
    BY ONLY <2>1, Products
  <2>3. Upto(d) \in Nat /\ Upto(d)' = Upto(d) + BatchSize
    BY <2>1, <2>2 DEF Upto
  <2>4. Reached(d) = Upto(d) + BatchSize
    BY <1>1 DEF Reached
  <2>5. Reached(d)' = Upto(d)' + 0
    BY <2>1 DEF Reached
  <2> HIDE DEF Upto, Reached
  <2> QED BY ONLY <2>3, <2>4, <2>5, SizeAssumption
<1>3. \A c \in Drop : c # d =>
          /\ pc'[c] = pc[c] /\ live'[c] = live[c] /\ batch'[c] = batch[c]
          /\ Upto(c)' = Upto(c) /\ Reached(c)' = Reached(c) /\ Batch(c)' = Batch(c)
  BY <1>1 DEF TypeOK, Upto, Reached, Batch, Chunk
<1>4. Running' = Running /\ d \in Running /\ Running \subseteq Drop /\ pc'[d] = "launch"
  BY <1>1 DEF TypeOK, Running
<1>5. Marked(d) \subseteq Present
  <2>1. live[d] \in Seq(Key)
    BY <1>1 DEF TypeOK
  <2>2. ASSUME NEW k \in Marked(d) PROVE k \in Present
    <3>1. PICK j \in DOMAIN live[d] : k = Batch(d)[j] /\ \A h \in 1..j : Batch(d)[h] \in Present
      BY DEF Marked
    <3>2. j \in Nat \ {0}
      BY <2>1, <3>1
    <3> QED BY <3>1, <3>2
  <2> QED BY <2>2
<1>6. \A k \in Key :
          /\ store'[k].keyed = store[k].keyed /\ store'[k].owner = store[k].owner
          /\ store'[k].st = IF k \in Marked(d) /\ store[k].st # "complete"
                            THEN "failed" ELSE store[k].st
  <2>1. \A k \in Key : store'[k] = IF k \in Marked(d) /\ store[k].st # "complete"
                                   THEN [store[k] EXCEPT !.st = "failed"] ELSE store[k]
    BY DEF Settle
  <2>2. \A k \in Key : store[k] \in Entry
    BY <1>1 DEF TypeOK
  <2>3. ASSUME NEW e \in Entry
        PROVE  LET f == [e EXCEPT !.st = "failed"]
               IN f.st = "failed" /\ f.keyed = e.keyed /\ f.owner = e.owner
    BY DEF Entry
  <2> SUFFICES ASSUME NEW k \in Key
               PROVE  /\ store'[k].keyed = store[k].keyed /\ store'[k].owner = store[k].owner
                      /\ store'[k].st = IF k \in Marked(d) /\ store[k].st # "complete"
                                        THEN "failed" ELSE store[k].st
    OBVIOUS
  <2>4. CASE k \in Marked(d) /\ store[k].st # "complete"
    <3>1. store'[k] = [store[k] EXCEPT !.st = "failed"] /\ store[k] \in Entry
      BY <2>1, <2>2, <2>4
    <3> QED BY <2>3, <2>4, <3>1
  <2>5. CASE ~(k \in Marked(d) /\ store[k].st # "complete")
    BY <2>1, <2>5
  <2> QED BY <2>4, <2>5
<1>7. (NotBegun /\ Over /\ Keyed)'
  BY <1>1, <1>3, <1>4, <1>6 DEF IInv, NotBegun, Over, Keyed
<1>8. ASSUME ~cleared
      PROVE  /\ OneAtATime /\ Owned /\ Listed /\ ToCome /\ Awaited /\ Shown /\ Passed
             /\ CancelAllIsFinal /\ d = drops /\ Running = {d} /\ Distinct
  BY <1>4, <1>8, LastDrop DEF IInv, Undisturbed, Tidy
<1>9. ASSUME ~cleared, NEW k \in Marked(d)
      PROVE  \E i \in DOMAIN files[d] : i > Upto(d) /\ i <= Reached(d) /\ k = files[d][i]
  <2>1. PICK j \in DOMAIN live[d] : k = Batch(d)[j]
    BY DEF Marked
  <2>2. j \in DOMAIN Batch(d)
    BY <1>1, <1>8, <1>9, <2>1, BatchFacts DEF TypeOK, Awaited
  <2>3. j \in Nat \ {0}
    BY <1>1, <2>1 DEF TypeOK
  <2>4. j <= BatchSize /\ Upto(d) + j \in DOMAIN files[d] /\ k = files[d][Upto(d) + j]
    BY <1>1, <2>1, <2>2, BatchFacts
  <2>5. Upto(d) + j > Upto(d) /\ Upto(d) + j <= Reached(d)
    BY <1>2, <2>3, <2>4
  <2> QED BY <2>4, <2>5
<1>10. ASSUME ~cleared, NEW i \in DOMAIN files[d], i <= Upto(d) \/ i > Reached(d)
       PROVE  files[d][i] \in Key /\ store'[files[d][i]].st = store[files[d][i]].st
  <2>1. files[d][i] \in Key /\ i \in Nat
    BY <1>1 DEF TypeOK
  <2>2. files[d][i] \notin Marked(d)
    <3> SUFFICES ASSUME files[d][i] \in Marked(d) PROVE FALSE
      OBVIOUS
    <3>1. PICK j \in DOMAIN files[d] : j > Upto(d) /\ j <= Reached(d) /\ files[d][i] = files[d][j]
      BY <1>9, <1>10
    <3>2. i = j
      BY <1>8, <1>10, <3>1 DEF Distinct
    <3> QED BY <1>2, <1>10, <2>1, <3>1, <3>2
  <2> QED BY <1>6, <2>1, <2>2
<1>11. ASSUME ~cleared PROVE Tidy' /\ Whole'
  <2>1. (OneAtATime /\ Owned /\ CancelAllIsFinal)'
    BY <1>1, <1>4, <1>6, <1>8, <1>11 DEF OneAtATime, Owned, CancelAllIsFinal
  <2>2. \A i \in DOMAIN files[d] : files[d][i] \in Key
    BY <1>1 DEF TypeOK
  <2>3. Listed'
    BY <1>1, <1>4, <1>6, <1>8, <1>11, <2>2 DEF Listed
  <2>4. ToCome'
    BY <1>1, <1>2, <1>4, <1>8, <1>10, <1>11 DEF ToCome
  <2>5. Awaited'
    BY <1>3, <1>4, <1>8, <1>11 DEF Awaited
  <2>6. Shown'
    BY <1>1, <1>5, <1>6, <1>8, <1>11 DEF Shown, Present, Ongoing
  <2>7. \A c \in Drop : pc'[c] # "wait"
    BY <1>3, <1>4, <1>8, <1>11 DEF Running
  <2>8. Passed' /\ Whole'
    BY <2>7 DEF Passed, Whole
  <2> QED BY <2>1, <2>3, <2>4, <2>5, <2>6, <2>8 DEF Tidy
<1>12. ASSUME ~cleared, drops > 0 PROVE Handled'
  <2>1. Handled /\ (~skipped => Whole)
    BY <1>12 DEF IInv, Undisturbed
  <2>2. ASSUME NEW i \in DOMAIN files[d], i <= Reached(d)
        PROVE  LET k == files[d][i] IN
               up[d][k] # "sending" /\ Fits(store'[k].st, up[d][k], k \in reported, skipped)
    <3>1. CASE i <= Upto(d)
      <4>1. store'[files[d][i]].st = store[files[d][i]].st
        BY <1>10, <1>12, <3>1
      <4> QED BY <1>8, <1>12, <2>1, <3>1, <4>1 DEF Handled
    <3>2. CASE ~(i <= Upto(d))
      <4>1. i > Upto(d)
        BY <1>1, <1>2, <3>2 DEF TypeOK
      <4>2. PICK h \in DOMAIN Batch(d) : files[d][i] = Batch(d)[h]
        BY <1>1, <1>2, <2>2, <4>1, BatchFacts
      <4> DEFINE k == Batch(d)[h]
      <4>3. k \in Key /\ store[k].st # "absent"
        BY <1>1, <1>4, <1>8, <1>12, <4>2 DEF TypeOK, Listed
      <4>4. \/ up[d][k] # "idle" /\ \E j \in DOMAIN live[d] : live[d][j] = k
            \/ up[d][k] = "idle" /\ store[k].st = "cancelled"
        BY <1>1, <1>8, <1>12 DEF Passed
      <4>5. up[d][k] \in {"idle", "done", "failed", "aborted"}
        BY <1>1, <4>3, <4>4 DEF TypeOK
      <4>6. LET st == store[k].st IN
            /\ st = "complete" => up[d][k] = "done" \/ k \in reported
            /\ up[d][k] = "done" \/ k \in reported => st = "complete"
            /\ up[d][k] = "aborted" => st \notin Ongoing
        BY <1>8, <1>12, <4>3 DEF Shown
      <4>7. store[k].st \in {"init", "started", "complete", "failed", "cancelled"}
        BY <1>1, <4>3 DEF TypeOK, Entry, Ongoing
      <4>8. store'[k].st \in {store[k].st, "failed"}
            /\ (store[k].st = "complete" => store'[k].st = "complete")
        BY <1>6, <4>3
      <4>9. ASSUME up[d][k] = "failed", ~skipped, store[k].st # "complete"
            PROVE  store'[k].st = "failed"
        <5>1. live[d] = Batch(d)
          BY <1>1, <2>1, <4>4, <4>9 DEF Whole
        <5>2. ASSUME NEW j \in DOMAIN Batch(d) PROVE Batch(d)[j] \in Present
          <6>1. Upto(d) + j \in DOMAIN files[d] /\ Batch(d)[j] = files[d][Upto(d) + j]
            BY <1>1, BatchFacts
          <6>2. Batch(d)[j] \in Key
            BY <1>1, <6>1 DEF TypeOK
          <6>3. store[files[d][Upto(d) + j]].st # "absent"
            BY <1>4, <1>8, <1>12, <6>1 DEF Listed
          <6> QED BY <6>1, <6>2, <6>3 DEF Present
        <5>3. 1..h \subseteq DOMAIN Batch(d)
          BY <1>1, BatchFacts
        <5>4. k \in Marked(d)
          BY <4>9, <5>1, <5>2, <5>3 DEF Marked, Rejected
        <5> QED BY <1>6, <4>3, <4>9, <5>4
      <4>10. up[d][k] # "sending" /\ Fits(store'[k].st, up[d][k], k \in reported, skipped)
        BY <4>4, <4>5, <4>6, <4>7, <4>8, <4>9 DEF Fits, Ongoing
      <4> QED BY <4>2, <4>10
    <3> QED BY <3>1, <3>2
  <2>3. Handled'
    BY <1>1, <1>2, <1>8, <1>12, <2>2 DEF Handled
  <2> QED BY <2>3
<1> QED BY <1>1, <1>7, <1>11, <1>12 DEF Rest, Undisturbed

LEMMA LaunchKeeps == ASSUME IInv, TypeOK', NEW d \in Drop, Launch(d) PROVE Rest'
<1>1. /\ TypeOK /\ NotBegun /\ Distinct /\ Over /\ Keyed
      /\ pc[d] = "launch" /\ d \in Running /\ Running \subseteq Drop
      /\ UNCHANGED <<drops, files, cancelled, cleared, reported>>
  BY DEF IInv, Launch, Running
<1>2. Upto(d) \in Nat /\ Reached(d) = Upto(d)
  BY <1>1, BatchFacts DEF Reached
<1>3. ASSUME ~cleared
      PROVE  /\ OneAtATime /\ Owned /\ Listed /\ ToCome /\ Awaited /\ Shown /\ Passed
             /\ CancelAllIsFinal /\ d = drops /\ Running = {d}
             /\ (~skipped => Whole) /\ (drops > 0 => Handled)
  BY <1>1, <1>3, LastDrop DEF IInv, Undisturbed, Tidy
<1>4. ASSUME ~cleared PROVE \A i \in DOMAIN Batch(d) : Batch(d)[i] \in Present
  BY <1>1, <1>3, <1>4, BatchFacts DEF TypeOK, Listed, Present
<1>5. CASE Catch(d) /\ UNCHANGED <<store, live, up, skipped>>
           /\ \E i \in DOMAIN Batch(d) : Batch(d)[i] \notin Present
  <2>1. cleared /\ cleared'
    BY <1>1, <1>4, <1>5
  <2>2. /\ \A c \in Drop : pc'[c] = pc[c] /\ (c # d => batch'[c] = batch[c])
        /\ UNCHANGED <<store, up>>
    BY <1>1, <1>5 DEF Catch, TypeOK
  <2>3. NotBegun' /\ Keyed'
    BY <1>1, <2>2 DEF NotBegun, Keyed
  <2>4. \A c \in Drop : c # d => Upto(c)' = Upto(c)
    BY <2>2 DEF Upto
  <2>5. Over'
    BY <1>1, <2>2, <2>4 DEF Over
  <2> QED BY <2>1, <2>3, <2>5 DEF Rest, Undisturbed
<1>6. CASE /\ Begin(d, ToUpload(d)) /\ pc' = [pc EXCEPT ![d] = "wait"]
           /\ skipped' = (skipped \/ Len(ToUpload(d)) \notin {0, Len(Batch(d))})
           /\ UNCHANGED batch
  <2> DEFINE T == ToUpload(d)
             K == {T[i] : i \in DOMAIN T}
  <2>1. /\ T \in Seq(Key) /\ Len(T) <= Len(Batch(d)) /\ K \subseteq Key
        /\ \A k \in K : \E i \in DOMAIN Batch(d) :
               k = Batch(d)[i] /\ store[Batch(d)[i]].st # "cancelled"
        /\ Len(T) = 0 => \A i \in DOMAIN Batch(d) : store[Batch(d)[i]].st = "cancelled"
        /\ Len(T) = Len(Batch(d)) => T = Batch(d)
        /\ \A i \in DOMAIN Batch(d) : \/ store[Batch(d)[i]].st = "cancelled"
                                       \/ \E j \in DOMAIN T : T[j] = Batch(d)[i]
    BY <1>1, Chosen
  <2>2. /\ store' = [k \in Key |-> IF k \in K THEN [store[k] EXCEPT !.owner = d] ELSE store[k]]
        /\ up' = [up EXCEPT ![d] = [k \in Key |-> IF k \in K THEN "sending" ELSE @[k]]]
        /\ live' = [live EXCEPT ![d] = T]
    BY <1>6 DEF Begin
  <2>3. /\ Len(T) = 0 => T = <<>> /\ K = {}
        /\ \A j \in DOMAIN T : T[j] \in K
        /\ \A k \in K : \E j \in DOMAIN T : T[j] = k
    BY <2>1
  <2> HIDE DEF T, K
  <2>4. \A k \in Key : /\ store'[k].st = store[k].st /\ store'[k].keyed = store[k].keyed
                       /\ store'[k].owner = IF k \in K THEN d ELSE store[k].owner
    <3>1. ASSUME NEW e \in Entry
          PROVE  LET f == [e EXCEPT !.owner = d]
                 IN f.owner = d /\ f.keyed = e.keyed /\ f.st = e.st
      BY DEF Entry
    <3>2. \A k \in Key : store[k] \in Entry
      BY <1>1 DEF TypeOK
    <3> QED BY <2>2, <3>1, <3>2
  <2>5. \A c \in Drop, k \in Key : up'[c][k] = IF c = d /\ k \in K THEN "sending" ELSE up[c][k]
    BY <1>1, <2>2 DEF TypeOK
  <2>6. \A c \in Drop : /\ pc'[c] = IF c = d THEN "wait" ELSE pc[c]
                        /\ live'[c] = IF c = d THEN T ELSE live[c]
                        /\ Upto(c)' = Upto(c) /\ Batch(c)' = Batch(c)
    BY <1>1, <1>6, <2>2 DEF TypeOK, Upto, Batch, Chunk
  <2>7. Reached(d)' = Upto(d) + BatchSize /\ Running' = Running
    BY <1>1, <2>6 DEF Reached, Running
  <2>8. (NotBegun /\ Over /\ Keyed)'
    BY <1>1, <1>6, <2>4, <2>5, <2>6 DEF NotBegun, Over, Keyed
  <2>9. \A k \in K : \E i \in DOMAIN files[d] :
            /\ k = files[d][i] /\ i > Upto(d) /\ i <= Upto(d) + BatchSize
            /\ store[k].st # "cancelled"
    <3> SUFFICES ASSUME NEW k \in K
                 PROVE  \E i \in DOMAIN files[d] :
                            /\ k = files[d][i] /\ i > Upto(d) /\ i <= Upto(d) + BatchSize
                            /\ store[k].st # "cancelled"
      OBVIOUS
    <3>1. PICK i \in DOMAIN Batch(d) : k = Batch(d)[i] /\ store[k].st # "cancelled"
      BY <2>1
    <3>2. i \in Nat \ {0} /\ i <= BatchSize /\ Upto(d) + i \in DOMAIN files[d]
          /\ k = files[d][Upto(d) + i]
      BY <1>1, <3>1, BatchFacts
    <3> QED BY <1>2, <3>1, <3>2
  <2>10. \A i \in DOMAIN files[d] : /\ files[d][i] \in Key /\ i \in Nat
                                    /\ i <= Upto(d) \/ i > Upto(d) + BatchSize => files[d][i] \notin K
    <3> SUFFICES ASSUME NEW i \in DOMAIN files[d]
                 PROVE  /\ files[d][i] \in Key /\ i \in Nat
                        /\ i <= Upto(d) \/ i > Upto(d) + BatchSize => files[d][i] \notin K
      OBVIOUS
    <3>1. files[d][i] \in Key /\ i \in Nat
      BY <1>1 DEF TypeOK
    <3>2. ASSUME files[d][i] \in K PROVE i > Upto(d) /\ i <= Upto(d) + BatchSize
      BY <1>1, <2>9, <3>2 DEF Distinct
    <3> QED BY <1>2, <3>1, <3>2
  <2>11. ASSUME ~cleared
         PROVE  \A i \in DOMAIN files[d] : i > Upto(d) =>
                    /\ up[d][files[d][i]] = "idle"
                    /\ cancelled => store[files[d][i]].st = "cancelled"
    BY <1>1, <1>2, <1>3, <2>11 DEF ToCome
  <2>12. ASSUME ~cleared
         PROVE  Tidy'
    <3>1. OneAtATime'
      BY <1>1, <1>3, <2>5, <2>7, <2>12 DEF OneAtATime
    <3>2. \A k \in K : store[k].keyed
      BY <1>1, <1>3, <2>9, <2>12 DEF Listed
    <3>3. Owned'
      BY <1>3, <2>4, <2>5, <2>12, <3>2 DEF Owned, OneAtATime
    <3>4. Listed'
      <4>1. ASSUME NEW i \in DOMAIN files[d]
            PROVE  store'[files[d][i]].keyed /\ store'[files[d][i]].st # "absent"
        BY <1>1, <1>3, <2>4, <2>10, <2>12 DEF Listed
      <4>2. Running' = {d} /\ files' = files
        BY <1>1, <1>3, <2>7, <2>12
      <4> QED BY <4>1, <4>2 DEF Listed
    <3>5. ToCome'
      <4>1. ASSUME NEW i \in DOMAIN files[d], i > Upto(d) + BatchSize
            PROVE  LET k == files[d][i] IN
                   /\ up'[d][k] = "idle" /\ store'[k].st \in {"init", "cancelled"}
                   /\ cancelled => store'[k].st = "cancelled"
        <5>1. i > Upto(d) /\ files[d][i] \in Key /\ files[d][i] \notin K
          BY <1>2, <2>10, <4>1
        <5>2. LET k == files[d][i] IN
              /\ up[d][k] = "idle" /\ store[k].st \in {"init", "cancelled"}
              /\ cancelled => store[k].st = "cancelled"
          BY <1>1, <1>2, <1>3, <2>12, <5>1 DEF ToCome
        <5> QED BY <2>4, <2>5, <5>1, <5>2
      <4>2. Running' = {d} /\ files' = files /\ cancelled' = cancelled
            /\ Reached(d)' = Upto(d) + BatchSize
        BY <1>1, <1>3, <2>7, <2>12
      <4> QED BY <4>1, <4>2 DEF ToCome
    <3>6. Awaited'
      BY <1>3, <2>1, <2>6, <2>12 DEF Awaited
    <3>7. Shown'
      <4> SUFFICES ASSUME NEW k \in Key, drops > 0
                   PROVE  LET v == up'[drops][k]
                              st == store'[k].st
                          IN /\ st = "complete" => v = "done" \/ k \in reported
                             /\ v = "done" \/ k \in reported => st \in {"complete", "absent"}
                             /\ v = "aborted" => st \notin Ongoing
        BY <1>1 DEF Shown
      <4>1. LET v == up[drops][k]
                st == store[k].st
            IN /\ st = "complete" => v = "done" \/ k \in reported
               /\ v = "done" \/ k \in reported => st \in {"complete", "absent"}
               /\ v = "aborted" => st \notin Ongoing
        BY <1>3, <2>12 DEF Shown
      <4>2. k \in K => up[d][k] = "idle"
        BY <2>9, <2>11, <2>12
      <4> QED BY <1>1, <1>3, <2>4, <2>5, <2>12, <4>1, <4>2
    <3>8. cancelled => K = {}
      BY <2>9, <2>11, <2>12
    <3>9. CancelAllIsFinal'
      BY <1>1, <1>3, <2>5, <2>12, <3>8 DEF CancelAllIsFinal
    <3>10. Passed'
      <4> SUFFICES ASSUME NEW c \in Drop, pc'[c] = "wait", NEW i \in DOMAIN Batch(c)
                   PROVE  LET k == Batch(c)[i] IN
                          \/ up'[c][k] # "idle" /\ \E j \in DOMAIN live'[c] : live'[c][j] = k
                          \/ up'[c][k] = "idle" /\ store'[k].st = "cancelled"
        BY <2>6 DEF Passed
      <4> DEFINE k == Batch(c)[i]
      <4>1. c = d
        BY <1>1, <1>3, <2>6, <2>7, <2>12 DEF Running
      <4>2. /\ k \in Key /\ Upto(d) + i \in DOMAIN files[d] /\ k = files[d][Upto(d) + i]
            /\ Upto(d) + i > Upto(d)
        BY <1>1, <1>2, <4>1, BatchFacts
      <4>3. up[d][k] = "idle"
        BY <2>11, <2>12, <4>2
      <4>4. CASE k \in K
        <5>1. \E j \in DOMAIN T : T[j] = k
          BY <2>3, <4>4
        <5>2. up'[d][k] = "sending"
          BY <2>5, <4>2, <4>4
        <5> QED BY <2>6, <4>1, <5>1, <5>2
      <4>5. CASE k \notin K
        <5>1. store[k].st = "cancelled"
          BY <2>1, <2>3, <4>1, <4>5
        <5> QED BY <2>4, <2>5, <4>1, <4>2, <4>3, <4>5, <5>1
      <4> QED BY <4>4, <4>5
    <3> QED BY <3>1, <3>3, <3>4, <3>5, <3>6, <3>7, <3>9, <3>10 DEF Tidy
  <2>13. ASSUME ~cleared, ~skipped' PROVE Whole'
    <3>1. \A c \in Drop : pc'[c] = "wait" => c = d
      BY <1>1, <1>3, <2>6, <2>7, <2>13 DEF Running
    <3>2. live'[d] = T /\ Batch(d)' = Batch(d)
      BY <1>1, <2>6
    <3>3. T = Batch(d) \/ T = <<>>
      BY <1>6, <2>1, <2>3, <2>13 DEF T
    <3> QED BY <3>1, <3>2, <3>3 DEF Whole
  <2>14. ASSUME ~cleared, drops > 0 PROVE Handled'
    <3> SUFFICES ASSUME NEW i \in DOMAIN files[d], i <= Upto(d)
                 PROVE  LET k == files[d][i] IN
                        up'[d][k] # "sending" /\ Fits(store'[k].st, up'[d][k], k \in reported, skipped')
      BY <1>1, <1>3, <2>6, <2>14 DEF Handled
    <3> DEFINE k == files[d][i]
    <3>1. k \in Key /\ k \notin K
      BY <2>10
    <3>2. up[d][k] # "sending" /\ Fits(store[k].st, up[d][k], k \in reported, skipped)
      BY <1>3, <2>14 DEF Handled
    <3>3. store'[k].st = store[k].st /\ up'[d][k] = up[d][k] /\ (skipped => skipped')
      BY <1>6, <2>4, <2>5, <3>1
    <3> QED BY <3>2, <3>3 DEF Fits
  <2> QED BY <1>1, <2>8, <2>12, <2>13, <2>14 DEF Rest, Undisturbed
<1> QED BY <1>5, <1>6 DEF Launch

LEMMA StepIInv == IInv /\ [Next]_vars => IInv'
<1> SUFFICES ASSUME IInv, [Next]_vars PROVE IInv'
  OBVIOUS
<1>1. CASE Next
  <2>1. TypeOK' /\ Distinct'
    BY <1>1, TypeStep DEF IInv
  <2>2. Rest'
    BY <1>1, <2>1, LaunchKeeps, SettleKeeps, FinishKeeps, UploadKeeps, DropKeeps, DismissKeeps,
       CancelKeeps
    DEF Next, Continue
  <2> QED BY <2>1, <2>2 DEF IInv, Rest
<1>2. CASE UNCHANGED vars
  <2>1. UNCHANGED calls /\ UNCHANGED <<store, uploadStatus, up, cancelled, cleared, skipped, reported>>
    BY <1>2 DEF vars, history
  <2>2. TypeOK' /\ Distinct' /\ (NotBegun /\ Over /\ Keyed)'
    BY <2>1, CallsFrame DEF IInv, TypeOK, Distinct, NotBegun, Over, Keyed
  <2>3. (OneAtATime' <=> OneAtATime) /\ (Owned' <=> Owned) /\ (Listed' <=> Listed)
    BY <2>1, CallsFrame DEF OneAtATime, Owned, Listed
  <2>4. ToCome => ToCome'
    BY <2>1, CallsFrame DEF ToCome, Running
  <2>5. (Awaited => Awaited') /\ (Shown => Shown') /\ (CancelAllIsFinal => CancelAllIsFinal')
    BY <2>1, CallsFrame DEF Awaited, Shown, CancelAllIsFinal
  <2>6. (Whole => Whole') /\ (Passed => Passed')
    BY <2>1, CallsFrame DEF Whole, Passed
  <2>7. Tidy => Tidy'
    BY <2>3, <2>4, <2>5, <2>6 DEF Tidy
  <2>8. drops > 0 /\ Handled => Handled'
    <3>1. drops > 0 => drops \in Drop
      BY DEF IInv, TypeOK, Drop
    <3> QED BY <2>1, <3>1, CallsFrame DEF Handled, Fits
  <2>9. Undisturbed'
    <3>1. ~cleared => Tidy /\ (drops > 0 => Handled) /\ (~skipped => Whole)
      BY DEF IInv, Undisturbed
    <3>2. drops' = drops /\ cleared' = cleared /\ skipped' = skipped
      BY <2>1, CallsFrame
    <3> QED BY <2>6, <2>7, <2>8, <3>1, <3>2 DEF Undisturbed
  <2> QED BY <2>2, <2>9 DEF IInv
<1> QED BY <1>1, <1>2

-----------------------------------------------------------------------------
(* The theorems.                                                           *)

\* IInv holds of every state that the uploads reach.
THEOREM Inductive == Spec => []IInv
BY InitIInv, StepIInv, PTL DEF Spec

\* Every variable of the store, of the calls of onDrop and of the uploaders
\* keeps its type.
THEOREM TypeCorrect == Spec => []TypeOK
<1>1. IInv => TypeOK
  BY DEF IInv
<1> QED BY <1>1, Inductive, PTL

\* For any batch size and any files: after "Yes, cancel" no upload goes on and
\* none of a later batch begins, unless the store was cleared under a drop.
THEOREM CancelFinal == Spec => []CancelAllIsFinal
<1>1. IInv => CancelAllIsFinal
  BY DEF IInv, Undisturbed, Tidy, CancelAllIsFinal
<1> QED BY <1>1, Inductive, PTL

\* For any batch size and any files: of a drop that is over no file is on its way,
\* and as long as it is listed each is shown as complete exactly when its upload
\* was resolved or its last byte reported, and else as failed or cancelled; where a
\* cancelled file was left out of a batch a rejected one may still look ongoing.
THEOREM AllAccountedFor == Spec => []EveryFileAccountedFor
<1>1. ASSUME IInv PROVE EveryFileAccountedFor
  <2> SUFFICES ASSUME drops > 0, ~cleared, pc[drops] = "done", NEW i \in DOMAIN files[drops]
               PROVE  LET k == files[drops][i]
                          u == up[drops][k]
                      IN u # "sending" /\ store[k].st \in {"absent"} \cup ShownAs(k, u)
    BY DEF EveryFileAccountedFor
  <2>1. TypeOK /\ drops \in Drop /\ Over /\ Handled
    BY <1>1 DEF IInv, Undisturbed, TypeOK, Drop
  <2>2. Upto(drops) \in Nat
    BY <2>1, BatchFacts
  <2>3. Len(files[drops]) \in Nat /\ i \in 1..Len(files[drops])
    BY <2>1 DEF TypeOK
  <2>4. i <= Upto(drops)
    BY <2>1, <2>2, <2>3 DEF Over
  <2> QED BY <2>1, <2>4 DEF Handled, Fits, ShownAs
<1> QED BY <1>1, Inductive, PTL

\* For any batch size and any files: a file shown as uploaded is not shown as
\* failed or cancelled afterwards, whichever drop, cancel or uploader steps.
THEOREM CompletedKept == Spec => CompletedStays
<1>1. ASSUME IInv, [Next]_vars, NEW k \in Key, store[k].st = "complete"
      PROVE  store'[k].st \in {"complete", "absent"} \/ drops' # drops
  <2>1. TypeOK /\ store[k] \in Entry
    BY <1>1 DEF IInv, TypeOK
  <2>2. CASE DropFiles
    BY <2>1, <2>2 DEF DropFiles, TypeOK
  <2>3. CASE Dismiss
    BY <2>3, NewEntries DEF Dismiss, CloseAlert
  <2>4. ASSUME NEW keys \in SUBSET Key, PerformAbort(keys) PROVE store'[k] = store[k]
    BY <1>1, <2>4 DEF PerformAbort, AfterAbort
  <2>5. CASE CancelOne \/ CancelAll
    BY <1>1, <2>4, <2>5 DEF CancelOne, CancelAll
  <2>6. ASSUME NEW d \in Drop, Launch(d) PROVE store'[k].st = "complete"
    BY <1>1, <2>1, <2>6 DEF Launch, Begin, Entry
  <2>7. ASSUME NEW d \in Drop, Settle(d) \/ Finish(d) PROVE store'[k] = store[k]
    BY <1>1, <2>7 DEF Settle, Finish
  <2>8. ASSUME NEW d \in Drop, NEW j \in Key, Upload(d, j) PROVE store'[k].st = "complete"
    <3>1. store[j] \in Entry
      BY <2>1 DEF TypeOK
    <3>2. CASE Progress(d, j)
      <4>1. PICK b \in BOOLEAN, st \in States :
                /\ store' = [store EXCEPT ![j] = [store[j] EXCEPT !.full = b, !.st = st]]
                /\ j = k => st = "complete"
        <5>1. CASE store' = [store EXCEPT ![j].full = TRUE, ![j].st = "complete"]
          BY <5>1 DEF States
        <5>2. CASE store' = [store EXCEPT ![j].full = FALSE,
                                          ![j].st = IF @ = "init" THEN "started" ELSE @]
          <6> DEFINE st == IF store[j].st = "init" THEN "started" ELSE store[j].st
          <6>1. st \in States /\ (j = k => st = "complete")
            BY <1>1, <3>1 DEF Entry, States, Ongoing
          <6>2. store' = [store EXCEPT ![j] = [store[j] EXCEPT !.full = FALSE, !.st = st]]
            BY <5>2
          <6> QED BY <6>1, <6>2
        <5> QED BY <3>2, <5>1, <5>2 DEF Progress
      <4> DEFINE e == [store[j] EXCEPT !.full = b, !.st = st]
      <4>2. e.st = st
        BY <3>1 DEF Entry
      <4>3. store' = [store EXCEPT ![j] = e]
        BY <4>1
      <4> HIDE DEF e
      <4> QED BY <1>1, <2>1, <4>1, <4>2, <4>3 DEF TypeOK
    <3>3. CASE Resolve(d, j)
      <4> DEFINE e == [store[j] EXCEPT !.st = "complete"]
      <4>1. e.st = "complete" /\ store' = [store EXCEPT ![j] = e]
        BY <3>1, <3>3 DEF Resolve, Entry
      <4> HIDE DEF e
      <4> QED BY <1>1, <2>1, <4>1 DEF TypeOK
    <3>4. CASE Reject(d, j)
      BY <1>1, <3>4 DEF Reject
    <3> QED BY <2>8, <3>2, <3>3, <3>4 DEF Upload
  <2>9. CASE UNCHANGED vars
    BY <1>1, <2>9 DEF vars
  <2> QED BY <1>1, <2>2, <2>3, <2>5, <2>6, <2>7, <2>8, <2>9 DEF Next, Continue
<1>2. IInv /\ [Next]_vars =>
          [\A k \in Key : store[k].st = "complete" =>
              store'[k].st \in {"complete", "absent"} \/ drops' # drops]_vars
  BY <1>1
<1> QED BY <1>2, Inductive, PTL DEF Spec, CompletedStays
=============================================================================

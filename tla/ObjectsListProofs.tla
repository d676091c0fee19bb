--------------------------- MODULE ObjectsListProofs ---------------------------
(***************************************************************************)
(* Proofs about ObjectsList and the operations of BucketCleanup under it,  *)
(* for any bucket, page sizes, bounds and number of calls on their way: the*)
(* type invariant, that data and tokens are of one page, that deleted rows *)
(* disappear, and that an operation deletes just what it is about.         *)
(***************************************************************************)
EXTENDS ObjectsList, FiniteSetTheorems, SequenceTheorems, TLAPS

-----------------------------------------------------------------------------
(* The invariant of the operations.                                        *)

\* A key and its versions; all of the bucket.
Aimed ==
    /\ op = "permanent" => \E k \in Key : target = OfKeys({k})
    /\ op = "empty" => target = Entry
    /\ op \in {"rows", "hide"} => pc # "list" /\ page = target
    /\ op = "hide" => atClick = {} /\ gone = {}
    /\ atClick \subseteq target
    /\ unused \cap (Markers \cup page \cup gone \cup atClick) = {}

\* What the loop has passed of the versions of the click is deleted, or on the
\* page that it deletes next; the last page leaves none behind.
Swept ==
    op \in {"empty", "permanent"} /\ ~refused =>
        /\ pc \in {"list", "delete"} => \A e \in atClick \cap bucket : e > marker \/ e \in page
        /\ pc = "list" => atClick \cap bucket \cap page = {}
        /\ pc = "delete" /\ ~more => atClick \cap bucket \subseteq page
        /\ pc = "end" => answer = "errors" \/ (answer = "ok" /\ atClick \cap bucket = {})

\* The summary counts what is gone.
Counted ==
    op \in {"permanent", "rows"} /\ ~refused =>
        /\ atClick \ bucket \subseteq gone /\ gone \cap bucket = {}
        /\ op = "rows" /\ pc = "delete" => atClick \subseteq page
        /\ op = "rows" /\ pc = "end" => answer = "errors" \/ atClick \cap bucket = {}

CInv == CTypeOK /\ Aimed /\ Swept /\ Counted

-----------------------------------------------------------------------------
(* The invariant of the list.                                              *)

Kinds == {"refresh", "next", "previous"}
Tokens == [previous : Seq(0..Last), current : 0..Last, next : 0..Last]
Flight == [list : Lists, kind : Kinds, query : Queries,
           after : 0..Last, age : Nat, page : Pages, served : BOOLEAN]

Openers == Lists \cup {"gone"}

ListOK ==
    /\ view \in [list : Lists, query : Queries] /\ opener \in Openers
    /\ tokens \in [Lists -> Tokens] /\ data \in [Lists -> Pages]
    /\ failed \in [Lists -> BOOLEAN] /\ crossed \in [Lists -> BOOLEAN]
    /\ due \in [Lists -> SUBSET Entry]

\* An operation that is open has a refresh left; no call is older than the calls
\* that there were.
Bounded ==
    /\ requests \in Nat \ {0} /\ (op # "none" => ops > 0)
    /\ requests + (IF op = "none" THEN 0 ELSE 1) <= MaxRequests + ops
    /\ flights \subseteq Flight /\ \A f \in flights : f.age <= requests

\* The rows of the lists and of the answers were there, ...
NeverPut ==
    /\ \A l \in Lists : unused \cap (data[l].rows \cup due[l]) = {}
    /\ \A f \in flights : unused \cap f.page.rows = {}

\* ... and what is due is in no answer that the list is still to show.
Vanished ==
    \A l \in Lists :
        /\ due[l] \cap Rows(l, Key) = {}
        /\ \A f \in flights : f.list = l /\ f.age = 0 /\ f.served => f.page.rows \cap due[l] = {}
        /\ ~Mutating(l) /\ ~failed[l] => data[l].rows \cap due[l] = {}

\* The tokens of a page that was reached by Next and Previous from the first.
Chain(t) ==
    /\ Len(t.previous) >= 1 /\ t.previous[1] = 0 /\ Walked(t)[2] = 0
    /\ \A i \in 2..Len(t.previous) : Walked(t)[i] < Walked(t)[i + 1]
    /\ t.next # 0 => t.current < t.next

\* A page as the service gives it.
Served(p) == p.next # 0 => p.after < p.next

Matched(l) ==
    /\ Chain(tokens[l]) /\ data[l].query = view.query
    /\ data[l].after = tokens[l].current /\ data[l].next = tokens[l].next

\* The call f is the one that the tokens of its list ask for.
Asked(f) ==
    LET t == tokens[f.list] IN
    /\ f.age = 0 /\ f.query = view.query
    /\ f.kind = "refresh" => f.after = 0
    /\ f.kind = "next" => /\ Matched(f.list) /\ ~failed[f.list]
                          /\ f.after = t.next /\ t.next # 0
    /\ f.kind = "previous" => /\ Matched(f.list) /\ ~failed[f.list]
                              /\ f.after = LastOf(t.previous) /\ t.current # 0

\* Until calls overlap, the list that is shown has at most one on its way, ...
Lone ==
    LET l == view.list IN
    ~crossed[l] =>
        /\ \A f, g \in flights : f.list = l /\ g.list = l => f = g
        /\ \A f \in flights : f.list = l => Asked(f)
        /\ ~Pending(l) /\ ~failed[l] => Matched(l)

\* ... its newest call, and what it shows, are of the query it is at, ...
Current ==
    LET l == view.list IN
    /\ \A f \in flights : f.list = l /\ f.age = 0 => f.query = view.query
    /\ LoadedWOError => data[l].query = view.query

\* ... and an answer is of the call's own page.
Answers == \A f \in flights : f.served =>
    f.page.query = f.query /\ f.page.after = f.after /\ Served(f.page)

LInv == ListOK /\ Bounded /\ NeverPut /\ Vanished /\ Lone /\ Current /\ Answers
IInv == CInv /\ LInv

-----------------------------------------------------------------------------
(* Places in their order.                                                  *)

Before == {p \in Nat \X Nat : p[1] < p[2]}

\* A set of numbers that is not empty has a least one, ...
LEMMA Least == ASSUME NEW S \in SUBSET Nat, S # {} PROVE \E x \in S : \A y \in S : x <= y
<1>1. IsWellFoundedOn(Before, Nat)
  BY NatLessThanWellFounded DEF OpToRel, Before
<1>2. \A x, y \in Nat : <<y, x>> \in Before <=> y < x
  BY DEF Before
<1>3. PICK x \in S : \A y \in S : ~(<<y, x>> \in Before)
  <2> HIDE DEF Before
  <2> QED BY <1>1, WFMin
<1>4. ASSUME NEW y \in S PROVE x <= y
  <2>1. x \in Nat /\ y \in Nat
    OBVIOUS
  <2>2. ~(y < x)
    BY <1>2, <1>3, <2>1
  <2> QED BY <2>1, <2>2
<1> QED BY <1>4

\* ... and a set of places a last one, which Max is.
LEMMA Greatest ==
    ASSUME NEW S \in SUBSET Entry, S # {}
    PROVE  Max(S) \in S /\ \A y \in S : y <= Max(S)
<1> DEFINE T == {Last - y : y \in S}
<1>1. \A y \in S : y \in Nat /\ y <= Last /\ Last - y \in Nat /\ Last - y \in T
  BY KeyAssumption DEF Entry
<1>2. T \in SUBSET Nat /\ T # {}
  BY <1>1
<1>3. PICK t \in T : \A u \in T : t <= u
  <2> HIDE DEF T
  <2> QED BY <1>2, Least
<1>4. PICK x \in S : t = Last - x
  OBVIOUS
<1>5. \A y \in S : Last - x <= Last - y
  BY <1>1, <1>3, <1>4
<1>6. \A y \in S : x >= y
  BY <1>1, <1>5, KeyAssumption
<1>7. Max(S) \in S /\ \A y \in S : Max(S) >= y
  BY <1>6 DEF Max
<1> QED BY <1>1, <1>7

\* The first places of a set are some of them, and before the others.
LEMMA FirstFacts ==
    ASSUME NEW s \in SUBSET Entry, NEW n \in Nat \ {0}
    PROVE  /\ FirstOf(s, n) \subseteq s
           /\ s # {} => FirstOf(s, n) # {}
           /\ \A e \in s \ FirstOf(s, n) : \A d \in FirstOf(s, n) : d < e
<1> DEFINE upto(e) == {d \in s : d <= e}
<1>1. \A e \in s : e \in Nat
  BY DEF Entry
<1>2. IsFiniteSet(Entry)
  BY FS_Interval, KeyAssumption DEF Entry
<1>3. ASSUME NEW e \in s PROVE IsFiniteSet(upto(e)) /\ Cardinality(upto(e)) \in Nat
  <2>1. upto(e) \in SUBSET Entry
    OBVIOUS
  <2>2. IsFiniteSet(upto(e))
    BY <1>2, <2>1, FS_Subset
  <2> QED BY <2>2, FS_CardinalityType
<1>4. ASSUME s # {} PROVE FirstOf(s, n) # {}
  <2>1. s \in SUBSET Nat
    BY <1>1
  <2>2. PICK x \in s : \A y \in s : x <= y
    BY <1>4, <2>1, Least
  <2>3. upto(x) = {x}
    <3>1. ASSUME NEW y \in s, y <= x PROVE y = x
      <4>1. x <= y /\ x \in Nat /\ y \in Nat
        BY <1>1, <2>2
      <4> QED BY <3>1, <4>1
    <3>2. x <= x
      BY <1>1
    <3> QED BY <3>1, <3>2
  <2>4. Cardinality(upto(x)) = 1
    BY <2>3, FS_Singleton
  <2>5. Cardinality(upto(x)) <= n
    BY <2>4
  <2> QED BY <2>5 DEF FirstOf
<1>5. ASSUME NEW e \in s \ FirstOf(s, n), NEW d \in FirstOf(s, n) PROVE d < e
  <2>1. d \in s /\ Cardinality(upto(d)) <= n /\ ~(Cardinality(upto(e)) <= n)
    BY <1>5 DEF FirstOf
  <2>2. ASSUME e <= d PROVE FALSE
    <3>1. upto(e) \subseteq upto(d)
      BY <1>1, <2>1, <2>2
    <3>2. Cardinality(upto(e)) <= Cardinality(upto(d))
      <4>1. IsFiniteSet(upto(d)) /\ upto(e) \in SUBSET upto(d)
        BY <1>3, <2>1, <3>1
      <4> HIDE DEF upto
      <4> QED BY <4>1, FS_Subset
    <3>3. Cardinality(upto(e)) \in Nat /\ Cardinality(upto(d)) \in Nat
      BY <1>3, <1>5, <2>1
    <3> HIDE DEF upto
    <3> QED BY <2>1, <3>2, <3>3
  <2>3. d \in Nat /\ e \in Nat
    BY <1>1, <1>5, <2>1
  <2> QED BY <2>2, <2>3
<1> QED BY <1>4, <1>5 DEF FirstOf

-----------------------------------------------------------------------------
(* The operations keep their invariant.                                    *)

LEMMA InitCInv == CInit => CInv
<1> SUFFICES ASSUME CInit PROVE CInv
  OBVIOUS
<1>1. CTypeOK
  <2>1. exists \in BOOLEAN /\ more \in BOOLEAN /\ refused \in BOOLEAN /\ (refused <=> pc = "catch")
    BY DEF CInit
  <2>2. bucket \subseteq Entry /\ unused \subseteq Entry \ bucket
    BY BucketAssumption DEF CInit
  <2>3. marker \in 0..Last /\ ops \in 0..MaxOps /\ faults \in 0..MaxFaults
    BY KeyAssumption, BoundsAssumption DEF CInit
  <2> QED BY <2>1, <2>2, <2>3 DEF CInit, CTypeOK, Ops, Alerts
<1> QED BY <1>1, BucketAssumption DEF CInit, CInv, Aimed, Swept, Counted

\* A step of the list, or a rejected call of it, is none of an operation.
LEMMA CFrame ==
    ASSUME CInv, UNCHANGED <<bucket, unused, exists, cleanup, history, ops>>, faults' \in 0..MaxFaults
    PROVE  CInv'
<1>1. CTypeOK'
  BY DEF CInv, CTypeOK, cleanup, history
<1> QED BY <1>1 DEF CInv, Aimed, Swept, Counted, cleanup, history

LEMMA BeginTypes ==
    ASSUME CTypeOK, NEW o \in Ops, NEW rows \in SUBSET Entry, Begin(o, rows),
           pc' \in {"list", "delete"}, page' \subseteq rows, atClick' \subseteq rows
    PROVE  CTypeOK'
<1>1. exists' \in BOOLEAN /\ more' \in BOOLEAN /\ refused' \in BOOLEAN /\ (refused' <=> pc' = "catch")
  BY DEF Begin, CTypeOK
<1>2. marker' \in 0..Last /\ ops' \in 0..MaxOps /\ faults' \in 0..MaxFaults
  BY KeyAssumption, BoundsAssumption DEF Begin, CTypeOK
<1>3. op' \in Ops /\ (pc' = "idle" <=> op' = "none")
  BY DEF Begin, Ops
<1> QED BY <1>1, <1>2, <1>3 DEF Begin, CTypeOK

LEMMA ClickRowsKeeps ==
    ASSUME CInv, NEW rows \in SUBSET Entry, rows \cap unused = {}, NEW versioned \in BOOLEAN,
           ClickRows(rows, versioned)
    PROVE  CInv'
<1> DEFINE o == IF versioned THEN "rows" ELSE "hide"
<1>1. /\ Begin(o, rows) /\ o \in Ops /\ pc' = "delete" /\ page' = rows
      /\ atClick' = IF versioned THEN rows \cap bucket ELSE {}
  BY DEF ClickRows, Ops
<1>2. CTypeOK'
  BY <1>1, BeginTypes DEF CInv
<1>3. op' = o /\ target' = rows /\ gone' = {} /\ UNCHANGED <<bucket, unused>>
  BY <1>1 DEF Begin
<1> QED BY <1>1, <1>2, <1>3 DEF CInv, Aimed, Swept, Counted

LEMMA ClickPermanentKeeps == ASSUME CInv, NEW k \in Key, ClickPermanent(k) PROVE CInv'
<1>1. /\ Begin("permanent", OfKeys({k})) /\ pc' = "list" /\ page' = {}
      /\ atClick' = bucket \cap OfKeys({k})
  BY DEF ClickPermanent
<1>2. CTypeOK'
  BY <1>1, BeginTypes DEF CInv, OfKeys, Ops
<1>3. /\ op' = "permanent" /\ target' = OfKeys({k}) /\ gone' = {} /\ marker' = 0
      /\ UNCHANGED <<bucket, unused>> /\ bucket \subseteq Entry /\ unused \cap (bucket \cup Markers) = {}
  BY <1>1 DEF Begin, CInv, CTypeOK, Aimed
<1>4. \A e \in bucket : e > 0
  BY <1>3 DEF Entry
<1> QED BY <1>1, <1>2, <1>3, <1>4 DEF CInv, Aimed, Swept, Counted

LEMMA ClickEmptyKeeps == ASSUME CInv, ClickEmpty PROVE CInv'
<1>1. Begin("empty", Entry) /\ pc' = "list" /\ page' = {} /\ atClick' = bucket
  BY DEF ClickEmpty
<1>2. CTypeOK'
  BY <1>1, BeginTypes DEF CInv, CTypeOK, Ops
<1>3. /\ op' = "empty" /\ target' = Entry /\ gone' = {} /\ marker' = 0
      /\ UNCHANGED <<bucket, unused>> /\ bucket \subseteq Entry /\ unused \cap (bucket \cup Markers) = {}
  BY <1>1 DEF Begin, CInv, CTypeOK, Aimed
<1>4. \A e \in bucket : e > 0
  BY <1>3 DEF Entry
<1> QED BY <1>1, <1>2, <1>3, <1>4 DEF CInv, Aimed, Swept, Counted

\* A page goes on from the marker, takes what the operation is about and leaves
\* out nothing of it before the next marker; it is the last only when nothing of
\* it is left.
LEMMA ListKeeps == ASSUME CInv, List PROVE CInv'
<1> DEFINE rest == {e \in bucket \cap Listed : e > marker}
           found == FirstOf(rest, PageSize)
<1>1. /\ CTypeOK /\ Aimed /\ pc = "list" /\ op \in {"empty", "permanent"} /\ ~refused
      /\ rest \in SUBSET Entry /\ PageSize \in Nat \ {0}
  BY PlaceAssumption DEF List, CInv, CTypeOK, Aimed, Ops
<1>2. /\ page' = found \cap target /\ more' = (found # rest /\ found \subseteq target)
      /\ marker' = (IF found = {} THEN marker ELSE Max(found)) /\ pc' = "delete"
      /\ UNCHANGED <<bucket, unused, exists, op, target, gone, answer, history, ops, faults>>
  BY DEF List, Collected
<1>3. /\ found \subseteq rest /\ found \in SUBSET Entry
      /\ \A e \in rest \ found : \A d \in found : d < e
  <2> HIDE DEF rest
  <2> QED BY <1>1, FirstFacts
<1>4. found # {} => Max(found) \in found /\ \A y \in found : y <= Max(found)
  <2> HIDE DEF found
  <2> QED BY <1>3, Greatest
<1>5. marker' \in 0..Last /\ \A e \in rest \ found : e > marker'
  <2>1. CASE found = {}
    BY <1>1, <1>2, <2>1 DEF CTypeOK
  <2>2. CASE found # {}
    <3>1. marker' = Max(found) /\ Max(found) \in found /\ Max(found) \in Entry
      BY <1>2, <1>3, <1>4, <2>2
    <3>2. \A e \in rest \ found : Max(found) < e /\ e \in Entry
      BY <1>1, <1>3, <3>1
    <3> HIDE DEF found, rest
    <3> QED BY <3>1, <3>2, KeyAssumption DEF Entry
  <2> QED BY <2>1, <2>2
<1>6. target \subseteq Listed
  <2>1. CASE op = "empty"
    BY <1>1, <2>1 DEF Listed, CTypeOK
  <2>2. CASE op = "permanent"
    <3>1. \A e \in target : e \in Entry /\ KeyAt[e] \in HasPrefix[KeyAt[e]]
      BY <1>1, KeyAssumption, PrefixAssumption DEF CTypeOK
    <3> QED BY <2>2, <3>1 DEF Listed, OfKeys
  <2> QED BY <1>1, <2>1, <2>2
<1>7. ASSUME NEW e \in atClick \cap bucket PROVE e \in rest
  BY <1>1, <1>6, <1>7 DEF CInv, Swept, Aimed
<1>8. ASSUME ~more', NEW e \in atClick \cap bucket PROVE e \in found
  <2>1. e \in target /\ e \in Entry /\ e \in rest
    BY <1>1, <1>7, <1>8 DEF Aimed, CTypeOK
  <2>2. CASE found # rest
    <3>1. PICK d \in found : d \notin target
      BY <1>2, <1>8, <2>2
    <3>2. op = "permanent" /\ d \in Entry /\ d \in Listed
      BY <1>1, <1>3, <3>1 DEF Aimed
    <3>3. PICK k \in Key : target = OfKeys({k})
      BY <1>1, <3>2 DEF Aimed
    <3>4. PICK x \in target : KeyAt[d] \in HasPrefix[KeyAt[x]]
      BY <3>2 DEF Listed, OfKeys
    <3>5. KeyAt[x] = k /\ KeyAt[e] = k /\ KeyAt[d] # k
      BY <2>1, <3>1, <3>2, <3>3 DEF OfKeys
    <3>6. e < d
      BY <2>1, <3>2, <3>4, <3>5, OrderAssumption
    <3>7. e \in Nat /\ d \in Nat
      BY <2>1, <3>2 DEF Entry
    <3> QED BY <1>3, <2>1, <3>1, <3>6, <3>7
  <2> QED BY <2>1, <2>2
<1>9. CTypeOK'
  <2>1. page' \subseteq target
    BY <1>2
  <2>2. more' \in BOOLEAN
    BY <1>2
  <2> HIDE DEF rest, found
  <2> QED BY <1>1, <1>2, <1>5, <2>1, <2>2 DEF CTypeOK, history
<1>a. Aimed'
  <2>1. page' \subseteq bucket
    BY <1>2, <1>3
  <2> HIDE DEF rest, found
  <2> QED BY <1>1, <1>2, <2>1 DEF Aimed, CTypeOK, history
<1>b. Swept'
  <2>1. \A e \in atClick \cap bucket : e \in target /\ e \in rest
    BY <1>1, <1>7 DEF Aimed
  <2>2. \A e \in atClick \cap bucket : e > marker' \/ e \in page'
    <3> HIDE DEF rest, found
    <3> QED BY <1>2, <1>5, <2>1
  <2>3. ~more' => atClick \cap bucket \subseteq page'
    <3> HIDE DEF rest, found
    <3> QED BY <1>2, <1>8, <2>1
  <2> HIDE DEF rest, found
  <2> QED BY <1>1, <1>2, <2>2, <2>3 DEF Swept, history
<1>c. Counted'
  BY <1>1, <1>2 DEF Counted, CInv, history
<1> QED BY <1>9, <1>a, <1>b, <1>c DEF CInv

\* What a deletion leaves in the bucket.
LEMMA DeleteFacts ==
    ASSUME CTypeOK, Aimed, NEW done \in SUBSET page
    PROVE  /\ AfterDelete(done) \subseteq Entry
           /\ unused \subseteq Entry \ AfterDelete(done)
           /\ op # "hide" => AfterDelete(done) = bucket \ done
BY PlaceAssumption DEF CTypeOK, Aimed, AfterDelete

LEMMA DeletePageKeeps == ASSUME CInv, DeletePage PROVE CInv'
<1>1. /\ CTypeOK /\ Aimed /\ pc = "delete" /\ op \in Ops /\ ~refused
      /\ page \subseteq target /\ target \subseteq Entry /\ gone \subseteq target
  BY DEF DeletePage, CInv, CTypeOK
<1>2. PICK kept \in SUBSET (page \cap Locked) :
          /\ bucket' = AfterDelete(page \ kept)
          /\ answer' = IF kept = {} THEN "ok" ELSE "errors"
          /\ gone' = IF op \in {"permanent", "rows"} THEN Reported(page \ kept) ELSE gone
          /\ pc' = IF op \in {"empty", "permanent"} /\ kept = {} /\ Loops THEN "list" ELSE "end"
  BY DEF DeletePage
<1> DEFINE done == page \ kept
<1>3. /\ bucket' \subseteq Entry /\ unused \subseteq Entry \ bucket'
      /\ op # "hide" => bucket' = bucket \ done
  BY <1>1, <1>2, DeleteFacts
<1>4. UNCHANGED <<unused, exists, op, target, marker, page, more, history, ops, faults>>
  BY DEF DeletePage
<1>5. gone' = gone \cup done \/ gone' = gone
  BY <1>2 DEF Reported
<1>6. CTypeOK'
  <2>1. pc' \in {"list", "end"} /\ answer' \in {"ok", "errors"} /\ gone' \subseteq target
    BY <1>1, <1>2, <1>5
  <2> HIDE DEF done
  <2> QED BY <1>1, <1>3, <1>4, <2>1 DEF CTypeOK, history, Ops
<1>7. Aimed'
  <2>1. op \in {"rows", "hide"} => pc' # "list" /\ page = target
    BY <1>1, <1>2 DEF Aimed
  <2>2. unused \cap gone' = {} /\ (op = "hide" => gone' = {})
    BY <1>1, <1>2, <1>5 DEF Aimed
  <2> QED BY <1>1, <1>4, <2>1, <2>2 DEF Aimed, history
<1>8. Swept'
  <2> SUFFICES ASSUME op \in {"empty", "permanent"}
               PROVE  /\ pc' = "list" => \A e \in atClick \cap bucket' : e > marker /\ e \notin page
                      /\ pc' = "end" => answer' = "errors" \/ (answer' = "ok" /\ atClick \cap bucket' = {})
    BY <1>2, <1>4 DEF Swept, history
  <2>1. bucket' = bucket \ done /\ \A e \in atClick \cap bucket : e > marker \/ e \in page
    BY <1>1, <1>3 DEF CInv, Swept
  <2>2. CASE kept = {} /\ more
    BY <1>2, <2>1, <2>2 DEF Loops
  <2>3. CASE kept = {} /\ ~more
    <3>1. atClick \cap bucket \subseteq page
      BY <1>1, <2>3 DEF CInv, Swept
    <3> QED BY <1>2, <2>1, <2>3, <3>1 DEF Loops
  <2>4. CASE kept # {}
    BY <1>2, <2>4
  <2> QED BY <2>2, <2>3, <2>4
<1>9. Counted'
  <2> SUFFICES ASSUME op \in {"permanent", "rows"}
               PROVE  /\ atClick \ bucket' \subseteq gone' /\ gone' \cap bucket' = {}
                      /\ op = "rows" => answer' = "errors" \/ atClick \cap bucket' = {}
    BY <1>2, <1>4 DEF Counted, history
  <2>1. bucket' = bucket \ done /\ gone' = gone \cup done
    BY <1>2, <1>3 DEF Reported
  <2>2. atClick \ bucket \subseteq gone /\ gone \cap bucket = {} /\ (op = "rows" => atClick \subseteq page)
    BY <1>1 DEF CInv, Counted
  <2> QED BY <1>2, <2>1, <2>2
<1> QED BY <1>6, <1>7, <1>8, <1>9 DEF CInv

\* After a rejected call nothing more is done, and nothing is claimed.
LEMMA RejectedKeeps == ASSUME CInv, Rejected PROVE CInv'
<1>1. CTypeOK /\ Aimed /\ op \in Ops
  BY DEF Rejected, CInv, CTypeOK
<1>2. /\ pc' = "catch" /\ refused' = TRUE
      /\ UNCHANGED <<unused, exists, op, target, marker, page, more, gone, answer, alert, atClick, ops>>
  BY DEF Rejected
<1>3. bucket' \subseteq Entry /\ unused \subseteq Entry \ bucket'
  <2>1. bucket \subseteq Entry /\ unused \subseteq Entry \ bucket
    BY <1>1 DEF CTypeOK
  <2>2. AfterDelete(page) \subseteq Entry /\ unused \subseteq Entry \ AfterDelete(page)
    BY <1>1, DeleteFacts
  <2> QED BY <2>1, <2>2 DEF Rejected
<1>4. faults' \in 0..MaxFaults
  BY <1>1, BoundsAssumption DEF Rejected, CTypeOK
<1>5. CTypeOK'
  <2>1. refused' \in BOOLEAN /\ (refused' <=> pc' = "catch")
    BY <1>2
  <2>2. pc' \in {"idle", "list", "delete", "end", "catch"} /\ (pc' = "idle" <=> op' = "none")
    BY <1>1, <1>2 DEF Ops
  <2> QED BY <1>1, <1>2, <1>3, <1>4, <2>1, <2>2 DEF CTypeOK
<1>6. Aimed'
  BY <1>1, <1>2 DEF Aimed
<1> QED BY <1>2, <1>5, <1>6 DEF CInv, Swept, Counted

\* Nothing is under way.
LEMMA ResetKeeps ==
    ASSUME CInv, Reset, UNCHANGED <<bucket, unused, exists, ops, faults>>, alert' \in Alerts
    PROVE  CInv'
<1>1. CTypeOK'
  <2>1. more' \in BOOLEAN /\ refused' \in BOOLEAN /\ (refused' <=> pc' = "catch")
    BY DEF Reset
  <2>2. marker' \in 0..Last
    BY KeyAssumption DEF Reset
  <2> QED BY <2>1, <2>2 DEF CInv, CTypeOK, Reset
<1> QED BY <1>1 DEF CInv, Aimed, Swept, Counted, Reset

LEMMA EndsKeep == ASSUME CInv, EndDelete \/ EndEmpty \/ FailDelete PROVE CInv'
BY ResetKeeps DEF EndDelete, EndEmpty, FailDelete, Emptied, Alerts

\* What another client puts was never there.
LEMMA PutKeeps == ASSUME CInv, Put PROVE CInv'
<1>1. PICK e \in unused : bucket' = bucket \cup {e} /\ unused' = unused \ {e}
  BY DEF Put
<1>2. UNCHANGED <<exists, cleanup, history, ops, faults>>
  BY DEF Put
<1>3. CTypeOK /\ Aimed /\ e \in Entry /\ e \notin page \cup gone \cup atClick
  BY <1>1 DEF CInv, CTypeOK, Aimed
<1>4. CTypeOK'
  <2>1. bucket' \subseteq Entry /\ unused' \subseteq Entry \ bucket'
    BY <1>1, <1>3 DEF CTypeOK
  <2> QED BY <1>2, <1>3, <2>1 DEF CTypeOK, cleanup, history
<1>5. Aimed'
  BY <1>1, <1>2, <1>3 DEF Aimed, cleanup, history
<1>6. atClick \cap bucket' = atClick \cap bucket /\ gone \cap bucket' = gone \cap bucket
      /\ atClick \ bucket' = atClick \ bucket
  BY <1>1, <1>3
<1>7. Swept'
  BY <1>2, <1>6 DEF CInv, Swept, cleanup, history
<1>8. Counted'
  BY <1>2, <1>6 DEF CInv, Counted, cleanup, history
<1> QED BY <1>4, <1>5, <1>7, <1>8 DEF CInv

LEMMA DeleteBucketKeeps == ASSUME CInv, DeleteBucket PROVE CInv'
<1>1. exists' \in BOOLEAN /\ UNCHANGED <<bucket, unused, cleanup, history, ops, faults>>
  BY DEF DeleteBucket
<1>2. CTypeOK'
  BY <1>1 DEF CInv, CTypeOK, cleanup, history
<1> QED BY <1>1, <1>2 DEF CInv, Aimed, Swept, Counted, cleanup, history

-----------------------------------------------------------------------------
(* Pages and tokens.                                                       *)

LEMMA ListFacts == /\ Lists = {"objects", "versions"} /\ "objects" \in Lists
                   /\ \A l \in Lists : Other(l) \in Lists /\ Other(l) # l
                   /\ \A l, m \in Lists : m = l \/ m = Other(l)
BY DEF Lists, Other

LEMMA TypesHold == IInv => TypeOK
<1> SUFFICES ASSUME IInv PROVE TypeOK
  OBVIOUS
<1>1. requests \in 1..MaxRequests + MaxOps
  <2>1. ops \in 0..MaxOps /\ requests \in Nat \ {0} /\ requests <= MaxRequests + ops
    BY RequestsAssumption DEF IInv, LInv, CInv, CTypeOK, Bounded
  <2> QED BY <2>1, BoundsAssumption, RequestsAssumption
<1>2. \A f \in flights : f.list \in Lists /\ f.page \in Pages /\ f.age \in 0..requests
  BY DEF IInv, LInv, Bounded, Flight
<1> QED BY <1>1, <1>2 DEF IInv, CInv, LInv, ListOK, TypeOK, Tokens, Openers

\* The rows of a query are rows of the whole list, and there.
LEMMA RowFacts ==
    ASSUME bucket \subseteq Entry, NEW l \in Lists, NEW q \in SUBSET Key
    PROVE  Rows(l, q) \subseteq Rows(l, Key) /\ Rows(l, Key) \subseteq bucket
BY KeyAssumption DEF Rows, OfKeys

\* A page is of its query and token, and the next token is behind it.
LEMMA PageFacts ==
    ASSUME bucket \subseteq Entry, NEW l \in Lists, NEW q \in Queries, NEW after \in 0..Last
    PROVE  LET p == Page(l, q, after) IN
           /\ p \in Pages /\ p.query = q /\ p.after = after
           /\ p.rows \subseteq Rows(l, Key) /\ Served(p)
<1> DEFINE rest == {e \in Rows(l, q) : e > after}
           found == FirstOf(rest, ListSize)
<1>1. Rows(l, q) \subseteq Rows(l, Key) /\ Rows(l, Key) \subseteq bucket
  BY RowFacts, QueryAssumption
<1>2. rest \in SUBSET Entry /\ ListSize \in Nat \ {0}
  BY <1>1, QueryAssumption
<1>3. found \subseteq rest /\ (rest # {} => found # {})
  <2> HIDE DEF rest
  <2> QED BY <1>2, FirstFacts
<1> DEFINE next == IF found = rest THEN 0 ELSE Max(found)
<1>4. next \in 0..Last /\ (next # 0 => after < next)
  <2>1. CASE found = rest
    BY <2>1, KeyAssumption
  <2>2. CASE found # rest
    <3>1. found # {} /\ found \in SUBSET Entry
      BY <1>2, <1>3, <2>2
    <3>2. Max(found) \in found
      <4> HIDE DEF found
      <4> QED BY <3>1, Greatest
    <3>3. Max(found) \in Entry /\ Max(found) > after
      BY <1>3, <3>1, <3>2
    <3> HIDE DEF found
    <3> QED BY <2>2, <3>3 DEF Entry
  <2> QED BY <2>1, <2>2
<1>5. Page(l, q, after) = [query |-> q, after |-> after, rows |-> found, next |-> next]
  BY DEF Page
<1>6. found \subseteq Rows(l, Key) /\ found \subseteq Entry
  BY <1>1, <1>2, <1>3
<1> HIDE DEF found, next
<1> QED BY <1>4, <1>5, <1>6 DEF Pages, Served

LEMMA NoPageFacts == NoPage \in Pages /\ NoPage.rows = {}
BY KeyAssumption DEF NoPage, Pages

LEMMA FreshFacts == Fresh \in Tokens
BY KeyAssumption DEF Fresh, Tokens

LEMMA LastOfFacts == ASSUME NEW s \in Seq(0..Last) PROVE LastOf(s) \in 0..Last
BY KeyAssumption, EmptySeq DEF LastOf

\* What the setters make of the tokens.
LEMMA ForwardFacts ==
    ASSUME NEW t \in Tokens, NEW next \in 0..Last
    PROVE  /\ Forward(t, next) \in Tokens
           /\ Forward(t, next).previous = Append(t.previous, t.current)
           /\ Forward(t, next).current = t.next /\ Forward(t, next).next = next
BY DEF Forward, Tokens

LEMMA Popped ==
    ASSUME NEW S, NEW s \in Seq(S), s # <<>>
    PROVE  LET init == SubSeq(s, 1, Len(s) - 1) IN
           /\ init \in Seq(S) /\ Len(init) = Len(s) - 1
           /\ \A i \in 1..Len(s) - 1 : init[i] = s[i]
<1> DEFINE n == Len(s) - 1
<1>1. n \in Nat /\ \A i \in 1..n : s[i] \in S
  BY EmptySeq
<1>2. /\ SubSeq(s, 1, n) \in Seq(S)
      /\ Len(SubSeq(s, 1, n)) = IF 1 <= n THEN n - 1 + 1 ELSE 0
      /\ \A i \in 1..n - 1 + 1 : SubSeq(s, 1, n)[i] = s[1 + i - 1]
  <2> HIDE DEF n
  <2> QED BY <1>1, SubSeqProperties
<1>3. Len(SubSeq(s, 1, n)) = n /\ \A i \in 1..n : SubSeq(s, 1, n)[i] = s[i]
  <2> HIDE DEF n
  <2> QED BY <1>1, <1>2
<1> QED BY <1>2, <1>3

LEMMA BackFacts ==
    ASSUME NEW t \in Tokens, NEW next \in 0..Last
    PROVE  LET b == Back(t, next) IN
           /\ b \in Tokens /\ b.current = LastOf(t.previous) /\ b.next = next
           /\ t.previous # <<>> =>
                  /\ Len(b.previous) = Len(t.previous) - 1
                  /\ \A i \in 1..Len(t.previous) - 1 : b.previous[i] = t.previous[i]
<1> DEFINE s == t.previous
           rest == IF s = <<>> THEN <<>> ELSE SubSeq(s, 1, Len(s) - 1)
<1>1. s \in Seq(0..Last)
  BY DEF Tokens
<1>2. rest \in Seq(0..Last)
  <2> HIDE DEF s
  <2> QED BY <1>1, Popped
<1>3. s # <<>> => Len(rest) = Len(s) - 1 /\ \A i \in 1..Len(s) - 1 : rest[i] = s[i]
  <2> HIDE DEF s
  <2> QED BY <1>1, Popped
<1>4. Back(t, next) = [previous |-> rest, current |-> LastOf(s), next |-> next]
  BY DEF Back
<1>5. LastOf(s) \in 0..Last
  BY <1>1, LastOfFacts
<1> HIDE DEF rest
<1> QED BY <1>2, <1>3, <1>4, <1>5 DEF Tokens

LEMMA TokenTypes ==
    ASSUME NEW t \in Tokens, NEW kind \in Kinds, NEW next \in 0..Last
    PROVE  NewTokens(t, kind, next) \in Tokens
<1>1. [previous |-> <<0>>, current |-> 0, next |-> next] \in Tokens
  BY KeyAssumption DEF Tokens
<1> QED BY <1>1, ForwardFacts, BackFacts DEF NewTokens, Kinds

LEMMA Elements ==
    ASSUME NEW S, NEW s \in Seq(S)
    PROVE  Len(s) \in Nat /\ \A i \in 1..Len(s) : s[i] \in S
OBVIOUS

LEMMA WalkedFacts ==
    ASSUME NEW t \in Tokens
    PROVE  /\ t.previous \in Seq(0..Last) /\ Len(t.previous) \in Nat
           /\ t.current \in 0..Last /\ t.next \in 0..Last
           /\ \A i \in 1..Len(t.previous) : Walked(t)[i] = t.previous[i] /\ t.previous[i] \in 0..Last
           /\ Walked(t)[Len(t.previous) + 1] = t.current
<1> DEFINE s == t.previous
<1>1. s \in Seq(0..Last) /\ t.current \in 0..Last /\ t.next \in 0..Last
  BY DEF Tokens
<1>2. Len(s) \in Nat /\ \A i \in 1..Len(s) : s[i] \in 0..Last
  <2> HIDE DEF s
  <2> QED BY <1>1, Elements
<1>3. /\ \A i \in 1..Len(s) : Append(s, t.current)[i] = s[i]
      /\ Append(s, t.current)[Len(s) + 1] = t.current
  <2> HIDE DEF s
  <2> QED BY <1>1, AppendProperties
<1> QED BY <1>1, <1>2, <1>3 DEF Walked

\* Next from a page that has one leads on, ...
LEMMA ChainForward ==
    ASSUME NEW t \in Tokens, NEW next \in 0..Last, Chain(t), t.next # 0, next # 0 => t.next < next
    PROVE  Chain(Forward(t, next))
<1> DEFINE b == Forward(t, next)
           n == Len(t.previous)
<1>1. b \in Tokens /\ b.previous = Append(t.previous, t.current) /\ b.current = t.next /\ b.next = next
  BY ForwardFacts
<1>2. /\ n \in Nat /\ Len(b.previous) = n + 1
      /\ \A i \in 1..n : b.previous[i] = t.previous[i]
      /\ b.previous[n + 1] = t.current
  BY <1>1, WalkedFacts, AppendProperties
<1>3. /\ n >= 1 /\ t.previous[1] = 0 /\ Walked(t)[2] = 0 /\ t.current < t.next
      /\ \A i \in 2..n : Walked(t)[i] < Walked(t)[i + 1]
  BY DEF Chain
<1> HIDE DEF b, n
<1>4. \A i \in 1..n + 1 : Walked(b)[i] = b.previous[i]
  BY <1>1, <1>2, WalkedFacts
<1>5. Walked(b)[n + 1 + 1] = t.next
  BY <1>1, <1>2, WalkedFacts
<1>6. /\ \A i \in 1..n : Walked(t)[i] = t.previous[i]
      /\ Walked(t)[n + 1] = t.current
  BY WalkedFacts DEF n
<1>7. \A i \in 1..n + 1 : Walked(b)[i] = Walked(t)[i]
  <2> SUFFICES ASSUME NEW i \in 1..n + 1 PROVE Walked(b)[i] = Walked(t)[i]
    OBVIOUS
  <2>1. CASE i = n + 1
    BY <1>2, <1>4, <1>6, <2>1
  <2>2. CASE i \in 1..n
    BY <1>2, <1>4, <1>6, <2>2
  <2> QED BY <1>2, <2>1, <2>2
<1>8. Walked(b)[2] = 0 /\ b.previous[1] = 0
  BY <1>2, <1>3, <1>7
<1>9. ASSUME NEW i \in 2..n + 1 PROVE Walked(b)[i] < Walked(b)[i + 1]
  <2>1. CASE i = n + 1
    BY <1>2, <1>3, <1>5, <1>6, <1>7, <2>1
  <2>2. CASE i \in 2..n
    <3>1. Walked(b)[i] = Walked(t)[i] /\ Walked(b)[i + 1] = Walked(t)[i + 1]
      BY <1>2, <1>7, <2>2
    <3> QED BY <1>3, <2>2, <3>1
  <2> QED BY <1>2, <2>1, <2>2
<1> QED BY <1>1, <1>2, <1>3, <1>8, <1>9 DEF Chain, b

\* ... Previous from a page that is not the first leads back, ...
LEMMA ChainBack ==
    ASSUME NEW t \in Tokens, NEW next \in 0..Last, Chain(t), t.current # 0,
           next # 0 => LastOf(t.previous) < next
    PROVE  Chain(Back(t, next))
<1> DEFINE b == Back(t, next)
           n == Len(t.previous)
<1>1. /\ n \in Nat /\ n >= 1 /\ t.previous[1] = 0 /\ Walked(t)[2] = 0
      /\ \A i \in 2..n : Walked(t)[i] < Walked(t)[i + 1]
  BY WalkedFacts DEF Chain
<1>2. /\ \A i \in 1..n : Walked(t)[i] = t.previous[i]
      /\ Walked(t)[n + 1] = t.current
  BY WalkedFacts
<1>3. t.previous # <<>> /\ LastOf(t.previous) = t.previous[n]
  BY <1>1 DEF LastOf
<1>4. /\ b \in Tokens /\ b.current = t.previous[n] /\ b.next = next
      /\ Len(b.previous) = n - 1
      /\ \A i \in 1..n - 1 : b.previous[i] = t.previous[i]
  BY <1>3, BackFacts
<1> HIDE DEF b, n
<1>5. n >= 2
  <2>1. n # 1
    BY <1>1, <1>2
  <2> QED BY <1>1, <2>1
<1>6. \A i \in 1..n - 1 : Walked(b)[i] = b.previous[i]
  BY <1>4, WalkedFacts
<1>7. Walked(b)[n - 1 + 1] = t.previous[n]
  BY <1>4, WalkedFacts
<1>8. ASSUME NEW i \in 1..n PROVE Walked(b)[i] = Walked(t)[i]
  <2>1. CASE i = n
    BY <1>1, <1>2, <1>7, <2>1
  <2>2. CASE i \in 1..n - 1
    BY <1>1, <1>2, <1>4, <1>6, <2>2
  <2> QED BY <1>1, <2>1, <2>2
<1>9. Walked(b)[2] = 0 /\ b.previous[1] = 0
  BY <1>1, <1>4, <1>5, <1>8
<1>a. ASSUME NEW i \in 2..n - 1 PROVE Walked(b)[i] < Walked(b)[i + 1]
  <2>1. i \in 2..n /\ i \in 1..n /\ i + 1 \in 1..n
    BY <1>1
  <2> QED BY <1>1, <1>8, <2>1
<1>b. next # 0 => b.current < b.next
  BY <1>3, <1>4
<1> QED BY <1>4, <1>5, <1>1, <1>9, <1>a, <1>b DEF Chain, b

\* ... and the first page has none before it.
LEMMA ChainFirst ==
    ASSUME NEW next \in 0..Last
    PROVE  LET t == [previous |-> <<0>>, current |-> 0, next |-> next] IN
           Chain(t) /\ t.current = 0 /\ t.next = next
<1> DEFINE t == [previous |-> <<0>>, current |-> 0, next |-> next]
<1>1. /\ t.previous = <<0>> /\ t.current = 0 /\ t.next = next
  OBVIOUS
<1>2. Len(t.previous) = 1 /\ t.previous[1] = 0 /\ Walked(t)[2] = 0
  <2>1. Len(t.previous) = 1 /\ t.previous[1] = 0 /\ t \in Tokens
    BY KeyAssumption DEF Tokens
  <2> HIDE DEF t
  <2>2. Walked(t)[1 + 1] = t.current
    BY <2>1, WalkedFacts
  <2> QED BY <1>1, <2>1, <2>2
<1>3. next # 0 => 0 < next
  OBVIOUS
<1> HIDE DEF t
<1>4. Chain(t)
  BY <1>1, <1>2, <1>3 DEF Chain
<1> QED BY <1>1, <1>4 DEF t

\* The tokens that the answer to a call leaves are those of its page.
LEMMA Answered ==
    ASSUME ListOK, NEW f \in Flight, f \in flights, Answers, f.served, Asked(f)
    PROVE  LET t == NewTokens(tokens[f.list], f.kind, f.page.next) IN
           /\ Chain(t) /\ f.page.query = view.query
           /\ f.page.after = t.current /\ f.page.next = t.next
<1> DEFINE t == tokens[f.list]
<1>1. /\ t \in Tokens /\ f.page.next \in 0..Last /\ f.kind \in Kinds
      /\ f.page.query = f.query /\ f.page.after = f.after /\ f.query = view.query
      /\ f.page.next # 0 => f.after < f.page.next
  BY DEF ListOK, Flight, Pages, Answers, Served, Asked
<1>2. CASE f.kind = "refresh"
  BY <1>1, <1>2, ChainFirst DEF NewTokens, Asked
<1>3. CASE f.kind = "next"
  <2>1. Chain(t) /\ f.after = t.next /\ t.next # 0
    BY <1>3 DEF Asked, Matched
  <2>2. NewTokens(t, f.kind, f.page.next) = Forward(t, f.page.next)
    BY <1>3 DEF NewTokens
  <2> QED BY <1>1, <2>1, <2>2, ChainForward, ForwardFacts
<1>4. CASE f.kind = "previous"
  <2>1. Chain(t) /\ f.after = LastOf(t.previous) /\ t.current # 0
    BY <1>4 DEF Asked, Matched
  <2>2. NewTokens(t, f.kind, f.page.next) = Back(t, f.page.next)
    BY <1>4 DEF NewTokens
  <2> QED BY <1>1, <2>1, <2>2, ChainBack, BackFacts
<1> QED BY <1>1, <1>2, <1>3, <1>4 DEF Kinds

-----------------------------------------------------------------------------
(* Calls.                                                                  *)

LEMMA CallFacts ==
    ASSUME NEW l \in Lists, NEW q \in Queries, NEW kind \in Kinds, NEW after \in 0..Last
    PROVE  LET c == Call(l, q, kind, after) IN
           /\ c \in Flight /\ c.list = l /\ c.kind = kind /\ c.query = q /\ c.after = after
           /\ c.age = 0 /\ c.page.rows = {} /\ ~c.served
<1> DEFINE p == NoPage
<1>1. p \in Pages /\ p.rows = {}
  BY NoPageFacts
<1>2. Call(l, q, kind, after) = [list |-> l, kind |-> kind, query |-> q, after |-> after,
                                 age |-> 0, page |-> p, served |-> FALSE]
  BY DEF Call
<1> HIDE DEF p
<1> QED BY <1>1, <1>2 DEF Flight

\* A call of its list makes a call older.
Aged(f, l) == [f EXCEPT !.age = IF f.list = l THEN @ + 1 ELSE @]

LEMMA AgedFacts ==
    ASSUME NEW f \in Flight, NEW l \in Lists
    PROVE  /\ Aged(f, l) \in Flight /\ Aged(f, l).list = f.list
           /\ Aged(f, l).age = (IF f.list = l THEN f.age + 1 ELSE f.age)
           /\ f.list # l => Aged(f, l) = f
           /\ Aged(f, l).kind = f.kind /\ Aged(f, l).query = f.query /\ Aged(f, l).after = f.after
           /\ Aged(f, l).page = f.page /\ Aged(f, l).served = f.served
<1>1. f.age \in Nat /\ f = [f EXCEPT !.age = f.age]
  BY DEF Flight
<1>2. f.list # l => Aged(f, l) = f
  BY <1>1 DEF Aged
<1> QED BY <1>1, <1>2 DEF Aged, Flight

\* trigger adds a call, the newest of its list.
LEMMA Triggered ==
    ASSUME flights \subseteq Flight, \A f \in flights : f.age <= requests, requests \in Nat \ {0},
           NEW l \in Lists, NEW q \in Queries, NEW kind \in Kinds, NEW after \in 0..Last,
           Trigger(l, q, kind, after)
    PROVE  \E c \in flights' :
               /\ c.list = l /\ c.kind = kind /\ c.query = q /\ c.after = after
               /\ c.age = 0 /\ ~c.served /\ c.page.rows = {}
               /\ flights' \subseteq Flight /\ \A f \in flights' : f.age <= requests'
               /\ requests' = requests + 1
               /\ \A f \in flights' : f.list = l /\ f.age = 0 => f = c
               /\ \A f \in flights' : f.list # l => f \in flights
               /\ \A f \in flights : f.list # l => f \in flights'
               /\ \A f \in flights' \ {c} : \E g \in flights :
                      /\ f.list = g.list /\ f.page = g.page /\ f.served = g.served
                      /\ f.query = g.query /\ f.after = g.after
<1> DEFINE c == Call(l, q, kind, after)
<1>1. /\ c \in Flight /\ c.list = l /\ c.kind = kind /\ c.query = q /\ c.after = after
      /\ c.age = 0 /\ c.page.rows = {} /\ ~c.served
  BY CallFacts
<1>2. flights' = {Aged(f, l) : f \in flights} \cup {c} /\ requests' = requests + 1
  BY DEF Trigger, Aged
<1> HIDE DEF c
<1>3. \A f \in flights : f \in Flight /\ f.age \in Nat /\ f.age <= requests
  BY DEF Flight
<1>4. ASSUME NEW h \in flights', h # c
      PROVE  \E f \in flights : h = Aged(f, l)
  BY <1>2, <1>4
<1>5. ASSUME NEW h \in flights', h # c
      PROVE  /\ h \in Flight /\ h.age <= requests' /\ (h.list = l => h.age # 0)
             /\ h.list # l => h \in flights
             /\ \E g \in flights : /\ h.list = g.list /\ h.page = g.page /\ h.served = g.served
                                   /\ h.query = g.query /\ h.after = g.after
  <2>1. PICK f \in flights : h = Aged(f, l)
    BY <1>4, <1>5
  <2>2. f \in Flight /\ f.age \in Nat /\ f.age <= requests
    BY <1>3
  <2>3. /\ h \in Flight /\ h.list = f.list
        /\ h.age = (IF f.list = l THEN f.age + 1 ELSE f.age)
        /\ f.list # l => h = f
        /\ h.kind = f.kind /\ h.query = f.query /\ h.after = f.after
        /\ h.page = f.page /\ h.served = f.served
    BY <2>1, <2>2, AgedFacts
  <2>4. h.age <= requests' /\ (h.list = l => h.age # 0)
    BY <1>2, <2>2, <2>3
  <2> QED BY <2>3, <2>4
<1>6. c \in flights' /\ 0 <= requests'
  BY <1>2
<1>7. ASSUME NEW f \in flights, f.list # l PROVE f \in flights'
  BY <1>2, <1>3, <1>7, AgedFacts
<1>8. flights' \subseteq Flight /\ \A f \in flights' : f.age <= requests'
  BY <1>1, <1>5, <1>6
<1>9. /\ \A f \in flights' : f.list = l /\ f.age = 0 => f = c
      /\ \A f \in flights' : f.list # l => f \in flights
      /\ \A f \in flights' \ {c} : \E g \in flights :
             /\ f.list = g.list /\ f.page = g.page /\ f.served = g.served
             /\ f.query = g.query /\ f.after = g.after
  BY <1>1, <1>5
<1> QED BY <1>1, <1>2, <1>6, <1>7, <1>8, <1>9

\* Answered, a call has its page.
Filled(f) == [f EXCEPT !.served = TRUE, !.page = Page(f.list, f.query, f.after)]

LEMMA FilledFacts ==
    ASSUME bucket \subseteq Entry, NEW f \in Flight
    PROVE  /\ Filled(f) \in Flight /\ Filled(f).served
           /\ Filled(f).list = f.list /\ Filled(f).kind = f.kind /\ Filled(f).query = f.query
           /\ Filled(f).after = f.after /\ Filled(f).age = f.age
           /\ Filled(f).page.query = f.query /\ Filled(f).page.after = f.after
           /\ Filled(f).page.rows \subseteq Rows(f.list, Key) /\ Served(Filled(f).page)
<1> DEFINE p == Page(f.list, f.query, f.after)
<1>1. /\ p \in Pages /\ p.query = f.query /\ p.after = f.after
      /\ p.rows \subseteq Rows(f.list, Key) /\ Served(p)
  BY PageFacts DEF Flight
<1>2. Filled(f) = [f EXCEPT !.served = TRUE, !.page = p]
  BY DEF Filled
<1> HIDE DEF p
<1>3. Filled(f) \in Flight
  BY <1>1, <1>2 DEF Flight
<1>4. /\ Filled(f).served /\ Filled(f).page = p
      /\ Filled(f).list = f.list /\ Filled(f).kind = f.kind /\ Filled(f).query = f.query
      /\ Filled(f).after = f.after /\ Filled(f).age = f.age
  BY <1>2 DEF Flight
<1> QED BY <1>1, <1>3, <1>4

-----------------------------------------------------------------------------
(* Steps of the list keep its invariant.                                   *)

BucketOK == bucket \subseteq Entry /\ unused \subseteq Entry \ bucket

\* A call, in a step that leaves the bucket alone: what is newly due is in none
\* of its lists, and a call that meets no other asks for what the tokens say.
LEMMA CallKeeps ==
    ASSUME LInv, BucketOK,
           NEW l \in Lists, NEW q \in Queries, NEW kind \in Kinds, NEW after \in 0..Last,
           Trigger(l, q, kind, after), UNCHANGED <<bucket, unused, data, failed>>, ListOK',
           op' # "none" => ops' > 0,
           requests + 1 + (IF op' = "none" THEN 0 ELSE 1) <= MaxRequests + ops',
           \A m \in Lists : due'[m] \cap (unused \cup Rows(m, Key)) = {},
           \A m \in Lists \ {l} : due'[m] = due[m],
           view' = view \/ view'.list = l, view'.list = l => view'.query = q,
           ~crossed'[view'.list] =>
               /\ view'.list = l /\ ~Pending(l) /\ view'.query = q
               /\ kind = "refresh" => after = 0
               /\ kind = "next" => /\ Matched(l)' /\ ~failed[l]
                                   /\ after = tokens'[l].next /\ tokens'[l].next # 0
               /\ kind = "previous" => /\ Matched(l)' /\ ~failed[l]
                                       /\ after = LastOf(tokens'[l].previous)
                                       /\ tokens'[l].current # 0
    PROVE  LInv'
<1>1. /\ flights \subseteq Flight /\ \A f \in flights : f.age <= requests
      /\ requests \in Nat \ {0}
  BY DEF LInv, Bounded
<1>2. PICK c \in flights' :
               /\ c.list = l /\ c.kind = kind /\ c.query = q /\ c.after = after
               /\ c.age = 0 /\ ~c.served /\ c.page.rows = {}
               /\ flights' \subseteq Flight /\ \A f \in flights' : f.age <= requests'
               /\ requests' = requests + 1
               /\ \A f \in flights' : f.list = l /\ f.age = 0 => f = c
               /\ \A f \in flights' : f.list # l => f \in flights
               /\ \A f \in flights : f.list # l => f \in flights'
               /\ \A f \in flights' \ {c} : \E g \in flights :
                      /\ f.list = g.list /\ f.page = g.page /\ f.served = g.served
                      /\ f.query = g.query /\ f.after = g.after
  BY <1>1, Triggered
<1>3. Bounded'
  BY <1>1, <1>2 DEF Bounded
<1>4. NeverPut'
  <2>1. \A m \in Lists : unused' \cap (data'[m].rows \cup due'[m]) = {}
    BY DEF LInv, NeverPut
  <2>2. ASSUME NEW f \in flights' PROVE unused' \cap f.page.rows = {}
    <3>1. CASE f = c
      BY <1>2, <3>1
    <3>2. CASE f # c
      <4>1. PICK g \in flights : f.page = g.page
        BY <1>2, <3>2
      <4> QED BY <4>1 DEF LInv, NeverPut
    <3> QED BY <3>1, <3>2
  <2> QED BY <2>1, <2>2 DEF NeverPut
<1>5. Vanished'
  <2> SUFFICES ASSUME NEW m \in Lists
               PROVE  /\ due'[m] \cap Rows(m, Key)' = {}
                      /\ \A f \in flights' : f.list = m /\ f.age = 0 /\ f.served =>
                             f.page.rows \cap due'[m] = {}
                      /\ ~Mutating(m)' /\ ~failed'[m] => data'[m].rows \cap due'[m] = {}
    BY DEF Vanished
  <2>1. Rows(m, Key)' = Rows(m, Key)
    BY DEF Rows
  <2>2. CASE m = l
    <3>1. Mutating(m)'
      BY <1>2, <2>2 DEF Mutating
    <3> QED BY <1>2, <2>1, <2>2, <3>1
  <2>3. CASE m # l
    <3>1. Mutating(m)' <=> Mutating(m)
      BY <1>2, <2>3 DEF Mutating
    <3>2. \A f \in flights' : f.list = m => f \in flights
      BY <1>2, <2>3
    <3> QED BY <2>1, <2>3, <3>1, <3>2 DEF LInv, Vanished
  <2> QED BY <2>2, <2>3
<1>6. Lone'
  <2>1. CASE crossed'[view'.list]
    BY <2>1 DEF Lone
  <2>2. CASE ~crossed'[view'.list]
    <3>1. view'.list = l /\ ~Pending(l) /\ view'.query = q
      BY <2>2
    <3>2. ASSUME NEW f \in flights', f.list = l PROVE f = c
      BY <1>2, <3>1, <3>2 DEF Pending
    <3>3. Pending(l)'
      BY <1>2 DEF Pending
    <3>4. Asked(c)'
      BY <1>2, <2>2, <3>1 DEF Asked, Matched
    <3>5. \A f \in flights' : f.list = l => Asked(f)'
      BY <3>2, <3>4
    <3> QED BY <3>1, <3>2, <3>3, <3>5 DEF Lone, Pending
  <2> QED BY <2>1, <2>2
<1>7. Answers'
  <2> SUFFICES ASSUME NEW f \in flights', f.served
               PROVE  f.page.query = f.query /\ f.page.after = f.after /\ Served(f.page)
    BY DEF Answers
  <2>1. f # c
    BY <1>2
  <2>2. PICK g \in flights : /\ f.page = g.page /\ f.served = g.served
                             /\ f.query = g.query /\ f.after = g.after
    BY <1>2, <2>1
  <2> QED BY <2>2 DEF LInv, Answers
<1>8. Current'
  <2>1. CASE view'.list = l
    <3>1. Mutating(l)'
      BY <1>2 DEF Mutating
    <3> QED BY <1>2, <2>1, <3>1 DEF Current, LoadedWOError
  <2>2. CASE view' = view /\ view.list # l
    <3>1. \A f \in flights' : f.list = view.list => f \in flights
      BY <1>2, <2>2
    <3>2. Mutating(view.list)' <=> Mutating(view.list)
      BY <1>2, <2>2 DEF Mutating
    <3> QED BY <2>2, <3>1, <3>2 DEF LInv, Current, LoadedWOError
  <2> QED BY <2>1, <2>2
<1> QED BY <1>3, <1>4, <1>5, <1>6, <1>7, <1>8 DEF LInv

\* Room for a call before the bound, and a view to ask for.
LEMMA AskFacts ==
    ASSUME IInv
    PROVE  /\ BucketOK /\ view.list \in Lists /\ view.query \in Queries /\ opener \in Openers
           /\ \A l \in Lists : tokens[l] \in Tokens /\ tokens[l].next \in 0..Last
                               /\ LastOf(tokens[l].previous) \in 0..Last
           /\ \A l \in Lists : due[l] \cap (unused \cup Rows(l, Key)) = {}
           /\ op # "none" => ops > 0
           /\ CanAsk => requests + 1 + (IF op = "none" THEN 0 ELSE 1) <= MaxRequests + ops
<1>1. BucketOK
  BY DEF IInv, CInv, CTypeOK, BucketOK
<1>2. view.list \in Lists /\ view.query \in Queries /\ opener \in Openers
  BY DEF IInv, LInv, ListOK
<1>3. ASSUME NEW l \in Lists
      PROVE  /\ tokens[l] \in Tokens /\ tokens[l].next \in 0..Last
             /\ LastOf(tokens[l].previous) \in 0..Last
  <2>1. tokens[l] \in Tokens
    BY DEF IInv, LInv, ListOK
  <2> QED BY <2>1, WalkedFacts, LastOfFacts
<1>4. \A l \in Lists : due[l] \cap (unused \cup Rows(l, Key)) = {}
  BY DEF IInv, LInv, NeverPut, Vanished
<1>5. op # "none" => ops > 0
  BY DEF IInv, LInv, Bounded
<1>6. ASSUME CanAsk
      PROVE  requests + 1 + (IF op = "none" THEN 0 ELSE 1) <= MaxRequests + ops
  <2>1. requests \in Nat /\ requests < MaxRequests /\ ops \in Nat /\ MaxRequests \in Nat
    BY <1>6, RequestsAssumption DEF CanAsk, IInv, CInv, CTypeOK, LInv, Bounded
  <2> QED BY <1>5, <2>1
<1> QED BY <1>1, <1>2, <1>3, <1>4, <1>5, <1>6

LEMMA NavigateKeeps == ASSUME IInv, Navigate PROVE LInv'
<1>1. PICK l \in Lists, q \in Queries :
          /\ CanAsk /\ view' = [list |-> l, query |-> q] /\ Refresh(l, q)
          /\ crossed' = [crossed EXCEPT ![l] = Pending(l)]
          /\ UNCHANGED <<cvars, data, failed, opener, due>>
  BY DEF Navigate
<1>2. LInv /\ ListOK
  BY DEF IInv, LInv
<1>3. Trigger(l, q, "refresh", 0) /\ tokens' = [tokens EXCEPT ![Other(l)] = Fresh]
  BY <1>1 DEF Refresh
<1>4. ListOK'
  <2>1. tokens' \in [Lists -> Tokens]
    BY <1>2, <1>3, FreshFacts DEF ListOK
  <2>2. crossed' \in [Lists -> BOOLEAN]
    BY <1>1, <1>2 DEF ListOK, Pending
  <2>3. view' \in [list : Lists, query : Queries]
    BY <1>1
  <2> QED BY <1>1, <1>2, <2>1, <2>2, <2>3 DEF ListOK
<1>5. view'.list = l /\ view'.query = q /\ (~crossed'[l] => ~Pending(l))
  BY <1>1, <1>2 DEF ListOK
<1>6. UNCHANGED <<bucket, unused, op, ops, data, failed, due>>
  BY <1>1 DEF cvars, cleanup
<1> DEFINE kind == "refresh"
           after == 0
<1>7. kind \in Kinds /\ after \in 0..Last /\ kind = "refresh" /\ after = 0
  BY KeyAssumption DEF Kinds
<1>8. Trigger(l, q, kind, after)
  BY <1>3
<1> HIDE DEF kind, after
<1> QED BY <1>1, <1>2, <1>4, <1>5, <1>6, <1>7, <1>8, AskFacts, CallKeeps

LEMMA TurnKeeps == ASSUME IInv, OnNext \/ OnPrevious PROVE LInv'
<1>0. PICK l \in Lists, q \in Queries : view.list = l /\ view.query = q
  BY AskFacts
<1>1. LInv /\ ListOK
  BY DEF IInv, LInv
<1>2. PICK kind \in {"next", "previous"}, after \in 0..Last :
          /\ Trigger(l, q, kind, after) /\ CanAsk /\ LoadedWOError
          /\ kind = "next" => after = tokens[l].next /\ tokens[l].next # 0
          /\ kind = "previous" => after = LastOf(tokens[l].previous) /\ tokens[l].current # 0
          /\ crossed' = [crossed EXCEPT ![l] = @ \/ Pending(l)]
          /\ UNCHANGED <<cvars, view, tokens, data, failed, opener, due>>
  <2>1. CASE OnNext
    BY <1>0, <1>1, <2>1, AskFacts DEF OnNext
  <2>2. CASE OnPrevious
    BY <1>0, <1>1, <2>2, AskFacts DEF OnPrevious
  <2> QED BY <2>1, <2>2
<1>3. kind \in Kinds
  BY DEF Kinds
<1>4. UNCHANGED <<bucket, unused, op, ops, data, failed, due, view, tokens>>
  BY <1>2 DEF cvars, cleanup
<1>5. ListOK'
  <2>1. crossed' \in [Lists -> BOOLEAN]
    BY <1>1, <1>2 DEF ListOK, Pending
  <2> QED BY <1>1, <1>2, <2>1 DEF ListOK
<1>6. ASSUME ~crossed'[l] PROVE ~crossed[l] /\ ~Pending(l) /\ ~failed[l] /\ Matched(l)
  <2>1. ~crossed[l] /\ ~Pending(l)
    BY <1>1, <1>2, <1>6 DEF ListOK
  <2>2. ~failed[l]
    BY <1>0, <1>2 DEF LoadedWOError
  <2> QED BY <1>0, <1>1, <2>1, <2>2 DEF LInv, Lone
<1>7. Matched(l)' <=> Matched(l)
  BY <1>4 DEF Matched
<1>8. view' = view /\ view'.list = l /\ view'.query = q
  BY <1>0, <1>4
<1>9. /\ BucketOK
      /\ op' # "none" => ops' > 0
      /\ requests + 1 + (IF op' = "none" THEN 0 ELSE 1) <= MaxRequests + ops'
  BY <1>2, <1>4, AskFacts
<1>a. /\ \A m \in Lists : due'[m] \cap (unused \cup Rows(m, Key)) = {}
      /\ \A m \in Lists \ {l} : due'[m] = due[m]
  BY <1>4, AskFacts
<1>b. ~crossed'[view'.list] =>
               /\ view'.list = l /\ ~Pending(l) /\ view'.query = q
               /\ kind = "refresh" => after = 0
               /\ kind = "next" => /\ Matched(l)' /\ ~failed[l]
                                   /\ after = tokens'[l].next /\ tokens'[l].next # 0
               /\ kind = "previous" => /\ Matched(l)' /\ ~failed[l]
                                       /\ after = LastOf(tokens'[l].previous)
                                       /\ tokens'[l].current # 0
  BY <1>2, <1>4, <1>6, <1>7, <1>8
<1> QED BY <1>1, <1>2, <1>3, <1>4, <1>5, <1>8, <1>9, <1>a, <1>b, CallKeeps

\* The answer shows the bucket of its moment, where nothing that is due is left.
LEMMA ServeKeeps == ASSUME IInv, NEW f \in flights, Serve(f) PROVE LInv'
<1> DEFINE g == Filled(f)
<1>1. LInv /\ ListOK /\ BucketOK /\ f \in Flight
  BY AskFacts DEF IInv, LInv, Bounded
<1>2. /\ flights' = (flights \ {f}) \cup {g}
      /\ UNCHANGED <<cvars, view, tokens, data, failed, requests, opener, crossed, due>>
  BY DEF Serve, Filled
<1>3. /\ g \in Flight /\ g.served /\ g.list = f.list /\ g.kind = f.kind /\ g.query = f.query
      /\ g.after = f.after /\ g.age = f.age /\ g.page.query = f.query /\ g.page.after = f.after
      /\ g.page.rows \subseteq Rows(f.list, Key) /\ Served(g.page)
  BY <1>1, FilledFacts DEF BucketOK
<1>4. UNCHANGED <<bucket, unused, op, ops>>
  BY <1>2 DEF cvars, cleanup
<1> HIDE DEF g
<1>5. f.list \in Lists /\ Rows(f.list, Key) \subseteq bucket
  BY <1>1, RowFacts DEF Flight, BucketOK
<1>6. ListOK'
  BY <1>1, <1>2 DEF ListOK
<1>7. Bounded'
  BY <1>1, <1>2, <1>3, <1>4 DEF LInv, Bounded
<1>8. NeverPut'
  <2>1. unused \cap g.page.rows = {}
    BY <1>1, <1>3, <1>5 DEF BucketOK
  <2> QED BY <1>1, <1>2, <1>4, <2>1 DEF LInv, NeverPut
<1>9. Vanished'
  <2> SUFFICES ASSUME NEW m \in Lists
               PROVE  /\ due[m] \cap Rows(m, Key) = {}
                      /\ \A h \in flights' : h.list = m /\ h.age = 0 /\ h.served =>
                             h.page.rows \cap due[m] = {}
                      /\ ~Mutating(m)' /\ ~failed[m] => data[m].rows \cap due[m] = {}
    BY <1>2, <1>4 DEF Vanished, Rows
  <2>1. due[m] \cap Rows(m, Key) = {}
    BY <1>1 DEF LInv, Vanished
  <2>2. Mutating(m)' <=> Mutating(m)
    BY <1>2, <1>3 DEF Mutating
  <2>3. \A h \in flights' : h.list = m /\ h.age = 0 /\ h.served => h.page.rows \cap due[m] = {}
    BY <1>1, <1>2, <1>3, <2>1 DEF LInv, Vanished
  <2> QED BY <1>1, <2>1, <2>2, <2>3 DEF LInv, Vanished
<1>a. Lone'
  <2>0. PICK l \in Lists : view.list = l
    BY AskFacts
  <2>1. CASE crossed[l]
    BY <1>2, <2>0, <2>1 DEF Lone
  <2>2. CASE ~crossed[l]
    <3>1. /\ \A h, i \in flights : h.list = l /\ i.list = l => h = i
          /\ \A h \in flights : h.list = l => Asked(h)
          /\ ~Pending(l) /\ ~failed[l] => Matched(l)
      BY <1>1, <2>0, <2>2 DEF LInv, Lone
    <3>2. Matched(l)' <=> Matched(l)
      BY <1>2 DEF Matched
    <3>3. \A h, i \in flights' : h.list = l /\ i.list = l => h = i
      BY <1>2, <1>3, <3>1
    <3>4. ASSUME NEW h \in flights', h.list = l PROVE Asked(h)'
      <4>1. PICK i \in flights : /\ h.list = i.list /\ h.age = i.age /\ h.query = i.query
                                 /\ h.kind = i.kind /\ h.after = i.after
        BY <1>2, <1>3
      <4>2. Asked(i)
        BY <3>1, <3>4, <4>1
      <4> QED BY <1>2, <4>1, <4>2 DEF Asked, Matched
    <3>5. Pending(l)' <=> Pending(l)
      BY <1>2, <1>3 DEF Pending
    <3> QED BY <1>2, <2>0, <3>1, <3>2, <3>3, <3>4, <3>5 DEF Lone, Pending
  <2> QED BY <2>1, <2>2
<1>b. Answers'
  BY <1>1, <1>2, <1>3 DEF LInv, Answers
<1>c. Current'
  <2>1. \A m \in Lists : Mutating(m)' <=> Mutating(m)
    BY <1>2, <1>3 DEF Mutating
  <2>2. view.list \in Lists
    BY AskFacts
  <2>3. LoadedWOError' <=> LoadedWOError
    BY <1>2, <2>1, <2>2 DEF LoadedWOError
  <2>4. \A h \in flights' : h.list = view.list /\ h.age = 0 => h.query = view.query
    BY <1>1, <1>2, <1>3 DEF LInv, Current
  <2> QED BY <1>1, <1>2, <2>3, <2>4 DEF LInv, Current
<1> QED BY <1>6, <1>7, <1>8, <1>9, <1>a, <1>b, <1>c DEF LInv

\* The answer that a list waits for puts its page and its tokens there; any other
\* changes no data.
LEMMA DeliverKeeps == ASSUME IInv, NEW f \in flights, Deliver(f) PROVE LInv'
<1>1. LInv /\ ListOK /\ BucketOK /\ f \in Flight
  BY AskFacts DEF IInv, LInv, Bounded
<1>2. /\ f.served /\ flights' = flights \ {f}
      /\ data' = IF f.age = 0 THEN [data EXCEPT ![f.list] = f.page] ELSE data
      /\ failed' = IF f.age = 0 THEN [failed EXCEPT ![f.list] = FALSE] ELSE failed
      /\ tokens' = [tokens EXCEPT ![f.list] = NewTokens(@, f.kind, f.page.next)]
      /\ UNCHANGED <<cvars, view, requests, opener, crossed, due>>
  BY DEF Deliver, Shows
<1>3. f.list \in Lists /\ f.page \in Pages /\ f.kind \in Kinds /\ f.page.next \in 0..Last
  BY <1>1 DEF Flight, Pages
<1>4. UNCHANGED <<bucket, unused, op, ops>>
  BY <1>2 DEF cvars, cleanup
<1> DEFINE t == NewTokens(tokens[f.list], f.kind, f.page.next)
<1>5. t \in Tokens /\ tokens' = [tokens EXCEPT ![f.list] = t]
  BY <1>1, <1>2, <1>3, TokenTypes DEF ListOK
<1>6. ListOK'
  <2> HIDE DEF t
  <2>1. data' \in [Lists -> Pages] /\ tokens' \in [Lists -> Tokens]
    BY <1>1, <1>2, <1>3, <1>5 DEF ListOK
  <2>2. failed' \in [Lists -> BOOLEAN]
    BY <1>1, <1>2 DEF ListOK
  <2> QED BY <1>1, <1>2, <2>1, <2>2 DEF ListOK
<1>7. Bounded'
  BY <1>1, <1>2, <1>4 DEF LInv, Bounded
<1>8. \A m \in Lists : /\ data'[m] = IF f.age = 0 /\ m = f.list THEN f.page ELSE data[m]
                       /\ tokens'[m] = IF m = f.list THEN t ELSE tokens[m]
  <2> HIDE DEF t
  <2> QED BY <1>1, <1>2, <1>5 DEF ListOK
<1>9. NeverPut'
  <2>1. unused \cap f.page.rows = {}
    BY <1>1 DEF LInv, NeverPut
  <2>2. \A m \in Lists : unused \cap (data[m].rows \cup due[m]) = {}
    BY <1>1 DEF LInv, NeverPut
  <2>3. \A m \in Lists : unused' \cap (data'[m].rows \cup due'[m]) = {}
    BY <1>2, <1>4, <1>8, <2>1, <2>2
  <2>4. \A h \in flights' : unused' \cap h.page.rows = {}
    BY <1>1, <1>2, <1>4 DEF LInv, NeverPut
  <2> QED BY <2>3, <2>4 DEF NeverPut
<1>a. Vanished'
  <2> SUFFICES ASSUME NEW m \in Lists
               PROVE  /\ due[m] \cap Rows(m, Key) = {}
                      /\ \A h \in flights' : h.list = m /\ h.age = 0 /\ h.served =>
                             h.page.rows \cap due[m] = {}
                      /\ ~Mutating(m)' /\ ~failed'[m] => data'[m].rows \cap due[m] = {}
    BY <1>2, <1>4 DEF Vanished, Rows
  <2>1. /\ due[m] \cap Rows(m, Key) = {}
        /\ \A h \in flights : h.list = m /\ h.age = 0 /\ h.served => h.page.rows \cap due[m] = {}
        /\ ~Mutating(m) /\ ~failed[m] => data[m].rows \cap due[m] = {}
    BY <1>1 DEF LInv, Vanished
  <2>2. CASE f.age = 0 /\ m = f.list
    BY <1>2, <1>8, <2>1, <2>2
  <2>3. CASE ~(f.age = 0 /\ m = f.list)
    <3>1. Mutating(m)' <=> Mutating(m)
      BY <1>2, <2>3 DEF Mutating
    <3>2. data'[m] = data[m] /\ (failed'[m] <=> failed[m])
      BY <1>1, <1>2, <1>8, <2>3 DEF ListOK
    <3> QED BY <1>2, <2>1, <3>1, <3>2
  <2> QED BY <2>2, <2>3
<1>b. Lone'
  <2>0. PICK l \in Lists : view.list = l
    BY AskFacts
  <2>1. CASE crossed[l]
    BY <1>2, <2>0, <2>1 DEF Lone
  <2>2. CASE ~crossed[l]
    <3>1. /\ \A h, i \in flights : h.list = l /\ i.list = l => h = i
          /\ \A h \in flights : h.list = l => Asked(h)
          /\ ~Pending(l) /\ ~failed[l] => Matched(l)
      BY <1>1, <2>0, <2>2 DEF LInv, Lone
    <3>2. CASE f.list = l
      <4>1. \A h \in flights' : h.list # l
        BY <1>2, <3>1, <3>2
      <4>2. Asked(f) /\ f.age = 0
        BY <3>1, <3>2 DEF Asked
      <4>3. Chain(t) /\ f.page.query = view.query /\ f.page.after = t.current /\ f.page.next = t.next
        BY <1>1, <1>2, <4>2, Answered DEF LInv
      <4>4. tokens'[l] = t /\ data'[l] = f.page
        BY <1>8, <3>2, <4>2
      <4>5. Matched(l)'
        <5> HIDE DEF t
        <5> QED BY <1>2, <4>3, <4>4 DEF Matched
      <4> QED BY <1>2, <2>0, <4>1, <4>5 DEF Lone
    <3>3. CASE f.list # l
      <4>1. tokens'[l] = tokens[l] /\ data'[l] = data[l] /\ view' = view
        BY <1>2, <1>8, <3>3
      <4>2. failed'[l] <=> failed[l]
        BY <1>1, <1>2, <3>3 DEF ListOK
      <4>3. Matched(l)' <=> Matched(l)
        BY <4>1 DEF Matched
      <4>4. ASSUME NEW h \in flights', h.list = l PROVE Asked(h)'
        <5>1. Asked(h)
          BY <1>2, <3>1, <4>4
        <5> QED BY <4>1, <4>2, <4>3, <4>4, <5>1 DEF Asked, Matched
      <4>5. Pending(l)' <=> Pending(l)
        BY <1>2, <3>3 DEF Pending
      <4>6. \A h, i \in flights' : h.list = l /\ i.list = l => h = i
        BY <1>2, <3>1
      <4> QED BY <1>2, <2>0, <3>1, <4>2, <4>3, <4>4, <4>5, <4>6 DEF Lone, Pending
    <3> QED BY <3>2, <3>3
  <2> QED BY <2>1, <2>2
<1>c. Answers'
  BY <1>1, <1>2 DEF LInv, Answers
<1>d. Current'
  <2>0. PICK l \in Lists : view.list = l
    BY AskFacts
  <2>1. \A h \in flights' : h.list = l /\ h.age = 0 => h.query = view.query
    BY <1>1, <1>2, <2>0 DEF LInv, Current
  <2>2. CASE f.age = 0 /\ f.list = l
    <3>1. data'[l] = f.page /\ f.page.query = f.query /\ f.query = view.query
      BY <1>1, <1>2, <1>8, <2>0, <2>2 DEF LInv, Answers, Current
    <3> QED BY <1>2, <2>0, <2>1, <3>1 DEF Current
  <2>3. CASE ~(f.age = 0 /\ f.list = l)
    <3>1. Mutating(l)' <=> Mutating(l)
      BY <1>2, <2>3 DEF Mutating
    <3>2. data'[l] = data[l] /\ (failed'[l] <=> failed[l])
      BY <1>1, <1>2, <1>8, <2>3 DEF ListOK
    <3> QED BY <1>1, <1>2, <2>0, <2>1, <3>1, <3>2 DEF LInv, Current, LoadedWOError
  <2> QED BY <2>2, <2>3
<1> QED BY <1>6, <1>7, <1>9, <1>a, <1>b, <1>c, <1>d DEF LInv

\* A rejected call leaves its list failed, if the list waits for it; of another
\* list, or of a call that was overtaken, nothing is said.
LEMMA FailKeeps == ASSUME IInv, NEW f \in flights, FailList(f) PROVE IInv'
<1>1. LInv /\ ListOK /\ BucketOK /\ f \in Flight
  BY AskFacts DEF IInv, LInv, Bounded
<1>2. /\ flights' = flights \ {f} /\ faults < MaxFaults /\ faults' = faults + 1
      /\ UNCHANGED <<bucket, unused, exists, cleanup, history, ops,
                     view, data, requests, opener, crossed, due>>
      /\ f.age = 0 => failed' = [failed EXCEPT ![f.list] = TRUE] /\ tokens' = tokens
      /\ f.age # 0 => /\ failed' = failed
                      /\ \/ tokens' = tokens
                         \/ tokens' = [tokens EXCEPT ![f.list] = NewTokens(@, f.kind, 0)]
  BY DEF FailList, Shows
<1>3. CInv'
  <2>1. faults' \in 0..MaxFaults
    BY <1>2, BoundsAssumption DEF IInv, CInv, CTypeOK
  <2> QED BY <1>2, <2>1, CFrame DEF IInv
<1>4. f.list \in Lists /\ f.kind \in Kinds /\ 0 \in 0..Last
  BY <1>1, KeyAssumption DEF Flight
<1>5. tokens' \in [Lists -> Tokens] /\ \A m \in Lists \ {f.list} : tokens'[m] = tokens[m]
  <2> DEFINE t == NewTokens(tokens[f.list], f.kind, 0)
  <2>1. t \in Tokens
    BY <1>1, <1>4, TokenTypes DEF ListOK
  <2>2. tokens' = tokens \/ tokens' = [tokens EXCEPT ![f.list] = t]
    BY <1>2
  <2> HIDE DEF t
  <2> QED BY <1>1, <2>1, <2>2 DEF ListOK
<1>6. ListOK'
  <2>1. failed' \in [Lists -> BOOLEAN]
    BY <1>1, <1>2 DEF ListOK
  <2> QED BY <1>1, <1>2, <1>5, <2>1 DEF ListOK
<1>7. Bounded'
  BY <1>1, <1>2 DEF LInv, Bounded, cleanup
<1>8. NeverPut'
  BY <1>1, <1>2 DEF LInv, NeverPut
<1>9. Vanished'
  <2> SUFFICES ASSUME NEW m \in Lists
               PROVE  /\ due[m] \cap Rows(m, Key) = {}
                      /\ \A h \in flights' : h.list = m /\ h.age = 0 /\ h.served =>
                             h.page.rows \cap due[m] = {}
                      /\ ~Mutating(m)' /\ ~failed'[m] => data[m].rows \cap due[m] = {}
    BY <1>2 DEF Vanished, Rows
  <2>1. /\ due[m] \cap Rows(m, Key) = {}
        /\ \A h \in flights : h.list = m /\ h.age = 0 /\ h.served => h.page.rows \cap due[m] = {}
        /\ ~Mutating(m) /\ ~failed[m] => data[m].rows \cap due[m] = {}
    BY <1>1 DEF LInv, Vanished
  <2>2. CASE f.age = 0 /\ m = f.list
    <3>1. failed'[m]
      BY <1>1, <1>2, <2>2 DEF ListOK
    <3> QED BY <1>2, <2>1, <3>1
  <2>3. CASE ~(f.age = 0 /\ m = f.list)
    <3>1. Mutating(m)' <=> Mutating(m)
      BY <1>2, <2>3 DEF Mutating
    <3>2. failed'[m] <=> failed[m]
      BY <1>1, <1>2, <2>3 DEF ListOK
    <3> QED BY <1>2, <2>1, <3>1, <3>2
  <2> QED BY <2>2, <2>3
<1>a. Lone'
  <2>0. PICK l \in Lists : view.list = l
    BY AskFacts
  <2>1. CASE crossed[l]
    BY <1>2, <2>0, <2>1 DEF Lone
  <2>2. CASE ~crossed[l]
    <3>1. /\ \A h, i \in flights : h.list = l /\ i.list = l => h = i
          /\ \A h \in flights : h.list = l => Asked(h)
          /\ ~Pending(l) /\ ~failed[l] => Matched(l)
      BY <1>1, <2>0, <2>2 DEF LInv, Lone
    <3>2. CASE f.list = l
      <4>1. \A h \in flights' : h.list # l
        BY <1>2, <3>1, <3>2
      <4>2. f.age = 0
        BY <3>1, <3>2 DEF Asked
      <4>3. failed'[l]
        BY <1>1, <1>2, <3>2, <4>2 DEF ListOK
      <4> QED BY <1>2, <2>0, <4>1, <4>3 DEF Lone
    <3>3. CASE f.list # l
      <4>1. tokens'[l] = tokens[l] /\ data'[l] = data[l] /\ view' = view
        BY <1>2, <1>5, <3>3
      <4>2. failed'[l] <=> failed[l]
        BY <1>1, <1>2, <3>3 DEF ListOK
      <4>3. Matched(l)' <=> Matched(l)
        BY <4>1 DEF Matched
      <4>4. ASSUME NEW h \in flights', h.list = l PROVE Asked(h)'
        <5>1. Asked(h)
          BY <1>2, <3>1, <4>4
        <5> QED BY <4>1, <4>2, <4>3, <4>4, <5>1 DEF Asked, Matched
      <4>5. Pending(l)' <=> Pending(l)
        BY <1>2, <3>3 DEF Pending
      <4>6. \A h, i \in flights' : h.list = l /\ i.list = l => h = i
        BY <1>2, <3>1
      <4> QED BY <1>2, <2>0, <3>1, <4>2, <4>3, <4>4, <4>5, <4>6 DEF Lone, Pending
    <3> QED BY <3>2, <3>3
  <2> QED BY <2>1, <2>2
<1>b. Answers'
  BY <1>1, <1>2 DEF LInv, Answers
<1>c. Current'
  <2>0. PICK l \in Lists : view.list = l
    BY AskFacts
  <2>1. \A h \in flights' : h.list = l /\ h.age = 0 => h.query = view.query
    BY <1>1, <1>2, <2>0 DEF LInv, Current
  <2>2. CASE f.age = 0 /\ f.list = l
    <3>1. failed'[l]
      BY <1>1, <1>2, <2>2 DEF ListOK
    <3> QED BY <1>2, <2>0, <2>1, <3>1 DEF Current, LoadedWOError
  <2>3. CASE ~(f.age = 0 /\ f.list = l)
    <3>1. Mutating(l)' <=> Mutating(l)
      BY <1>2, <2>3 DEF Mutating
    <3>2. failed'[l] <=> failed[l]
      BY <1>1, <1>2, <2>3 DEF ListOK
    <3> QED BY <1>1, <1>2, <2>0, <2>1, <3>1, <3>2 DEF LInv, Current, LoadedWOError
  <2> QED BY <2>2, <2>3
<1> QED BY <1>3, <1>6, <1>7, <1>8, <1>9, <1>a, <1>b, <1>c DEF IInv, LInv

-----------------------------------------------------------------------------
(* Steps of the modals, of the service's other clients and of the bucket.  *)

\* A step that leaves the list alone, takes nothing out of the versions that were
\* never put but to put it, and lets nothing back that is still due.
LEMMA ListFrame ==
    ASSUME LInv, UNCHANGED list, opener' \in Openers, unused' \subseteq unused,
           due' \in [Lists -> SUBSET Entry], \A m \in Lists : due'[m] \subseteq due[m],
           \A m \in Lists : due'[m] \cap Rows(m, Key)' = {},
           op' # "none" => ops' > 0,
           requests + (IF op' = "none" THEN 0 ELSE 1) <= MaxRequests + ops'
    PROVE  LInv'
<1>1. UNCHANGED <<view, tokens, data, failed, flights, requests, crossed>>
  BY DEF list
<1>2. ListOK' /\ Bounded' /\ Answers'
  BY <1>1 DEF LInv, ListOK, Bounded, Answers
<1>3. NeverPut'
  <2>1. \A m \in Lists : unused' \cap (data'[m].rows \cup due'[m]) = {}
    BY <1>1 DEF LInv, NeverPut
  <2>2. \A f \in flights' : unused' \cap f.page.rows = {}
    BY <1>1 DEF LInv, NeverPut
  <2> QED BY <2>1, <2>2 DEF NeverPut
<1>4. Vanished'
  <2>1. \A m \in Lists : Mutating(m)' <=> Mutating(m)
    BY <1>1 DEF Mutating
  <2> QED BY <1>1, <2>1 DEF LInv, Vanished
<1>5. Lone'
  BY <1>1 DEF LInv, Lone, Asked, Matched, Pending
<1>6. Current'
  BY <1>1 DEF LInv, Current, LoadedWOError, Mutating
<1> QED BY <1>2, <1>3, <1>4, <1>5, <1>6 DEF LInv

LEMMA BoundFacts ==
    ASSUME IInv
    PROVE  /\ op # "none" => ops > 0
           /\ requests \in Nat /\ ops \in Nat
           /\ requests + (IF op = "none" THEN 0 ELSE 1) <= MaxRequests + ops
           /\ due \in [Lists -> SUBSET Entry] /\ opener \in Openers
           /\ \A m \in Lists : due[m] \cap Rows(m, Key) = {}
BY DEF IInv, CInv, CTypeOK, LInv, ListOK, Bounded, Vanished

LEMMA BeginKeeps ==
    ASSUME IInv, UNCHANGED list, opener' \in Openers, due' = due, NEW o \in Ops, NEW rows, Begin(o, rows)
    PROVE  LInv'
<1>1. op = "none" /\ op' # "none" /\ ops' = ops + 1 /\ UNCHANGED <<bucket, unused>>
  BY DEF Begin, Ops
<1>2. \A m \in Lists : Rows(m, Key)' = Rows(m, Key)
  BY <1>1 DEF Rows
<1>3. requests + (IF op' = "none" THEN 0 ELSE 1) <= MaxRequests + ops' /\ ops' > 0
  BY <1>1, BoundFacts, RequestsAssumption
<1> QED BY <1>1, <1>2, <1>3, BoundFacts, ListFrame DEF IInv

LEMMA OpenKeeps == ASSUME IInv, OpenDelete \/ OpenEmpty PROVE IInv'
<1>1. CASE OpenEmpty
  <2>1. ClickEmpty /\ UNCHANGED list /\ opener' \in Openers /\ due' = due
    BY <1>1, BoundFacts DEF OpenEmpty
  <2>2. CInv'
    BY <2>1, ClickEmptyKeeps DEF IInv
  <2>3. Begin("empty", Entry) /\ "empty" \in Ops
    BY <2>1 DEF ClickEmpty, Ops
  <2> QED BY <2>1, <2>2, <2>3, BeginKeeps DEF IInv
<1>2. CASE OpenDelete
  <2>1. UNCHANGED list /\ opener' \in Openers /\ due' = due
    BY <1>2, AskFacts DEF OpenDelete, Openers
  <2>2. ShownRows \subseteq Entry /\ ShownRows \cap unused = {}
    <3>1. \A l \in Lists : data[l].rows \subseteq Entry /\ data[l].rows \cap unused = {}
      BY DEF IInv, LInv, ListOK, Pages, NeverPut
    <3> QED BY <3>1, AskFacts DEF ShownRows
  <2>3. CASE \E rows \in {{e} : e \in ShownRows} \cup {ShownRows} : ClickRows(rows, view.list = "versions")
    <3>1. PICK rows \in {{e} : e \in ShownRows} \cup {ShownRows} : ClickRows(rows, view.list = "versions")
      BY <2>3
    <3>2. rows \in SUBSET Entry /\ rows \cap unused = {} /\ (view.list = "versions") \in BOOLEAN
      BY <2>2
    <3> DEFINE o == IF view.list = "versions" THEN "rows" ELSE "hide"
    <3>3. Begin(o, rows) /\ o \in Ops
      BY <3>1 DEF ClickRows, Ops
    <3>4. CInv'
      BY <3>1, <3>2, ClickRowsKeeps DEF IInv
    <3> HIDE DEF o
    <3> QED BY <2>1, <3>3, <3>4, BeginKeeps DEF IInv
  <2>4. CASE \E e \in ShownRows : ClickPermanent(KeyAt[e])
    <3>1. PICK e \in ShownRows : ClickPermanent(KeyAt[e])
      BY <2>4
    <3>2. KeyAt[e] \in Key
      BY <2>2, KeyAssumption
    <3>3. CInv'
      BY <3>1, <3>2, ClickPermanentKeeps DEF IInv
    <3>4. Begin("permanent", OfKeys({KeyAt[e]})) /\ "permanent" \in Ops
      BY <3>1 DEF ClickPermanent, Ops
    <3> QED BY <2>1, <3>3, <3>4, BeginKeeps DEF IInv
  <2> QED BY <1>2, <2>3, <2>4 DEF OpenDelete
<1> QED BY <1>1, <1>2

LEMMA LoopKeeps == ASSUME IInv, Loop PROVE IInv'
<1>1. UNCHANGED list /\ opener' = opener /\ due' = [l \in Lists |-> due[l] \ Rows(l, Key)']
  BY DEF Loop
<1>2. CInv'
  BY ListKeeps, DeletePageKeeps, RejectedKeeps DEF IInv, Loop, LoopStep
<1>3. UNCHANGED <<unused, op, ops>>
  BY DEF Loop, LoopStep, List, DeletePage, Rejected
<1>4. /\ due' \in [Lists -> SUBSET Entry] /\ \A m \in Lists : due'[m] \subseteq due[m]
      /\ \A m \in Lists : due'[m] \cap Rows(m, Key)' = {}
  BY <1>1, BoundFacts
<1> QED BY <1>1, <1>2, <1>3, <1>4, BoundFacts, ListFrame DEF IInv

LEMMA ForeignKeeps == ASSUME IInv, Foreign PROVE IInv'
<1>1. PICK e \in unused : bucket' = bucket \cup {e} /\ unused' = unused \ {e}
  BY DEF Foreign, Put
<1>2. UNCHANGED <<list, opener, due, op, ops>>
  BY DEF Foreign, Put, cleanup
<1>3. CInv'
  BY PutKeeps DEF IInv, Foreign
<1>4. ASSUME NEW m \in Lists PROVE due'[m] \cap Rows(m, Key)' = {}
  <2>1. Rows(m, Key)' \subseteq Rows(m, Key) \cup {e}
    BY <1>1 DEF Rows
  <2>2. due[m] \cap (unused \cup Rows(m, Key)) = {}
    BY AskFacts
  <2> QED BY <1>1, <1>2, <2>1, <2>2
<1> QED BY <1>1, <1>2, <1>3, <1>4, BoundFacts, ListFrame DEF IInv

LEMMA RemoveBucketKeeps == ASSUME IInv, RemoveBucket PROVE IInv'
<1>1. UNCHANGED <<list, opener, due, bucket, unused, op, ops>>
  BY DEF RemoveBucket, DeleteBucket, cleanup
<1>2. CInv'
  BY DeleteBucketKeeps DEF IInv, RemoveBucket
<1>3. \A m \in Lists : Rows(m, Key)' = Rows(m, Key)
  BY <1>1 DEF Rows
<1> QED BY <1>1, <1>2, <1>3, BoundFacts, ListFrame DEF IInv

LEMMA FinishFailKeeps == ASSUME IInv, FinishFail PROVE IInv'
<1>1. UNCHANGED <<list, due, bucket, unused, ops>> /\ op' = "none" /\ opener' = "objects"
  BY DEF FinishFail, FailDelete, Reset
<1>2. CInv'
  BY EndsKeep DEF IInv, FinishFail
<1>3. \A m \in Lists : Rows(m, Key)' = Rows(m, Key)
  BY <1>1 DEF Rows
<1>4. requests + (IF op' = "none" THEN 0 ELSE 1) <= MaxRequests + ops'
  BY <1>1, BoundFacts, RequestsAssumption
<1>5. opener' \in Openers
  BY <1>1 DEF Openers, Lists
<1> QED BY <1>1, <1>2, <1>3, <1>4, <1>5, BoundFacts, ListFrame DEF IInv

\* What an operation takes off a list was on it, and is not.
LEMMA TakenFacts ==
    ASSUME IInv, op # "none", pc \notin {"list", "idle"}, NEW l \in Lists
    PROVE  TakenOff(l) \subseteq Entry /\ TakenOff(l) \cap (unused \cup Rows(l, Key)) = {}
<1>1. /\ CTypeOK /\ Aimed /\ bucket \subseteq Entry
      /\ unused \cap gone = {} /\ unused \cap atClick = {} /\ unused \cap page = {}
      /\ target \subseteq Entry /\ gone \subseteq Entry /\ atClick \subseteq Entry
  BY DEF IInv, CInv, CTypeOK, Aimed
<1>2. CASE op = "hide"
  <2>1. page = target
    BY <1>1, <1>2 DEF Aimed
  <2> QED BY <1>1, <1>2, <2>1 DEF TakenOff
<1>3. CASE op # "hide"
  <2>1. TakenOff(l) = (gone \cup atClick) \ bucket
    BY <1>3 DEF TakenOff
  <2>2. Rows(l, Key) \subseteq bucket
    BY <1>1, RowFacts
  <2> QED BY <1>1, <2>1, <2>2
<1> QED BY <1>2, <1>3

\* The list that the modal was opened from is still mounted.
LEMMA RefreshedKeeps ==
    ASSUME IInv, EndDelete, RefreshAfter, opener' = "objects", NEW l \in Lists, opener = l,
           due' = [due EXCEPT ![l] = @ \cup TakenOff(l)]
    PROVE  LInv'
<1>2. /\ op # "none" /\ pc = "end" /\ op' = "none"
      /\ UNCHANGED <<bucket, unused, ops, view, data, failed>>
  BY DEF EndDelete, Reset, RefreshAfter, Ops
<1>3. PICK q \in Queries : view.query = q
  BY AskFacts
<1> DEFINE taken == TakenOff(l)
           kind == "refresh"
           after == 0
<1>4. /\ Trigger(l, q, kind, after) /\ tokens' = [tokens EXCEPT ![Other(l)] = Fresh]
      /\ crossed' = [crossed EXCEPT ![l] = Pending(l), ![Other(l)] = TRUE]
      /\ due' = [due EXCEPT ![l] = @ \cup taken]
  BY <1>3 DEF RefreshAfter, Refresh
<1>5. taken \subseteq Entry /\ taken \cap (unused \cup Rows(l, Key)) = {}
  BY <1>2, TakenFacts
<1> HIDE DEF taken
<1>6. LInv /\ ListOK /\ BucketOK /\ Other(l) \in Lists /\ Other(l) # l
  BY AskFacts, ListFacts DEF IInv, LInv
<1>7. ListOK'
  <2>1. tokens' \in [Lists -> Tokens]
    BY <1>4, <1>6, FreshFacts DEF ListOK
  <2>2. crossed' \in [Lists -> BOOLEAN]
    BY <1>4, <1>6 DEF ListOK, Pending
  <2>3. due' \in [Lists -> SUBSET Entry] /\ opener' \in Openers
    BY <1>4, <1>5, <1>6, ListFacts DEF ListOK, Openers
  <2> QED BY <1>2, <1>6, <2>1, <2>2, <2>3 DEF ListOK
<1>8. /\ \A m \in Lists : due'[m] \cap (unused \cup Rows(m, Key)) = {}
      /\ \A m \in Lists \ {l} : due'[m] = due[m]
  BY <1>4, <1>5, <1>6, AskFacts DEF ListOK
<1>9. /\ op' # "none" => ops' > 0
      /\ requests + 1 + (IF op' = "none" THEN 0 ELSE 1) <= MaxRequests + ops'
  BY <1>2, BoundFacts, RequestsAssumption
<1>a. kind \in Kinds /\ after \in 0..Last /\ kind = "refresh" /\ after = 0
  BY KeyAssumption DEF Kinds
<1>b. ASSUME ~crossed'[view'.list] PROVE view'.list = l /\ ~Pending(l) /\ view'.query = q
  <2>1. view'.list = l \/ view'.list = Other(l)
    BY <1>2, AskFacts, ListFacts
  <2>2. crossed'[Other(l)]
    BY <1>4, <1>6 DEF ListOK
  <2>3. crossed'[l] <=> Pending(l)
    BY <1>4, <1>6 DEF ListOK
  <2> QED BY <1>2, <1>3, <1>b, <2>1, <2>2, <2>3
<1>c. view' = view /\ view'.query = q
  BY <1>2, <1>3
<1> HIDE DEF kind, after
<1> QED BY <1>2, <1>4, <1>6, <1>7, <1>8, <1>9, <1>a, <1>b, <1>c, CallKeeps

LEMMA FinishDeleteKeeps == ASSUME IInv, FinishDelete PROVE IInv'
<1>1. CInv'
  BY EndsKeep DEF IInv, FinishDelete
<1>2. /\ op' = "none" /\ opener' = "objects" /\ opener' \in Openers
      /\ UNCHANGED <<bucket, unused, ops>>
  BY DEF FinishDelete, EndDelete, Reset, Openers, Lists
<1>3. CASE opener \in Lists /\ RefreshAfter /\ due' = [due EXCEPT ![opener] = @ \cup TakenOff(opener)]
  <2>1. PICK l \in Lists : opener = l
    BY <1>3
  <2> QED BY <1>1, <1>3, <2>1, RefreshedKeeps DEF IInv, FinishDelete
<1>4. CASE UNCHANGED <<list, due>>
  <2>1. \A m \in Lists : Rows(m, Key)' = Rows(m, Key)
    BY <1>2 DEF Rows
  <2>2. requests + (IF op' = "none" THEN 0 ELSE 1) <= MaxRequests + ops'
    BY <1>2, BoundFacts, RequestsAssumption
  <2> QED BY <1>1, <1>2, <1>4, <2>1, <2>2, BoundFacts, ListFrame DEF IInv
<1> QED BY <1>3, <1>4 DEF FinishDelete

\* A list that is mounted anew has one call on its way and shows nothing.
LEMMA MountKeeps ==
    ASSUME LInv, NEW q \in Queries, Mount(q), UNCHANGED <<bucket, unused>>, opener' \in Openers,
           op' # "none" => ops' > 0,
           requests + 1 + (IF op' = "none" THEN 0 ELSE 1) <= MaxRequests + ops',
           due' \in [Lists -> SUBSET Entry],
           \A m \in Lists : due'[m] \cap (unused \cup Rows(m, Key)) = {}
    PROVE  LInv'
<1> DEFINE l == "objects"
           c == Call(l, q, "refresh", 0)
<1>1. l \in Lists /\ requests \in Nat \ {0}
  BY ListFacts DEF LInv, Bounded
<1>2. /\ requests' = requests + 1 /\ flights' = {c} /\ view' = [list |-> l, query |-> q]
      /\ tokens' = [m \in Lists |-> Fresh] /\ data' = [m \in Lists |-> NoPage]
      /\ failed' = [m \in Lists |-> FALSE] /\ crossed' = [m \in Lists |-> FALSE]
  BY DEF Mount
<1>3. /\ c \in Flight /\ c.list = l /\ c.kind = "refresh" /\ c.query = q /\ c.after = 0
      /\ c.age = 0 /\ c.page.rows = {} /\ ~c.served
  BY <1>1, CallFacts, KeyAssumption DEF Kinds
<1> HIDE DEF c, l
<1>4. ListOK'
  <2>1. tokens' \in [Lists -> Tokens] /\ data' \in [Lists -> Pages]
    BY <1>2, FreshFacts, NoPageFacts
  <2>2. view' \in [list : Lists, query : Queries]
    BY <1>1, <1>2
  <2> QED BY <1>2, <2>1, <2>2 DEF ListOK
<1>5. Bounded'
  BY <1>1, <1>2, <1>3 DEF Bounded
<1>6. \A m \in Lists : data'[m].rows = {}
  BY <1>2, NoPageFacts
<1>7. NeverPut'
  BY <1>2, <1>3, <1>6 DEF NeverPut
<1>8. Vanished'
  <2>1. \A m \in Lists : Rows(m, Key)' = Rows(m, Key)
    BY DEF Rows
  <2> QED BY <1>2, <1>3, <1>6, <2>1 DEF Vanished
<1>9. view'.list = l /\ view'.query = q /\ Pending(l)' /\ Mutating(l)'
  BY <1>2, <1>3 DEF Pending, Mutating
<1>a. Lone'
  <2>1. Asked(c)'
    BY <1>3, <1>9 DEF Asked
  <2> QED BY <1>2, <1>9, <2>1 DEF Lone, Pending
<1>b. Current'
  BY <1>2, <1>3, <1>9 DEF Current, LoadedWOError
<1>c. Answers'
  BY <1>2, <1>3 DEF Answers
<1> QED BY <1>4, <1>5, <1>7, <1>8, <1>a, <1>b, <1>c DEF LInv

LEMMA RemountKeeps == ASSUME IInv, Remount PROVE LInv'
<1>1. PICK q \in Queries : Mount(q)
  BY DEF Remount
<1>2. LInv /\ CanAsk /\ UNCHANGED <<bucket, unused, op, ops, due>> /\ opener' \in {opener, "gone"}
  BY DEF Remount, cvars, cleanup, IInv
<1>3. /\ due' \in [Lists -> SUBSET Entry] /\ opener' \in Openers
      /\ \A m \in Lists : due'[m] \cap (unused \cup Rows(m, Key)) = {}
      /\ op' # "none" => ops' > 0
      /\ requests + 1 + (IF op' = "none" THEN 0 ELSE 1) <= MaxRequests + ops'
  BY <1>2, AskFacts, BoundFacts DEF Openers
<1> QED BY <1>1, <1>2, <1>3, MountKeeps

LEMMA FinishEmptyKeeps == ASSUME IInv, FinishEmpty PROVE IInv'
<1>1. CInv'
  BY EndsKeep DEF IInv, FinishEmpty
<1>2. PICK q \in Queries : view.query = q
  BY AskFacts
<1>3. /\ op = "empty" /\ pc \in {"end", "catch"} /\ op' = "none" /\ Mount(q)
      /\ UNCHANGED <<bucket, unused, ops, opener>>
      /\ due' = [m \in Lists |-> due[m] \cup TakenOff(m)]
  BY <1>2 DEF FinishEmpty, EndEmpty, Reset
<1>4. \A m \in Lists : /\ TakenOff(m) \subseteq Entry
                       /\ TakenOff(m) \cap (unused \cup Rows(m, Key)) = {}
  BY <1>3, TakenFacts
<1>5. /\ due' \in [Lists -> SUBSET Entry] /\ opener' \in Openers
      /\ \A m \in Lists : due'[m] \cap (unused \cup Rows(m, Key)) = {}
  BY <1>3, <1>4, AskFacts, BoundFacts
<1>6. /\ op' # "none" => ops' > 0
      /\ requests + 1 + (IF op' = "none" THEN 0 ELSE 1) <= MaxRequests + ops'
  BY <1>3, BoundFacts, RequestsAssumption
<1> QED BY <1>1, <1>3, <1>5, <1>6, MountKeeps DEF IInv

-----------------------------------------------------------------------------
(* The theorems.                                                           *)

LEMMA InitIInv == Init => IInv
<1> SUFFICES ASSUME Init PROVE IInv
  OBVIOUS
<1>1. CInv
  BY InitCInv DEF Init
<1> DEFINE l == "objects"
           q == Home
           c == Call(l, q, "refresh", 0)
<1>2. /\ view = [list |-> l, query |-> q] /\ flights = {c} /\ requests = 1 /\ opener = "objects"
      /\ tokens = [m \in Lists |-> Fresh] /\ data = [m \in Lists |-> NoPage]
      /\ failed = [m \in Lists |-> FALSE] /\ crossed = [m \in Lists |-> FALSE]
      /\ due = [m \in Lists |-> {}] /\ op = "none" /\ ops = 0
  BY DEF Init, CInit, ListInit
<1>3. l \in Lists /\ q \in Queries /\ "refresh" \in Kinds /\ 0 \in 0..Last
  BY ListFacts, QueryAssumption, KeyAssumption DEF Kinds
<1>4. /\ c \in Flight /\ c.list = l /\ c.kind = "refresh" /\ c.query = q /\ c.after = 0
      /\ c.age = 0 /\ c.page.rows = {} /\ ~c.served
  BY <1>3, CallFacts
<1> HIDE DEF c, q, l
<1>5. ListOK
  <2>1. tokens \in [Lists -> Tokens] /\ data \in [Lists -> Pages]
    BY <1>2, FreshFacts, NoPageFacts
  <2>2. view \in [list : Lists, query : Queries]
    BY <1>2, <1>3
  <2> QED BY <1>2, <2>1, <2>2, ListFacts DEF ListOK, Openers
<1>6. Bounded
  BY <1>2, <1>4, RequestsAssumption DEF Bounded
<1>7. \A m \in Lists : data[m].rows = {} /\ due[m] = {}
  BY <1>2, NoPageFacts
<1>8. NeverPut /\ Vanished /\ Answers
  BY <1>2, <1>4, <1>7 DEF NeverPut, Vanished, Answers
<1>9. Lone
  <2>1. view.list = l /\ view.query = q
    BY <1>2
  <2>2. Asked(c)
    BY <1>4, <2>1 DEF Asked
  <2>3. Pending(l)
    BY <1>2, <1>4 DEF Pending
  <2> QED BY <1>2, <2>1, <2>2, <2>3 DEF Lone
<1>a. Current
  BY <1>2, <1>4 DEF Current, LoadedWOError, Mutating
<1> QED BY <1>1, <1>5, <1>6, <1>8, <1>9, <1>a DEF IInv, LInv

LEMMA StepIInv == IInv /\ [Next]_vars => IInv'
<1> SUFFICES ASSUME IInv, [Next]_vars PROVE IInv'
  OBVIOUS
<1>1. ASSUME UNCHANGED cvars PROVE CInv'
  <2>1. faults' \in 0..MaxFaults
    BY <1>1 DEF cvars, IInv, CInv, CTypeOK
  <2> QED BY <1>1, <2>1, CFrame DEF cvars, IInv
<1>2. CASE Navigate
  BY <1>1, <1>2, NavigateKeeps DEF Navigate, IInv
<1>b. CASE Remount
  BY <1>1, <1>b, RemountKeeps DEF Remount, IInv
<1>3. CASE OnNext \/ OnPrevious
  BY <1>1, <1>3, TurnKeeps DEF OnNext, OnPrevious, IInv
<1>4. CASE OpenDelete \/ OpenEmpty
  BY <1>4, OpenKeeps
<1>5. ASSUME NEW f \in flights, Serve(f) PROVE IInv'
  BY <1>1, <1>5, ServeKeeps DEF Serve, IInv
<1>6. ASSUME NEW f \in flights, Deliver(f) PROVE IInv'
  BY <1>1, <1>6, DeliverKeeps DEF Deliver, IInv
<1>7. ASSUME NEW f \in flights, FailList(f) PROVE IInv'
  BY <1>7, FailKeeps
<1>8. CASE Work
  BY <1>8, LoopKeeps, FinishDeleteKeeps, FinishEmptyKeeps, FinishFailKeeps DEF Work
<1>9. CASE Foreign \/ RemoveBucket
  BY <1>9, ForeignKeeps, RemoveBucketKeeps
<1>a. CASE UNCHANGED vars
  <2>1. UNCHANGED <<cvars, list, opener, due>>
    BY <1>a DEF vars
  <2>2. UNCHANGED <<bucket, unused, op, ops>>
    BY <2>1 DEF cvars, cleanup
  <2>3. \A m \in Lists : Rows(m, Key)' = Rows(m, Key)
    BY <2>2 DEF Rows
  <2> QED BY <1>1, <2>1, <2>2, <2>3, BoundFacts, ListFrame DEF IInv
<1> QED BY <1>2, <1>3, <1>4, <1>5, <1>6, <1>7, <1>8, <1>9, <1>a, <1>b DEF Next, Answer

THEOREM Inductive == Spec => []IInv
BY InitIInv, StepIInv, PTL DEF Spec

\* Every variable stays in its set, the tokens and pages among them
\* (useObjectsList, pagination-helper.ts).
THEOREM TypeCorrect == Spec => []TypeOK
BY Inductive, TypesHold, PTL

\* The rows that the list shows are of the query it is at, in whatever order the
\* calls of it were answered.  Data and tokens are of the same page, and the tokens
\* lead back to the first one, however many calls were made or failed, unless calls
\* of the list overlap or the modal's refreshTokens was of the other list
\* (continuationTokensSetter, continuationTokensRefresher).
THEOREM OnePage == Spec => []TokensMatchPage
<1>1. IInv => TokensMatchPage
  <2> SUFFICES ASSUME IInv PROVE TokensMatchPage
    OBVIOUS
  <2>1. PICK l \in Lists : view.list = l
    BY AskFacts
  <2>2. ASSUME ~Pending(l), ~failed[l], ~crossed[l] PROVE Matched(l)
    BY <2>1, <2>2 DEF IInv, LInv, Lone
  <2>3. LoadedWOError => data[l].query = view.query
    BY <2>1 DEF IInv, LInv, Current
  <2> QED BY <2>1, <2>2, <2>3 DEF TokensMatchPage, Matched, Chain
<1> QED BY <1>1, Inductive, PTL

\* A row that a finished deletion took off the list that its modal was opened from
\* is not in what the list shows, in whatever order its calls were answered, if that
\* list stayed mounted until the deletion was over (refreshTokens after
\* DeleteObjectsModal and EmptyBucketModal).
THEOREM Disappear == Spec => []DeletedRowsDisappear
<1>1. IInv => DeletedRowsDisappear
  <2> SUFFICES ASSUME IInv PROVE DeletedRowsDisappear
    OBVIOUS
  <2>1. PICK l \in Lists : view.list = l
    BY AskFacts
  <2> QED BY <2>1 DEF DeletedRowsDisappear, LoadedWOError, IInv, LInv, Vanished
<1> QED BY <1>1, Inductive, PTL

\* What a step may take out of the bucket.
LEMMA OnlyTarget ==
    ASSUME IInv, Next, op \in {"permanent", "rows"}
    PROVE  bucket \ bucket' \subseteq target
<1>1. CTypeOK /\ Aimed /\ page \subseteq target
  BY DEF IInv, CInv, CTypeOK
<1>2. CASE Loop
  <2>1. CASE List
    BY <2>1 DEF List
  <2>2. CASE DeletePage
    <3>1. PICK kept \in SUBSET page : bucket' = AfterDelete(page \ kept)
      BY <2>2 DEF DeletePage
    <3> QED BY <1>1, <3>1 DEF AfterDelete
  <2>3. CASE Rejected
    BY <1>1, <2>3 DEF Rejected, AfterDelete
  <2> QED BY <1>2, <2>1, <2>2, <2>3 DEF Loop, LoopStep
<1>3. CASE Foreign
  BY <1>3 DEF Foreign, Put
<1>4. CASE FinishDelete \/ FinishEmpty \/ FinishFail \/ RemoveBucket
  BY <1>4 DEF FinishDelete, FinishEmpty, FinishFail, EndDelete, EndEmpty, FailDelete,
              RemoveBucket, DeleteBucket
<1>5. CASE Navigate \/ Remount \/ OnNext \/ OnPrevious \/ Answer \/ \E f \in flights : FailList(f)
  BY <1>5 DEF Navigate, Remount, OnNext, OnPrevious, Answer, Serve, Deliver, FailList, cvars
<1>6. CASE OpenDelete \/ OpenEmpty
  BY <1>6 DEF OpenDelete, OpenEmpty, ClickRows, ClickPermanent, ClickEmpty, Begin
<1> QED BY <1>2, <1>3, <1>4, <1>5, <1>6 DEF Next, Work

\* An operation is over only where its modal says so.
LEMMA OnlyEnds ==
    ASSUME IInv, Next, op # "none", op' = "none", ~refused
    PROVE  (EndDelete \/ EndEmpty) /\ pc = "end"
<1>1. CTypeOK
  BY DEF IInv, CInv
<1>2. CASE Loop
  BY <1>2 DEF Loop, LoopStep, List, DeletePage, Rejected
<1>3. CASE Foreign \/ RemoveBucket
  BY <1>3 DEF Foreign, Put, RemoveBucket, DeleteBucket, cleanup
<1>4. CASE FinishDelete \/ FinishEmpty
  <2>1. pc # "catch"
    BY <1>1 DEF CTypeOK
  <2> QED BY <1>4, <2>1 DEF FinishDelete, FinishEmpty, EndDelete, EndEmpty
<1>5. CASE FinishFail
  BY <1>1, <1>5 DEF FinishFail, FailDelete, CTypeOK
<1>6. CASE Navigate \/ Remount \/ OnNext \/ OnPrevious \/ Answer \/ \E f \in flights : FailList(f)
  BY <1>6 DEF Navigate, Remount, OnNext, OnPrevious, Answer, Serve, Deliver, FailList, cvars, cleanup
<1>7. CASE OpenDelete \/ OpenEmpty
  BY <1>7 DEF OpenDelete, OpenEmpty, ClickRows, ClickPermanent, ClickEmpty, Begin
<1> QED BY <1>2, <1>3, <1>4, <1>5, <1>6, <1>7 DEF Next, Work

\* An operation deletes what it is about and nothing else, and says that it did
\* only when nothing of it is left, whatever the size of the pages and whatever
\* other clients put meanwhile (EmptyBucketModal, DeleteObjectsModal).
THEOREM ItsOwn == Spec => DeletesExactlyItsOwn
<1>1. ASSUME IInv, Next, op # "none", op' = "none", ~refused
      PROVE  /\ alert' \in {"success", "deleted"} => atClick \cap bucket = {}
             /\ op # "empty" => atClick \ bucket \subseteq gone /\ gone \cap bucket = {}
  <2>1. (EndDelete \/ EndEmpty) /\ pc = "end"
    BY <1>1, OnlyEnds
  <2>2. op \in Ops /\ answer \in {"undefined", "ok", "errors"} /\ Swept /\ Counted /\ Aimed
        /\ unused \cap gone = {} /\ gone \subseteq target
    BY <1>1 DEF IInv, CInv, CTypeOK, Aimed
  <2>3. CASE op = "empty"
    <3>1. alert' = Emptied
      BY <2>1, <2>3 DEF EndDelete, EndEmpty
    <3> QED BY <1>1, <2>1, <2>2, <2>3, <3>1 DEF Swept, Emptied
  <2>4. CASE op = "permanent"
    <3>1. alert' = IF answer = "errors" THEN "partly" ELSE "deleted"
      BY <2>1, <2>4 DEF EndDelete, EndEmpty
    <3> QED BY <1>1, <2>1, <2>2, <2>4, <3>1 DEF Swept, Counted
  <2>5. CASE op = "rows"
    <3>1. alert' = IF answer = "errors" THEN "partly" ELSE "deleted"
      BY <2>1, <2>5 DEF EndDelete, EndEmpty
    <3> QED BY <1>1, <2>1, <2>2, <2>5, <3>1 DEF Counted
  <2>6. CASE op = "hide"
    BY <2>2, <2>6 DEF Aimed
  <2> QED BY <2>2, <2>3, <2>4, <2>5, <2>6 DEF Ops
<1>2. IInv /\ [Next]_vars =>
          [/\ op \in {"permanent", "rows"} => bucket \ bucket' \subseteq target
           /\ op # "none" /\ op' = "none" /\ ~refused =>
                 /\ alert' \in {"success", "deleted"} => atClick \cap bucket = {}
                 /\ op # "empty" => atClick \ bucket \subseteq gone /\ gone \cap bucket = {}]_cvars
  BY <1>1, OnlyTarget DEF vars
<1> QED BY <1>2, Inductive, PTL DEF Spec, DeletesExactlyItsOwn
=============================================================================

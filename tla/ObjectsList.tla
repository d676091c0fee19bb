------------------------------ MODULE ObjectsList ------------------------------
(***************************************************************************)
(* The list of a bucket's objects, or of all their versions, and its pages *)
(* (packages/odf, useObjectsList and pagination-helper), on top of         *)
(* BucketCleanup, whose operations refresh it.                             *)
(*                                                                         *)
(* Each of the two lists has a useSWRMutation hook, external: trigger may  *)
(* be called again while a call is on its way; only the newest call sets   *)
(* data, error and isMutating, but every caller is given its own answer,   *)
(* from which it then sets the continuation tokens.                        *)
(***************************************************************************)
EXTENDS BucketCleanup, Sequences

CONSTANTS
    Queries,    \* foldersPath and searchQuery: the keys they leave
    Home,       \* the query of the URL at which the page is opened
    ListSize,   \* MAX_KEYS
    MaxFlights, \* bound: calls on their way at which the user waits
    MaxRequests \* bound: calls after which the user turns no page

ASSUME QueryAssumption == Home \in Queries /\ Queries \subseteq SUBSET Key /\ ListSize \in Nat \ {0}
ASSUME RequestsAssumption == MaxRequests \in Nat \ {0} /\ MaxFlights \in Nat

VARIABLES
    view,     \* listAllVersions and the query that the page shows
    tokens,   \* continuation tokens of each list: 0 is '' or null
    data,     \* data of each hook
    failed,   \* error of each hook
    flights,  \* calls on their way; age counts the later ones of the hook
    requests, \* calls so far
    opener,   \* the list from which the delete modal was opened, whose refreshTokens
              \* it has: "gone" once that list is unmounted, "objects" without a modal
    crossed,  \* history: calls of a hook overlapped, or a refreshTokens of the
              \* other list touched its tokens
    due       \* history: rows that a finished deletion has taken off the list that it
              \* refreshes and that have not come back with a later one

list == <<view, tokens, data, failed, flights, requests, crossed>>
vars == <<cvars, list, opener, due>>

Lists == {"objects", "versions"}
Other(l) == IF l = "objects" THEN "versions" ELSE "objects"
Fresh == [previous |-> <<>>, current |-> 0, next |-> 0]

\* The rows of a list: the newest version of each key unless it is a delete
\* marker, or every version and marker.
Rows(l, q) ==
    LET mine == bucket \cap OfKeys(q) IN
    IF l = "versions" THEN mine
    ELSE {e \in mine \ Markers : \A d \in mine : KeyAt[d] = KeyAt[e] => e <= d}

\* The service's answer to a list call that starts after a token.
Page(l, q, after) ==
    LET rest == {e \in Rows(l, q) : e > after}
        found == FirstOf(rest, ListSize) IN
    [query |-> q, after |-> after, rows |-> found,
     next |-> IF found = rest THEN 0 ELSE Max(found)]
NoPage == [query |-> {}, after |-> 0, rows |-> {}, next |-> 0]

Pending(l) == \E f \in flights : f.list = l
\* isMutating
Mutating(l) == \E f \in flights : f.list = l /\ f.age = 0
LoadedWOError == ~Mutating(view.list) /\ ~failed[view.list]

Call(l, q, kind, after) == [list |-> l, kind |-> kind, query |-> q, after |-> after,
                            age |-> 0, page |-> NoPage, served |-> FALSE]

\* trigger.  How the answer changes the tokens is the caller's: kind.
Trigger(l, q, kind, after) ==
    /\ requests' = requests + 1
    /\ flights' = {[f EXCEPT !.age = IF f.list = l THEN @ + 1 ELSE @] : f \in flights}
                \cup {Call(l, q, kind, after)}

\* refreshTokens of the list l, shown or not.
Refresh(l, q) ==
    /\ Trigger(l, q, "refresh", 0)
    /\ tokens' = [tokens EXCEPT ![Other(l)] = Fresh]

ListInit ==
    /\ view = [list |-> "objects", query |-> Home]
    /\ tokens = [l \in Lists |-> Fresh]
    /\ data = [l \in Lists |-> NoPage]
    /\ failed = [l \in Lists |-> FALSE]
    /\ flights = {Call("objects", view.query, "refresh", 0)}
    /\ requests = 1
    /\ opener = "objects"
    /\ crossed = [l \in Lists |-> FALSE]
    /\ due = [l \in Lists |-> {}]
Init == CInit /\ ListInit

-----------------------------------------------------------------------------
(* The page.                                                               *)

\* Once the bucket is deleted the page is left.
CanAsk == exists /\ requests < MaxRequests /\ Cardinality(flights) < MaxFlights

\* The folder, the search or the toggle changes, and the effect refreshes.
Navigate ==
    \E l \in Lists, q \in Queries :
        /\ CanAsk /\ [list |-> l, query |-> q] # view
        /\ view' = [list |-> l, query |-> q]
        /\ Refresh(l, q)
        /\ crossed' = [crossed EXCEPT ![l] = Pending(l)]
        /\ UNCHANGED <<cvars, data, failed, opener, due>>

\* The list is mounted anew, with hooks of its own and listAllVersions false; the
\* calls of the hooks before it reach nobody any more.
Mount(q) ==
    /\ requests' = requests + 1
    /\ view' = [list |-> "objects", query |-> q]
    /\ tokens' = [l \in Lists |-> Fresh] /\ data' = [l \in Lists |-> NoPage]
    /\ failed' = [l \in Lists |-> FALSE] /\ crossed' = [l \in Lists |-> FALSE]
    /\ flights' = {Call("objects", q, "refresh", 0)}

\* The Refresh button, the end of an upload, or another tab and back, which may
\* lead to another query.  A delete modal keeps the refreshTokens that it has.
Remount ==
    /\ CanAsk /\ \E q \in Queries : Mount(q)
    /\ opener' = IF op \in {"none", "empty"} THEN opener ELSE "gone"
    /\ UNCHANGED <<cvars, due>>

OnNext ==
    LET l == view.list IN
    /\ CanAsk /\ tokens[l].next # 0 /\ LoadedWOError
    /\ Trigger(l, view.query, "next", tokens[l].next)
    /\ crossed' = [crossed EXCEPT ![l] = @ \/ Pending(l)]
    /\ UNCHANGED <<cvars, view, tokens, data, failed, opener, due>>

\* previous[previous.length - 1], undefined when there is none.
LastOf(s) == IF s = <<>> THEN 0 ELSE s[Len(s)]

OnPrevious ==
    LET l == view.list IN
    /\ CanAsk /\ tokens[l].current # 0 /\ LoadedWOError
    /\ Trigger(l, view.query, "previous", LastOf(tokens[l].previous))
    /\ crossed' = [crossed EXCEPT ![l] = @ \/ Pending(l)]
    /\ UNCHANGED <<cvars, view, tokens, data, failed, opener, due>>

\* The service answers a call, from the bucket as it is then.
Serve(f) ==
    /\ f \in flights /\ ~f.served
    /\ flights' = (flights \ {f}) \cup
                  {[f EXCEPT !.served = TRUE, !.page = Page(f.list, f.query, f.after)]}
    /\ UNCHANGED <<cvars, view, tokens, data, failed, requests, opener, crossed, due>>

\* Mutant: the page that is left is not remembered.
ForwardM(t, next) == [t EXCEPT !.current = t.next, !.next = next]
Forward(t, next) ==
    [previous |-> Append(t.previous, t.current), current |-> t.next, next |-> next]

\* previous.pop()
Back(t, next) ==
    [previous |-> IF t.previous = <<>> THEN <<>> ELSE SubSeq(t.previous, 1, Len(t.previous) - 1),
     current |-> LastOf(t.previous), next |-> next]

\* continuationTokensSetter and continuationTokensRefresher.
NewTokens(t, kind, next) ==
    CASE kind = "next" -> Forward(t, next)
      [] kind = "previous" -> Back(t, next)
      [] kind = "refresh" -> [previous |-> <<0>>, current |-> 0, next |-> next]

\* Mutant: data are those of the answer that came last.
ShowsM(f) == TRUE
\* Only the newest call sets data.
Shows(f) == f.age = 0

\* The answer reaches the page.
Deliver(f) ==
    /\ f \in flights /\ f.served /\ flights' = flights \ {f}
    /\ data' = IF Shows(f) THEN [data EXCEPT ![f.list] = f.page] ELSE data
    /\ failed' = IF Shows(f) THEN [failed EXCEPT ![f.list] = FALSE] ELSE failed
    /\ tokens' = [tokens EXCEPT ![f.list] = NewTokens(@, f.kind, f.page.next)]
    /\ UNCHANGED <<cvars, view, requests, opener, crossed, due>>

\* The call is rejected.  The newest sets error and leaves the tokens; an older
\* one resolves to undefined, of which the setters make no next page, or throw.
FailList(f) ==
    /\ f \in flights /\ flights' = flights \ {f}
    /\ faults < MaxFaults /\ faults' = faults + 1
    /\ IF Shows(f)
       THEN failed' = [failed EXCEPT ![f.list] = TRUE] /\ UNCHANGED tokens
       ELSE /\ \/ UNCHANGED tokens
               \/ tokens' = [tokens EXCEPT ![f.list] = NewTokens(@, f.kind, 0)]
            /\ UNCHANGED failed
    /\ UNCHANGED <<bucket, unused, exists, cleanup, history, ops,
                   view, data, requests, opener, crossed, due>>

-----------------------------------------------------------------------------
(* The modals.  They stay at work when they are closed, and the page goes  *)
(* on under them.                                                          *)

ShownRows == IF LoadedWOError THEN data[view.list].rows ELSE {}

OpenDelete ==
    /\ ShownRows # {} /\ opener' = view.list
    /\ \/ \E rows \in {{e} : e \in ShownRows} \cup {ShownRows} :
             ClickRows(rows, view.list = "versions")
       \/ /\ view.list = "objects"
          /\ \E e \in ShownRows : ClickPermanent(KeyAt[e])
    /\ UNCHANGED <<list, due>>

OpenEmpty == ClickEmpty /\ UNCHANGED <<list, opener, due>>

\* What the operation has taken off the list l.
TakenOff(l) ==
    IF op = "hide" THEN (IF l = "objects" THEN target \ Rows(l, Key) ELSE {})
    ELSE (gone \cup atClick) \ bucket

\* refreshTokens as it was when the modal was opened: the list of that time, which
\* is still mounted.
RefreshAfter ==
    /\ Refresh(opener, view.query)
    /\ crossed' = [crossed EXCEPT ![opener] = Pending(opener), ![Other(opener)] = TRUE]
    /\ UNCHANGED <<view, data, failed>>

\* The refreshTokens of an unmounted list changes nothing on the page.
FinishDelete ==
    /\ EndDelete /\ opener' = "objects"
    /\ \/ /\ opener \in Lists /\ RefreshAfter
          /\ due' = [due EXCEPT ![opener] = @ \cup TakenOff(opener)]
       \/ opener = "gone" /\ UNCHANGED <<list, due>>

\* refreshTokens of the bucket page: the list is unmounted and mounted again.
FinishEmpty ==
    /\ EndEmpty /\ Mount(view.query)
    /\ due' = [l \in Lists |-> due[l] \cup TakenOff(l)]
    /\ UNCHANGED opener

FinishFail == FailDelete /\ opener' = "objects" /\ UNCHANGED <<list, due>>

\* A rejected or refused call of the loop, a step of it, or another client.  An
\* older version, or a marker put in again, comes back to the lists.
Loop == /\ LoopStep /\ UNCHANGED <<list, opener>>
        /\ due' = [l \in Lists |-> due[l] \ Rows(l, Key)']
Foreign == Put /\ UNCHANGED <<list, opener, due>>
RemoveBucket == DeleteBucket /\ UNCHANGED <<list, opener, due>>

Work == Loop \/ FinishDelete \/ FinishEmpty \/ FinishFail
Answer == \E f \in flights : Serve(f) \/ Deliver(f)
Next ==
    \/ Navigate \/ Remount \/ OnNext \/ OnPrevious \/ OpenDelete \/ OpenEmpty
    \/ Answer \/ (\E f \in flights : FailList(f))
    \/ Work \/ Foreign \/ RemoveBucket

Spec == Init /\ [][Next]_vars

\* The calls of the loop are answered or rejected; nobody has to click.
FairSpec == Spec /\ WF_vars(Work)
-----------------------------------------------------------------------------
(* Properties.                                                             *)

Pages == [query : Queries \cup {{}}, after : 0..Last, rows : SUBSET Entry, next : 0..Last]

\* Every variable stays in its set.
TypeOK ==
    /\ CTypeOK
    /\ view \in [list : Lists, query : Queries]
    /\ tokens \in [Lists -> [previous : Seq(0..Last), current : 0..Last, next : 0..Last]]
    /\ data \in [Lists -> Pages]
    /\ failed \in [Lists -> BOOLEAN] /\ crossed \in [Lists -> BOOLEAN]
    /\ requests \in 1..MaxRequests + MaxOps
    /\ \A f \in flights : f.list \in Lists /\ f.page \in Pages /\ f.age \in 0..requests
    /\ opener \in Lists \cup {"gone"}
    /\ due \in [Lists -> SUBSET Entry]

\* The tokens passed so far: from the first page each leads to the next.
Walked(t) == Append(t.previous, t.current)

\* Rows that the list shows are those of the query it is at, though answers of
\* earlier queries may come after them.  Data and tokens are of the same page: what
\* the list shows begins after the current token, Next leads to the page behind it,
\* the tokens passed lead back to the first page one by one, and their number is
\* that of the page, unless calls of the list overlapped.
TokensMatchPage ==
    LET l == view.list  t == tokens[l]  IN
    /\ LoadedWOError => data[l].query = view.query
    /\ ~Pending(l) /\ ~failed[l] /\ ~crossed[l]
       => /\ data[l].after = t.current /\ data[l].next = t.next
          /\ Len(t.previous) >= 1 /\ t.previous[1] = 0
          /\ \A i \in 2..Len(t.previous) : Walked(t)[i] < Walked(t)[i + 1]

\* A row that a finished deletion took off the list it was opened from is not in
\* it any more once the list has loaded, whatever calls overlapped, if that list
\* stayed mounted until the deletion was over.  A list that was mounted anew
\* meanwhile is not refreshed, and may keep the row.
DeletedRowsDisappear ==
    LoadedWOError => data[view.list].rows \cap due[view.list] = {}
=============================================================================

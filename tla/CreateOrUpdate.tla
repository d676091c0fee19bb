---------------------------- MODULE CreateOrUpdate ----------------------------
(***************************************************************************)
(* createOrUpdate of packages/shared (utils/k8s.ts): read the object, let  *)
(* the caller's mutate change it, write it back with the resourceVersion   *)
(* that was read, create it when it is not there, and try again on a       *)
(* conflict.  Several calls run at a time, in one browser or in several.   *)
(*                                                                         *)
(* The API server is external: a write with another resourceVersion is a   *)
(* 409, a write of a missing object a 404, a create of an existing one a   *)
(* 409; any call may also be refused, or take effect and lose its answer.  *)
(***************************************************************************)
EXTENDS Naturals, FiniteSets

CONSTANTS
    Client,     \* the calls of createOrUpdate
    Replacing,  \* the calls whose mutate returns an object of its own
    Foreign,    \* a change by a controller or another program
    MaxRetries, \* maxRetries
    MaxFaults,  \* bound: refused calls and lost answers
    MaxForeign  \* bound: changes by others

ASSUME ClientAssumption == Replacing \subseteq Client /\ Foreign \notin Client
ASSUME RetriesAssumption == MaxRetries \in Nat \ {0}
ASSUME BoundAssumption == MaxFaults \in Nat /\ MaxForeign \in Nat

VARIABLES
    obj,     \* whose changes the object bears, {} when there is none
    rv,      \* the revision of its last change
    pc,      \* the await at which each call stands, or how it ended
    attempt, \* attempt
    current, \* what k8sGet returned
    read,    \* the revision at which it was so
    dirty,   \* the metadata of the caller's own object bear a resourceVersion
    start,   \* history: the revision when the call began
    hits,    \* history: retried refusals of each call
    error,   \* the error of the last refusal
    faults, foreign

server == <<obj, rv>>
bounds == <<faults, foreign>>
vars == <<server, pc, attempt, current, read, dirty, start, hits, error, bounds>>

Awaiting == {"get", "update", "create"}
Ended == {"created", "updated", "thrown"}
\* refused: 400, 401, 403, 422.  server: 5xx.  network: no status at all.
\* client: any other 4xx.  none: out of attempts, or no error.
Errors == {"none", "client", "refused", "server", "network"}

Mutated(o, c) == IF c \in Replacing THEN {c} ELSE o \cup {c}

Init ==
    /\ obj \in {{}, {Foreign}} /\ rv = 0
    /\ pc = [c \in Client |-> "idle"]
    /\ attempt = [c \in Client |-> 0]
    /\ current = [c \in Client |-> {}]
    /\ read = [c \in Client |-> 0] /\ start = [c \in Client |-> 0]
    /\ dirty = [c \in Client |-> FALSE]
    /\ hits = [c \in Client |-> 0] /\ error = [c \in Client |-> "none"]
    /\ faults = 0 /\ foreign = 0

Goto(c, step) == pc' = [pc EXCEPT ![c] = step]
Write(o) == obj' = o /\ rv' = rv + 1

Call(c) ==
    /\ pc[c] = "idle"
    /\ Goto(c, "get")
    /\ start' = [start EXCEPT ![c] = rv]
    /\ UNCHANGED <<server, attempt, current, read, dirty, hits, error, bounds>>

-----------------------------------------------------------------------------
(* The end of an attempt.                                                  *)

\* Mutant: one attempt is lost.
AgainM(c) == /\ attempt' = [attempt EXCEPT ![c] = @ + 1]
             /\ Goto(c, IF attempt[c] + 2 < MaxRetries THEN "get" ELSE "thrown")
\* Mutant: the loop does not look at attempt.
AgainForEver(c) == attempt' = [attempt EXCEPT ![c] = @ + 1] /\ Goto(c, "get")
\* attempt++, and the loop or the error that ends it.
Again(c) == /\ attempt' = [attempt EXCEPT ![c] = @ + 1]
            /\ Goto(c, IF attempt[c] + 1 < MaxRetries THEN "get" ELSE "thrown")

\* The statuses that the code retries.
Retried == {"client"}

\* A call is rejected for a reason of its own and had no effect.
Refuse(c) ==
    /\ faults < MaxFaults /\ faults' = faults + 1
    /\ \E e \in Errors \ {"none"} :
          /\ error' = [error EXCEPT ![c] = e]
          /\ IF e \in Retried
             THEN Again(c) /\ hits' = [hits EXCEPT ![c] = @ + 1]
             ELSE Goto(c, "thrown") /\ UNCHANGED <<attempt, hits>>
    /\ UNCHANGED <<server, foreign>>

\* A write takes effect, a proxy or the network loses the answer.
LoseAnswer(c, o) ==
    /\ faults < MaxFaults /\ faults' = faults + 1
    /\ Write(o)
    /\ \E e \in {"server", "network"} : error' = [error EXCEPT ![c] = e]
    /\ Goto(c, "thrown")
    /\ UNCHANGED <<attempt, hits, foreign>>

Conflict(c) == Again(c) /\ UNCHANGED <<server, hits, error, bounds>>

\* The object is what was read, or was already missing then.
Note(c) == /\ current' = [current EXCEPT ![c] = obj]
           /\ read' = [read EXCEPT ![c] = rv]
           /\ UNCHANGED <<server, attempt, hits, error, bounds>>

\* Mutant: a 404 is retried like the other 4xx errors, from the start.
MissingM(c) == Goto(c, "get") /\ Note(c)
\* A 404 of the get or of the update: on to k8sCreate.
Missing(c) == Goto(c, "create") /\ Note(c)

-----------------------------------------------------------------------------
(* The three calls.                                                        *)

Get(c) ==
    /\ pc[c] = "get"
    /\ \/ obj = {} /\ Missing(c) /\ UNCHANGED dirty
       \/ /\ obj # {} /\ Goto(c, "update") /\ Note(c)
          /\ dirty' = IF c \in Replacing THEN [dirty EXCEPT ![c] = TRUE] ELSE dirty
       \/ Refuse(c) /\ UNCHANGED <<current, read, dirty>>
    /\ UNCHANGED start

\* Mutant: the metadata are written without the resourceVersion.
FreshM(c) == TRUE
\* The resourceVersion of the metadata is the one the server has.
Fresh(c) == read[c] = rv

\* A write that the server accepts, whether its answer arrives or not.
Put(c, o, end) == \/ Write(o) /\ Goto(c, end) /\ UNCHANGED <<attempt, hits, error, bounds>>
                  \/ LoseAnswer(c, o)

Update(c) ==
    /\ pc[c] = "update"
    /\ \/ /\ obj # {} /\ Fresh(c) /\ Put(c, Mutated(current[c], c), "updated")
          /\ UNCHANGED <<current, read>>
       \/ obj # {} /\ ~Fresh(c) /\ Conflict(c) /\ UNCHANGED <<current, read>>
       \/ obj = {} /\ Missing(c)
       \/ Refuse(c) /\ UNCHANGED <<current, read>>
    /\ UNCHANGED <<start, dirty>>

\* mutate(null) of a replacing call is the object whose metadata an earlier
\* attempt has filled in, and the server creates nothing that already has a
\* resourceVersion: a status that is not retried.
Create(c) ==
    /\ pc[c] = "create"
    /\ \/ obj = {} /\ ~dirty[c] /\ Put(c, Mutated({}, c), "created")
       \/ /\ dirty[c] /\ Goto(c, "thrown") /\ error' = [error EXCEPT ![c] = "server"]
          /\ UNCHANGED <<server, attempt, hits, bounds>>
       \/ obj # {} /\ ~dirty[c] /\ Conflict(c)
       \/ Refuse(c)
    /\ UNCHANGED <<start, current, read, dirty>>

\* A controller or another program edits or deletes the object.
Meddle ==
    /\ foreign < MaxForeign /\ foreign' = foreign + 1
    /\ \E o \in {{}, obj \cup {Foreign}} : Write(o)
    /\ UNCHANGED <<pc, attempt, current, read, dirty, start, hits, error, faults>>

Step(c) == Call(c) \/ Get(c) \/ Update(c) \/ Create(c)
Next == Meddle \/ \E c \in Client : Step(c)

Spec == Init /\ [][Next]_vars

\* The browser goes on with every call it has begun, and begins it.
FairSpec == Spec /\ \A c \in Client : WF_vars(Step(c))
-----------------------------------------------------------------------------
(* Properties.                                                             *)

\* Every variable stays in its set; a call makes at most maxRetries attempts.
TypeOK ==
    /\ obj \in SUBSET (Client \cup {Foreign}) /\ rv \in Nat
    /\ pc \in [Client -> {"idle"} \cup Awaiting \cup Ended]
    /\ attempt \in [Client -> 0..MaxRetries]
    /\ current \in [Client -> SUBSET (Client \cup {Foreign})]
    /\ read \in [Client -> Nat] /\ dirty \in [Client -> BOOLEAN]
    /\ start \in [Client -> Nat] /\ hits \in [Client -> Nat]
    /\ error \in [Client -> Errors]
    /\ faults \in 0..MaxFaults /\ foreign \in 0..MaxForeign

\* How each call ended, as its caller sees it.
Result == [c \in Client |-> IF pc[c] \in Ended THEN pc[c] ELSE "none"]

\* Concurrent calls look like upserts made one at a time: no change of another
\* writer is overwritten by a call that read the object before it, none is made
\* twice, and mutationDetails.isUpdated says what became of the object.
U == INSTANCE Upsert WITH result <- Result
RefinesUpsert == U!Spec

\* A call runs out of attempts only when each of them met another write of the
\* object or a refusal: with fewer rivals than maxRetries, nobody starves.
ExhaustedOnlyByRivals ==
    \A c \in Client : pc[c] = "thrown" /\ error[c] \in {"none", "client"} =>
        rv - start[c] + hits[c] >= MaxRetries

\* Every call ends.
EveryCallEnds == \A c \in Client : <>(pc[c] \in Ended)

\* "Retry on 4xx errors other than 400, 401, 403, 422 and all 5xx errors": a
\* call that throws a 5xx has used its attempts up.
ServerErrorsAreRetried ==
    \A c \in Client : pc[c] = "thrown" /\ error[c] = "server" =>
        attempt[c] + 1 >= MaxRetries
=============================================================================

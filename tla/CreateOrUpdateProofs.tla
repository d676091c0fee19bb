------------------------- MODULE CreateOrUpdateProofs -------------------------
(***************************************************************************)
(* Proofs about CreateOrUpdate, for any set of calls, any maxRetries and   *)
(* any number of faults and foreign writes: the type invariant, that a     *)
(* call runs out of attempts only through its rivals, and that concurrent  *)
(* calls implement Upsert.                                                 *)
(***************************************************************************)
EXTENDS CreateOrUpdate, TLAPS

\* What a call has read is the object, as long as its revision is current.
Snapshot ==
    \A c \in Client : pc[c] \in {"update", "create"} =>
        /\ read[c] <= rv
        /\ read[c] = rv => current[c] = obj
        /\ pc[c] = "create" => current[c] = {}

\* Every attempt a call has behind it met a write of the object or a refusal,
\* and one is left as long as the call goes on.
Counting ==
    \A c \in Client :
        /\ start[c] <= rv
        /\ pc[c] = "idle" => attempt[c] = 0
        /\ pc[c] \notin Ended => attempt[c] < MaxRetries
        /\ pc[c] = "get" => attempt[c] + start[c] <= rv + hits[c]
        /\ pc[c] \in {"update", "create"} => attempt[c] + start[c] <= read[c] + hits[c]
        /\ pc[c] = "thrown" /\ error[c] \in {"none", "client"} =>
               MaxRetries + start[c] <= rv + hits[c]

IInv == TypeOK /\ Snapshot /\ Counting

USE ClientAssumption, RetriesAssumption, BoundAssumption

\* The change a call makes to an object is of the type of objects.
LEMMA MutatedType ==
    ASSUME NEW o \in SUBSET (Client \cup {Foreign}), NEW c \in Client
    PROVE  Mutated(o, c) \in SUBSET (Client \cup {Foreign}) /\ Mutated(o, c) # {}
BY DEF Mutated

\* What a step of one call leaves alone of the others, and how it moves the
\* object: either not at all or to a new revision.
Local(c) ==
    /\ \A d \in Client \ {c} :
          /\ pc'[d] = pc[d] /\ attempt'[d] = attempt[d] /\ current'[d] = current[d]
          /\ read'[d] = read[d] /\ start'[d] = start[d] /\ hits'[d] = hits[d]
          /\ error'[d] = error[d]
    /\ \/ UNCHANGED <<obj, rv>>
       \/ rv' = rv + 1

LEMMA StepIsLocal ==
    ASSUME TypeOK, NEW c \in Client, Step(c) PROVE Local(c)
<1>1. CASE Call(c)
  BY <1>1 DEF TypeOK, Local, Call, Goto, server, bounds
<1>2. CASE Get(c)
  BY <1>2 DEF TypeOK, Local, Get, Goto, server, bounds, Missing, Note, Refuse, Again
<1>3. CASE Update(c)
  BY <1>3 DEF TypeOK, Local, Update, Goto, server, bounds, Missing, Note, Refuse, Again,
              Put, Write, LoseAnswer, Conflict
<1>4. CASE Create(c)
  BY <1>4 DEF TypeOK, Local, Create, Goto, server, bounds, Refuse, Again,
              Put, Write, LoseAnswer, Conflict
<1> QED BY <1>1, <1>2, <1>3, <1>4 DEF Step

LEMMA InitIInv == Init => IInv
BY DEF Init, IInv, TypeOK, Snapshot, Counting, Awaiting, Ended, Errors

\* The end of an attempt keeps the types when one was left.
LEMMA AgainType ==
    ASSUME TypeOK, NEW c \in Client, attempt[c] < MaxRetries, Again(c)
    PROVE  /\ attempt' \in [Client -> 0..MaxRetries]
           /\ pc' \in [Client -> {"idle"} \cup Awaiting \cup Ended]
BY DEF TypeOK, Again, Goto, Awaiting, Ended

LEMMA RefuseType ==
    ASSUME TypeOK, NEW c \in Client, attempt[c] < MaxRetries, Refuse(c)
    PROVE  /\ attempt' \in [Client -> 0..MaxRetries]
           /\ pc' \in [Client -> {"idle"} \cup Awaiting \cup Ended]
           /\ hits' \in [Client -> Nat] /\ error' \in [Client -> Errors]
           /\ faults' \in 0..MaxFaults /\ UNCHANGED <<obj, rv, foreign>>
<1>1. PICK e \in Errors \ {"none"} :
          /\ error' = [error EXCEPT ![c] = e]
          /\ IF e \in Retried
             THEN Again(c) /\ hits' = [hits EXCEPT ![c] = @ + 1]
             ELSE Goto(c, "thrown") /\ UNCHANGED <<attempt, hits>>
  BY DEF Refuse
<1>2. error' \in [Client -> Errors] /\ hits' \in [Client -> Nat]
  BY <1>1 DEF TypeOK
<1>3. /\ attempt' \in [Client -> 0..MaxRetries]
      /\ pc' \in [Client -> {"idle"} \cup Awaiting \cup Ended]
  BY <1>1, AgainType DEF TypeOK, Goto, Ended
<1>4. faults' \in 0..MaxFaults /\ UNCHANGED <<obj, rv, foreign>>
  BY DEF Refuse, TypeOK, server
<1> QED BY <1>2, <1>3, <1>4

\* A write, answered or not, keeps the types.
LEMMA PutType ==
    ASSUME TypeOK, NEW c \in Client, NEW o \in SUBSET (Client \cup {Foreign}),
           NEW end \in Ended, Put(c, o, end)
    PROVE  /\ obj' \in SUBSET (Client \cup {Foreign}) /\ rv' \in Nat
           /\ pc' \in [Client -> {"idle"} \cup Awaiting \cup Ended]
           /\ error' \in [Client -> Errors] /\ faults' \in 0..MaxFaults
           /\ UNCHANGED <<attempt, hits, foreign>>
BY DEF TypeOK, Put, Write, LoseAnswer, Goto, Ended, Awaiting, Errors, bounds

LEMMA TypeStep ==
    ASSUME TypeOK, Counting, NEW c \in Client, Step(c) PROVE TypeOK'
<1> USE DEF server, bounds, Goto
<1>1. CASE Call(c)
  BY <1>1 DEF TypeOK, Call, Awaiting
<1>2. CASE Get(c)
  <2>0. attempt[c] < MaxRetries
    BY <1>2 DEF Get, Counting, Ended
  <2>1. CASE obj = {} /\ Missing(c) /\ UNCHANGED dirty
    BY <1>2, <2>1 DEF Get, TypeOK, Missing, Note, Awaiting
  <2>2. CASE /\ obj # {} /\ Goto(c, "update") /\ Note(c)
             /\ dirty' = IF c \in Replacing THEN [dirty EXCEPT ![c] = TRUE] ELSE dirty
    BY <1>2, <2>2 DEF Get, TypeOK, Note, Awaiting
  <2>3. CASE Refuse(c) /\ UNCHANGED <<current, read, dirty>>
    BY <1>2, <2>0, <2>3, RefuseType DEF Get, TypeOK
  <2> QED BY <1>2, <2>1, <2>2, <2>3 DEF Get
<1>3. CASE Update(c)
  <2>0. attempt[c] < MaxRetries
    BY <1>3 DEF Update, Counting, Ended
  <2>1. CASE /\ obj # {} /\ Fresh(c) /\ Put(c, Mutated(current[c], c), "updated")
             /\ UNCHANGED <<current, read>>
    <3>1. Mutated(current[c], c) \in SUBSET (Client \cup {Foreign})
      BY MutatedType DEF TypeOK
    <3>2. "updated" \in Ended
      BY DEF Ended
    <3> QED BY <1>3, <2>1, <3>1, <3>2, PutType DEF Update, TypeOK
  <2>2. CASE obj # {} /\ ~Fresh(c) /\ Conflict(c) /\ UNCHANGED <<current, read>>
    BY <1>3, <2>0, <2>2, AgainType DEF Update, Conflict, TypeOK
  <2>3. CASE obj = {} /\ Missing(c)
    BY <1>3, <2>3 DEF Update, TypeOK, Missing, Note, Awaiting
  <2>4. CASE Refuse(c) /\ UNCHANGED <<current, read>>
    BY <1>3, <2>0, <2>4, RefuseType DEF Update, TypeOK
  <2> QED BY <1>3, <2>1, <2>2, <2>3, <2>4 DEF Update
<1>4. CASE Create(c)
  <2>0. attempt[c] < MaxRetries
    BY <1>4 DEF Create, Counting, Ended
  <2>1. CASE obj = {} /\ ~dirty[c] /\ Put(c, Mutated({}, c), "created")
    <3>1. Mutated({}, c) \in SUBSET (Client \cup {Foreign})
      BY MutatedType
    <3>2. "created" \in Ended
      BY DEF Ended
    <3> QED BY <1>4, <2>1, <3>1, <3>2, PutType DEF Create, TypeOK
  <2>2. CASE /\ dirty[c] /\ Goto(c, "thrown") /\ error' = [error EXCEPT ![c] = "server"]
             /\ UNCHANGED <<server, attempt, hits, bounds>>
    BY <1>4, <2>2 DEF Create, TypeOK, Ended, Errors
  <2>3. CASE obj # {} /\ ~dirty[c] /\ Conflict(c)
    BY <1>4, <2>0, <2>3, AgainType DEF Create, Conflict, TypeOK
  <2>4. CASE Refuse(c)
    BY <1>4, <2>0, <2>4, RefuseType DEF Create, TypeOK
  <2> QED BY <1>4, <2>1, <2>2, <2>3, <2>4 DEF Create
<1> QED BY <1>1, <1>2, <1>3, <1>4 DEF Step

\* The snapshot of another call survives a step: either the object has not
\* changed or its revision is a new one.
LEMMA SnapshotStep ==
    ASSUME TypeOK, Snapshot, NEW c \in Client, Step(c) PROVE Snapshot'
<1> SUFFICES ASSUME NEW d \in Client, pc'[d] \in {"update", "create"}
             PROVE  /\ read'[d] <= rv'
                    /\ read'[d] = rv' => current'[d] = obj'
                    /\ pc'[d] = "create" => current'[d] = {}
  BY DEF Snapshot
<1>1. CASE d # c
  BY <1>1, StepIsLocal DEF Local, Snapshot, TypeOK
<1>2. CASE d = c
  <2> USE DEF server, bounds, Goto
  <2>1. CASE Call(c)
    BY <1>2, <2>1 DEF Call, TypeOK
  <2>2. CASE Get(c)
    BY <1>2, <2>2 DEF Get, TypeOK, Missing, Note, Refuse, Again
  <2>3. CASE Update(c)
    BY <1>2, <2>3 DEF Update, TypeOK, Missing, Note, Refuse, Again, Conflict, Put, Write,
                      LoseAnswer
  <2>4. CASE Create(c)
    BY <1>2, <2>4 DEF Create, TypeOK, Refuse, Again, Conflict, Put, Write, LoseAnswer
  <2> QED BY <2>1, <2>2, <2>3, <2>4 DEF Step
<1> QED BY <1>1, <1>2

\* The count of another call can only grow with the revision; that of the call
\* that steps goes up with its attempt, by a rival's write or by its own refusal.
LEMMA CountingStep ==
    ASSUME TypeOK, Snapshot, Counting, NEW c \in Client, Step(c) PROVE Counting'
<1> SUFFICES ASSUME NEW d \in Client
             PROVE  /\ start'[d] <= rv'
                    /\ pc'[d] = "idle" => attempt'[d] = 0
                    /\ pc'[d] \notin Ended => attempt'[d] < MaxRetries
                    /\ pc'[d] = "get" => attempt'[d] + start'[d] <= rv' + hits'[d]
                    /\ pc'[d] \in {"update", "create"} =>
                           attempt'[d] + start'[d] <= read'[d] + hits'[d]
                    /\ pc'[d] = "thrown" /\ error'[d] \in {"none", "client"} =>
                           MaxRetries + start'[d] <= rv' + hits'[d]
  BY DEF Counting
<1>1. CASE d # c
  BY <1>1, StepIsLocal DEF Local, Counting, TypeOK
<1>2. CASE d = c
  <2> USE DEF server, bounds, Goto, Ended
  <2>1. CASE Call(c)
    BY <1>2, <2>1 DEF Call, TypeOK, Counting
  <2>2. CASE Get(c)
    BY <1>2, <2>2 DEF Get, TypeOK, Counting, Missing, Note, Refuse, Again, Retried, Errors
  <2>3. CASE Update(c)
    BY <1>2, <2>3 DEF Update, TypeOK, Counting, Snapshot, Missing, Note, Refuse, Again,
                      Conflict, Put, Write, LoseAnswer, Fresh, Retried, Errors
  <2>4. CASE Create(c)
    BY <1>2, <2>4 DEF Create, TypeOK, Counting, Snapshot, Refuse, Again, Conflict, Put,
                      Write, LoseAnswer, Retried, Errors
  <2> QED BY <2>1, <2>2, <2>3, <2>4 DEF Step
<1> QED BY <1>1, <1>2

LEMMA MeddleIInv == IInv /\ Meddle => IInv'
BY DEF IInv, TypeOK, Snapshot, Counting, Meddle, Write

LEMMA StutterIInv == IInv /\ UNCHANGED vars => IInv'
BY DEF IInv, TypeOK, Snapshot, Counting, vars, server, bounds

LEMMA NextIInv == IInv /\ [Next]_vars => IInv'
BY TypeStep, SnapshotStep, CountingStep, MeddleIInv, StutterIInv DEF IInv, Next

THEOREM Invariance == Spec => []IInv
<1>1. IInv /\ [Next]_vars => IInv'
  BY NextIInv
<1> QED BY InitIInv, <1>1, PTL DEF Spec

\* The types, and that no call makes more than maxRetries attempts.
THEOREM TypeCorrect == Spec => []TypeOK
<1>1. IInv => TypeOK
  BY DEF IInv
<1> QED BY Invariance, <1>1, PTL

\* A call of createOrUpdate throws for want of attempts only after maxRetries
\* writes by others, or refusals of its own.
THEOREM NobodyStarves == Spec => []ExhaustedOnlyByRivals
<1>1. IInv => ExhaustedOnlyByRivals
  BY DEF IInv, TypeOK, Counting, ExhaustedOnlyByRivals
<1> QED BY Invariance, <1>1, PTL

-----------------------------------------------------------------------------
(* The refinement: a write of the object is a Put or a PutUnheard, any     *)
(* other way out a GiveUp, and the rest are stuttering steps.              *)

\* How the result of a call that steps changes.
LEMMA ResultStep ==
    ASSUME TypeOK, NEW c \in Client, pc[c] \notin Ended, Step(c)
    PROVE  /\ Result[c] = "none"
           /\ Result' = [Result EXCEPT ![c] = IF pc'[c] \in Ended THEN pc'[c] ELSE "none"]
<1>1. \A d \in Client \ {c} : pc'[d] = pc[d]
  BY StepIsLocal DEF Local
<1>2. DOMAIN Result = Client /\ DOMAIN Result' = Client
  BY DEF Result
<1>3. \A d \in Client \ {c} : Result'[d] = Result[d]
  BY <1>1 DEF Result
<1>4. Result[c] = "none" /\ Result'[c] = IF pc'[c] \in Ended THEN pc'[c] ELSE "none"
  BY DEF Result
<1>5. Result' = [d \in Client |-> Result'[d]] /\ Result = [d \in Client |-> Result[d]]
  BY DEF Result
<1> QED BY <1>2, <1>3, <1>4, <1>5

\* A step that does not end the call, and leaves the object, is a stutter.
LEMMA Stutters ==
    ASSUME TypeOK, NEW c \in Client, pc[c] \notin Ended, Step(c),
           obj' = obj, pc'[c] \notin Ended
    PROVE  UNCHANGED <<obj, Result>>
<1>1. \A d \in Client \ {c} : pc'[d] = pc[d]
  BY StepIsLocal DEF Local
<1> QED BY <1>1 DEF Result

\* One that leaves the object is a GiveUp or a stutter.
LEMMA NoWriteRefines ==
    ASSUME TypeOK, NEW c \in Client, pc[c] \notin Ended, Step(c),
           obj' = obj, pc'[c] \in {"thrown", "get", "update", "create"}
    PROVE  U!GiveUp(c) \/ UNCHANGED <<obj, Result>>
<1>1. CASE pc'[c] = "thrown"
  BY <1>1, ResultStep DEF U!GiveUp, Ended
<1>2. CASE pc'[c] # "thrown"
  BY <1>2, Stutters DEF Ended
<1> QED BY <1>1, <1>2

\* One that writes what mutate made of the present object is a Put, or a
\* PutUnheard when the answer is lost.
LEMMA WriteRefines ==
    ASSUME TypeOK, NEW c \in Client, pc[c] \notin Ended, Step(c),
           Put(c, Mutated(obj, c), IF obj = {} THEN "created" ELSE "updated")
    PROVE  U!Put(c) \/ U!PutUnheard(c)
<1>1. obj' = U!Mutated(obj, c)
  BY DEF Put, LoseAnswer, Write, Mutated, U!Mutated
<1>2. CASE pc'[c] = IF obj = {} THEN "created" ELSE "updated"
  BY <1>1, <1>2, ResultStep DEF U!Put, Ended
<1>3. CASE pc'[c] = "thrown"
  BY <1>1, <1>3, ResultStep DEF U!PutUnheard, Ended
<1> QED BY <1>2, <1>3 DEF Put, LoseAnswer, Goto, TypeOK

LEMMA StepRefines ==
    ASSUME IInv, NEW c \in Client, Step(c)
    PROVE  U!Put(c) \/ U!PutUnheard(c) \/ U!GiveUp(c) \/ UNCHANGED <<obj, Result>>
<1> USE DEF server, bounds
<1>0. TypeOK /\ Snapshot /\ pc[c] \notin Ended
  BY DEF IInv, Step, Call, Get, Update, Create, Ended
<1>1. CASE Call(c)
  BY <1>0, <1>1, NoWriteRefines DEF Call, Goto, TypeOK
<1>2. CASE Get(c)
  <2>1. obj' = obj /\ pc'[c] \in {"thrown", "get", "update", "create"}
    BY <1>0, <1>2 DEF Get, Missing, Note, Refuse, Again, Goto, TypeOK
  <2> QED BY <1>0, <2>1, NoWriteRefines
<1>3. CASE Update(c)
  <2>1. CASE obj # {} /\ Fresh(c) /\ Put(c, Mutated(current[c], c), "updated")
    <3>1. current[c] = obj
      BY <1>0, <1>3, <2>1 DEF Update, Fresh, Snapshot
    <3> QED BY <1>0, <2>1, <3>1, WriteRefines
  <2>2. CASE obj' = obj /\ pc'[c] \in {"thrown", "get", "update", "create"}
    BY <1>0, <2>2, NoWriteRefines
  <2> QED BY <1>0, <1>3, <2>1, <2>2
          DEF Update, Missing, Note, Refuse, Again, Conflict, Goto, TypeOK
<1>4. CASE Create(c)
  <2>1. CASE obj = {} /\ ~dirty[c] /\ Put(c, Mutated({}, c), "created")
    BY <1>0, <2>1, WriteRefines
  <2>2. CASE obj' = obj /\ pc'[c] \in {"thrown", "get", "update", "create"}
    BY <1>0, <2>2, NoWriteRefines
  <2> QED BY <1>0, <1>4, <2>1, <2>2 DEF Create, Refuse, Again, Conflict, Goto, TypeOK
<1> QED BY <1>1, <1>2, <1>3, <1>4 DEF Step

LEMMA NextRefines == IInv /\ [Next]_vars => [U!Next]_(U!uvars)
<1> SUFFICES ASSUME IInv, [Next]_vars PROVE U!Next \/ UNCHANGED <<obj, Result>>
  BY DEF U!uvars
<1>1. CASE UNCHANGED vars
  BY <1>1 DEF vars, server, Result
<1>2. CASE Meddle
  <2>1. UNCHANGED Result
    BY <1>2 DEF Meddle, Result
  <2> QED BY <1>2, <2>1 DEF Meddle, Write, U!Next, U!Meddle
<1>3. ASSUME NEW c \in Client, Step(c) PROVE U!Next \/ UNCHANGED <<obj, Result>>
  BY <1>3, StepRefines DEF U!Next
<1> QED BY <1>1, <1>2, <1>3 DEF Next

LEMMA InitRefines == Init => U!Init
BY DEF Init, U!Init, Result, Ended

\* Calls of createOrUpdate on one object implement Upsert: no update is lost,
\* whatever the interleaving, the faults and the writes of others.
THEOREM Refinement == Spec => RefinesUpsert
BY Invariance, InitRefines, NextRefines, PTL DEF Spec, RefinesUpsert, U!Spec
=============================================================================

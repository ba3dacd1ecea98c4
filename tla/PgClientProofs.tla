---------------------------- MODULE PgClientProofs ----------------------------
(***************************************************************************)
(* Proofs about PgClient.  That a query is answered once is not inductive: *)
(* it needs to know where each query can still be answered from.  Settled  *)
(* says that the queue holds no query twice, that a query with a deferred  *)
(* error has left it, and that a query whose answer was given (and whose   *)
(* reply is not suppressed by "aborted") is in neither of the two and has  *)
(* no timer.                                                               *)
(***************************************************************************)
EXTENDS PgClient, SequenceTheorems, TLAPS

NoDuplicates(s) == \A i, j \in DOMAIN s : s[i] = s[j] => i = j

QueueInv ==
  /\ NoDuplicates(queue)
  /\ deferred \cap ToSet(queue) = {}

Untouched(q) ==
  timer[q] = "none" /\ ~aborted[q] /\ q \notin deferred /\ q \notin ToSet(queue)
Quieted(q) ==
  timer[q] # "armed" /\ q \notin deferred /\ q \notin ToSet(queue)

Settled ==
  \A q \in Queries :
    /\ answer[q] = "none" => Untouched(q)
    /\ aborted[q] => timer[q] = "fired" /\ answer[q] = "error"
    /\ answer[q] \in {"end", "error"} => aborted[q] \/ Quieted(q)

IInv == TypeOK /\ QueueInv /\ Settled

-----------------------------------------------------------------------------
(* Lemmas about the queue.                                                 *)

(* Taking the head off a queue without duplicates takes just that element. *)
LEMMA TailOfQueue ==
  ASSUME NEW S, NEW s \in Seq(S), s # <<>>, NoDuplicates(s)
  PROVE  /\ Tail(s) \in Seq(S)
         /\ NoDuplicates(Tail(s))
         /\ ToSet(Tail(s)) \subseteq ToSet(s)
         /\ Head(s) \notin ToSet(Tail(s))
         /\ Head(s) \in ToSet(s)
<1>1. /\ Tail(s) \in Seq(S)
      /\ Len(Tail(s)) = Len(s) - 1
      /\ \A i \in 1..Len(Tail(s)) : Tail(s)[i] = s[i + 1]
  BY HeadTailProperties
<1>2. Head(s) = s[1] /\ Len(s) \in Nat /\ Len(s) >= 1 /\ DOMAIN s = 1..Len(s)
  BY HeadTailProperties, EmptySeq
<1>3. DOMAIN Tail(s) = 1..(Len(s) - 1)
  BY <1>1
<1>4. \A i \in DOMAIN Tail(s) :
        i + 1 \in DOMAIN s /\ Tail(s)[i] = s[i + 1] /\ i + 1 # 1 /\ i \in Nat
  BY <1>1, <1>2, <1>3
<1>5. NoDuplicates(Tail(s))
  BY <1>4 DEF NoDuplicates
<1>6. ToSet(Tail(s)) \subseteq ToSet(s)
  BY <1>4 DEF ToSet
<1>7. Head(s) \notin ToSet(Tail(s))
  BY <1>2, <1>4 DEF ToSet, NoDuplicates
<1>8. Head(s) \in ToSet(s)
  BY <1>2 DEF ToSet
<1>. QED  BY <1>1, <1>5, <1>6, <1>7, <1>8

(* Appending an element that is not there yet adds just that element.      *)
LEMMA AppendToQueue ==
  ASSUME NEW S, NEW s \in Seq(S), NEW e \in S, e \notin ToSet(s),
         NoDuplicates(s)
  PROVE  /\ Append(s, e) \in Seq(S)
         /\ NoDuplicates(Append(s, e))
         /\ ToSet(Append(s, e)) = ToSet(s) \cup {e}
<1>1. /\ Append(s, e) \in Seq(S)
      /\ DOMAIN Append(s, e) = 1..(Len(s) + 1)
      /\ \A i \in 1..Len(s) : Append(s, e)[i] = s[i]
      /\ Append(s, e)[Len(s) + 1] = e
  BY AppendProperties
<1>2. Len(s) \in Nat /\ DOMAIN s = 1..Len(s)
  OBVIOUS
<1>3. \A i \in 1..Len(s) : s[i] # e
  BY <1>2 DEF ToSet
<1>4. NoDuplicates(Append(s, e))
  BY <1>1, <1>2, <1>3 DEF NoDuplicates
<1>5. ToSet(Append(s, e)) = ToSet(s) \cup {e}
  BY <1>1, <1>2 DEF ToSet
<1>. QED  BY <1>1, <1>4, <1>5

(* The active query is in the queue.                                       *)
LEMMA ActiveIsQueued ==
  ASSUME IInv, NEW q \in Queries, Active(q)
  PROVE  /\ q \in ToSet(queue) /\ q \notin deferred
         /\ answer[q] # "none"
         /\ aborted[q] \/ answer[q] \in {"issued", "row"}
         /\ Tail(queue) \in Seq(Queries) /\ NoDuplicates(Tail(queue))
         /\ ToSet(Tail(queue)) \subseteq ToSet(queue)
         /\ q \notin ToSet(Tail(queue))
<1>1. queue \in Seq(Queries) /\ queue # <<>> /\ NoDuplicates(queue) /\ q = Head(queue)
  BY DEF IInv, TypeOK, QueueInv, Active
<1>2. /\ Tail(queue) \in Seq(Queries) /\ NoDuplicates(Tail(queue))
      /\ ToSet(Tail(queue)) \subseteq ToSet(queue)
      /\ q \notin ToSet(Tail(queue)) /\ q \in ToSet(queue)
  BY <1>1, TailOfQueue
<1>3. q \notin deferred
  BY <1>2 DEF IInv, QueueInv
<1>4. answer[q] # "none" /\ (aborted[q] \/ answer[q] \in {"issued", "row"})
  BY <1>2 DEF IInv, TypeOK, Settled, Untouched, Quieted
<1>. QED  BY <1>2, <1>3, <1>4

-----------------------------------------------------------------------------
LEMMA InitEstablishes == Init => IInv
<1>. SUFFICES ASSUME Init PROVE IInv
  OBVIOUS
<1>1. queue = <<>> /\ ToSet(queue) = {}
  BY DEF Init, ToSet
<1>2. TypeOK
  <2>1. queue \in Seq(Queries)
    BY EmptySeq DEF Init
  <2>2. aborted \in [Queries -> BOOLEAN] /\ destroyed \in BOOLEAN /\ client_had_err \in BOOLEAN
    BY Zenon DEF Init
  <2>. QED  BY <2>1, <2>2 DEF Init, TypeOK
<1>3. QueueInv
  BY <1>1 DEF Init, QueueInv, NoDuplicates
<1>4. Settled
  BY <1>1 DEF Init, Settled, Untouched, Quieted
<1>. QED
  BY <1>2, <1>3, <1>4 DEF IInv

LEMMA StepPreserves == IInv /\ [Next]_vars => IInv'
<1>. SUFFICES ASSUME IInv, [Next]_vars PROVE IInv'
  OBVIOUS
<1>. USE DEF IInv
<1>1. CASE Connect
  BY <1>1 DEF Connect, TypeOK, QueueInv, Settled, Untouched, Quieted
<1>2. CASE ConnectionEnds
  <2>1. PICK failed \in SUBSET ToSet(queue) : deferred' = deferred \cup failed
    BY <1>2 DEF ConnectionEnds
  <2>2. queue' = <<>> /\ ToSet(queue') = {}
    BY <1>2 DEF ConnectionEnds, ToSet
  <2>3. ToSet(queue) \subseteq Queries
    BY DEF TypeOK, ToSet
  <2>4. TypeOK'
    BY <1>2, <2>1, <2>2, <2>3 DEF ConnectionEnds, TypeOK
  <2>5. QueueInv'
    BY <2>2 DEF QueueInv, NoDuplicates
  <2>6. Settled'
    BY <1>2, <2>1, <2>2 DEF ConnectionEnds, Settled, Untouched, Quieted
  <2>. QED  BY <2>4, <2>5, <2>6
<1>3. CASE Destroy
  BY <1>3 DEF Destroy, TypeOK, QueueInv, Settled, Untouched, Quieted
<1>4. ASSUME NEW q \in Queries, Query(q) PROVE IInv'
  <2>1. timer[q] = "none" /\ ~aborted[q] /\ q \notin deferred /\ q \notin ToSet(queue)
    BY <1>4 DEF Query, Settled, Untouched
  <2>2. CASE connection = "up" /\ queue' = Append(queue, q) /\ UNCHANGED deferred
    <3>1. /\ queue' \in Seq(Queries) /\ NoDuplicates(queue')
          /\ ToSet(queue') = ToSet(queue) \cup {q}
      BY <2>1, <2>2, AppendToQueue DEF TypeOK, QueueInv
    <3>2. TypeOK'
      BY <1>4, <2>2, <3>1 DEF Query, Emit, client, TypeOK
    <3>3. QueueInv'
      BY <2>1, <2>2, <3>1 DEF QueueInv
    <3>4. Settled'
      BY <1>4, <2>1, <2>2, <3>1
      DEF Query, Emit, Settled, Untouched, Quieted, TypeOK
    <3>. QED  BY <3>2, <3>3, <3>4
  <2>3. CASE deferred' \in {deferred, deferred \cup {q}} /\ UNCHANGED queue
    <3>1. TypeOK'
      BY <1>4, <2>3 DEF Query, Emit, client, TypeOK
    <3>2. QueueInv'
      BY <2>1, <2>3 DEF QueueInv
    <3>3. Settled'
      BY <1>4, <2>1, <2>3 DEF Query, Emit, Settled, Untouched, Quieted, TypeOK
    <3>. QED  BY <3>1, <3>2, <3>3
  <2>. QED  BY <1>4, <2>2, <2>3 DEF Query
<1>5. ASSUME NEW q \in Queries, OnRow(q) PROVE IInv'
  <2>1. q \in ToSet(queue) /\ (aborted[q] \/ answer[q] \in {"issued", "row"})
    BY <1>5, ActiveIsQueued DEF OnRow
  <2>2. TypeOK'
    BY <1>5 DEF OnRow, Emit, ClearTimeout, client, TypeOK
  <2>3. QueueInv'
    BY <1>5 DEF OnRow, QueueInv
  <2>4. Settled'
    BY <1>5, <2>1
    DEF OnRow, Emit, ClearTimeout, Settled, Untouched, Quieted, TypeOK
  <2>. QED  BY <2>2, <2>3, <2>4
<1>6. ASSUME NEW q \in Queries, OnQueryEnd(q) PROVE IInv'
  <2>1. /\ q \notin deferred /\ queue' \in Seq(Queries) /\ NoDuplicates(queue')
        /\ ToSet(queue') \subseteq ToSet(queue) /\ q \notin ToSet(queue')
        /\ answer[q] # "none"
    BY <1>6, ActiveIsQueued DEF OnQueryEnd
  <2>2. TypeOK'
    BY <1>6, <2>1 DEF OnQueryEnd, Done, Emit, ClearTimeout, client, TypeOK
  <2>3. QueueInv'
    BY <1>6, <2>1 DEF OnQueryEnd, QueueInv
  <2>4. Settled'
    BY <1>6, <2>1
    DEF OnQueryEnd, Done, Emit, ClearTimeout, Settled, Untouched, Quieted, TypeOK
  <2>. QED  BY <2>2, <2>3, <2>4
<1>7. ASSUME NEW q \in Queries, OnQueryError(q) PROVE IInv'
  <2>1. /\ q \notin deferred /\ queue' \in Seq(Queries) /\ NoDuplicates(queue')
        /\ ToSet(queue') \subseteq ToSet(queue) /\ q \notin ToSet(queue')
        /\ answer[q] # "none"
        /\ aborted[q] \/ answer[q] \in {"issued", "row"}
    BY <1>7, ActiveIsQueued DEF OnQueryError
  <2>2. TypeOK'
    BY <1>7, <2>1 DEF OnQueryError, client, TypeOK
  <2>3. QueueInv'
    BY <1>7, <2>1 DEF OnQueryError, QueueInv
  <2>4. Settled'
    BY <1>7, <2>1 DEF OnQueryError, Settled, Untouched, Quieted, TypeOK
  <2>. QED  BY <2>2, <2>3, <2>4
<1>8. ASSUME NEW q \in Queries, DeferredError(q) PROVE IInv'
  <2>1. q \in deferred /\ q \notin ToSet(queue) /\ answer[q] # "none"
    BY <1>8 DEF DeferredError, QueueInv, Settled, Untouched
  <2>2. TypeOK'
    BY <1>8 DEF DeferredError, Done, Emit, ClearTimeout, client, TypeOK
  <2>3. QueueInv'
    BY <1>8 DEF DeferredError, QueueInv
  <2>4. Settled'
    BY <1>8, <2>1
    DEF DeferredError, Done, Emit, ClearTimeout, Settled, Untouched, Quieted, TypeOK
  <2>. QED  BY <2>2, <2>3, <2>4
<1>9. ASSUME NEW q \in Queries, OnRowTimeout(q) PROVE IInv'
  <2>1. TypeOK'
    BY <1>9 DEF OnRowTimeout, Emit, TypeOK
  <2>2. QueueInv'
    BY <1>9 DEF OnRowTimeout, QueueInv
  <2>3. Settled'
    BY <1>9 DEF OnRowTimeout, Emit, Settled, Untouched, Quieted, TypeOK
  <2>. QED  BY <2>1, <2>2, <2>3
<1>10. CASE UNCHANGED vars
  BY <1>10 DEF vars, TypeOK, QueueInv, Settled, Untouched, Quieted
<1>. QED
  BY <1>1, <1>2, <1>3, <1>4, <1>5, <1>6, <1>7, <1>8, <1>9, <1>10 DEF Next

(* The inductive invariant holds in every run.                             *)
THEOREM Invariance == Spec => []IInv
BY InitEstablishes, StepPreserves, PTL DEF Spec

(* The variables of the client have their types.                           *)
THEOREM TypeCorrect == Spec => []TypeOK
<1>1. IInv => TypeOK
  BY DEF IInv
<1>. QED  BY Invariance, <1>1, PTL

(* Nothing more can come to a caller who has its answer: of a query that   *)
(* was not aborted no timer, reply or deferred error is left.              *)
THEOREM AnsweredQueriesAreSettled == Spec => []AnsweredIsSettled
<1>1. IInv => AnsweredIsSettled
  BY DEF IInv, Settled, Quieted, AnsweredIsSettled
<1>. QED  BY Invariance, <1>1, PTL

LEMMA NextKeepsDue == IInv /\ WaitingIsDue /\ [Next]_vars => WaitingIsDue'
<1>. SUFFICES ASSUME IInv, WaitingIsDue, [Next]_vars,
                     NEW q \in Queries
              PROVE  /\ answer'[q] = "issued" => timer'[q] = "armed"
                     /\ answer'[q] = "row" => Active(q)' \/ q \in deferred'
  BY DEF WaitingIsDue
<1>. DEFINE Due == /\ answer'[q] = "issued" => timer'[q] = "armed"
                   /\ answer'[q] = "row" => Active(q)' \/ q \in deferred'
<1>0. /\ answer[q] = "issued" => timer[q] = "armed"
      /\ answer[q] = "row" => Active(q) \/ q \in deferred
      /\ TypeOK
      /\ aborted[q] => answer[q] = "error"
  BY DEF IInv, Settled, WaitingIsDue
<1>1. CASE Connect \/ Destroy \/ UNCHANGED vars
  BY <1>0, <1>1 DEF Connect, Destroy, vars, Active
<1>2. CASE ConnectionEnds
  BY <1>0, <1>2 DEF ConnectionEnds, Active
<1>3. ASSUME NEW r \in Queries, Query(r) PROVE Due
  <2>1. CASE r = q
    BY <1>0, <1>3, <2>1 DEF Query, Emit, TypeOK
  <2>2. CASE r # q
    <3>1. answer'[q] = answer[q] /\ timer'[q] = timer[q]
      BY <1>0, <1>3, <2>2 DEF Query, Emit, TypeOK
    <3>2. UNCHANGED connection /\ deferred \subseteq deferred'
      BY <1>3 DEF Query, client
    <3>3. Active(q) => queue' # <<>> /\ Head(queue') = q
      <4>1. UNCHANGED queue \/ queue' = Append(queue, r)
        BY <1>3 DEF Query
      <4>2. queue \in Seq(Queries)
        BY <1>0 DEF TypeOK
      <4>3. queue # <<>> => Append(queue, r) # <<>>
                            /\ Head(Append(queue, r)) = Head(queue)
        BY <4>2, AppendProperties, HeadTailProperties, EmptySeq
      <4>. QED  BY <4>1, <4>3 DEF Active
    <3>. QED  BY <1>0, <3>1, <3>2, <3>3 DEF Active
  <2>. QED  BY <2>1, <2>2
<1>4. ASSUME NEW r \in Queries, OnRow(r) PROVE Due
  <2>1. UNCHANGED <<connection, queue, deferred>> /\ Active(r)
    BY <1>4 DEF OnRow, client
  <2>2. CASE r = q
    BY <1>0, <1>4, <2>1, <2>2 DEF OnRow, Emit, ClearTimeout, Active, TypeOK
  <2>3. CASE r # q
    <3>1. answer'[q] = answer[q] /\ timer'[q] = timer[q]
      BY <1>0, <1>4, <2>3 DEF OnRow, Emit, ClearTimeout, TypeOK
    <3>. QED  BY <1>0, <2>1, <3>1 DEF Active
  <2>. QED  BY <2>2, <2>3
<1>5. ASSUME NEW r \in Queries, OnQueryEnd(r) \/ OnQueryError(r) PROVE Due
  <2>1. Active(r) /\ deferred \subseteq deferred'
    BY <1>5 DEF OnQueryEnd, OnQueryError
  <2>2. CASE r = q
    BY <1>0, <1>5, <2>2
    DEF OnQueryEnd, OnQueryError, Done, Emit, ClearTimeout, TypeOK
  <2>3. CASE r # q
    <3>1. answer'[q] = answer[q] /\ timer'[q] = timer[q]
      BY <1>0, <1>5, <2>3
      DEF OnQueryEnd, OnQueryError, Done, Emit, ClearTimeout, TypeOK
    <3>2. ~Active(q)
      BY <2>1, <2>3 DEF Active
    <3>. QED  BY <1>0, <2>1, <3>1, <3>2
  <2>. QED  BY <2>2, <2>3
<1>6. ASSUME NEW r \in Queries, DeferredError(r) PROVE Due
  <2>1. UNCHANGED <<connection, queue>> /\ deferred' = deferred \ {r}
    BY <1>6 DEF DeferredError, client
  <2>2. CASE r = q
    BY <1>0, <1>6, <2>2 DEF DeferredError, Done, Emit, ClearTimeout, TypeOK
  <2>3. CASE r # q
    <3>1. answer'[q] = answer[q] /\ timer'[q] = timer[q]
      BY <1>0, <1>6, <2>3 DEF DeferredError, Done, Emit, ClearTimeout, TypeOK
    <3>. QED  BY <1>0, <2>1, <2>3, <3>1 DEF Active
  <2>. QED  BY <2>2, <2>3
<1>7. ASSUME NEW r \in Queries, OnRowTimeout(r) PROVE Due
  <2>1. UNCHANGED <<connection, queue, deferred>>
    BY <1>7 DEF OnRowTimeout
  <2>2. CASE r = q
    BY <1>0, <1>7, <2>2 DEF OnRowTimeout, Emit, TypeOK
  <2>3. CASE r # q
    <3>1. answer'[q] = answer[q] /\ timer'[q] = timer[q]
      BY <1>0, <1>7, <2>3 DEF OnRowTimeout, Emit, TypeOK
    <3>. QED  BY <1>0, <2>1, <3>1 DEF Active
  <2>. QED  BY <2>2, <2>3
<1>. QED
  BY <1>1, <1>2, <1>3, <1>4, <1>5, <1>6, <1>7 DEF Next

(* No caller who waits has been forgotten: until the first row the timer   *)
(* of the query runs, and then the server is still answering it or its     *)
(* error is deferred.  So only a server that stalls after a row can keep a *)
(* caller waiting.                                                         *)
THEOREM NoCallerIsForgotten == Spec => []WaitingIsDue
<1>1. Init => WaitingIsDue
  BY DEF Init, WaitingIsDue
<1>. QED  BY <1>1, NextKeepsDue, Invariance, PTL DEF Spec

-----------------------------------------------------------------------------
(* A step of the client is a step of QueryAnswer, or leaves it alone.      *)
LEMMA StepRefines == IInv /\ [Next]_vars => [Promise!Next]_answer
<1>. SUFFICES ASSUME IInv, [Next]_vars PROVE [Promise!Next]_answer
  OBVIOUS
<1>. USE DEF IInv
<1>1. ASSUME NEW q \in Queries, answer[q] \in {"issued", "row"}, Emit(q, "row")
      PROVE  Promise!Next
  BY <1>1 DEF Emit, Promise!Next, Promise!GiveRow, Promise!Open
<1>2. ASSUME NEW q \in Queries, answer[q] \in {"issued", "row"},
             Emit(q, "end") \/ Emit(q, "error")
      PROVE  Promise!Next
  BY <1>2 DEF Emit, Promise!Next, Promise!Settle, Promise!Open
<1>3. ASSUME NEW q \in Queries, Query(q) PROVE Promise!Next
  BY <1>3 DEF Query, Emit, Promise!Next, Promise!Issue
<1>4. ASSUME NEW q \in Queries, OnRow(q) PROVE [Promise!Next]_answer
  BY <1>1, <1>4, ActiveIsQueued DEF OnRow
<1>5. ASSUME NEW q \in Queries, OnQueryEnd(q) PROVE [Promise!Next]_answer
  BY <1>2, <1>5, ActiveIsQueued DEF OnQueryEnd, Done
<1>6. ASSUME NEW q \in Queries, DeferredError(q) PROVE [Promise!Next]_answer
  <2>1. aborted[q] \/ answer[q] \in {"issued", "row"}
    BY <1>6 DEF DeferredError, TypeOK, Settled, Untouched, Quieted
  <2>. QED  BY <1>2, <1>6, <2>1 DEF DeferredError, Done
<1>7. ASSUME NEW q \in Queries, OnRowTimeout(q) PROVE Promise!Next
  <2>1. answer[q] \in {"issued", "row"}
    BY <1>7 DEF OnRowTimeout, TypeOK, Settled, Untouched, Quieted
  <2>. QED  BY <1>2, <1>7, <2>1 DEF OnRowTimeout
<1>8. ASSUME NEW q \in Queries, OnQueryError(q) PROVE UNCHANGED answer
  BY <1>8 DEF OnQueryError
<1>9. CASE Connect \/ ConnectionEnds \/ Destroy \/ UNCHANGED vars
  BY <1>9 DEF Connect, ConnectionEnds, Destroy, vars
<1>. QED
  BY <1>3, <1>4, <1>5, <1>6, <1>7, <1>8, <1>9 DEF Next

(* The client implements QueryAnswer: whichever of the timer, the server,  *)
(* the deferred error and the end of the connection comes first, a caller  *)
(* sees rows and then one answer.                                          *)
THEOREM ClientAnswersOnce == Spec => AnswersOnce
<1>1. Init => Promise!Init
  BY DEF Init, Promise!Init
<1>. QED
  BY <1>1, Invariance, StepRefines, PTL DEF Spec, AnswersOnce, Promise!Spec
=============================================================================

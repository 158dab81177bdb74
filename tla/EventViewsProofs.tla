-------------------------- MODULE EventViewsProofs --------------------------
(***************************************************************************)
(* For any number of processes, events and views: parallel flushes never   *)
(* deadlock, and a worker that is told to stop leaves nothing behind as     *)
(* long as the database does not fail.                                     *)
(***************************************************************************)
EXTENDS EventViews, FiniteSums, SequenceTheorems, TLAPS

\* The empty batch is a batch.
LEMMA NoViewsType == NoViews \in Views
BY DEF NoViews, Views

\* Adding to a batch gives a batch.
LEMMA PlusType ==
    ASSUME NEW f \in Views, NEW g \in Views
    PROVE  Plus(f, g) \in Views
BY DEF Plus, Views

\* The two continuations of a step that may flush.
LEMMA FlushTypes ==
    ASSUME TypeOK, NEW p \in Processes
    PROVE  /\ BeginFlush(p) =>
                /\ worker' \in [Processes -> WorkerStates]
                /\ to_lock' \in [Processes -> SUBSET Events]
           /\ AfterFlush(p) =>
                /\ worker' \in [Processes -> WorkerStates]
                /\ deadline' \in [Processes -> Nat]
<1>1. Viewed(batch'[p]) \in SUBSET Events
  BY DEF Viewed
<1>2. FLUSH_INTERVAL \in Nat
  BY EventViewsAssumption
<1>3. /\ worker \in [Processes -> WorkerStates]
      /\ to_lock \in [Processes -> SUBSET Events]
      /\ deadline \in [Processes -> Nat]
  BY DEF TypeOK
<1> QED
  BY <1>1, <1>2, <1>3 DEF BeginFlush, AfterFlush, WorkerStates

\* Queues are empty and no key is locked at first.
LEMMA InitInvariant == Init => IInv
BY EventViewsAssumption, NoViewsType
   DEF Init, IInv, TypeOK, WorkerStates, AppStates, KeysBelongToFlushes, KeysInOrder, NoneComesLast

-----------------------------------------------------------------------------
(***************************************************************************)
(* The queue.                                                              *)
(***************************************************************************)
\* An element less, an element more.
LEMMA Dequeue ==
    ASSUME NEW q \in Seq(Events \cup {None}), q # <<>>
    PROVE  /\ Tail(q) \in Seq(Events \cup {None})
           /\ Head(q) \in Events \cup {None}
           /\ Head(q) = q[1]
           /\ Len(q) \in Nat \ {0} /\ Len(Tail(q)) = Len(q) - 1
           /\ \A i \in 1 .. Len(Tail(q)) : Tail(q)[i] = q[i + 1]
BY HeadTailProperties

\* Appending leaves the rest of the queue in its place.
LEMMA Enqueue ==
    ASSUME NEW q \in Seq(Events \cup {None}), NEW x \in Events \cup {None}
    PROVE  /\ Append(q, x) \in Seq(Events \cup {None})
           /\ Len(Append(q, x)) = Len(q) + 1
           /\ \A i \in 1 .. Len(q) : Append(q, x)[i] = q[i]
           /\ Append(q, x)[Len(q) + 1] = x
BY AppendProperties

-----------------------------------------------------------------------------
(***************************************************************************)
(* What a step of one process may do.                                      *)
(***************************************************************************)
ProcessStep(p) ==
    \/ start(p) \/ \E e \in Events : submit(p, e)
    \/ Collect(p) \/ Write(p) \/ FlushFails(p)
    \/ BeginStop(p) \/ stop(p) \/ LeaveFlush(p)
    \/ Crash(p)

\* The step leaves what the other processes have in memory as it is.
OnlyMoves(p) ==
    \A q \in Processes : q # p =>
        /\ queue'[q] = queue[q] /\ batch'[q] = batch[q] /\ worker'[q] = worker[q]
        /\ last'[q] = last[q] /\ to_lock'[q] = to_lock[q] /\ app'[q] = app[q]
        /\ pending'[q] = pending[q] /\ accepted'[q] = accepted[q] /\ repeated'[q] = repeated[q]

\* A step of a process keeps the types and leaves the other processes alone.
LEMMA StepTypes ==
    ASSUME TypeOK, NEW p \in Processes, ProcessStep(p)
    PROVE  TypeOK' /\ OnlyMoves(p)
<1> USE DEF TypeOK, OnlyMoves, table, memory, run, lifespan, counts, WorkerStates, AppStates
<1>0. CASE start(p)
  BY <1>0, EventViewsAssumption DEF start
<1>1. ASSUME NEW e \in Events, submit(p, e) PROVE TypeOK' /\ OnlyMoves(p)
  <2>1. queue' \in [Processes -> Seq(Events \cup {None})]
    BY <1>1, Enqueue DEF submit
  <2>2. accepted' \in [Processes -> Views]
    BY <1>1 DEF submit, Views
  <2> QED
    BY <1>1, <2>1, <2>2 DEF submit
<1>2. CASE GetView(p)
  <2>1. Tail(queue[p]) \in Seq(Events \cup {None}) /\ Head(queue[p]) \in Events
    BY <1>2, Dequeue DEF GetView
  <2>2. queue' \in [Processes -> Seq(Events \cup {None})]
    BY <1>2, <2>1 DEF GetView
  <2>3. batch' \in [Processes -> Views] /\ pending' \in [Processes -> Nat]
    <3>1. PICK e \in Events : CountView(p, e)
      BY <1>2, <2>1 DEF GetView
    <3>2. batch[p] \in [Events -> Nat]
      BY DEF Views
    <3>3. [batch[p] EXCEPT ![e] = @ + 1] \in [Events -> Nat]
      BY <3>2
    <3>4. batch' = [batch EXCEPT ![p] = [batch[p] EXCEPT ![e] = @ + 1]]
      BY <3>1 DEF CountView
    <3> QED
      BY <3>1, <3>3, <3>4 DEF CountView, Views
  <2>4. /\ worker' \in [Processes -> WorkerStates]
        /\ to_lock' \in [Processes -> SUBSET Events]
    BY <1>2, FlushTypes DEF GetView
  <2>5. OnlyMoves(p)
    BY <1>2 DEF GetView, CountView, BeginFlush
  <2> QED
    BY <1>2, <2>2, <2>3, <2>4, <2>5 DEF GetView
<1>3. CASE GetNone(p)
  <2>1. queue' \in [Processes -> Seq(Events \cup {None})]
    BY <1>3, Dequeue DEF GetNone
  <2>2. /\ worker' \in [Processes -> WorkerStates]
        /\ to_lock' \in [Processes -> SUBSET Events]
        /\ deadline' \in [Processes -> Nat]
    BY <1>3, FlushTypes DEF GetNone
  <2>3. OnlyMoves(p)
    BY <1>3 DEF GetNone, BeginFlush, AfterFlush
  <2> QED
    BY <1>3, <2>1, <2>2, <2>3 DEF GetNone
<1>4. CASE DeadlinePasses(p)
  <2>1. /\ worker' \in [Processes -> WorkerStates]
        /\ to_lock' \in [Processes -> SUBSET Events]
        /\ deadline' \in [Processes -> Nat]
    BY <1>4, FlushTypes DEF DeadlinePasses
  <2>2. OnlyMoves(p)
    BY <1>4 DEF DeadlinePasses, BeginFlush, AfterFlush
  <2> QED
    BY <1>4, <2>1, <2>2 DEF DeadlinePasses
<1>5. CASE LockKey(p)
  BY <1>5 DEF LockKey
<1>6. CASE CommitFlush(p)
  <2>1. event_views' \in Views /\ batch' \in [Processes -> Views]
    BY <1>6, PlusType, NoViewsType DEF CommitFlush
  <2>2. /\ worker' \in [Processes -> WorkerStates]
        /\ deadline' \in [Processes -> Nat]
    BY <1>6, EventViewsAssumption DEF CommitFlush, AfterFlush
  <2>3. key_lock' \in [Events -> Processes \cup {None}] /\ to_lock' \in [Processes -> SUBSET Events]
    BY <1>6 DEF CommitFlush, EndTransaction
  <2>4. OnlyMoves(p)
    BY <1>6 DEF CommitFlush, AfterFlush, EndTransaction
  <2> QED
    BY <1>6, <2>1, <2>2, <2>3, <2>4 DEF CommitFlush
<1>7. ASSUME Unacknowledged(p)
      PROVE  /\ event_views' \in Views /\ repeated' \in [Processes -> Views]
             /\ key_lock' \in [Events -> Processes \cup {None}]
             /\ to_lock' \in [Processes -> SUBSET Events]
             /\ \A q \in Processes : q # p => to_lock'[q] = to_lock[q] /\ repeated'[q] = repeated[q]
  <2>1. \A q \in Processes : Plus(repeated[q], batch[q]) \in Views /\ Plus(event_views, batch[q]) \in Views
    BY PlusType
  <2>2. /\ event_views' \in Views /\ repeated' \in [Processes -> Views]
        /\ \A q \in Processes : q # p => repeated'[q] = repeated[q]
    <3>1. CASE UNCHANGED <<event_views, repeated>>
      BY <3>1
    <3>2. CASE /\ event_views' = Plus(event_views, batch[p])
               /\ repeated' = [repeated EXCEPT ![p] = Plus(repeated[p], batch[p])]
      <4>1. event_views' \in Views
        BY <2>1, <3>2
      <4>2. Plus(repeated[p], batch[p]) \in Views /\ repeated \in [Processes -> Views]
        BY <2>1
      <4> QED
        BY ONLY <3>2, <4>1, <4>2
    <3> QED
      BY <1>7, <3>1, <3>2 DEF Unacknowledged
  <2>3. key_lock' \in [Events -> Processes \cup {None}]
    BY <1>7 DEF Unacknowledged, EndTransaction
  <2>4. /\ to_lock' \in [Processes -> SUBSET Events]
        /\ \A q \in Processes : q # p => to_lock'[q] = to_lock[q]
    BY <1>7 DEF Unacknowledged, EndTransaction
  <2> QED
    BY <2>2, <2>3, <2>4
<1>8. CASE FlushFails(p)
  <2>1. /\ worker' \in [Processes -> WorkerStates]
        /\ deadline' \in [Processes -> Nat]
    BY <1>8, EventViewsAssumption DEF FlushFails, AfterFlush
  <2>2. Unacknowledged(p)
    BY <1>8 DEF FlushFails
  <2>3. OnlyMoves(p)
    BY <1>7, <1>8, <2>2 DEF FlushFails, AfterFlush
  <2> QED
    BY <1>7, <1>8, <2>1, <2>2, <2>3 DEF FlushFails
<1>9. CASE BeginStop(p)
  BY <1>9, EventViewsAssumption DEF BeginStop
<1>10. CASE PutNone(p)
  <2>1. queue' \in [Processes -> Seq(Events \cup {None})]
    BY <1>10, Enqueue DEF PutNone
  <2> QED
    BY <1>10, <2>1 DEF PutNone
<1>11. CASE Join(p)
  BY <1>11 DEF Join
<1>12. CASE StopTimesOut(p)
  BY <1>12 DEF StopTimesOut
<1>14. CASE CancelEnds(p)
  <2>1. Unacknowledged(p)
    BY <1>14 DEF CancelEnds
  <2> QED
    BY <1>7, <1>14, <2>1 DEF CancelEnds
<1>15. CASE CancelFails(p)
  <2>1. /\ worker' \in [Processes -> WorkerStates]
        /\ deadline' \in [Processes -> Nat]
    BY <1>15, EventViewsAssumption DEF CancelFails, AfterFlush
  <2>2. key_lock' \in [Events -> Processes \cup {None}] /\ to_lock' \in [Processes -> SUBSET Events]
    BY <1>15 DEF CancelFails, EndTransaction
  <2>3. OnlyMoves(p)
    BY <1>15 DEF CancelFails, AfterFlush, EndTransaction
  <2> QED
    BY <1>15, <2>1, <2>2, <2>3 DEF CancelFails
<1>13. CASE Crash(p)
  <2>1. Unacknowledged(p)
    BY <1>13 DEF Crash
  <2> QED
    BY <1>7, <1>13, <2>1 DEF Crash
<1> QED
  BY <1>0, <1>1, <1>2, <1>3, <1>4, <1>5, <1>6, <1>8, <1>9, <1>10, <1>11, <1>12, <1>13,
     <1>14, <1>15
     DEF ProcessStep, Collect, Take, Write, stop, LeaveFlush

-----------------------------------------------------------------------------
(***************************************************************************)
(* Key locks.                                                              *)
(***************************************************************************)
Waits(p) == /\ to_lock'[p] = to_lock[p] /\ UNCHANGED key_lock
            /\ worker'[p] = worker[p] \/ InTransaction(p)'
Idles(p) == /\ worker[p] \in {"none", "getting"}
            /\ UNCHANGED key_lock
            /\ \/ to_lock'[p] = to_lock[p]
               \/ to_lock'[p] \subseteq Events /\ worker'[p] = "flushing"
Ends(p) == EndTransaction(p)

\* What a step can do to the keys a process has locked.
LEMMA LockSteps ==
    ASSUME IInv, NEW p \in Processes, ProcessStep(p)
    PROVE  Waits(p) \/ Idles(p) \/ LockKey(p) \/ Ends(p)
<1> USE DEF IInv, TypeOK, table, memory, run, lifespan, counts
<1>0. CASE start(p)
  BY <1>0 DEF start, NoneComesLast, Idles
<1>1. CASE \E e \in Events : submit(p, e)
  BY <1>1 DEF submit, Waits
<1>2. CASE GetView(p) \/ GetNone(p) \/ DeadlinePasses(p)
  BY <1>2 DEF GetView, GetNone, DeadlinePasses, BeginFlush, AfterFlush, Viewed, Idles
<1>3. CASE CommitFlush(p) \/ FlushFails(p) \/ LeaveFlush(p) \/ Crash(p)
  BY <1>3 DEF CommitFlush, FlushFails, LeaveFlush, CancelEnds, CancelFails, Crash, Unacknowledged, Ends
<1>4. CASE BeginStop(p) \/ PutNone(p) \/ Join(p)
  BY <1>4 DEF BeginStop, PutNone, Join, Waits
<1>5. CASE StopTimesOut(p)
  BY <1>5 DEF StopTimesOut, Waits, Idles, InTransaction
<1> QED
  BY <1>0, <1>1, <1>2, <1>3, <1>4, <1>5 DEF ProcessStep, Collect, Take, Write, stop

\* Flushes lock keys in ascending order, and nobody else holds any.
LEMMA StepKeepsKeys ==
    ASSUME IInv, NEW p \in Processes, ProcessStep(p)
    PROVE  KeysBelongToFlushes' /\ KeysInOrder'
<1> USE DEF InTransaction
<1>1. TypeOK /\ TypeOK' /\ OnlyMoves(p)
  BY StepTypes DEF IInv
<1>2. None \notin Processes /\ Events \subseteq Nat
  BY EventViewsAssumption
<1>3. CASE Waits(p)
  <2>1. \A q \in Processes : (InTransaction(q) => InTransaction(q)') /\ to_lock'[q] = to_lock[q]
    BY <1>1, <1>3 DEF Waits, OnlyMoves
  <2> QED
    BY <1>1, <1>3, <2>1 DEF IInv, TypeOK, Waits, KeysBelongToFlushes, KeysInOrder
<1>4. CASE Idles(p)
  <2>1. \A e \in Events : key_lock'[e] = key_lock[e] /\ key_lock[e] # p
    BY <1>2, <1>4 DEF IInv, Idles, KeysBelongToFlushes
  <2>2. to_lock[p] = {}
    BY <1>4 DEF IInv, KeysBelongToFlushes, Idles
  <2>3. \A q \in Processes : q # p => worker'[q] = worker[q] /\ to_lock'[q] = to_lock[q]
    BY <1>1 DEF OnlyMoves
  <2>4. KeysBelongToFlushes'
    <3>1. \A e \in Events : key_lock'[e] # None => InTransaction(key_lock[e])'
      <4> SUFFICES ASSUME NEW e \in Events, key_lock'[e] # None
                   PROVE  InTransaction(key_lock[e])'
        OBVIOUS
      <4>1. key_lock[e] \in Processes /\ key_lock[e] # p /\ key_lock'[e] = key_lock[e]
        BY <1>1, <2>1 DEF TypeOK
      <4> QED
        BY <2>3, <4>1 DEF IInv, KeysBelongToFlushes
    <3>2. \A q \in Processes : to_lock'[q] # {} => InTransaction(q)'
      BY <1>4, <2>2, <2>3 DEF IInv, Idles, KeysBelongToFlushes
    <3> QED
      BY <3>1, <3>2 DEF KeysBelongToFlushes
  <2>5. KeysInOrder'
    BY <1>1, <2>1, <2>3 DEF IInv, KeysInOrder
  <2> QED
    BY <2>4, <2>5
<1>5. CASE LockKey(p)
  <2>1. PICK e \in Events : /\ NextKey(p, e)
                            /\ key_lock[e] = None
                            /\ key_lock' = [key_lock EXCEPT ![e] = p]
                            /\ to_lock' = [to_lock EXCEPT ![p] = @ \ {e}]
    BY <1>5 DEF LockKey
  <2>2. worker' = worker /\ worker[p] = "flushing"
    BY <1>5 DEF LockKey
  <2>3. KeysBelongToFlushes'
    <3>1. /\ \A f \in Events : key_lock'[f] = key_lock[f] \/ key_lock'[f] = p
          /\ \A q \in Processes : to_lock'[q] \subseteq to_lock[q]
      BY <2>1 DEF IInv, TypeOK
    <3> QED
      BY <2>2, <3>1 DEF IInv, KeysBelongToFlushes
  <2>4. KeysInOrder'
    <3> SUFFICES ASSUME NEW q \in Processes, NEW f \in Events, NEW g \in Events,
                        key_lock'[f] = q, g \in to_lock'[q]
                 PROVE  f < g
      BY DEF KeysInOrder
    <3>1. CASE f = e
      <4>1. q = p /\ g \in to_lock[p] /\ g # e
        BY <1>1, <2>1, <3>1 DEF TypeOK
      <4> QED
        BY <1>2, <2>1, <3>1, <4>1 DEF NextKey
    <3>2. CASE f # e
      <4>1. key_lock[f] = q /\ g \in to_lock[q]
        BY <1>1, <2>1, <3>2 DEF TypeOK
      <4> QED
        BY <4>1 DEF IInv, KeysInOrder
    <3> QED
      BY <3>1, <3>2
  <2> QED
    BY <2>3, <2>4
<1>6. CASE Ends(p)
  <2>1. /\ \A e \in Events : key_lock'[e] = IF key_lock[e] = p THEN None ELSE key_lock[e]
        /\ to_lock'[p] = {}
    BY <1>1, <1>6 DEF Ends, EndTransaction, TypeOK
  <2>2. \A q \in Processes : q # p => worker'[q] = worker[q] /\ to_lock'[q] = to_lock[q]
    BY <1>1 DEF OnlyMoves
  <2>3. KeysBelongToFlushes'
    <3>1. \A e \in Events : key_lock'[e] # None => InTransaction(key_lock[e])'
      <4> SUFFICES ASSUME NEW e \in Events, key_lock'[e] # None
                   PROVE  InTransaction(key_lock[e])'
        OBVIOUS
      <4>1. key_lock[e] \in Processes /\ key_lock[e] # p /\ key_lock'[e] = key_lock[e]
        BY <1>1, <2>1 DEF TypeOK
      <4> QED
        BY <2>2, <4>1 DEF IInv, KeysBelongToFlushes
    <3>2. \A q \in Processes : to_lock'[q] # {} => InTransaction(q)'
      BY <2>1, <2>2 DEF IInv, KeysBelongToFlushes
    <3> QED
      BY <3>1, <3>2 DEF KeysBelongToFlushes
  <2>4. KeysInOrder'
    BY <1>1, <1>2, <2>1, <2>2 DEF IInv, KeysInOrder
  <2> QED
    BY <2>3, <2>4
<1> QED
  BY <1>1, <1>3, <1>4, <1>5, <1>6, LockSteps

-----------------------------------------------------------------------------
(***************************************************************************)
(* The signal.                                                             *)
(***************************************************************************)
Orderly(p) ==
    /\ app[p] = "starting" => worker[p] = "none"
    /\ app[p] \in {"starting", "serving", "signalling"} =>
         ~last[p] /\ \A i \in 1 .. Len(queue[p]) : queue[p][i] # None
    /\ \A i \in 1 .. Len(queue[p]) : queue[p][i] = None => i = Len(queue[p])
    /\ last[p] => queue[p] = <<>>
    /\ worker[p] = "returned" => last[p]

\* The order of the queues, process by process.
LEMMA OrderlyAll == NoneComesLast <=> \A p \in Processes : Orderly(p)
BY DEF NoneComesLast, Orderly

\* The signal goes in once, and nothing goes in behind it.
LEMMA StepKeepsOrder ==
    ASSUME IInv, NEW p \in Processes, ProcessStep(p)
    PROVE  NoneComesLast'
<1>1. TypeOK /\ TypeOK' /\ OnlyMoves(p)
  BY StepTypes DEF IInv
<1>2. Orderly(p) /\ queue[p] \in Seq(Events \cup {None}) /\ Len(queue[p]) \in Nat
  BY <1>1, OrderlyAll DEF IInv, TypeOK
<1> USE DEF TypeOK, table, memory, run, lifespan, counts
<1>0. ASSUME start(p) PROVE Orderly(p)'
  BY <1>0, <1>1, <1>2 DEF start, Orderly
<1>3. ASSUME NEW e \in Events, submit(p, e) PROVE Orderly(p)'
  <2>1. queue'[p] = Append(queue[p], e) /\ e # None /\ app[p] = "serving"
    BY <1>1, <1>3, EventViewsAssumption DEF submit
  <2>2. \A i \in 1 .. Len(queue'[p]) : queue'[p][i] # None
    BY <1>2, <2>1, Enqueue DEF Orderly
  <2> QED
    BY <1>1, <1>2, <1>3, <2>1, <2>2 DEF submit, Orderly
<1>4. ASSUME GetView(p) PROVE Orderly(p)'
  <2>1. /\ queue'[p] = Tail(queue[p]) /\ queue[p] # <<>> /\ last'[p] = last[p] /\ app'[p] = app[p]
        /\ worker'[p] # "returned" /\ app[p] # "starting"
    BY <1>1, <1>2, <1>4 DEF GetView, BeginFlush, Orderly
  <2>2. /\ ~last[p]
        /\ \A i \in 1 .. Len(queue'[p]) : i + 1 \in 1 .. Len(queue[p]) /\ queue'[p][i] = queue[p][i + 1]
        /\ Len(queue'[p]) = Len(queue[p]) - 1
    BY <1>2, <2>1, Dequeue DEF Orderly
  <2>3. /\ \A i \in 1 .. Len(queue'[p]) : queue'[p][i] = None => i = Len(queue'[p])
        /\ app[p] \in {"starting", "serving", "signalling"} => \A i \in 1 .. Len(queue'[p]) : queue'[p][i] # None
    BY <1>2, <2>1, <2>2 DEF Orderly
  <2> QED
    BY <2>1, <2>2, <2>3 DEF Orderly
<1>5. ASSUME GetNone(p) PROVE Orderly(p)'
  <2>1. queue[p] # <<>> /\ queue[p][1] = None /\ queue'[p] = Tail(queue[p]) /\ app'[p] = app[p]
    BY <1>1, <1>2, <1>5, Dequeue DEF GetNone
  <2>2. 1 \in 1 .. Len(queue[p])
    BY <1>2, <2>1, Dequeue
  <2>3. Len(queue[p]) = 1 /\ app[p] \notin {"starting", "serving", "signalling"}
    BY <1>2, <2>1, <2>2 DEF Orderly
  <2>4. Tail(queue[p]) \in Seq(Events \cup {None}) /\ Len(Tail(queue[p])) = 0
    BY <1>2, <2>1, <2>3, Dequeue
  <2>5. queue'[p] = <<>>
    BY <2>1, <2>4, EmptySeq
  <2>6. last'[p]
    BY <1>1, <1>5 DEF GetNone
  <2>7. Len(queue'[p]) = 0
    BY <2>1, <2>4
  <2>8. \A i \in 1 .. Len(queue'[p]) : i = Len(queue'[p])
    BY <2>7
  <2>9. app'[p] \notin {"starting", "serving", "signalling"}
    BY <2>1, <2>3
  <2> QED
    BY <2>5, <2>6, <2>8, <2>9, Zenon DEF Orderly
<1>6. ASSUME DeadlinePasses(p) PROVE Orderly(p)'
  BY <1>1, <1>2, <1>6 DEF DeadlinePasses, BeginFlush, AfterFlush, Orderly
<1>7. ASSUME LockKey(p) PROVE Orderly(p)'
  BY <1>1, <1>2, <1>7 DEF LockKey, Orderly
<1>8. ASSUME CommitFlush(p) \/ FlushFails(p) \/ CancelFails(p) PROVE Orderly(p)'
  <2>1. /\ queue'[p] = queue[p] /\ last'[p] = last[p] /\ app'[p] = app[p]
        /\ worker'[p] = "returned" => last[p]
        /\ app[p] # "starting"
    BY <1>1, <1>2, <1>8 DEF CommitFlush, FlushFails, CancelFails, AfterFlush, Orderly
  <2> QED
    BY <1>2, <2>1 DEF Orderly
<1>9. ASSUME BeginStop(p) PROVE Orderly(p)'
  BY <1>1, <1>2, <1>9 DEF BeginStop, Orderly
<1>10. ASSUME PutNone(p) PROVE Orderly(p)'
  <2>1. /\ queue'[p] = Append(queue[p], None) /\ app[p] = "signalling" /\ app'[p] = "joining"
        /\ last'[p] = last[p] /\ worker'[p] = worker[p]
    BY <1>1, <1>10 DEF PutNone
  <2>2. \A i \in 1 .. Len(queue'[p]) : queue'[p][i] = None => i = Len(queue'[p])
    BY <1>2, <2>1, Enqueue DEF Orderly
  <2> QED
    BY <1>2, <2>1, <2>2 DEF Orderly
<1>11. ASSUME Join(p) PROVE Orderly(p)'
  BY <1>1, <1>2, <1>11 DEF Join, Orderly
<1>12. ASSUME StopTimesOut(p) \/ CancelEnds(p) \/ Crash(p) PROVE Orderly(p)'
  <2>1. /\ queue'[p] = queue[p] /\ last'[p] = last[p]
        /\ app'[p] = app[p] \/ app'[p] \in {"awaiting", "crashed"}
        /\ worker'[p] = "returned" => worker[p] = "returned"
        /\ app'[p] = "starting" => worker[p] # "none"
    BY <1>1, <1>12 DEF StopTimesOut, CancelEnds, Crash
  <2> QED
    BY <1>2, <2>1 DEF Orderly
<1>13. Orderly(p)'
  BY <1>0, <1>3, <1>4, <1>5, <1>6, <1>7, <1>8, <1>9, <1>10, <1>11, <1>12, ProcessStep(p)
     DEF ProcessStep, Collect, Take, Write, stop, LeaveFlush
<1>14. ASSUME NEW q \in Processes, q # p PROVE Orderly(q)'
  <2>1. Orderly(q)
    BY OrderlyAll DEF IInv
  <2>2. queue'[q] = queue[q] /\ last'[q] = last[q] /\ app'[q] = app[q] /\ worker'[q] = worker[q]
    BY <1>1, <1>14 DEF OnlyMoves
  <2> QED
    BY <2>1, <2>2 DEF Orderly
<1> QED
  BY <1>13, <1>14 DEF NoneComesLast, Orderly

\* Every step keeps the invariant.
LEMMA InductiveStep == IInv /\ [Next]_vars => IInv'
<1> SUFFICES ASSUME IInv, [Next]_vars PROVE IInv'
  OBVIOUS
<1>1. ASSUME NEW p \in Processes, ProcessStep(p) PROVE IInv'
  BY <1>1, StepTypes, StepKeepsKeys, StepKeepsOrder DEF IInv
<1>2. CASE Tick
  BY <1>2 DEF Tick, OneLess, table, memory, counts, IInv, TypeOK, InTransaction, KeysBelongToFlushes, KeysInOrder,
              NoneComesLast
<1>3. CASE UNCHANGED vars
  BY <1>3 DEF vars, table, memory, run, lifespan, counts, IInv, TypeOK, InTransaction, KeysBelongToFlushes,
              KeysInOrder, NoneComesLast
<1> QED
  BY <1>1, <1>2, <1>3 DEF Next, ProcessStep, Rest

\* The invariant that orders the locks and the signal.
THEOREM EventViewsInvariant == Spec => []IInv
<1> QED
  BY InitInvariant, InductiveStep, PTL DEF Spec

\* Every variable keeps its type.
THEOREM EventViewsTypeCorrect == Spec => []TypeOK
<1>1. IInv => TypeOK
  BY DEF IInv
<1> QED
  BY <1>1, EventViewsInvariant, PTL

\* sorted(): the greatest key that is held and waited for among the processes of
\* a set is held by one that waits for a still greater key.
THEOREM FlushesNeverDeadlock == Spec => []NoFlushDeadlock
<1>1. ASSUME IInv PROVE NoFlushDeadlock
  <2> SUFFICES ASSUME NEW S \in SUBSET Processes, S # {},
                      \A p \in S : \E q \in S : WaitsFor(p, q)
               PROVE  FALSE
    BY DEF NoFlushDeadlock
  <2> DEFINE Contended == {e \in Events : \E p \in S : NextKey(p, e) /\ key_lock[e] \in S}
  <2>1. Contended # {}
    BY DEF WaitsFor
  <2>2. PICK m \in Contended : \A e \in Contended : e <= m
    <3>1. Contended \subseteq Events
      OBVIOUS
    <3> HIDE DEF Contended
    <3>2. IsFiniteSet(Contended) /\ Contended \subseteq Nat
      BY <3>1, EventViewsAssumption, FS_Subset
    <3> QED
      BY <2>1, <3>2, GreatestElement
  <2>3. PICK q \in S : key_lock[m] = q
    BY <2>2
  <2>4. PICK n \in Contended : NextKey(q, n)
    BY <2>3 DEF WaitsFor
  <2>5. m < n
    BY <1>1, <2>2, <2>3, <2>4 DEF IInv, KeysInOrder, NextKey
  <2>6. n <= m /\ m \in Nat /\ n \in Nat
    BY <2>2, <2>4, EventViewsAssumption
  <2> QED
    BY <2>5, <2>6
<1> QED
  BY EventViewsInvariant, <1>1, PTL

-----------------------------------------------------------------------------
\* As long as no flush has failed, a worker returns from its last flush with an empty batch.
LEMMA LastFlushStep ==
    ASSUME IInv, ReturnedWorkerLeavesNothing, [Next]_vars, failures' = 0
    PROVE  \A p \in Processes : worker'[p] = "returned" => batch'[p] = NoViews
<1> USE DEF IInv, TypeOK, table, memory, run, lifespan, counts
<1>1. ASSUME NEW p \in Processes, ProcessStep(p), NEW q \in Processes, worker'[q] = "returned"
      PROVE  batch'[q] = NoViews
  <2>0. ~FlushFails(p) /\ ~CancelFails(p) /\ failures = 0
    BY <1>1 DEF ProcessStep, start, Collect, Take, Write, stop, submit, GetView, GetNone, DeadlinePasses,
                LockKey, CommitFlush, FlushFails, BeginStop, PutNone, Join, StopTimesOut, LeaveFlush,
                CancelEnds, CancelFails, Crash
  <2>1. CASE q # p
    BY <1>1, <2>0, <2>1, StepTypes DEF OnlyMoves, ReturnedWorkerLeavesNothing, NothingLeft
  <2>2. CASE q = p
    <3>1. ~FlushFails(p) /\ ~CancelFails(p) /\ failures = 0
      BY <2>0
    <3>2. CASE CommitFlush(p)
      BY <2>2, <3>2 DEF CommitFlush
    <3>3. CASE GetNone(p)
      <4>1. Viewed(batch[p]) = {} /\ batch' = batch
        BY <1>1, <2>2, <3>3 DEF GetNone, BeginFlush
      <4>2. batch[p] \in Views
        OBVIOUS
      <4>3. \A e \in Events : batch[p][e] = 0
        BY <4>1, <4>2 DEF Viewed, Views
      <4> QED
        BY <2>2, <4>1, <4>2, <4>3 DEF NoViews, Views
    <3>4. CASE DeadlinePasses(p)
      <4>1. last[p]
        BY <1>1, <2>2, <3>4 DEF DeadlinePasses, BeginFlush, AfterFlush
      <4>2. Viewed(batch[p]) = {} /\ batch' = batch
        BY <1>1, <2>2, <3>4 DEF DeadlinePasses, BeginFlush
      <4>3. batch[p] \in Views
        OBVIOUS
      <4>4. \A e \in Events : batch[p][e] = 0
        BY <4>2, <4>3 DEF Viewed, Views
      <4> QED
        BY <2>2, <4>2, <4>3, <4>4 DEF NoViews, Views
    <3>5. CASE worker[p] = "returned"
      BY <1>1, <2>2, <3>1, <3>5
         DEF ProcessStep, start, Collect, Take, Write, stop, submit, GetView, GetNone, DeadlinePasses,
             LockKey, CommitFlush, BeginStop, PutNone, Join, StopTimesOut, LeaveFlush, CancelEnds, Crash,
             ReturnedWorkerLeavesNothing, NothingLeft
    <3> QED
      BY <1>1, <2>2, <3>1, <3>2, <3>3, <3>4, <3>5
         DEF ProcessStep, start, Collect, Take, Write, stop, submit, GetView, BeginFlush, LockKey,
             BeginStop, PutNone, Join, StopTimesOut, LeaveFlush, CancelEnds, Crash
  <2> QED
    BY <2>1, <2>2
<1>2. CASE Tick
  BY <1>2 DEF Tick, ReturnedWorkerLeavesNothing, NothingLeft
<1>3. CASE UNCHANGED vars
  BY <1>3 DEF vars, ReturnedWorkerLeavesNothing, NothingLeft
<1> QED
  BY <1>1, <1>2, <1>3 DEF Next, ProcessStep, Rest

\* stop "sends the rest to the database and stops the worker", as long as no
\* flush fails: the signal is behind every view, and the worker returns only
\* after it has written what it took before.
THEOREM StopLeavesNothing == Spec => []ReturnedWorkerLeavesNothing
<1>1. Init => ReturnedWorkerLeavesNothing
  BY DEF Init, ReturnedWorkerLeavesNothing
<1>2. IInv /\ IInv' /\ ReturnedWorkerLeavesNothing /\ [Next]_vars => ReturnedWorkerLeavesNothing'
  <2> SUFFICES ASSUME IInv, IInv', ReturnedWorkerLeavesNothing, [Next]_vars, failures' = 0
               PROVE  \A p \in Processes : worker'[p] = "returned" => NothingLeft(p)'
    BY DEF ReturnedWorkerLeavesNothing
  <2>1. \A p \in Processes : worker'[p] = "returned" => queue'[p] = <<>>
    BY DEF IInv, NoneComesLast
  <2> QED
    BY <2>1, LastFlushStep DEF NothingLeft, NoViews
<1> QED
  BY <1>1, <1>2, EventViewsInvariant, PTL DEF Spec

-----------------------------------------------------------------------------
(***************************************************************************)
(* Counting views.                                                         *)
(***************************************************************************)
Places(q, e) == {i \in DOMAIN q : q[i] = e}

\* The places an event has in a queue are so many.
LEMMA PlacesType ==
    ASSUME NEW q \in Seq(Events \cup {None}), NEW e
    PROVE  IsFiniteSet(Places(q, e)) /\ Cardinality(Places(q, e)) \in Nat
<1>1. DOMAIN q = 1 .. Len(q) /\ Len(q) \in Nat
  OBVIOUS
<1>2. IsFiniteSet(1 .. Len(q))
  BY <1>1, FS_Interval
<1>3. Places(q, e) \in SUBSET (1 .. Len(q))
  BY <1>1 DEF Places
<1>4. IsFiniteSet(Places(q, e))
  BY <1>2, <1>3, FS_Subset
<1> QED
  BY <1>4, FS_CardinalityType

\* A view more at the end of a queue is one more of its event.
LEMMA AppendedViews ==
    ASSUME NEW q \in Seq(Events \cup {None}), NEW r \in Seq(Events \cup {None}), NEW e,
           Len(r) = Len(q) + 1, \A i \in 1 .. Len(q) : r[i] = q[i]
    PROVE  Cardinality(Places(r, e)) =
             Cardinality(Places(q, e)) + IF r[Len(q) + 1] = e THEN 1 ELSE 0
<1>1. /\ DOMAIN q = 1 .. Len(q) /\ DOMAIN r = 1 .. Len(q) + 1
      /\ Len(q) \in Nat
  OBVIOUS
<1>2. Places(r, e) = IF r[Len(q) + 1] = e THEN Places(q, e) \cup {Len(q) + 1} ELSE Places(q, e)
  BY <1>1 DEF Places
<1>3. Len(q) + 1 \notin Places(q, e)
  BY <1>1 DEF Places
<1>4. IsFiniteSet(Places(q, e)) /\ Cardinality(Places(q, e)) \in Nat
  BY PlacesType
<1>5. Cardinality(Places(q, e) \cup {Len(q) + 1}) = Cardinality(Places(q, e)) + 1
  BY <1>3, <1>4, FS_AddElement
<1> QED
  BY <1>2, <1>4, <1>5

\* Without its head a queue has one view less of that event.
LEMMA RemainingViews ==
    ASSUME NEW q \in Seq(Events \cup {None}), q # <<>>, NEW e
    PROVE  Cardinality(Places(q, e)) = Cardinality(Places(Tail(q), e)) + IF Head(q) = e THEN 1 ELSE 0
<1> DEFINE Behind == {i \in 2 .. Len(q) : q[i] = e}
<1>1. /\ DOMAIN q = 1 .. Len(q) /\ DOMAIN Tail(q) = 1 .. Len(q) - 1
      /\ \A i \in 1 .. Len(q) - 1 : Tail(q)[i] = q[i + 1]
      /\ Head(q) = q[1]
      /\ Len(q) \in Nat \ {0}
  BY Dequeue
<1>2. IsFiniteSet(Behind) /\ IsFiniteSet(Places(Tail(q), e))
  <2>1. IsFiniteSet(2 .. Len(q)) /\ Behind \in SUBSET (2 .. Len(q))
    BY <1>1, FS_Interval
  <2> HIDE DEF Behind
  <2> QED
    BY <2>1, FS_Subset, PlacesType, Dequeue
<1>3. Cardinality(Behind) = Cardinality(Places(Tail(q), e))
  <2> DEFINE move == [i \in Places(Tail(q), e) |-> i + 1]
  <2>1. move \in Bijection(Places(Tail(q), e), Behind)
    <3>1. move \in [Places(Tail(q), e) -> Behind]
      BY <1>1 DEF Places
    <3>2. \A i, j \in Places(Tail(q), e) : move[i] = move[j] => i = j
      BY <1>1 DEF Places
    <3>3. \A j \in Behind : \E i \in Places(Tail(q), e) : move[i] = j
      <4> SUFFICES ASSUME NEW j \in Behind PROVE j - 1 \in Places(Tail(q), e) /\ move[j - 1] = j
        OBVIOUS
      <4>1. j - 1 \in 1 .. Len(q) - 1 /\ Tail(q)[j - 1] = q[j]
        BY <1>1
      <4> QED
        BY <1>1, <4>1 DEF Places
    <3> QED
      BY <3>1, <3>2, <3>3 DEF Bijection, Injection, IsInjective, Surjection
  <2> QED
    BY <1>2, <2>1, FS_Bijection DEF ExistsBijection
<1>4. Places(q, e) = IF Head(q) = e THEN Behind \cup {1} ELSE Behind
  BY <1>1 DEF Places
<1>5. 1 \notin Behind
  OBVIOUS
<1>6. Cardinality(Behind) \in Nat /\ Cardinality(Behind \cup {1}) = Cardinality(Behind) + 1
  BY <1>2, <1>5, FS_CardinalityType, FS_AddElement
<1> QED
  BY <1>3, <1>4, <1>6

\* The number of views in a queue, before and after a step.
LEMMA InQueueType ==
    ASSUME TypeOK, TypeOK', NEW p \in Processes, NEW e
    PROVE  /\ InQueue(p, e) = Cardinality(Places(queue[p], e)) /\ InQueue(p, e) \in Nat
           /\ InQueue(p, e)' = Cardinality(Places(queue'[p], e)) /\ InQueue(p, e)' \in Nat
<1>1. queue[p] \in Seq(Events \cup {None}) /\ queue'[p] \in Seq(Events \cup {None})
  BY DEF TypeOK
<1>2. Cardinality(Places(queue[p], e)) \in Nat /\ Cardinality(Places(queue'[p], e)) \in Nat
  BY <1>1, PlacesType
<1>3. InQueue(p, e) = Cardinality(Places(queue[p], e))
  BY DEF InQueue, Places
<1>4. InQueue(p, e)' = Cardinality(Places(queue'[p], e))
  BY DEF InQueue, Places
<1> QED
  BY <1>2, <1>3, <1>4

\* What a step of p gives to the process, and what it takes from it.
Balanced(p, e) ==
    accepted'[p][e] + repeated'[p][e] + event_views[e] + InQueue(p, e) + batch[p][e]
        = accepted[p][e] + repeated[p][e] + event_views'[e] + InQueue(p, e)' + batch'[p][e]

\* Every step of a process is balanced, for each event.
LEMMA StepBalances ==
    ASSUME TypeOK, NEW p \in Processes, ProcessStep(p), NEW e \in Events
    PROVE  Balanced(p, e)
<1> USE DEF table, memory, run, lifespan, counts
<1>0. /\ TypeOK'
      /\ InQueue(p, e) = Cardinality(Places(queue[p], e))
      /\ InQueue(p, e)' = Cardinality(Places(queue'[p], e)) /\ InQueue(p, e)' \in Nat
  BY StepTypes, InQueueType
<1>1. /\ queue[p] \in Seq(Events \cup {None}) /\ InQueue(p, e) \in Nat
      /\ accepted \in [Processes -> Views] /\ repeated \in [Processes -> Views]
      /\ batch \in [Processes -> Views] /\ event_views \in Views
      /\ accepted[p][e] \in Nat /\ repeated[p][e] \in Nat
      /\ event_views[e] \in Nat /\ batch[p][e] \in Nat
  BY <1>0, InQueueType DEF TypeOK, Views
<1>2. ASSUME queue'[p] = queue[p] PROVE InQueue(p, e)' = InQueue(p, e)
  BY <1>0, <1>2
<1>3. ASSUME NEW x \in Events, submit(p, x) PROVE Balanced(p, e)
  <2>1. queue'[p] = Append(queue[p], x) /\ UNCHANGED <<repeated, event_views, batch>>
    BY <1>3 DEF submit, TypeOK
  <2>2. accepted'[p][e] = accepted[p][e] + IF x = e THEN 1 ELSE 0
    BY <1>1, <1>3 DEF submit, Views
  <2>3. InQueue(p, e)' = InQueue(p, e) + IF x = e THEN 1 ELSE 0
    <3>1. /\ queue'[p] \in Seq(Events \cup {None}) /\ Len(queue'[p]) = Len(queue[p]) + 1
          /\ queue'[p][Len(queue[p]) + 1] = x
          /\ \A i \in 1 .. Len(queue[p]) : queue'[p][i] = queue[p][i]
      BY <1>1, <2>1, Enqueue
    <3>2. Cardinality(Places(queue'[p], e)) =
            Cardinality(Places(queue[p], e)) + IF queue'[p][Len(queue[p]) + 1] = e THEN 1 ELSE 0
      BY <1>1, <3>1, AppendedViews, Zenon
    <3> QED
      BY <1>0, <3>1, <3>2
  <2>4. /\ repeated'[p][e] = repeated[p][e] /\ event_views'[e] = event_views[e]
        /\ batch'[p][e] = batch[p][e]
    BY <2>1
  <2> QED
    BY <1>1, <2>2, <2>3, <2>4 DEF Balanced
<1>4. CASE PutNone(p)
  <2>1. /\ queue'[p] = Append(queue[p], None) /\ None # e
        /\ UNCHANGED <<accepted, repeated, event_views, batch>>
    BY <1>4, EventViewsAssumption DEF PutNone, TypeOK
  <2>2. /\ queue'[p] \in Seq(Events \cup {None}) /\ Len(queue'[p]) = Len(queue[p]) + 1
        /\ \A i \in 1 .. Len(queue[p]) : queue'[p][i] = queue[p][i]
    BY <1>1, <2>1, Enqueue
  <2>3. InQueue(p, e)' = InQueue(p, e)
    <3>0. queue'[p][Len(queue[p]) + 1] # e
      BY <1>1, <2>1, Enqueue
    <3>1. Cardinality(Places(queue'[p], e)) =
            Cardinality(Places(queue[p], e)) + IF queue'[p][Len(queue[p]) + 1] = e THEN 1 ELSE 0
      BY <1>1, <2>2, AppendedViews, Zenon
    <3> QED
      BY <1>0, <1>1, <3>0, <3>1
  <2> QED
    BY <1>1, <2>1, <2>3 DEF Balanced
<1>5. CASE GetView(p)
  <2>1. /\ queue[p] # <<>> /\ queue'[p] = Tail(queue[p])
        /\ UNCHANGED <<accepted, repeated, event_views>>
        /\ CountView(p, Head(queue[p])) /\ Head(queue[p]) \in Events
    BY <1>1, <1>5, Dequeue DEF GetView, TypeOK
  <2>2. batch'[p][e] = batch[p][e] + IF Head(queue[p]) = e THEN 1 ELSE 0
    BY <1>1, <2>1 DEF CountView, Views
  <2>3. InQueue(p, e) = InQueue(p, e)' + IF Head(queue[p]) = e THEN 1 ELSE 0
    BY <1>0, <1>1, <2>1, RemainingViews
  <2> QED
    BY <1>0, <1>1, <2>1, <2>2, <2>3 DEF Balanced
<1>6. CASE GetNone(p)
  <2>1. /\ queue[p] # <<>> /\ queue'[p] = Tail(queue[p])
        /\ UNCHANGED <<accepted, repeated, event_views, batch>>
        /\ Head(queue[p]) = None /\ None # e
    BY <1>6, EventViewsAssumption DEF GetNone, TypeOK
  <2>2. Cardinality(Places(queue[p], e)) = Cardinality(Places(Tail(queue[p]), e)) + IF Head(queue[p]) = e THEN 1 ELSE 0
    BY <1>1, <2>1, RemainingViews
  <2>3. InQueue(p, e) = InQueue(p, e)'
    BY <1>0, <1>1, <2>1, <2>2
  <2> QED
    BY <1>1, <2>1, <2>3 DEF Balanced
<1>7. CASE CommitFlush(p)
  <2>1. /\ queue' = queue /\ UNCHANGED <<accepted, repeated>>
        /\ event_views'[e] = event_views[e] + batch[p][e]
        /\ batch'[p][e] = 0
    BY <1>1, <1>7 DEF CommitFlush, Plus, NoViews
  <2> QED
    BY <1>1, <1>2, <2>1 DEF Balanced
<1>8. CASE FlushFails(p) \/ CancelEnds(p) \/ Crash(p)
  <2>1. queue' = queue /\ batch' = batch /\ accepted' = accepted /\ Unacknowledged(p)
    BY <1>8 DEF FlushFails, CancelEnds, Crash
  <2>2. \/ UNCHANGED <<event_views, repeated>>
        \/ /\ event_views'[e] = event_views[e] + batch[p][e]
           /\ repeated'[p][e] = repeated[p][e] + batch[p][e]
    BY <1>1, <2>1 DEF Unacknowledged, Plus
  <2> QED
    BY <1>1, <1>2, <2>1, <2>2 DEF Balanced
<1>9. CASE start(p) \/ DeadlinePasses(p) \/ LockKey(p) \/ BeginStop(p) \/ Join(p)
           \/ StopTimesOut(p) \/ CancelFails(p)
  <2>1. UNCHANGED <<queue, batch, accepted, repeated, event_views>>
    BY <1>9 DEF start, DeadlinePasses, LockKey, BeginStop, Join, StopTimesOut, CancelFails
  <2> QED
    BY <1>1, <1>2, <2>1 DEF Balanced
<1> QED
  BY <1>3, <1>4, <1>5, <1>6, <1>7, <1>8, <1>9 DEF ProcessStep, Collect, Take, Write, stop, LeaveFlush

\* A balanced step of one process keeps the sums in balance.
LEMMA StepConserves ==
    ASSUME TypeOK, ViewsAreConserved, NEW p \in Processes, ProcessStep(p)
    PROVE  ViewsAreConserved'
<1> SUFFICES ASSUME NEW e \in Events
             PROVE  SumFunction(Received(e)') = event_views'[e] + SumFunction(Waiting(e)')
  BY DEF ViewsAreConserved
<1>1. TypeOK' /\ OnlyMoves(p) /\ IsFiniteSet(Processes)
  BY StepTypes, EventViewsAssumption
<1> DEFINE Queued(q) == InQueue(q, e)
<1>2. /\ Received(e) = [q \in Processes |-> accepted[q][e] + repeated[q][e]]
      /\ Received(e)' = [q \in Processes |-> accepted'[q][e] + repeated'[q][e]]
      /\ Waiting(e) = [q \in Processes |-> Queued(q) + batch[q][e]]
      /\ Waiting(e)' = [q \in Processes |-> Queued(q)' + batch'[q][e]]
  BY DEF Received, Waiting
<1>3. \A q \in Processes :
        /\ accepted[q][e] \in Nat /\ repeated[q][e] \in Nat /\ batch[q][e] \in Nat
        /\ accepted'[q][e] \in Nat /\ repeated'[q][e] \in Nat /\ batch'[q][e] \in Nat
  BY <1>1 DEF TypeOK, Views
<1>4. \A q \in Processes : Queued(q) \in Nat /\ Queued(q)' \in Nat
  BY <1>1, InQueueType
<1>5. event_views[e] \in Nat /\ event_views'[e] \in Nat
  BY <1>1 DEF TypeOK, Views
<1>6. \A q \in Processes \ {p} :
        /\ accepted'[q] = accepted[q] /\ repeated'[q] = repeated[q] /\ batch'[q] = batch[q]
        /\ Queued(q)' = Queued(q)
  <2>1. \A q \in Processes \ {p} : queue'[q] = queue[q]
    BY <1>1 DEF OnlyMoves
  <2> QED
    BY <1>1, <2>1, InQueueType DEF OnlyMoves
<1> HIDE DEF Queued
<1>7. /\ Received(e) \in [Processes -> Nat] /\ Received(e)' \in [Processes -> Nat]
      /\ Waiting(e) \in [Processes -> Nat] /\ Waiting(e)' \in [Processes -> Nat]
      /\ \A q \in Processes \ {p} : Received(e)'[q] = Received(e)[q] /\ Waiting(e)'[q] = Waiting(e)[q]
  BY <1>2, <1>3, <1>4, <1>6
<1>8. /\ SumFunction(Received(e)') + Received(e)[p] = SumFunction(Received(e)) + Received(e)'[p]
      /\ SumFunction(Waiting(e)') + Waiting(e)[p] = SumFunction(Waiting(e)) + Waiting(e)'[p]
  BY <1>1, <1>7, SumOfChange
<1>9. /\ SumFunction(Received(e)) \in Nat /\ SumFunction(Received(e)') \in Nat
      /\ SumFunction(Waiting(e)) \in Nat /\ SumFunction(Waiting(e)') \in Nat
  BY <1>1, <1>7, SumType
<1>10. Received(e)'[p] + event_views[e] + Waiting(e)[p] = Received(e)[p] + event_views'[e] + Waiting(e)'[p]
  <2>1. Balanced(p, e)
    BY StepBalances
  <2> QED
    BY <1>2, <1>3, <1>4, <1>5, <2>1 DEF Balanced, Queued
<1>11. SumFunction(Received(e)) = event_views[e] + SumFunction(Waiting(e))
  BY DEF ViewsAreConserved
<1>12. /\ Received(e)[p] \in Nat /\ Received(e)'[p] \in Nat
       /\ Waiting(e)[p] \in Nat /\ Waiting(e)'[p] \in Nat
  BY <1>7
<1> QED
  BY <1>5, <1>8, <1>9, <1>10, <1>11, <1>12

\* No view is lost or counted twice between submit and the table, whatever fails
\* or dies on the way: what a process has received is stored, or still with it.
THEOREM NoViewIsLost == Spec => []ViewsAreConserved
<1>1. ASSUME Init PROVE ViewsAreConserved
  <2> SUFFICES ASSUME NEW e \in Events
               PROVE  SumFunction(Received(e)) = event_views[e] + SumFunction(Waiting(e))
    BY DEF ViewsAreConserved
  <2>1. \A p \in Processes : InQueue(p, e) = 0
    <3>1. {i \in DOMAIN <<>> : <<>>[i] = e} = {}
      OBVIOUS
    <3> QED
      BY <1>1, <3>1, FS_EmptySet DEF Init, InQueue
  <2>2. Received(e) = [p \in Processes |-> 0] /\ Waiting(e) = [p \in Processes |-> 0]
    BY <1>1, <2>1 DEF Init, Received, Waiting, NoViews
  <2>3. SumFunction([p \in Processes |-> 0]) = 0
    BY SumOfZeros, EventViewsAssumption
  <2> QED
    BY <1>1, <2>2, <2>3 DEF Init, NoViews
<1>2. ASSUME UNCHANGED <<queue, batch, accepted, repeated, event_views>>, ViewsAreConserved
      PROVE  ViewsAreConserved'
  BY <1>2 DEF ViewsAreConserved, Received, Waiting, InQueue
<1>3. IInv /\ ViewsAreConserved /\ [Next]_vars => ViewsAreConserved'
  BY <1>2, StepConserves
     DEF Next, ProcessStep, Rest, Tick, vars, table, memory, counts, IInv
<1> QED
  BY <1>1, <1>3, EventViewsInvariant, PTL DEF Spec

\* The worker counts its batch rightly: what decides when to flush, and what a
\* failed stop reports as lost, is the number of views in the batch.
THEOREM PendingIsTheBatch == Spec => []PendingCountsTheBatch
<1>1. SumFunction(NoViews) = 0
  BY SumOfZeros, EventViewsAssumption DEF NoViews
<1>2. Init => PendingCountsTheBatch
  BY <1>1 DEF Init, PendingCountsTheBatch, Total
<1>3. ASSUME IInv, PendingCountsTheBatch, NEW p \in Processes, ProcessStep(p)
      PROVE  PendingCountsTheBatch'
  <2>1. TypeOK /\ TypeOK' /\ OnlyMoves(p)
    BY <1>3, StepTypes DEF IInv
  <2>2. pending[p] = SumFunction(batch[p])
    BY <1>3 DEF PendingCountsTheBatch, Total
  <2>3. pending'[p] = SumFunction(batch'[p])
    <3>1. CASE GetView(p)
      <4>1. PICK e \in Events : CountView(p, e)
        BY <2>1, <3>1, Dequeue DEF GetView, TypeOK
      <4>2. /\ batch[p] \in [Events -> Nat] /\ batch'[p] \in [Events -> Nat]
            /\ batch'[p][e] = batch[p][e] + 1
            /\ \A f \in Events \ {e} : batch'[p][f] = batch[p][f]
            /\ pending'[p] = pending[p] + 1
        BY <2>1, <4>1 DEF CountView, TypeOK, Views
      <4>3. SumFunction(batch'[p]) + batch[p][e] = SumFunction(batch[p]) + batch'[p][e]
        <5>1. IsFiniteSet(Events)
          BY EventViewsAssumption
        <5> QED
          BY <4>2, <5>1, SumOfChange
      <4>4. SumFunction(batch[p]) \in Nat /\ SumFunction(batch'[p]) \in Nat /\ batch[p][e] \in Nat
        BY <4>2, SumType, EventViewsAssumption
      <4> QED
        BY <2>2, <4>2, <4>3, <4>4
    <3>2. CASE CommitFlush(p)
      BY <1>1, <2>1, <3>2 DEF CommitFlush, TypeOK
    <3>3. CASE ~GetView(p) /\ ~CommitFlush(p)
      <4>1. batch' = batch /\ pending' = pending
        BY <1>3, <3>3
           DEF ProcessStep, start, submit, Collect, Take, Write, stop, GetNone, DeadlinePasses, LockKey,
               FlushFails, BeginStop, PutNone, Join, StopTimesOut, LeaveFlush, CancelEnds,
               CancelFails, Crash, memory
      <4> QED
        BY <2>2, <4>1
    <3> QED
      BY <3>1, <3>2, <3>3
  <2> QED
    BY <1>3, <2>1, <2>3 DEF OnlyMoves, PendingCountsTheBatch, Total
<1>4. IInv /\ PendingCountsTheBatch /\ [Next]_vars => PendingCountsTheBatch'
  <2>1. ASSUME UNCHANGED <<pending, batch>>, PendingCountsTheBatch PROVE PendingCountsTheBatch'
    BY <2>1 DEF PendingCountsTheBatch, Total
  <2> QED
    BY <1>3, <2>1 DEF Next, ProcessStep, Rest, Tick, vars, memory
<1> QED
  BY <1>2, <1>4, EventViewsInvariant, PTL DEF Spec
=============================================================================

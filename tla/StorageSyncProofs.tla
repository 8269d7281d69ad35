------------------------- MODULE StorageSyncProofs -------------------------
(***************************************************************************)
(* Proofs about StorageSync for every value of its constants.              *)
(***************************************************************************)
EXTENDS StorageSync, SequenceTheorems, TLAPS

USE KindsAssumption, WorkersAssumption, FlagAssumption, BoundsAssumption

-----------------------------------------------------------------------------
(***************************************************************************)
(* Type correctness.                                                       *)
(***************************************************************************)

\* A goroutine that starts a handler with a non-empty list of well-typed
\* calls leaves the goroutine table well typed.
LEMMA InvokeType ==
    ASSUME TypeOK, NEW w \in Workers, NEW k \in Kinds,
           NEW calls \in Seq(Call) \ {<<>>}, Invoke(w, k, calls)
    PROVE  worker' \in [Workers -> WorkerState]
BY DEF TypeOK, Invoke, WorkerState

LEMMA UpsertType ==
    ASSUME TypeOK, NEW w \in Workers, NEW e \in Entities,
           NEW calls \in Seq(Call) \ {<<>>}, Upsert(w, e, calls)
    PROVE  TypeOK'
<1>1. worker' \in [Workers -> WorkerState]
  BY InvokeType DEF Upsert, Entities
<1>2. sinceSync' \in [Entities -> 0..ResyncAge]
  BY DEF Upsert, TypeOK
<1>. QED BY <1>1, <1>2 DEF Upsert, TypeOK

LEMMA EraseType ==
    ASSUME TypeOK, NEW w \in Workers, NEW e \in Entities,
           NEW calls \in Seq(Call) \ {<<>>}, Erase(w, e, calls)
    PROVE  TypeOK'
BY InvokeType DEF Erase, Entities, TypeOK

LEMMA SweepType ==
    ASSUME TypeOK, NEW w \in Workers, NEW k \in Kinds, NEW window \in Nat,
           Sweep(w, k, window)
    PROVE  TypeOK'
<1>1. <<[op |-> "SWEEP", path |-> ScopePath(k), val |-> window]>> \in Seq(Call) \ {<<>>}
  BY DEF Call, ScopePaths
<1>. QED BY <1>1, InvokeType DEF Sweep, TypeOK

\* The calls an Add, Update or Delete callback makes for a registered kind.
LEMMA CallsType ==
    ASSUME TypeOK, NEW k \in Kinds, NEW n \in Names
    PROVE  LET e == <<k, n>> IN
           /\ e \in Entities
           /\ <<Put(DynPath(e), cluster[e])>> \in Seq(Call) \ {<<>>}
           /\ <<Del(DynPath(e))>> \in Seq(Call) \ {<<>>}
           /\ <<Put(WatchPath(e), cluster[e]), Put(DynPath(e), cluster[e])>>
                 \in Seq(Call) \ {<<>>}
           /\ <<Del(WatchPath(e)), Del(DynPath(e))>> \in Seq(Call) \ {<<>>}
BY DEF TypeOK, Entities, Put, Del, Call, DynPath, WatchPath, NodePaths

LEMMA HandlerType ==
    ASSUME TypeOK, NEW w \in Workers, NEW n \in Names, Handler(w, n)
    PROVE  TypeOK'
<1>1. CASE "application" \in Kinds /\ (AppAdd(w, n) \/ AppUpdate(w, n) \/ AppDelete(w, n))
  <2>. DEFINE e == <<"application", n>>
  <2>1. /\ e \in Entities
        /\ <<Put(DynPath(e), cluster[e])>> \in Seq(Call) \ {<<>>}
        /\ <<Del(DynPath(e))>> \in Seq(Call) \ {<<>>}
    BY <1>1, CallsType
  <2>. QED BY <1>1, <2>1, UpsertType, EraseType DEF AppAdd, AppUpdate, AppDelete
<1>2. CASE "endpoint" \in Kinds /\ (EndpointAdd(w, n) \/ EndpointUpdate(w, n) \/ EndpointDelete(w, n))
  <2>. DEFINE e == <<"endpoint", n>>
  <2>1. /\ e \in Entities
        /\ <<Put(DynPath(e), cluster[e])>> \in Seq(Call) \ {<<>>}
        /\ <<Del(DynPath(e))>> \in Seq(Call) \ {<<>>}
    BY <1>2, CallsType
  <2>. QED BY <1>2, <2>1, UpsertType, EraseType DEF EndpointAdd, EndpointUpdate, EndpointDelete
<1>3. CASE "exportservice" \in Kinds /\ (ExpServiceAdd(w, n) \/ ExpServiceUpdate(w, n) \/ ExpServiceDelete(w, n))
  <2>. DEFINE e == <<"exportservice", n>>
  <2>1. /\ e \in Entities
        /\ <<Put(WatchPath(e), cluster[e]), Put(DynPath(e), cluster[e])>> \in Seq(Call) \ {<<>>}
        /\ <<Del(WatchPath(e)), Del(DynPath(e))>> \in Seq(Call) \ {<<>>}
    BY <1>3, CallsType
  <2>. QED BY <1>3, <2>1, UpsertType, EraseType DEF ExpServiceAdd, ExpServiceUpdate, ExpServiceDelete
<1>. QED BY <1>1, <1>2, <1>3 DEF Handler

\* A goroutine's pending calls after one returns.
LEMMA AdvanceType ==
    ASSUME TypeOK, NEW w \in Workers, worker[w] # Idle,
           NEW rest \in Seq(Call), Advance(w, rest)
    PROVE  worker' \in [Workers -> WorkerState]
<1>1. worker[w] \in [kind : Kinds, calls : Seq(Call) \ {<<>>}, age : 0..MaxDelay]
  BY DEF TypeOK, WorkerState
<1>2. rest # <<>> => [worker[w] EXCEPT !.calls = rest, !.age = 0] \in WorkerState
  <2>. HAVE rest # <<>>
  <2>. DEFINE R == [kind : Kinds, calls : Seq(Call) \ {<<>>}, age : 0..MaxDelay]
               r1 == [worker[w] EXCEPT !.calls = rest]
  <2>1. r1 \in R
    BY <1>1
  <2>2. \A r \in R : [r EXCEPT !.age = 0] \in R
    OBVIOUS
  <2>. HIDE DEF r1
  <2>3. [worker[w] EXCEPT !.calls = rest, !.age = 0] = [r1 EXCEPT !.age = 0]
    BY DEF r1
  <2>. QED BY <2>1, <2>2, <2>3 DEF WorkerState
<1>. QED BY <1>2 DEF Advance, TypeOK, WorkerState

LEMMA ApplyType ==
    ASSUME TypeOK, NEW c \in Call, NEW a \in Nat
    PROVE  Apply(c, a) \in [NodePaths -> Node]
BY DEF TypeOK, Apply, Call, Node, Absent, AgeCap

LEMMA DeliverType ==
    ASSUME TypeOK, NEW w \in Workers, Deliver(w)
    PROVE  TypeOK'
<1>1. worker[w] \in [kind : Kinds, calls : Seq(Call) \ {<<>>}, age : 0..MaxDelay]
  BY DEF Deliver, TypeOK, WorkerState
<1>2. Head(worker[w].calls) \in Call /\ Tail(worker[w].calls) \in Seq(Call)
  BY <1>1
<1>3. store' \in [NodePaths -> Node]
  BY <1>1, <1>2, ApplyType DEF Deliver
<1>4. worker' \in [Workers -> WorkerState]
  BY <1>2, AdvanceType DEF Deliver
<1>. QED BY <1>3, <1>4 DEF Deliver, TypeOK

LEMMA FailType ==
    ASSUME TypeOK, NEW w \in Workers, Fail(w)
    PROVE  TypeOK'
<1>1. worker[w] \in [kind : Kinds, calls : Seq(Call) \ {<<>>}, age : 0..MaxDelay]
  BY DEF Fail, TypeOK, WorkerState
<1>2. Tail(worker[w].calls) \in Seq(Call) /\ <<>> \in Seq(Call)
  BY <1>1
<1>3. worker' \in [Workers -> WorkerState]
  <2>. DEFINE rest == IF worker[w].kind = "exportservice"
                      THEN Tail(worker[w].calls) ELSE <<>>
  <2>1. rest \in Seq(Call) BY <1>2
  <2>. QED BY <2>1, AdvanceType DEF Fail
<1>. QED BY <1>3 DEF Fail, TypeOK

LEMMA TickType ==
    ASSUME TypeOK, Tick
    PROVE  TypeOK'
<1>1. store' \in [NodePaths -> Node]
  BY DEF Tick, TypeOK, Node, Older, AgeCap
<1>2. worker' \in [Workers -> WorkerState]
  <2>. SUFFICES ASSUME NEW w \in Workers, worker[w] # Idle
                PROVE  [worker[w] EXCEPT !.age = @ + 1] \in WorkerState
    BY DEF Tick, TypeOK, WorkerState
  <2>1. /\ worker[w] \in [kind : Kinds, calls : Seq(Call) \ {<<>>}, age : 0..MaxDelay]
        /\ worker[w].age < MaxDelay
    BY DEF Tick, TypeOK, WorkerState
  <2>2. [worker[w] EXCEPT !.age = @ + 1]
          \in [kind : Kinds, calls : Seq(Call) \ {<<>>}, age : 0..MaxDelay]
    BY <2>1
  <2>. QED BY <2>2 DEF WorkerState
<1>3. sinceSync' \in [Entities -> 0..ResyncAge]
  BY DEF Tick, TypeOK, Older
<1>. QED BY <1>1, <1>2, <1>3 DEF Tick, TypeOK

LEMMA NextType == TypeOK /\ [Next]_vars => TypeOK'
<1> SUFFICES ASSUME TypeOK, [Next]_vars PROVE TypeOK'
  OBVIOUS
<1>1. CASE Orchestrator
  <2>. PICK e \in Entities : Create(e) \/ Modify(e) \/ Remove(e)
    BY <1>1 DEF Orchestrator
  <2>1. CASE Create(e) \/ Modify(e)
    <3>1. nextVal \in Vals BY <2>1 DEF Create, Modify, TypeOK, Vals
    <3>. QED BY <2>1, <3>1 DEF Create, Modify, TypeOK
  <2>2. CASE Remove(e)
    BY <2>2 DEF Remove, TypeOK
  <2>. QED BY <2>1, <2>2
<1>2. CASE \E w \in Workers, n \in Names : Handler(w, n)
  BY <1>2, HandlerType
<1>3. CASE \E w \in Workers : CheckDirty(w)
  <2>. PICK w \in Workers, k \in Kinds : DirtyCheck(w, k)
    BY <1>3 DEF CheckDirty
  <2>. QED BY SweepType DEF DirtyCheck, AppCheckDirty, EndpointCheckDirty
<1>4. CASE \E w \in Workers : Deliver(w)
  BY <1>4, DeliverType
<1>5. CASE \E w \in Workers : Fail(w)
  BY <1>5, FailType
<1>6. CASE Tick
  BY <1>6, TickType
<1>7. CASE UNCHANGED vars
  BY <1>7 DEF vars, TypeOK
<1>. QED BY <1>1, <1>2, <1>3, <1>4, <1>5, <1>6, <1>7 DEF Next

\* TypeCorrect: every reachable state of the handlers, the goroutines and
\* the storage nodes is well typed, for every value of the constants.
THEOREM TypeCorrect == Spec => []TypeOK
<1>1. Init => TypeOK
  BY DEF Init, TypeOK, Node, Absent, WorkerState, Idle, NoVal, AgeCap
<1>. QED BY <1>1, NextType, PTL DEF Spec

-----------------------------------------------------------------------------
(***************************************************************************)
(* FreshCurrent, through its inductive strengthening IInv, for reliable    *)
(* storage and a resync period that with the longest call delay fits in    *)
(* the dirty check's window.                                               *)
(***************************************************************************)
Timely == MaxFail = 0 /\ ResyncAge + MaxDelay <= StaleAge

\* The inductive part of IInv, without the type invariant.
Rest == ValsIssued /\ WellFormedCalls /\ CurrentAgeBound

\* A goroutine that is busy runs a handler of a registered kind with a
\* non-empty list of calls, in flight for at most MaxDelay ticks.
LEMMA BusyType ==
    ASSUME TypeOK, NEW w \in Workers, Busy(w)
    PROVE  worker[w] \in [kind : Kinds, calls : Seq(Call) \ {<<>>}, age : 0..MaxDelay]
BY DEF TypeOK, WorkerState, Busy

\* The orchestrator hands out a fresh version: no node holds it yet.
LEMMA OrchestratorRest ==
    ASSUME TypeOK, Rest, Orchestrator
    PROVE  Rest'
<1>. PICK e0 \in Entities : Create(e0) \/ Modify(e0) \/ Remove(e0)
  BY DEF Orchestrator
<1>1. /\ nextVal \in Nat /\ nextVal' \in Nat /\ nextVal <= nextVal'
      /\ \A e \in Entities : cluster'[e] < nextVal'
      /\ store' = store /\ worker' = worker
      /\ \A e \in Entities \ {e0} : cluster'[e] = cluster[e] /\ sinceSync'[e] = sinceSync[e]
      /\ cluster'[e0] = NoVal \/ cluster'[e0] = nextVal
  <2>0. nextVal \in Nat /\ \A e \in Entities : cluster[e] < nextVal
    BY DEF Rest, ValsIssued, TypeOK, Vals
  <2>1. CASE Create(e0)
    BY <2>0, <2>1 DEF Create, TypeOK, NoVal, Vals
  <2>3. CASE Modify(e0)
    BY <2>0, <2>3 DEF Modify, TypeOK, NoVal, Vals
  <2>2. CASE Remove(e0)
    BY <2>0, <2>2 DEF Remove, TypeOK, NoVal
  <2>. QED BY <2>1, <2>2, <2>3
<1>2. ValsIssued'
  BY <1>1 DEF Rest, ValsIssued, TypeOK, Node, Vals, NoVal
<1>3. WellFormedCalls'
  BY <1>1 DEF Rest, WellFormedCalls, TypeOK, Vals
<1>4. CurrentAgeBound'
  <2>. SUFFICES ASSUME NEW e \in Entities, e[1] \in SweptKinds, Current(e)'
                PROVE  \/ store'[DynPath(e)].age <= sinceSync'[e]
                       \/ \E w \in Workers : Refreshing(w, e)' /\
                             store'[DynPath(e)].age <= worker'[w].age + ResyncAge
    BY DEF CurrentAgeBound
  <2>1. e # e0
    <3>1. DynPath(e) \in NodePaths BY DEF DynPath, NodePaths
    <3>. QED BY <1>1, <3>1 DEF Current, Rest, ValsIssued, TypeOK, NoVal
  <2>. QED BY <1>1, <2>1 DEF Current, Rest, CurrentAgeBound, Refreshing, Busy, Newer
<1>. QED BY <1>2, <1>3, <1>4 DEF Rest

\* Add and Update: the goroutine issues PUTs of the entity's current version;
\* for a swept kind the first is to its dynamic node.
LEMMA UpsertRest ==
    ASSUME TypeOK, Rest, NEW w \in Workers, NEW e0 \in Entities,
           NEW calls \in Seq(Call) \ {<<>>}, Upsert(w, e0, calls),
           \A i \in 1..Len(calls) : calls[i].op = "PUT" /\ calls[i].val = cluster[e0],
           e0[1] \in SweptKinds => Head(calls).path = DynPath(e0)
    PROVE  Rest'
<1>1. /\ worker[w] = Idle
      /\ worker' = [worker EXCEPT ![w] = [kind |-> e0[1], calls |-> calls, age |-> 0]]
      /\ cluster[e0] \in 1..nextVal - 1
  BY DEF Upsert, Invoke, Rest, ValsIssued, TypeOK, Vals, NoVal
<1>2. ValsIssued'
  BY DEF Upsert, Rest, ValsIssued
<1>3. WellFormedCalls'
  BY <1>1 DEF Upsert, Rest, WellFormedCalls, TypeOK
<1>4. CurrentAgeBound'
  <2>. SUFFICES ASSUME NEW e \in Entities, e[1] \in SweptKinds, Current(e)'
                PROVE  \/ store'[DynPath(e)].age <= sinceSync'[e]
                       \/ \E v \in Workers : Refreshing(v, e)' /\
                             store'[DynPath(e)].age <= worker'[v].age + ResyncAge
    BY DEF CurrentAgeBound
  <2>1. \/ store[DynPath(e)].age <= sinceSync[e]
        \/ \E v \in Workers : Refreshing(v, e) /\
              store[DynPath(e)].age <= worker[v].age + ResyncAge
    BY DEF Upsert, Current, Rest, CurrentAgeBound
  <2>2. \A v \in Workers : Refreshing(v, e) => v # w /\ worker'[v] = worker[v]
    BY <1>1 DEF Refreshing, Busy
  <2>3. CASE \E v \in Workers : Refreshing(v, e) /\
               store[DynPath(e)].age <= worker[v].age + ResyncAge
    BY <2>2, <2>3 DEF Upsert, Refreshing, Busy, Newer
  <2>4. CASE e = e0 /\ store[DynPath(e)].age <= sinceSync[e]
    <3>0. worker'[w] = [kind |-> e0[1], calls |-> calls, age |-> 0]
      BY <1>1 DEF TypeOK
    <3>1. store'[DynPath(e)].age <= worker'[w].age + ResyncAge
      BY <2>4, <3>0 DEF Upsert, TypeOK, DynPath, NodePaths, Node
    <3>2. Refreshing(w, e)'
      <4>2. Head(calls) = calls[1] /\ 1 \in 1..Len(calls)
        OBVIOUS
      <4>3. Head(calls).op = "PUT" /\ Head(calls).path = DynPath(e)
        BY <2>4, <4>2
      <4>4. Newer(Head(calls))'
        <5>1. Head(calls).val = cluster[e] /\ cluster[e] \in Nat
          BY <2>4, <4>2 DEF TypeOK, Vals, NoVal
        <5>2. store'[DynPath(e)].val = cluster[e]
          BY DEF Current, Upsert
        <5>. QED BY <4>3, <5>1, <5>2 DEF Newer
      <4>. QED BY <3>0, <4>3, <4>4 DEF Refreshing, Busy, Idle
    <3>. QED BY <3>1, <3>2
  <2>5. CASE e # e0 /\ store[DynPath(e)].age <= sinceSync[e]
    BY <2>5 DEF Upsert
  <2>. QED BY <2>1, <2>3, <2>4, <2>5
<1>. QED BY <1>2, <1>3, <1>4 DEF Rest

\* Delete and the dirty checks: the goroutine issues DELs, or a sweep with
\* the window of a swept kind; nothing stored changes yet.
LEMMA InvokeRest ==
    ASSUME TypeOK, Rest, NEW w \in Workers, NEW k, NEW calls \in Seq(Call) \ {<<>>},
           Invoke(w, k, calls), UNCHANGED <<cluster, nextVal, store, sinceSync>>,
           \A i \in 1..Len(calls) :
              /\ calls[i].op \in {"DEL", "SWEEP"}
              /\ calls[i].op = "DEL" => calls[i].val = NoVal
              /\ calls[i].op = "SWEEP" =>
                    calls[i].val = StaleAge /\ calls[i].path \in {ScopePath(j) : j \in SweptKinds}
    PROVE  Rest'
<1>1. /\ worker[w] = Idle
      /\ worker' = [worker EXCEPT ![w] = [kind |-> k, calls |-> calls, age |-> 0]]
  BY DEF Invoke
<1>2. ValsIssued'
  BY DEF Rest, ValsIssued
<1>3. WellFormedCalls'
  BY <1>1 DEF Rest, WellFormedCalls, TypeOK
<1>4. CurrentAgeBound'
  <2>1. \A e \in Entities, v \in Workers :
           Refreshing(v, e) => v # w /\ worker'[v] = worker[v]
    BY <1>1 DEF Refreshing, Busy
  <2>. QED BY <2>1 DEF Rest, CurrentAgeBound, Current, Refreshing, Busy, Newer
<1>. QED BY <1>2, <1>3, <1>4 DEF Rest

\* After a call returns, the goroutine's pending calls are the tail of its
\* list (the empty list of Idle when it was the last one).
LEMMA AdvanceCalls ==
    ASSUME TypeOK, NEW w \in Workers, Busy(w), Advance(w, Tail(worker[w].calls))
    PROVE  /\ worker'[w].calls = Tail(worker[w].calls)
           /\ \A v \in Workers \ {w} : worker'[v] = worker[v]
<1>1. worker[w] \in [kind : Kinds, calls : Seq(Call) \ {<<>>}, age : 0..MaxDelay]
  BY BusyType
<1>2. CASE Tail(worker[w].calls) = <<>>
  BY <1>2 DEF Advance, Idle, TypeOK
<1>3. CASE Tail(worker[w].calls) # <<>>
  <2>. DEFINE r1 == [worker[w] EXCEPT !.calls = Tail(worker[w].calls)]
  <2>1. [worker[w] EXCEPT !.calls = Tail(worker[w].calls), !.age = 0]
          = [r1 EXCEPT !.age = 0]
    BY DEF r1
  <2>2. r1.calls = Tail(worker[w].calls)
    BY <1>1
  <2>3. [r1 EXCEPT !.age = 0].calls = r1.calls
    BY <1>1
  <2>. QED BY <1>3, <2>1, <2>2, <2>3 DEF Advance, TypeOK
<1>. QED BY <1>2, <1>3

\* What a call that reaches storage does to one node.
LEMMA DeliverStore ==
    ASSUME TypeOK, NEW w \in Workers, Deliver(w)
    PROVE  LET c == Head(worker[w].calls)
               a == worker[w].age
           IN  \A p \in NodePaths :
                 \/ store'[p] = store[p]
                 \/ /\ c.op = "PUT" /\ p = c.path /\ Newer(c)
                    /\ store'[p] = [val |-> c.val, age |-> 0]
                 \/ c.op = "DEL" /\ p = c.path /\ store'[p] = Absent
                 \/ c.op = "SWEEP" /\ SweepHits(c, a, p) /\ store'[p] = Absent
<1>. DEFINE c == Head(worker[w].calls)
<1>1. worker[w] \in [kind : Kinds, calls : Seq(Call) \ {<<>>}, age : 0..MaxDelay]
  BY BusyType DEF Deliver, Busy
<1>2. c \in Call
  BY <1>1
<1>3. CASE c.op = "PUT"
  BY <1>2, <1>3 DEF Deliver, Apply, TypeOK
<1>4. CASE c.op = "DEL"
  BY <1>2, <1>4 DEF Deliver, Apply, TypeOK
<1>5. CASE c.op = "SWEEP"
  BY <1>2, <1>5 DEF Deliver, Apply, TypeOK
<1>. QED BY <1>2, <1>3, <1>4, <1>5 DEF Call

\* A call that reaches storage: a PUT stores a version already handed out,
\* a DEL or a sweep only removes nodes; the goroutine moves to its next call.
LEMMA DeliverRest ==
    ASSUME TypeOK, Rest, NEW w \in Workers, Deliver(w)
    PROVE  Rest'
<1>. DEFINE s == worker[w].calls
            c == Head(s)
<1>1. worker[w] \in [kind : Kinds, calls : Seq(Call) \ {<<>>}, age : 0..MaxDelay]
  BY BusyType DEF Deliver, Busy
<1>2. /\ c = s[1] /\ c \in Call
      /\ c.op = "PUT" => c.val \in 1..nextVal - 1
      /\ c.op = "DEL" => c.val = NoVal
  BY <1>1 DEF Rest, WellFormedCalls
<1>3. /\ worker'[w].calls = Tail(s)
      /\ \A v \in Workers \ {w} : worker'[v] = worker[v]
  BY <1>1, AdvanceCalls DEF Deliver, Busy
<1>4. \A p \in NodePaths :
        \/ store'[p] = store[p]
        \/ store'[p] = Absent
        \/ c.op = "PUT" /\ p = c.path /\ Newer(c) /\ store'[p] = [val |-> c.val, age |-> 0]
  BY DeliverStore
<1>5. ValsIssued'
  BY <1>2, <1>4 DEF Deliver, Rest, ValsIssued, TypeOK, Absent, NoVal
<1>6. WellFormedCalls'
  <2>. SUFFICES ASSUME NEW v \in Workers, NEW i \in 1..Len(worker'[v].calls)
                PROVE  LET d == worker'[v].calls[i] IN
                       /\ d.op = "PUT" => d.val \in 1..nextVal' - 1
                       /\ d.op = "DEL" => d.val = NoVal
                       /\ d.op = "SWEEP" =>
                             d.val = StaleAge /\ d.path \in {ScopePath(k) : k \in SweptKinds}
    BY DEF WellFormedCalls
  <2>1. CASE v = w
    <3>0. /\ Len(Tail(s)) = Len(s) - 1
          /\ \A j \in 1..Len(Tail(s)) : Tail(s)[j] = s[j + 1]
      <4>. s \in Seq(Call) /\ s # <<>>
        BY <1>1
      <4>. QED BY HeadTailProperties
    <3>1. i \in 1..Len(Tail(s)) /\ worker'[v].calls[i] = Tail(s)[i]
      BY <1>3, <2>1
    <3>2. i + 1 \in 1..Len(s) /\ worker'[v].calls[i] = s[i + 1]
      BY <1>1, <3>0, <3>1
    <3>. QED BY <3>2 DEF Deliver, Rest, WellFormedCalls
  <2>2. CASE v # w
    BY <1>3, <2>2 DEF Deliver, Rest, WellFormedCalls
  <2>. QED BY <2>1, <2>2
<1>7. CurrentAgeBound'
  <2>. SUFFICES ASSUME NEW e \in Entities, e[1] \in SweptKinds, Current(e)'
                PROVE  \/ store'[DynPath(e)].age <= sinceSync'[e]
                       \/ \E v \in Workers : Refreshing(v, e)' /\
                             store'[DynPath(e)].age <= worker'[v].age + ResyncAge
    BY DEF CurrentAgeBound
  <2>0. DynPath(e) \in NodePaths /\ cluster[e] # NoVal
    BY DEF DynPath, NodePaths, Entities, Current, Deliver
  <2>1. CASE c.op = "PUT" /\ c.path = DynPath(e) /\ Newer(c)
    <3>1. store'[DynPath(e)].age = 0
      BY <1>2, <2>0, <2>1 DEF Deliver, Apply, TypeOK
    <3>. QED BY <3>1 DEF Deliver, TypeOK
  <2>2. CASE ~(c.op = "PUT" /\ c.path = DynPath(e) /\ Newer(c))
    <3>1. store'[DynPath(e)] = store[DynPath(e)]
      BY <1>4, <2>0, <2>2 DEF Current, Absent, Deliver
    <3>2. Current(e)
      BY <3>1 DEF Current, Deliver
    <3>3. \A v \in Workers : Refreshing(v, e) => v # w
      BY <2>2 DEF Refreshing
    <3>. QED BY <1>3, <3>1, <3>2, <3>3 DEF Rest, CurrentAgeBound, Refreshing, Busy, Deliver,
                Newer
  <2>. QED BY <2>1, <2>2
<1>. QED BY <1>5, <1>6, <1>7 DEF Rest

\* Time passes: every stored node and every call in flight ages by one
\* tick, and a live entity of a swept kind was resynced less than
\* ResyncAge ticks ago, so its resync clock is not saturated.
LEMMA TickRest ==
    ASSUME TypeOK, Rest, Tick
    PROVE  Rest'
<1>0. TypeOK'
  BY TickType
<1>1. \A p \in NodePaths : /\ store'[p].val = store[p].val
                           /\ store'[p].age <= store[p].age + 1
  BY DEF Tick, TypeOK, Node, Older, AgeCap
<1>2. \A v \in Workers : /\ worker'[v].calls = worker[v].calls
                         /\ Busy(v) => Busy(v)' /\ worker'[v].age = worker[v].age + 1
  <2>. SUFFICES ASSUME NEW v \in Workers
                PROVE  /\ worker'[v].calls = worker[v].calls
                       /\ Busy(v) => Busy(v)' /\ worker'[v].age = worker[v].age + 1
    OBVIOUS
  <2>1. CASE Busy(v)
    <3>1. worker[v] \in [kind : Kinds, calls : Seq(Call) \ {<<>>}, age : 0..MaxDelay]
      BY <2>1, BusyType
    <3>2. worker'[v] = [worker[v] EXCEPT !.age = @ + 1]
      BY <2>1 DEF Tick, Busy, TypeOK
    <3>. QED BY <3>1, <3>2 DEF Busy, Idle
  <2>2. CASE ~Busy(v)
    BY <2>2 DEF Tick, Busy, TypeOK
  <2>. QED BY <2>1, <2>2
<1>3. ValsIssued'
  BY <1>1 DEF Tick, Rest, ValsIssued
<1>4. WellFormedCalls'
  BY <1>2 DEF Tick, Rest, WellFormedCalls
<1>5. CurrentAgeBound'
  <2>. SUFFICES ASSUME NEW e \in Entities, e[1] \in SweptKinds, Current(e)'
                PROVE  \/ store'[DynPath(e)].age <= sinceSync'[e]
                       \/ \E v \in Workers : Refreshing(v, e)' /\
                             store'[DynPath(e)].age <= worker'[v].age + ResyncAge
    BY DEF CurrentAgeBound
  <2>0. DynPath(e) \in NodePaths
    BY DEF DynPath, NodePaths
  <2>1. Current(e)
    BY <1>1, <2>0 DEF Current, Tick
  <2>2. sinceSync'[e] = sinceSync[e] + 1
    <3>1. e[1] \in ResyncKinds /\ cluster[e] # NoVal
      BY <2>1 DEF SweptKinds, ResyncKinds, Current
    <3>. QED BY <3>1 DEF Tick, Older, TypeOK
  <2>3. /\ store[DynPath(e)].age \in Nat /\ sinceSync[e] \in Nat
        /\ store'[DynPath(e)].age \in Nat
        /\ store'[DynPath(e)].age <= store[DynPath(e)].age + 1
    BY <1>0, <1>1, <2>0 DEF TypeOK, Node
  <2>4. CASE store[DynPath(e)].age <= sinceSync[e]
    BY <2>2, <2>3, <2>4
  <2>5. CASE \E v \in Workers : Refreshing(v, e) /\
               store[DynPath(e)].age <= worker[v].age + ResyncAge
    <3>. PICK v \in Workers : Refreshing(v, e) /\
               store[DynPath(e)].age <= worker[v].age + ResyncAge
      BY <2>5
    <3>0. /\ Busy(v) /\ Busy(v)'
          /\ worker'[v].calls = worker[v].calls
          /\ worker'[v].age = worker[v].age + 1
      <4>1. Busy(v)
        BY DEF Refreshing
      <4>. QED BY <4>1, <1>2
    <3>1. Refreshing(v, e)'
      <4>1. Head(worker[v].calls).path = DynPath(e)
        BY DEF Refreshing
      <4>. QED BY <1>1, <2>0, <3>0, <4>1 DEF Refreshing, Newer
    <3>2. worker[v].age \in Nat /\ worker'[v].age = worker[v].age + 1
      BY <3>0, BusyType
    <3>. QED BY <2>3, <3>1, <3>2
  <2>. QED BY <2>1, <2>4, <2>5 DEF Rest, CurrentAgeBound
<1>. QED BY <1>3, <1>4, <1>5 DEF Rest

\* The dirty checks and Delete start a goroutine on DELs or on a sweep with
\* the window of a swept kind.
LEMMA StartRest ==
    ASSUME TypeOK, Rest, NEW w \in Workers, NEW k, NEW calls \in Seq(Call) \ {<<>>},
           Invoke(w, k, calls), UNCHANGED <<cluster, nextVal, store, sinceSync, fails>>,
           \A i \in 1..Len(calls) :
              /\ calls[i].op \in {"DEL", "SWEEP"}
              /\ calls[i].op = "DEL" => calls[i].val = NoVal
              /\ calls[i].op = "SWEEP" =>
                    calls[i].val = StaleAge /\ calls[i].path \in {ScopePath(j) : j \in SweptKinds}
    PROVE  Rest'
<1>. UNCHANGED <<cluster, nextVal, store, sinceSync>>
  OBVIOUS
<1>. QED BY InvokeRest

\* Each handler callback starts its goroutine on the calls the Go code makes.
LEMMA HandlerRest ==
    ASSUME TypeOK, Rest, NEW w \in Workers, NEW n \in Names, Handler(w, n)
    PROVE  Rest'
<1>1. ASSUME NEW k \in Kinds, Upsert(w, <<k, n>>, <<Put(DynPath(<<k, n>>), cluster[<<k, n>>])>>)
      PROVE  Rest'
  <2>. DEFINE e == <<k, n>>
              c == Put(DynPath(e), cluster[e])
  <2>1. e \in Entities /\ <<c>> \in Seq(Call) \ {<<>>}
    BY CallsType
  <2>2. /\ Len(<<c>>) = 1 /\ <<c>>[1] = c /\ Head(<<c>>) = c
        /\ c.op = "PUT" /\ c.val = cluster[e] /\ c.path = DynPath(e)
    BY DEF Put
  <2>. QED BY <1>1, <2>1, <2>2, UpsertRest
<1>2. ASSUME "exportservice" \in Kinds,
             Upsert(w, <<"exportservice", n>>,
                    <<Put(WatchPath(<<"exportservice", n>>), cluster[<<"exportservice", n>>]),
                      Put(DynPath(<<"exportservice", n>>), cluster[<<"exportservice", n>>])>>)
      PROVE  Rest'
  <2>. DEFINE e == <<"exportservice", n>>
              calls == <<Put(WatchPath(e), cluster[e]), Put(DynPath(e), cluster[e])>>
  <2>1. e \in Entities /\ calls \in Seq(Call) \ {<<>>}
    BY <1>2, CallsType
  <2>2. /\ Len(calls) = 2
        /\ \A i \in 1..2 : calls[i].op = "PUT" /\ calls[i].val = cluster[e]
        /\ e[1] \notin SweptKinds
    BY DEF Put, SweptKinds
  <2>. QED BY <1>2, <2>1, <2>2, UpsertRest
<1>3. ASSUME NEW k \in Kinds, NEW calls \in Seq(Call) \ {<<>>},
             Erase(w, <<k, n>>, calls),
             \A i \in 1..Len(calls) : calls[i].op = "DEL" /\ calls[i].val = NoVal
      PROVE  Rest'
  BY <1>3, StartRest DEF Erase
<1>4. ASSUME NEW k \in Kinds
      PROVE  /\ <<Del(DynPath(<<k, n>>))>> \in Seq(Call) \ {<<>>}
             /\ <<Del(WatchPath(<<k, n>>)), Del(DynPath(<<k, n>>))>> \in Seq(Call) \ {<<>>}
             /\ \A i \in 1..1 : <<Del(DynPath(<<k, n>>))>>[i].op = "DEL"
                               /\ <<Del(DynPath(<<k, n>>))>>[i].val = NoVal
             /\ \A i \in 1..2 :
                  /\ <<Del(WatchPath(<<k, n>>)), Del(DynPath(<<k, n>>))>>[i].op = "DEL"
                  /\ <<Del(WatchPath(<<k, n>>)), Del(DynPath(<<k, n>>))>>[i].val = NoVal
  BY CallsType DEF Del
<1>5. CASE "application" \in Kinds /\ (AppAdd(w, n) \/ AppUpdate(w, n) \/ AppDelete(w, n))
  BY <1>5, <1>1, <1>3, <1>4 DEF AppAdd, AppUpdate, AppDelete
<1>6. CASE "endpoint" \in Kinds /\ (EndpointAdd(w, n) \/ EndpointUpdate(w, n) \/ EndpointDelete(w, n))
  BY <1>6, <1>1, <1>3, <1>4 DEF EndpointAdd, EndpointUpdate, EndpointDelete
<1>7. CASE "exportservice" \in Kinds /\ (ExpServiceAdd(w, n) \/ ExpServiceUpdate(w, n) \/ ExpServiceDelete(w, n))
  BY <1>7, <1>2, <1>3, <1>4 DEF ExpServiceAdd, ExpServiceUpdate, ExpServiceDelete
<1>. QED BY <1>5, <1>6, <1>7 DEF Handler

\* The dirty checks that run issue a sweep with the 600 s window.
LEMMA CheckDirtyRest ==
    ASSUME TypeOK, Rest, NEW w \in Workers, CheckDirty(w)
    PROVE  Rest'
<1>. PICK k \in Kinds : DirtyCheck(w, k)
  BY DEF CheckDirty
<1>. DEFINE c == [op |-> "SWEEP", path |-> ScopePath(k), val |-> StaleAge]
<1>1. k \in SweptKinds /\ Sweep(w, k, StaleAge)
  BY DEF DirtyCheck, AppCheckDirty, EndpointCheckDirty, SweptKinds
<1>2. /\ <<c>> \in Seq(Call) \ {<<>>}
      /\ Len(<<c>>) = 1 /\ <<c>>[1] = c
      /\ c.path \in {ScopePath(j) : j \in SweptKinds}
  BY <1>1 DEF Call, ScopePaths
<1>3. Invoke(w, k, <<c>>) /\ UNCHANGED <<cluster, nextVal, store, sinceSync, fails>>
  BY <1>1 DEF Sweep
<1>4. \A i \in 1..Len(<<c>>) :
         /\ <<c>>[i].op \in {"DEL", "SWEEP"}
         /\ <<c>>[i].op = "DEL" => <<c>>[i].val = NoVal
         /\ <<c>>[i].op = "SWEEP" =>
               <<c>>[i].val = StaleAge /\ <<c>>[i].path \in {ScopePath(j) : j \in SweptKinds}
  BY <1>2
<1>. QED BY <1>2, <1>3, <1>4, StartRest

\* With reliable storage every step of the system keeps IInv.
LEMMA NextIInv ==
    ASSUME MaxFail = 0
    PROVE  IInv /\ [Next]_vars => IInv'
<1>. SUFFICES ASSUME TypeOK, Rest, [Next]_vars PROVE TypeOK' /\ Rest'
  BY DEF IInv, Rest
<1>1. TypeOK'
  BY NextType
<1>2. CASE Orchestrator
  BY <1>1, <1>2, OrchestratorRest
<1>3. CASE \E w \in Workers, n \in Names : Handler(w, n)
  BY <1>1, <1>3, HandlerRest
<1>4. CASE \E w \in Workers : CheckDirty(w)
  BY <1>1, <1>4, CheckDirtyRest
<1>5. CASE \E w \in Workers : Deliver(w)
  BY <1>1, <1>5, DeliverRest
<1>6. CASE \E w \in Workers : Fail(w)
  BY <1>1, <1>6 DEF Fail, TypeOK
<1>7. CASE Tick
  BY <1>1, <1>7, TickRest
<1>8. CASE UNCHANGED vars
  BY <1>1, <1>8 DEF vars, Rest, ValsIssued, WellFormedCalls, CurrentAgeBound, Current,
               Refreshing, Busy, Newer
<1>. QED BY <1>1, <1>2, <1>3, <1>4, <1>5, <1>6, <1>7, <1>8 DEF Next

\* IInvariant: with reliable storage every reachable state satisfies the
\* strengthening of FreshCurrent: the node holding a live entity's current
\* version was written after the entity's last resync, or shortly before a
\* PUT still in flight to it.
THEOREM IInvariant ==
    ASSUME MaxFail = 0
    PROVE  Spec => []IInv
<1>1. Init => IInv
  BY DEF Init, IInv, TypeOK, Node, Absent, WorkerState, Idle, NoVal, AgeCap,
         ValsIssued, WellFormedCalls, CurrentAgeBound, Current
<1>. QED BY <1>1, NextIInv, PTL DEF Spec

\* When a resync and the longest call delay fit in the window, IInv bounds
\* the age of every current node of a swept kind by StaleAge.
LEMMA IInvFresh ==
    ASSUME IInv, ResyncAge + MaxDelay <= StaleAge
    PROVE  FreshCurrent
<1>. SUFFICES ASSUME NEW e \in Entities, e[1] \in SweptKinds, Current(e)
              PROVE  store[DynPath(e)].age <= StaleAge
  BY DEF FreshCurrent
<1>1. DynPath(e) \in NodePaths
  BY DEF DynPath, NodePaths
<1>2. store[DynPath(e)].age \in Nat /\ sinceSync[e] \in 0..ResyncAge
  BY <1>1 DEF IInv, TypeOK, Node
<1>3. CASE store[DynPath(e)].age <= sinceSync[e]
  BY <1>2, <1>3
<1>4. CASE \E v \in Workers : Refreshing(v, e) /\
             store[DynPath(e)].age <= worker[v].age + ResyncAge
  <2>. PICK v \in Workers : Refreshing(v, e) /\
             store[DynPath(e)].age <= worker[v].age + ResyncAge
    BY <1>4
  <2>1. worker[v].age \in 0..MaxDelay
    BY BusyType DEF IInv, Refreshing
  <2>. QED BY <1>2, <2>1
<1>. QED BY <1>3, <1>4 DEF IInv, CurrentAgeBound

\* FreshCurrentHolds: with reliable storage and a watch resync period that
\* with the longest storage delay fits in CheckDirty's 600 s window, the
\* dirty check of AppHandler and EndpointHandler never finds the current
\* node of a live entity stale.
THEOREM FreshCurrentHolds ==
    ASSUME MaxFail = 0, ResyncAge + MaxDelay <= StaleAge
    PROVE  Spec => []FreshCurrent
<1>1. IInv => FreshCurrent
  BY IInvFresh
<1>. QED BY <1>1, IInvariant, PTL

\* The step a sweep makes never removes a current node: a node it removes
\* is older than the window plus the call's delay, and a current node of a
\* swept kind is not.
LEMMA StepRemovesOnlyByDelete ==
    ASSUME MaxFail = 0, ResyncAge + MaxDelay <= StaleAge,
           IInv, [Next]_vars,
           NEW e \in Entities, Current(e), store'[DynPath(e)].val = NoVal
    PROVE  \E w \in Workers : /\ worker[w] # Idle
                             /\ Head(worker[w].calls) = Del(DynPath(e))
<1>1. DynPath(e) \in NodePaths /\ store[DynPath(e)].val # NoVal
  BY DEF DynPath, NodePaths, Current
<1>2. CASE \E w \in Workers : Deliver(w)
  <2>. PICK w \in Workers : Deliver(w)
    BY <1>2
  <2>. DEFINE c == Head(worker[w].calls)
              a == worker[w].age
  <2>1. worker[w] \in [kind : Kinds, calls : Seq(Call) \ {<<>>}, age : 0..MaxDelay]
    BY BusyType DEF Deliver, Busy, IInv
  <2>2. /\ c \in Call
        /\ c.op = "PUT" => c.val \in 1..nextVal - 1
        /\ c.op = "DEL" => c.val = NoVal
        /\ c.op = "SWEEP" =>
              c.val = StaleAge /\ c.path \in {ScopePath(k) : k \in SweptKinds}
    BY <2>1 DEF IInv, WellFormedCalls
  <2>3. \/ c.op = "PUT" /\ DynPath(e) = c.path /\ store'[DynPath(e)].val = c.val
        \/ c.op = "DEL" /\ DynPath(e) = c.path
        \/ c.op = "SWEEP" /\ SweepHits(c, a, DynPath(e))
    <3>1. \/ store'[DynPath(e)] = store[DynPath(e)]
          \/ c.op = "PUT" /\ DynPath(e) = c.path
             /\ store'[DynPath(e)] = [val |-> c.val, age |-> 0]
          \/ c.op = "DEL" /\ DynPath(e) = c.path
          \/ c.op = "SWEEP" /\ SweepHits(c, a, DynPath(e))
      BY <1>1, DeliverStore DEF IInv
    <3>. QED BY <1>1, <3>1
  <2>4. ~(c.op = "PUT" /\ DynPath(e) = c.path)
    BY <2>2, <2>3 DEF NoVal
  <2>5. ~(c.op = "SWEEP" /\ SweepHits(c, a, DynPath(e)))
    <3>. SUFFICES ASSUME c.op = "SWEEP", SweepHits(c, a, DynPath(e)) PROVE FALSE
      OBVIOUS
    <3>1. e[1] \in SweptKinds
      BY <2>2 DEF SweepHits, DynPath, ScopePath
    <3>2. store[DynPath(e)].age <= StaleAge
      BY <3>1, IInvFresh DEF FreshCurrent
    <3>3. /\ store[DynPath(e)].age > StaleAge + a
          /\ a \in Nat /\ store[DynPath(e)].age \in Nat
      BY <1>1, <2>1, <2>2 DEF SweepHits, IInv, TypeOK, Node
    <3>. QED BY <3>2, <3>3
  <2>6. c = Del(DynPath(e))
    BY <2>2, <2>3, <2>4, <2>5 DEF Call, Del
  <2>. QED BY <2>6 DEF Deliver
<1>3. CASE ~\E w \in Workers : Deliver(w)
  <2>1. store'[DynPath(e)].val = store[DynPath(e)].val
    <3>1. CASE Tick
      BY <1>1, <3>1 DEF Tick, IInv, TypeOK
    <3>2. CASE ~Tick
      BY <1>3, <3>2 DEF Next, vars, Orchestrator, Create, Modify, Remove, Handler,
         AppAdd, AppUpdate, AppDelete, EndpointAdd, EndpointUpdate, EndpointDelete,
         ExpServiceAdd, ExpServiceUpdate, ExpServiceDelete, Upsert, Erase,
         CheckDirty, DirtyCheck, AppCheckDirty, EndpointCheckDirty, Sweep, Fail
    <3>. QED BY <3>1, <3>2
  <2>. QED BY <1>1, <2>1
<1>. QED BY <1>2, <1>3

\* SweepSparesCurrent: under the same conditions, the node that holds a
\* live entity's current version disappears only through a DeleteDCNode
\* call on its path, never through CheckDirty's DeleteDCNodes.
THEOREM SweepSparesCurrent ==
    ASSUME MaxFail = 0, ResyncAge + MaxDelay <= StaleAge
    PROVE  Spec => CurrentRemovedOnlyByDelete
<1>1. IInv /\ [Next]_vars =>
        [\A e \in Entities :
            (Current(e) /\ store'[DynPath(e)].val = NoVal)
              => \E w \in Workers : /\ worker[w] # Idle
                                    /\ Head(worker[w].calls) = Del(DynPath(e))]_vars
  BY StepRemovesOnlyByDelete
<1>. QED BY <1>1, IInvariant, PTL DEF Spec, CurrentRemovedOnlyByDelete
=============================================================================

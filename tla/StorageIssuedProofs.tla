------------------------ MODULE StorageIssuedProofs ------------------------
(***************************************************************************)
(* The part of IInv that holds with failing storage calls too, for every   *)
(* value of the constants: every version stored, held or carried by a PUT *)
(* was handed out, and the calls in flight are well formed (a sweep names *)
(* the window and scope of a kind whose CheckDirty runs).                 *)
(***************************************************************************)
EXTENDS StorageSyncProofs

USE KindsAssumption, WorkersAssumption, FlagAssumption, BoundsAssumption

Issued == ValsIssued /\ WellFormedCalls

\* The calls a goroutine starts on are well formed.
CallsOK(calls) ==
    \A i \in 1..Len(calls) :
        LET c == calls[i] IN
        /\ c.op = "PUT" => c.val \in 1..nextVal - 1
        /\ c.op = "DEL" => c.val = NoVal
        /\ c.op = "SWEEP" =>
              c.val = StaleAge /\ c.path \in {ScopePath(k) : k \in SweptKinds}

\* The orchestrator hands out a version above every one stored or in flight.
LEMMA OrchestratorIssued ==
    ASSUME TypeOK, Issued, Orchestrator
    PROVE  Issued'
<1>. PICK e0 \in Entities : Create(e0) \/ Modify(e0) \/ Remove(e0)
  BY DEF Orchestrator
<1>1. /\ nextVal \in Nat /\ nextVal' \in Nat /\ nextVal <= nextVal'
      /\ \A e \in Entities : cluster'[e] < nextVal'
      /\ store' = store /\ worker' = worker
  <2>0. nextVal \in Nat /\ \A e \in Entities : cluster[e] < nextVal
    BY DEF Issued, ValsIssued, TypeOK, Vals
  <2>1. CASE Create(e0)
    BY <2>0, <2>1 DEF Create, TypeOK, NoVal, Vals
  <2>2. CASE Modify(e0)
    BY <2>0, <2>2 DEF Modify, TypeOK, NoVal, Vals
  <2>3. CASE Remove(e0)
    BY <2>0, <2>3 DEF Remove, TypeOK, NoVal
  <2>. QED BY <2>1, <2>2, <2>3
<1>2. ValsIssued'
  BY <1>1 DEF Issued, ValsIssued, TypeOK, Node, Vals, NoVal
<1>3. WellFormedCalls'
  BY <1>1 DEF Issued, WellFormedCalls, TypeOK, Vals
<1>. QED BY <1>2, <1>3 DEF Issued

\* A goroutine started on well-formed calls keeps Issued.
LEMMA StartIssued ==
    ASSUME TypeOK, Issued, NEW w \in Workers, NEW k, NEW calls \in Seq(Call) \ {<<>>},
           Invoke(w, k, calls), UNCHANGED <<cluster, nextVal, store>>, CallsOK(calls)
    PROVE  Issued'
<1>1. worker' = [worker EXCEPT ![w] = [kind |-> k, calls |-> calls, age |-> 0]]
  BY DEF Invoke
<1>2. ValsIssued'
  BY DEF Issued, ValsIssued
<1>3. WellFormedCalls'
  BY <1>1 DEF Issued, WellFormedCalls, CallsOK, TypeOK
<1>. QED BY <1>2, <1>3 DEF Issued

\* Add and Update put the live entity's version, which was handed out.
LEMMA UpsertCallsOK ==
    ASSUME TypeOK, Issued, NEW e \in Entities, cluster[e] # NoVal,
           NEW calls \in Seq(Call),
           \A i \in 1..Len(calls) : calls[i].op = "PUT" /\ calls[i].val = cluster[e]
    PROVE  CallsOK(calls)
<1>1. cluster[e] \in 1..nextVal - 1
  BY DEF Issued, ValsIssued, TypeOK, Vals, NoVal
<1>. QED BY <1>1 DEF CallsOK

\* Each handler callback starts its goroutine on well-formed calls.
LEMMA HandlerIssued ==
    ASSUME TypeOK, Issued, NEW w \in Workers, NEW n \in Names, Handler(w, n)
    PROVE  Issued'
<1>1. ASSUME NEW k \in Kinds, Upsert(w, <<k, n>>, <<Put(DynPath(<<k, n>>), cluster[<<k, n>>])>>)
      PROVE  Issued'
  <2>. DEFINE e == <<k, n>>
              c == Put(DynPath(e), cluster[e])
  <2>1. e \in Entities /\ <<c>> \in Seq(Call) \ {<<>>}
    BY CallsType
  <2>2. CallsOK(<<c>>)
    <3>1. Len(<<c>>) = 1 /\ <<c>>[1] = c /\ c.op = "PUT" /\ c.val = cluster[e]
      BY DEF Put
    <3>. QED BY <1>1, <2>1, <3>1, UpsertCallsOK DEF Upsert
  <2>. QED BY <1>1, <2>1, <2>2, StartIssued DEF Upsert
<1>2. ASSUME "exportservice" \in Kinds,
             Upsert(w, <<"exportservice", n>>,
                    <<Put(WatchPath(<<"exportservice", n>>), cluster[<<"exportservice", n>>]),
                      Put(DynPath(<<"exportservice", n>>), cluster[<<"exportservice", n>>])>>)
      PROVE  Issued'
  <2>. DEFINE e == <<"exportservice", n>>
              calls == <<Put(WatchPath(e), cluster[e]), Put(DynPath(e), cluster[e])>>
  <2>1. e \in Entities /\ calls \in Seq(Call) \ {<<>>}
    BY <1>2, CallsType
  <2>2. CallsOK(calls)
    <3>1. Len(calls) = 2 /\ \A i \in 1..2 : calls[i].op = "PUT" /\ calls[i].val = cluster[e]
      BY DEF Put
    <3>. QED BY <1>2, <2>1, <3>1, UpsertCallsOK DEF Upsert
  <2>. QED BY <1>2, <2>1, <2>2, StartIssued DEF Upsert
<1>3. ASSUME NEW k \in Kinds, NEW calls \in Seq(Call) \ {<<>>},
             Erase(w, <<k, n>>, calls),
             \A i \in 1..Len(calls) : calls[i].op = "DEL" /\ calls[i].val = NoVal
      PROVE  Issued'
  BY <1>3, StartIssued DEF Erase, CallsOK
<1>4. ASSUME NEW k \in Kinds
      PROVE  /\ <<Del(DynPath(<<k, n>>))>> \in Seq(Call) \ {<<>>}
             /\ <<Del(WatchPath(<<k, n>>)), Del(DynPath(<<k, n>>))>> \in Seq(Call) \ {<<>>}
             /\ \A i \in 1..1 : <<Del(DynPath(<<k, n>>))>>[i].op = "DEL"
                               /\ <<Del(DynPath(<<k, n>>))>>[i].val = NoVal
             /\ \A i \in 1..2 :
                  /\ <<Del(WatchPath(<<k, n>>)), Del(DynPath(<<k, n>>))>>[i].op = "DEL"
                  /\ <<Del(WatchPath(<<k, n>>)), Del(DynPath(<<k, n>>))>>[i].val = NoVal
  BY CallsType DEF Del
<1>5. CASE "application" \in Kinds /\ (AppAdd(w, n) \/ AppUpdate(w, n) \/ AppDelete(w, n))
  BY <1>5, <1>1, <1>3, <1>4 DEF AppAdd, AppUpdate, AppDelete
<1>6. CASE "endpoint" \in Kinds /\ (EndpointAdd(w, n) \/ EndpointUpdate(w, n) \/ EndpointDelete(w, n))
  BY <1>6, <1>1, <1>3, <1>4 DEF EndpointAdd, EndpointUpdate, EndpointDelete
<1>7. CASE "exportservice" \in Kinds /\ (ExpServiceAdd(w, n) \/ ExpServiceUpdate(w, n) \/ ExpServiceDelete(w, n))
  BY <1>7, <1>2, <1>3, <1>4 DEF ExpServiceAdd, ExpServiceUpdate, ExpServiceDelete
<1>. QED BY <1>5, <1>6, <1>7 DEF Handler

\* The dirty checks that run issue a sweep with the 600 s window.
LEMMA CheckDirtyIssued ==
    ASSUME TypeOK, Issued, NEW w \in Workers, CheckDirty(w)
    PROVE  Issued'
<1>. PICK k \in Kinds : DirtyCheck(w, k)
  BY DEF CheckDirty
<1>. DEFINE c == [op |-> "SWEEP", path |-> ScopePath(k), val |-> StaleAge]
<1>1. k \in SweptKinds /\ Sweep(w, k, StaleAge)
  BY DEF DirtyCheck, AppCheckDirty, EndpointCheckDirty, SweptKinds
<1>2. c \in Call
  BY DEF Call, ScopePaths
<1>3. <<c>> \in Seq(Call) \ {<<>>}
  BY <1>2
<1>4. CallsOK(<<c>>)
  <2>1. Len(<<c>>) = 1 /\ <<c>>[1] = c
    OBVIOUS
  <2>. QED BY <1>1, <2>1 DEF CallsOK
<1>. QED BY <1>1, <1>3, <1>4, StartIssued DEF Sweep

\* A call that returns leaves its goroutine with the tail of its calls, or
\* idle; the calls left are well formed.
LEMMA AdvanceWellFormed ==
    ASSUME TypeOK, WellFormedCalls, NEW w \in Workers, Busy(w), nextVal' = nextVal,
           worker'[w].calls = Tail(worker[w].calls) \/ worker'[w].calls = <<>>,
           \A v \in Workers \ {w} : worker'[v] = worker[v]
    PROVE  WellFormedCalls'
<1>. DEFINE s == worker[w].calls
<1>. SUFFICES ASSUME NEW v \in Workers, NEW i \in 1..Len(worker'[v].calls)
              PROVE  LET d == worker'[v].calls[i] IN
                     /\ d.op = "PUT" => d.val \in 1..nextVal' - 1
                     /\ d.op = "DEL" => d.val = NoVal
                     /\ d.op = "SWEEP" =>
                           d.val = StaleAge /\ d.path \in {ScopePath(k) : k \in SweptKinds}
  BY DEF WellFormedCalls
<1>1. s \in Seq(Call) /\ s # <<>>
  BY BusyType
<1>2. CASE v = w /\ worker'[w].calls = Tail(s)
  <2>0. /\ Len(Tail(s)) = Len(s) - 1
        /\ \A j \in 1..Len(Tail(s)) : Tail(s)[j] = s[j + 1]
    BY <1>1, HeadTailProperties
  <2>1. i + 1 \in 1..Len(s) /\ worker'[v].calls[i] = s[i + 1]
    BY <1>1, <1>2, <2>0
  <2>. QED BY <2>1 DEF WellFormedCalls
<1>3. CASE v = w /\ worker'[w].calls = <<>>
  BY <1>3
<1>4. CASE v # w
  BY <1>4 DEF WellFormedCalls
<1>. QED BY <1>2, <1>3, <1>4

\* A call that reaches storage stores a version already handed out, or
\* only removes nodes.
LEMMA DeliverIssued ==
    ASSUME TypeOK, Issued, NEW w \in Workers, Deliver(w)
    PROVE  Issued'
<1>. DEFINE c == Head(worker[w].calls)
<1>1. worker[w] \in [kind : Kinds, calls : Seq(Call) \ {<<>>}, age : 0..MaxDelay]
  BY BusyType DEF Deliver, Busy
<1>2. c = worker[w].calls[1] /\ (c.op = "PUT" => c.val \in 1..nextVal - 1)
  BY <1>1 DEF Issued, WellFormedCalls
<1>3. \A p \in NodePaths :
        \/ store'[p] = store[p]
        \/ store'[p] = Absent
        \/ c.op = "PUT" /\ store'[p] = [val |-> c.val, age |-> 0]
  BY DeliverStore
<1>4. ValsIssued'
  BY <1>2, <1>3 DEF Deliver, Issued, ValsIssued, TypeOK, Absent, NoVal
<1>5. WellFormedCalls'
  BY <1>1, AdvanceCalls, AdvanceWellFormed DEF Deliver, Busy, Issued
<1>. QED BY <1>4, <1>5 DEF Issued

\* A failed call changes no node; the handler returns, or ExpServiceHandler
\* goes on with its next call.
LEMMA FailIssued ==
    ASSUME TypeOK, Issued, NEW w \in Workers, Fail(w)
    PROVE  Issued'
<1>1. ValsIssued'
  BY DEF Fail, Issued, ValsIssued
<1>0. Busy(w) /\ nextVal' = nextVal /\ WellFormedCalls
  BY DEF Fail, Busy, Issued
<1>2. CASE worker[w].kind = "exportservice"
  <2>1. Advance(w, Tail(worker[w].calls))
    BY <1>2 DEF Fail
  <2>2. /\ worker'[w].calls = Tail(worker[w].calls)
        /\ \A v \in Workers \ {w} : worker'[v] = worker[v]
    BY <1>0, <2>1, AdvanceCalls
  <2>. QED BY <1>0, <1>1, <2>2, AdvanceWellFormed DEF Issued
<1>3. CASE worker[w].kind # "exportservice"
  <2>1. worker' = [worker EXCEPT ![w] = Idle]
    BY <1>3 DEF Fail, Advance
  <2>2. worker'[w].calls = <<>> /\ \A v \in Workers \ {w} : worker'[v] = worker[v]
    BY <2>1 DEF TypeOK, Idle
  <2>. QED BY <1>0, <1>1, <2>2, AdvanceWellFormed DEF Issued
<1>. QED BY <1>1, <1>2, <1>3 DEF Issued

\* Time passes: no version and no pending call changes.
LEMMA TickIssued ==
    ASSUME TypeOK, Issued, Tick
    PROVE  Issued'
<1>1. \A p \in NodePaths : store'[p].val = store[p].val
  BY DEF Tick, TypeOK, Node
<1>2. \A v \in Workers : worker'[v].calls = worker[v].calls
  <2>. SUFFICES ASSUME NEW v \in Workers PROVE worker'[v].calls = worker[v].calls
    OBVIOUS
  <2>1. CASE Busy(v)
    <3>1. worker[v] \in [kind : Kinds, calls : Seq(Call) \ {<<>>}, age : 0..MaxDelay]
      BY <2>1, BusyType
    <3>. QED BY <2>1, <3>1 DEF Tick, Busy, TypeOK
  <2>2. CASE ~Busy(v)
    BY <2>2 DEF Tick, Busy, TypeOK
  <2>. QED BY <2>1, <2>2
<1>. QED BY <1>1, <1>2 DEF Tick, Issued, ValsIssued, WellFormedCalls

\* Every step keeps Issued, whether storage calls fail or not.
LEMMA NextIssued ==
    ASSUME TypeOK, Issued, [Next]_vars
    PROVE  Issued'
<1>1. CASE Orchestrator
  BY <1>1, OrchestratorIssued
<1>2. CASE \E w \in Workers, n \in Names : Handler(w, n)
  BY <1>2, HandlerIssued
<1>3. CASE \E w \in Workers : CheckDirty(w)
  BY <1>3, CheckDirtyIssued
<1>4. CASE \E w \in Workers : Deliver(w)
  BY <1>4, DeliverIssued
<1>5. CASE \E w \in Workers : Fail(w)
  BY <1>5, FailIssued
<1>6. CASE Tick
  BY <1>6, TickIssued
<1>7. CASE UNCHANGED vars
  BY <1>7 DEF vars, Issued, ValsIssued, WellFormedCalls
<1>. QED BY <1>1, <1>2, <1>3, <1>4, <1>5, <1>6, <1>7 DEF Next
\* IssuedInvariant: whether storage calls fail or not, every version stored,
\* held by the orchestrator or carried by a pending PUT was handed out, and
\* the calls the goroutines have in flight are well formed.
THEOREM IssuedInvariant == Spec => [](TypeOK /\ Issued)
<1>1. Init => TypeOK /\ Issued
  BY DEF Init, TypeOK, Node, Absent, WorkerState, Idle, NoVal, AgeCap,
         Issued, ValsIssued, WellFormedCalls
<1>2. TypeOK /\ Issued /\ [Next]_vars => TypeOK' /\ Issued'
  BY NextType, NextIssued
<1>. QED BY <1>1, <1>2, PTL DEF Spec
=============================================================================

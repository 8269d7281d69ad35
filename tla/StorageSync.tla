---------------------------- MODULE StorageSync ----------------------------
(***************************************************************************)
(* The mesos-watch storage sync handlers (bcs-mesos-watch/storage):        *)
(* AppHandler, EndpointHandler and ExpServiceHandler turn the watch        *)
(* layer's Add/Update/Delete callbacks and the dirty-check tick into calls *)
(* on the storage service (CreateDCNode, DeleteDCNode, DeleteDCNodes).     *)
(*                                                                         *)
(* Several callback goroutines (Workers) run handlers concurrently; each   *)
(* storage call is a blocking round trip that may be delayed (at most      *)
(* MaxDelay ticks) or fail.  A handler issues its calls in program order.  *)
(* The orchestrator's in-memory state (cluster) changes independently, and *)
(* watch events may be lost, duplicated or delivered late.                 *)
(*                                                                         *)
(* Time is a discrete tick.  A storage node records its age in ticks since *)
(* its last write; a dirty sweep computed with UpdateTimeEnd = now - 600   *)
(* at the handler and applied `age' ticks later deletes exactly the nodes  *)
(* whose age exceeds StaleAge + age.  Ages saturate at AgeCap, which keeps *)
(* that comparison exact.                                                  *)
(***************************************************************************)
EXTENDS Naturals, Sequences

CONSTANTS
    Kinds,          \* handler data types registered with the dispatcher
    Names,          \* namespace/name of an entity, one per kind
    Workers,        \* callback goroutines running handlers concurrently
    AppDoCheckDirty,\* AppHandler.DoCheckDirty
    StaleAge,       \* the 600 s of CheckDirty, in ticks
    ResyncAge,      \* the watch layer's resync period (180 s), in ticks
    MaxDelay,       \* longest time a storage call stays in flight, in ticks
    MaxVal,         \* number of entity versions the orchestrator produces
    MaxFail         \* number of storage calls that may fail

AllKinds == {"application", "endpoint", "exportservice"}

ASSUME KindsAssumption == Kinds \subseteq AllKinds /\ Kinds # {}
ASSUME WorkersAssumption == Workers # {}
ASSUME FlagAssumption == AppDoCheckDirty \in BOOLEAN
ASSUME BoundsAssumption ==
    /\ StaleAge \in Nat /\ ResyncAge \in Nat \ {0} /\ MaxDelay \in Nat \ {0}
    /\ MaxVal \in Nat /\ MaxFail \in Nat

VARIABLES
    cluster,    \* cluster[e]: the entity's current version, NoVal if absent
    nextVal,    \* next fresh version the orchestrator hands out
    store,      \* store[p]: the storage node at path p, val = NoVal if absent
    worker,     \* worker[w]: the handler a goroutine runs and its pending calls
    sinceSync,  \* ticks since the watch layer last delivered Add/Update for e
    fails       \* storage calls failed so far

vars == <<cluster, nextVal, store, worker, sinceSync, fails>>

NoVal == 0
Vals == 1..MaxVal
Entities == Kinds \X Names
AgeCap == StaleAge + MaxDelay + 1

(***************************************************************************)
(* Path builder: the string concatenations of the handlers, kept as the   *)
(* tuple of the segments that vary (one cluster).                          *)
(***************************************************************************)
DynPath(e) == <<"dynamic", e>>
WatchPath(e) == <<"watch", e>>
ScopePath(k) == <<"all_resources", k>>
NodePaths == {"dynamic", "watch"} \X Entities
ScopePaths == {ScopePath(k) : k \in Kinds}

Absent == [val |-> NoVal, age |-> 0]
Node == [val : {NoVal} \cup Vals, age : 0..AgeCap]

Put(p, v) == [op |-> "PUT", path |-> p, val |-> v]
Del(p) == [op |-> "DEL", path |-> p, val |-> NoVal]
Call == [op : {"PUT", "DEL"}, path : NodePaths, val : {NoVal} \cup Vals]
        \cup [op : {"SWEEP"}, path : ScopePaths, val : Nat]

Idle == [kind |-> "none", calls |-> <<>>, age |-> 0]
WorkerState == {Idle} \cup
    [kind : Kinds, calls : Seq(Call) \ {<<>>}, age : 0..MaxDelay]

TypeOK ==
    /\ cluster \in [Entities -> {NoVal} \cup Vals]
    /\ nextVal \in 1..MaxVal + 1
    /\ store \in [NodePaths -> Node]
    /\ worker \in [Workers -> WorkerState]
    /\ sinceSync \in [Entities -> 0..ResyncAge]
    /\ fails \in 0..MaxFail

Init ==
    /\ cluster = [e \in Entities |-> NoVal]
    /\ nextVal = 1
    /\ store = [p \in NodePaths |-> Absent]
    /\ worker = [w \in Workers |-> Idle]
    /\ sinceSync = [e \in Entities |-> 0]
    /\ fails = 0

(***************************************************************************)
(* Orchestrator: the scheduler's in-memory state the watch layer mirrors.  *)
(***************************************************************************)
Create(e) ==
    /\ cluster[e] = NoVal
    /\ nextVal <= MaxVal
    /\ cluster' = [cluster EXCEPT ![e] = nextVal]
    /\ nextVal' = nextVal + 1
    /\ sinceSync' = [sinceSync EXCEPT ![e] = 0]
    /\ UNCHANGED <<store, worker, fails>>

Modify(e) ==
    /\ cluster[e] # NoVal
    /\ nextVal <= MaxVal
    /\ cluster' = [cluster EXCEPT ![e] = nextVal]
    /\ nextVal' = nextVal + 1
    /\ UNCHANGED <<store, worker, sinceSync, fails>>

Remove(e) ==
    /\ cluster[e] # NoVal
    /\ cluster' = [cluster EXCEPT ![e] = NoVal]
    /\ UNCHANGED <<nextVal, store, worker, sinceSync, fails>>

(***************************************************************************)
(* A callback runs handler `k' on an idle goroutine; `calls' are the       *)
(* storage calls the handler makes, in program order.  An Add or Update    *)
(* callback carries the entity as it is now and restarts its resync clock. *)
(***************************************************************************)
Invoke(w, k, calls) ==
    /\ worker[w] = Idle
    /\ worker' = [worker EXCEPT ![w] = [kind |-> k, calls |-> calls, age |-> 0]]

Upsert(w, e, calls) ==
    /\ cluster[e] # NoVal
    /\ Invoke(w, e[1], calls)
    /\ sinceSync' = [sinceSync EXCEPT ![e] = 0]
    /\ UNCHANGED <<cluster, nextVal, store, fails>>

Erase(w, e, calls) ==
    /\ cluster[e] = NoVal
    /\ Invoke(w, e[1], calls)
    /\ UNCHANGED <<cluster, nextVal, store, sinceSync, fails>>

\* CheckDirty's DeleteDCNodes with UpdateTimeEnd = now - window: the call
\* carries the window; storage compares it with the node's age on arrival.
Sweep(w, k, window) ==
    /\ Invoke(w, k, <<[op |-> "SWEEP", path |-> ScopePath(k), val |-> window]>>)
    /\ UNCHANGED <<cluster, nextVal, store, sinceSync, fails>>

\* Faulty variants of the handlers below, each a plausible slip in the Go
\* code, used to confirm that the properties detect it.
AppUpdateWatchPath(w, n) ==
    LET e == <<"application", n>> IN Upsert(w, e, <<Put(WatchPath(e), cluster[e])>>)
AppCheckDirtyNoWindow(w) ==
    /\ AppDoCheckDirty
    /\ Sweep(w, "application", 0)
AppCheckDirtyInverted(w) ==
    /\ ~AppDoCheckDirty
    /\ Sweep(w, "application", StaleAge)

AppAdd(w, n) ==
    LET e == <<"application", n>> IN Upsert(w, e, <<Put(DynPath(e), cluster[e])>>)
AppDelete(w, n) ==
    LET e == <<"application", n>> IN Erase(w, e, <<Del(DynPath(e))>>)
AppUpdate(w, n) ==
    LET e == <<"application", n>> IN Upsert(w, e, <<Put(DynPath(e), cluster[e])>>)
AppCheckDirty(w) ==
    /\ AppDoCheckDirty
    /\ Sweep(w, "application", StaleAge)

EndpointCheckDirty(w) == Sweep(w, "endpoint", StaleAge)
EndpointAdd(w, n) ==
    LET e == <<"endpoint", n>> IN Upsert(w, e, <<Put(DynPath(e), cluster[e])>>)
EndpointDelete(w, n) ==
    LET e == <<"endpoint", n>> IN Erase(w, e, <<Del(DynPath(e))>>)
EndpointUpdate(w, n) ==
    LET e == <<"endpoint", n>> IN Upsert(w, e, <<Put(DynPath(e), cluster[e])>>)

\* ExpServiceHandler writes the watch projection, then the dynamic node;
\* its CheckDirty returns nil without a call.
ExpServiceAdd(w, n) ==
    LET e == <<"exportservice", n>>
    IN  Upsert(w, e, <<Put(WatchPath(e), cluster[e]), Put(DynPath(e), cluster[e])>>)
ExpServiceDelete(w, n) ==
    LET e == <<"exportservice", n>>
    IN  Erase(w, e, <<Del(WatchPath(e)), Del(DynPath(e))>>)
ExpServiceUpdate(w, n) ==
    LET e == <<"exportservice", n>>
    IN  Upsert(w, e, <<Put(WatchPath(e), cluster[e]), Put(DynPath(e), cluster[e])>>)

(***************************************************************************)
(* Storage service (the DataOperator's peer): the head call of a goroutine *)
(* reaches storage and is applied, or fails in transport.                  *)
(***************************************************************************)
SweepHits(c, a, p) ==
    /\ p[1] = "dynamic"
    /\ p[2][1] = c.path[2]
    /\ store[p].val # NoVal
    /\ store[p].age > c.val + a

\* A PUT wins unless the node holds a later version (last write wins on the
\* payload's update time; a resync of the same version refreshes the node).
Newer(c) == c.val >= store[c.path].val

Apply(c, a) ==
    CASE c.op = "PUT"   -> IF Newer(c)
                           THEN [store EXCEPT ![c.path] = [val |-> c.val, age |-> 0]]
                           ELSE store
      [] c.op = "DEL"   -> [store EXCEPT ![c.path] = Absent]
      [] c.op = "SWEEP" -> [p \in NodePaths |->
                               IF SweepHits(c, a, p) THEN Absent ELSE store[p]]

\* Faulty variant: the goroutine is not released after its last call.
AdvanceNoReset(w, rest) ==
    worker' = [worker EXCEPT ![w] = [@ EXCEPT !.calls = rest, !.age = 0]]

\* The call returns; the handler goes on with its next call, or returns.
Advance(w, rest) ==
    worker' = [worker EXCEPT ![w] = IF rest = <<>> THEN Idle
                                    ELSE [@ EXCEPT !.calls = rest, !.age = 0]]

Deliver(w) ==
    /\ worker[w] # Idle
    /\ store' = Apply(Head(worker[w].calls), worker[w].age)
    /\ Advance(w, Tail(worker[w].calls))
    /\ UNCHANGED <<cluster, nextVal, sinceSync, fails>>

\* App and Endpoint handlers return the error; ExpServiceHandler ignores it
\* and makes its next call.
Fail(w) ==
    /\ worker[w] # Idle
    /\ fails < MaxFail
    /\ fails' = fails + 1
    /\ Advance(w, IF worker[w].kind = "exportservice"
                  THEN Tail(worker[w].calls) ELSE <<>>)
    /\ UNCHANGED <<cluster, nextVal, store, sinceSync>>

(***************************************************************************)
(* Time passes, as long as no call overstays MaxDelay and the watch layer  *)
(* has resynced every live application and endpoint within ResyncAge.      *)
(***************************************************************************)
ResyncKinds == {"application", "endpoint"}

Older(x, cap) == IF x < cap THEN x + 1 ELSE cap

Tick ==
    /\ \A w \in Workers : worker[w] # Idle => worker[w].age < MaxDelay
    /\ \A e \in Entities :
          (cluster[e] # NoVal /\ e[1] \in ResyncKinds) => sinceSync[e] < ResyncAge
    /\ store' = [p \in NodePaths |->
                    IF store[p].val = NoVal THEN store[p]
                    ELSE [store[p] EXCEPT !.age = Older(@, AgeCap)]]
    /\ worker' = [w \in Workers |->
                    IF worker[w] = Idle THEN Idle
                    ELSE [worker[w] EXCEPT !.age = @ + 1]]
    /\ sinceSync' = [e \in Entities |-> Older(sinceSync[e], ResyncAge)]
    /\ UNCHANGED <<cluster, nextVal, fails>>

(***************************************************************************)
(* The handler callbacks of the registered kinds.                          *)
(***************************************************************************)
Handler(w, n) ==
    \/ "application" \in Kinds /\
         (AppAdd(w, n) \/ AppUpdate(w, n) \/ AppDelete(w, n))
    \/ "endpoint" \in Kinds /\
         (EndpointAdd(w, n) \/ EndpointUpdate(w, n) \/ EndpointDelete(w, n))
    \/ "exportservice" \in Kinds /\
         (ExpServiceAdd(w, n) \/ ExpServiceUpdate(w, n) \/ ExpServiceDelete(w, n))

\* The dispatcher's dirty-check tick calls CheckDirty of every handler.
DirtyCheck(w, k) ==
    \/ k = "application" /\ AppCheckDirty(w)
    \/ k = "endpoint" /\ EndpointCheckDirty(w)

CheckDirty(w) == \E k \in Kinds : DirtyCheck(w, k)

Orchestrator == \E e \in Entities : Create(e) \/ Modify(e) \/ Remove(e)

Next ==
    \/ Orchestrator
    \/ \E w \in Workers, n \in Names : Handler(w, n)
    \/ \E w \in Workers : CheckDirty(w) \/ Deliver(w) \/ Fail(w)
    \/ Tick

(***************************************************************************)
(* Fairness: storage answers every call; the watch layer resyncs live      *)
(* applications and endpoints and the dispatcher's timer calls CheckDirty  *)
(* of every handler; both wait for a free goroutine rather than dropping   *)
(* the call (strong fairness: it runs if a goroutine is free infinitely    *)
(* often); time passes.  Lost events and failed calls are not fair.        *)
(***************************************************************************)
Resync(e) == \E w \in Workers :
    \/ e[1] = "application" /\ AppUpdate(w, e[2])
    \/ e[1] = "endpoint" /\ EndpointUpdate(w, e[2])

Fairness ==
    /\ \A w \in Workers : WF_vars(Deliver(w))
    /\ \A e \in Entities : e[1] \in ResyncKinds => SF_vars(Resync(e))
    /\ \A k \in Kinds : SF_vars(\E w \in Workers : DirtyCheck(w, k))
    /\ WF_vars(Tick)

Spec == Init /\ [][Next]_vars
FairSpec == Spec /\ Fairness

-----------------------------------------------------------------------------
(***************************************************************************)
(* Properties.                                                             *)
(***************************************************************************)
SweptKinds ==
    {k \in Kinds : k = "endpoint" \/ (k = "application" /\ AppDoCheckDirty)}

\* The dynamic node of e holds e's current version.
Current(e) == cluster[e] # NoVal /\ store[DynPath(e)].val = cluster[e]

HandlerPaths(e) ==
    IF e[1] = "exportservice" THEN {DynPath(e), WatchPath(e)} ELSE {DynPath(e)}

\* FreshCurrent: a node that holds the current version of a live entity of a
\* swept kind is never older than the sweep threshold, so the dirty check,
\* whatever its delay, cannot select it (CheckDirty with resync and bounded
\* call delay, reliable storage).
FreshCurrent ==
    \A e \in Entities :
        (e[1] \in SweptKinds /\ Current(e)) => store[DynPath(e)].age <= StaleAge

\* CurrentRemovedOnlyByDelete: the node holding a live entity's current
\* version disappears only through a DeleteDCNode call on its path, never
\* through the dirty check's batch delete (DeleteDCNodes racing resyncs).
CurrentRemovedOnlyByDelete ==
    [][\A e \in Entities :
          (Current(e) /\ store'[DynPath(e)].val = NoVal)
            => \E w \in Workers : /\ worker[w] # Idle
                                  /\ Head(worker[w].calls) = Del(DynPath(e))]_vars

\* Mirrored: every node a handler writes for e holds e's current version,
\* and is absent when e is.
Mirrored == \A e \in Entities : \A p \in HandlerPaths(e) : store[p].val = cluster[e]

\* EventuallyMirrored: once the orchestrator stops changing, storage
\* converges to its state and stays there, despite lost delete events,
\* reordered and failed calls (resync for updates, dirty check for orphans).
EventuallyMirrored == <>[]Mirrored

-----------------------------------------------------------------------------
(***************************************************************************)
(* The inductive strengthening of FreshCurrent (reliable storage, and      *)
(* ResyncAge + MaxDelay <= StaleAge).                                      *)
(***************************************************************************)
Busy(w) == worker[w] # Idle

\* Every version stored or held by the orchestrator was handed out before
\* nextVal.
ValsIssued ==
    /\ \A e \in Entities : cluster[e] < nextVal
    /\ \A p \in NodePaths : store[p].val < nextVal

\* The calls pending on a goroutine are well formed: a PUT carries a version
\* already handed out, a DEL none, and a sweep the 600 s window and the scope
\* of a kind whose dirty check runs.
WellFormedCalls ==
    \A w \in Workers : \A i \in 1..Len(worker[w].calls) :
        LET c == worker[w].calls[i] IN
        /\ c.op = "PUT" => c.val \in 1..nextVal - 1
        /\ c.op = "DEL" => c.val = NoVal
        /\ c.op = "SWEEP" =>
              c.val = StaleAge /\ c.path \in {ScopePath(k) : k \in SweptKinds}

\* A PUT to e's dynamic node that storage will accept is in flight on w.
Refreshing(w, e) ==
    /\ Busy(w)
    /\ Head(worker[w].calls).op = "PUT"
    /\ Head(worker[w].calls).path = DynPath(e)
    /\ Newer(Head(worker[w].calls))

\* The current node was written after the last resync of e, or no more than
\* ResyncAge ticks before a PUT still in flight to it was issued.
CurrentAgeBound ==
    \A e \in Entities :
        (e[1] \in SweptKinds /\ Current(e)) =>
            \/ store[DynPath(e)].age <= sinceSync[e]
            \/ \E w \in Workers :
                  Refreshing(w, e) /\ store[DynPath(e)].age <= worker[w].age + ResyncAge

IInv == TypeOK /\ ValsIssued /\ WellFormedCalls /\ CurrentAgeBound
=============================================================================

---------------------------- MODULE LBElection -----------------------------
(***************************************************************************)
(* What master election among the load-balancer instances promises, in    *)
(* terms of the registry alone.  The registry holds only addresses that   *)
(* instances published as their own; an instance acts on a snapshot of    *)
(* the registry taken at some moment; and its verdict is whether its own  *)
(* address is the first of its last snapshot.  Nothing here says when a   *)
(* snapshot is taken or a verdict revised: an instance may act on a stale *)
(* one.                                                                    *)
(***************************************************************************)
EXTENDS Naturals

CONSTANTS
    Insts,      \* instances
    IP,         \* IP[i]: i's own address
    Rank        \* Rank[a]: the position the registry lists a at

VARIABLES
    registry,   \* the published addresses
    view,       \* view[i]: i's last snapshot of the registry
    master      \* master[i]: i's last verdict

elVars == <<registry, view, master>>

\* The first of a snapshot in the registry's order.
Leader(S) == CHOOSE a \in S : \A b \in S : Rank[a] <= Rank[b]

ElInit ==
    /\ registry = {}
    /\ view = [i \in Insts |-> {}]
    /\ master = [i \in Insts |-> FALSE]

\* An instance publishes its own address.
Publish(i) ==
    /\ registry' = registry \cup {IP[i]}
    /\ UNCHANGED <<view, master>>

\* A published address goes away.
Withdraw(a) ==
    /\ a \in registry
    /\ registry' = registry \ {a}
    /\ UNCHANGED <<view, master>>

\* An instance takes a snapshot of the registry.
Snapshot(i) ==
    /\ view' = [view EXCEPT ![i] = registry]
    /\ UNCHANGED <<registry, master>>

\* An instance with a non-empty snapshot decides whether it leads it.
Decide(i) ==
    /\ view[i] # {}
    /\ master' = [master EXCEPT ![i] = (Leader(view[i]) = IP[i])]
    /\ UNCHANGED <<registry, view>>

ElNext ==
    \/ \E i \in Insts : Publish(i) \/ Snapshot(i) \/ Decide(i)
    \/ \E a \in registry : Withdraw(a)

ElSpec == ElInit /\ [][ElNext]_elVars
=============================================================================

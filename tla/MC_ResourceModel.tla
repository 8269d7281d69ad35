------------------------- MODULE MC_ResourceModel --------------------------
(* Bounded inputs of ResourceModel for TLC. *)
EXTENDS ResourceAggregates, TLC

CONSTANTS nil

\* Process limits: unset, the numeric string "2", one that does not parse.
MCLimits == {Unset, Junk, Itoa(2)}
MCProcs == [cpu : MCLimits, mem : MCLimits, storage : MCLimits]
\* The container requests of the example of section 8.
MCRes == {[cpus |-> 2, mem |-> 100, disk |-> 50], [cpus |-> 3, mem |-> 200, disk |-> 50]}
MCConts == {[dataClass |-> nil, resources |-> nil], [dataClass |-> "set", resources |-> nil]}
           \cup {[dataClass |-> "set", resources |-> r] : r \in MCRes}
\* Versions of every kind with up to two processes and two containers.
MCResourceVersions ==
    [kind : {PROCESS, APP, ""}, process : BoundedSeq(MCProcs, 2),
     container : BoundedSeq(MCConts, 2), constraints : {nil}]

\* Constraint trees of up to one intersection item of up to two entries.
MCEntries ==
    {nil} \cup [type : {"Scalar"}, payload : {nil, "full"}]
          \cup [type : {"Text", "Set"}, payload : {nil, "empty", "full"}]
          \cup {[type |-> "Range", ranges |-> rs] : rs \in BoundedSeq({nil, "set"}, 2)}
MCConstraintVersions ==
    [kind : {APP}, process : {<<>>}, container : {<<>>},
     constraints : {nil} \cup BoundedSeq({nil} \cup BoundedSeq(MCEntries, 2), 1)]
=============================================================================

---------------------------- MODULE TkeSubnetMap ----------------------------
(***************************************************************************)
(* What the TKE LB subnet store promises its callers: a map from cluster   *)
(* region to subnet, in which a save that returns success has replaced the *)
(* region's subnet in one step.  `saved' is what the callers were told:    *)
(* the subnet of the last save of each region that returned success.      *)
(***************************************************************************)
CONSTANTS Regions, Subnets, NoSubnet

VARIABLES
    subnetOf,   \* subnetOf[g]: what a lookup of region g returns
    saved       \* saved[g]: the subnet of the last successful save of g

mapVars == <<subnetOf, saved>>

MapInit ==
    /\ subnetOf = [g \in Regions |-> NoSubnet]
    /\ saved = [g \in Regions |-> NoSubnet]

\* A save of subnet s for region g takes effect and returns.
MapSave(g, s) ==
    /\ subnetOf' = [subnetOf EXCEPT ![g] = s]
    /\ saved' = [saved EXCEPT ![g] = s]

MapNext == \E g \in Regions, s \in Subnets : MapSave(g, s)

MapSpec == MapInit /\ [][MapNext]_mapVars
=============================================================================

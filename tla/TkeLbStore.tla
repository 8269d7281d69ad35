----------------------------- MODULE TkeLbStore -----------------------------
(***************************************************************************)
(* The TKE load-balancer subnet table of bcs-api                           *)
(* (pkg/storages/sqlstore/tke_lb.go).                                      *)
(*                                                                         *)
(* SaveTkeLbSubnet(region, subnet) is gorm's                               *)
(* Where(region).Assign(subnet).FirstOrCreate: a SELECT of the first row   *)
(* of the region, then an UPDATE of that row's subnet when one was found   *)
(* or an INSERT of a new row otherwise; the two statements are not one     *)
(* transaction.  GetSubnetByClusterRegion returns the first row of the     *)
(* region (lowest primary key) or nil.  Each caller is a goroutine.        *)
(***************************************************************************)
EXTENDS Naturals

CONSTANTS
    Callers,        \* goroutines calling SaveTkeLbSubnet
    Regions,        \* cluster regions
    Subnets,        \* subnet ids
    NoSubnet,       \* nil, what the lookup returns for an unknown region
    MaxRows         \* bound on the primary keys handed out

ASSUME TkeAssumption ==
    /\ NoSubnet \notin Subnets
    /\ MaxRows \in Nat
    /\ Regions # {} /\ Subnets # {}

VARIABLES
    rows,       \* the table: a set of [id, region, subnet]
    nextId,     \* the next auto-increment primary key
    pc,         \* pc[c]: "idle", or "write" after the SELECT
    arg,        \* arg[c]: the [region, subnet] caller c is saving
    found,      \* found[c]: the id the SELECT returned, or 0
    lastSaved   \* lastSaved[g]: the subnet of the last save of g that
                \* returned, or NoSubnet

tkVars == <<rows, nextId, pc, arg, found, lastSaved>>

Args == [region : Regions, subnet : Subnets]

TypeOK ==
    /\ rows \subseteq [id : 1..MaxRows, region : Regions, subnet : Subnets]
    /\ nextId \in 1..(MaxRows + 1)
    /\ pc \in [Callers -> {"idle", "write"}]
    /\ arg \in [Callers -> Args]
    /\ found \in [Callers -> 0..MaxRows]
    /\ lastSaved \in [Regions -> Subnets \cup {NoSubnet}]

Init ==
    /\ rows = {}
    /\ nextId = 1
    /\ pc = [c \in Callers |-> "idle"]
    /\ arg = [c \in Callers |-> CHOOSE a \in Args : TRUE]
    /\ found = [c \in Callers |-> 0]
    /\ lastSaved = [g \in Regions |-> NoSubnet]

\* The rows of region g, and the first of them by primary key.
RegionRows(g) == {w \in rows : w.region = g}
FirstRow(g) == CHOOSE w \in RegionRows(g) : \A x \in RegionRows(g) : w.id <= x.id

\* GetSubnetByClusterRegion: the first row's subnet, or nil.
GetSubnetByClusterRegion(g) ==
    IF RegionRows(g) = {} THEN NoSubnet ELSE FirstRow(g).subnet

\* Faulty variant: the Where clause is lost, the SELECT returns the first
\* row of the table whatever its region.
SelectNoWhere(c, a) ==
    /\ pc[c] = "idle"
    /\ rows # {} \/ nextId <= MaxRows
    /\ found' = [found EXCEPT ![c] =
                    IF rows = {} THEN 0
                    ELSE (CHOOSE w \in rows : \A x \in rows : w.id <= x.id).id]
    /\ arg' = [arg EXCEPT ![c] = a]
    /\ pc' = [pc EXCEPT ![c] = "write"]
    /\ UNCHANGED <<rows, nextId, lastSaved>>

\* SaveTkeLbSubnet, the SELECT of FirstOrCreate (one more row must fit
\* when none is found).
Select(c, a) ==
    /\ pc[c] = "idle"
    /\ RegionRows(a.region) # {} \/ nextId <= MaxRows
    /\ found' = [found EXCEPT ![c] = IF RegionRows(a.region) = {} THEN 0
                                     ELSE FirstRow(a.region).id]
    /\ arg' = [arg EXCEPT ![c] = a]
    /\ pc' = [pc EXCEPT ![c] = "write"]
    /\ UNCHANGED <<rows, nextId, lastSaved>>

\* Faulty variant: FirstOrCreate without Assign, a found row is not updated.
WriteNoAssign(c) ==
    /\ pc[c] = "write"
    /\ found[c] = 0 => nextId <= MaxRows
    /\ IF found[c] = 0
       THEN /\ rows' = rows \cup {[id |-> nextId, region |-> arg[c].region,
                                   subnet |-> arg[c].subnet]}
            /\ nextId' = nextId + 1
       ELSE UNCHANGED <<rows, nextId>>
    /\ lastSaved' = [lastSaved EXCEPT ![arg[c].region] = arg[c].subnet]
    /\ pc' = [pc EXCEPT ![c] = "idle"]
    /\ UNCHANGED <<arg, found>>

\* The INSERT or the UPDATE of FirstOrCreate, and the return of nil.
Write(c) ==
    /\ pc[c] = "write"
    /\ found[c] = 0 => nextId <= MaxRows
    /\ IF found[c] = 0
       THEN /\ rows' = rows \cup {[id |-> nextId, region |-> arg[c].region,
                                   subnet |-> arg[c].subnet]}
            /\ nextId' = nextId + 1
       ELSE /\ rows' = {IF w.id = found[c] THEN [w EXCEPT !.subnet = arg[c].subnet]
                        ELSE w : w \in rows}
            /\ UNCHANGED nextId
    /\ lastSaved' = [lastSaved EXCEPT ![arg[c].region] = arg[c].subnet]
    /\ pc' = [pc EXCEPT ![c] = "idle"]
    /\ UNCHANGED <<arg, found>>

\* The statement fails: dbScoped.Error is returned, the table unchanged.
WriteFails(c) ==
    /\ pc[c] = "write"
    /\ pc' = [pc EXCEPT ![c] = "idle"]
    /\ UNCHANGED <<rows, nextId, arg, found, lastSaved>>

TKNext ==
    \/ \E c \in Callers, a \in Args : Select(c, a)
    \/ \E c \in Callers : Write(c) \/ WriteFails(c)

TKSpec == Init /\ [][TKNext]_tkVars
-----------------------------------------------------------------------------
\* LastSaveVisible: when no save is in progress, GetSubnetByClusterRegion
\* returns the subnet of the last SaveTkeLbSubnet of that region that
\* returned nil (FirstOrCreate's update of the found row).
LastSaveVisible ==
    (\A c \in Callers : pc[c] = "idle") =>
        \A g \in Regions : lastSaved[g] # NoSubnet =>
            GetSubnetByClusterRegion(g) = lastSaved[g]

\* The subnet map the table implements: a lookup is what
\* GetSubnetByClusterRegion returns, and a save's result is lastSaved.
Abs == INSTANCE TkeSubnetMap
           WITH subnetOf <- [g \in Regions |-> GetSubnetByClusterRegion(g)],
                saved <- lastSaved

\* MapRefined: SaveTkeLbSubnet and GetSubnetByClusterRegion implement the
\* subnet map: every step of the table either leaves every lookup and every
\* reported save as they were or is one save that takes effect as it
\* returns (FirstOrCreate's SELECT and INSERT/UPDATE seen as one step).
MapRefined == Abs!MapSpec
=============================================================================

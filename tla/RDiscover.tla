----------------------------- MODULE RDiscover -----------------------------
(***************************************************************************)
(* Register/discover and master election of the BCS load balancer         *)
(* (bcs-loadbalance/rdiscover/rdiscover.go).                               *)
(*                                                                         *)
(* Each load-balancer instance, on Start, registers an ephemeral ZooKeeper *)
(* node named by the address GetAvailableIP returns, watches the parent    *)
(* path, and starts the CheckMasterStatus goroutine.  Discovery events     *)
(* replace the instance's copy of the registered list under bcsLBLock;     *)
(* every 5 s the checker takes the lock and, if the list is not empty,     *)
(* sets isMaster to whether the list's first entry is its own address.     *)
(*                                                                         *)
(* Boundary assumptions on the RegisterDiscover library (not in the        *)
(* repository): an event carries the full list of registered children in   *)
(* one fixed order (Rank); the node of a session that expires is        *)
(* re-created while the instance has not stopped; a registration under the *)
(* empty address (parent path + "/") creates no child others can see.      *)
(***************************************************************************)
EXTENDS Naturals

CONSTANTS
    Insts,          \* load-balancer instances
    IP,             \* IP[i]: the private address of i's LB_NETWORKCARD
    NoIP,           \* "", what GetAvailableIP returns when it finds none
    Rank,           \* Rank[a]: the position discovery lists a's node at
    UpAtStart,      \* instances whose interface is up before they start
    CanStop,        \* whether Stop is called
    MaxExpire,      \* ZooKeeper session expiries
    MaxStartFail    \* Start calls that fail

IPs == {IP[i] : i \in Insts}

ASSUME IPAssumption ==
    /\ \A i, j \in Insts : IP[i] = IP[j] => i = j
    /\ NoIP \notin IPs
ASSUME RankAssumption ==
    /\ Rank \in [IPs -> Nat]
    /\ \A a, b \in IPs : Rank[a] = Rank[b] => a = b
ASSUME RDBoundsAssumption ==
    /\ UpAtStart \subseteq Insts /\ CanStop \in BOOLEAN
    /\ MaxExpire \in Nat /\ MaxStartFail \in Nat

VARIABLES
    ifUp,       \* ifUp[i]: i's network card has its private address
    pc,         \* pc[i]: "new", "running" (event loop), "stopped", "failed"
    regIP,      \* regIP[i]: lbInfo.IP that registerLoadBalance published
    zk,         \* addresses with a live ephemeral node under the LB path
    seen,       \* seen[i]: the addresses in r.bcsLBServs, listed by Rank
    isMaster,   \* isMaster[i]: r.isMaster
    checking,   \* checking[i]: i's CheckMasterStatus goroutine runs
    expired,    \* session expiries so far
    startFails  \* failed Start calls so far

rdVars == <<ifUp, pc, regIP, zk, seen, isMaster, checking, expired, startFails>>

TypeOK ==
    /\ ifUp \in [Insts -> BOOLEAN]
    /\ pc \in [Insts -> {"new", "running", "stopped", "failed"}]
    /\ regIP \in [Insts -> IPs \cup {NoIP}]
    /\ zk \subseteq IPs
    /\ seen \in [Insts -> SUBSET IPs]
    /\ isMaster \in [Insts -> BOOLEAN]
    /\ checking \in [Insts -> BOOLEAN]
    /\ expired \in 0..MaxExpire
    /\ startFails \in 0..MaxStartFail

Init ==
    /\ ifUp \in [Insts -> BOOLEAN]
    /\ \A i \in UpAtStart : ifUp[i]
    /\ pc = [i \in Insts |-> "new"]
    /\ regIP = [i \in Insts |-> NoIP]
    /\ zk = {}
    /\ seen = [i \in Insts |-> {}]
    /\ isMaster = [i \in Insts |-> FALSE]
    /\ checking = [i \in Insts |-> FALSE]
    /\ expired = 0
    /\ startFails = 0

\* GetAvailableIP: the private IPv4 address of the card, or "" when the
\* card is missing or has none yet.
GetAvailableIP(i) == IF ifUp[i] THEN IP[i] ELSE NoIP

\* r.bcsLBServs[0]: the first of a discovered list.
First(S) == CHOOSE a \in S : \A b \in S : Rank[a] <= Rank[b]

\* The card gets its address (DHCP, or the interface is brought up late).
InterfaceUp(i) ==
    /\ ~ifUp[i]
    /\ ifUp' = [ifUp EXCEPT ![i] = TRUE]
    /\ UNCHANGED <<pc, regIP, zk, seen, isMaster, checking, expired, startFails>>

\* Faulty variants used to confirm that the properties detect the slip:
\* a registration that publishes the empty address as a child, a checker
\* with the comparison inverted, and one that never demotes itself.
RegisterLoadBalanceAny(i) ==
    /\ regIP' = [regIP EXCEPT ![i] = GetAvailableIP(i)]
    /\ zk' = zk \cup {GetAvailableIP(i)}
CheckMasterStatusInverted(i) ==
    /\ checking[i]
    /\ isMaster' = IF seen[i] # {}
                   THEN [isMaster EXCEPT ![i] = (First(seen[i]) # GetAvailableIP(i))]
                   ELSE isMaster
    /\ UNCHANGED <<ifUp, pc, regIP, zk, seen, checking, expired, startFails>>
CheckMasterStatusNoDemote(i) ==
    /\ checking[i]
    /\ isMaster' = IF seen[i] # {} /\ First(seen[i]) = GetAvailableIP(i)
                   THEN [isMaster EXCEPT ![i] = TRUE]
                   ELSE isMaster
    /\ UNCHANGED <<ifUp, pc, regIP, zk, seen, checking, expired, startFails>>

\* registerLoadBalance: publish lbInfo.IP = GetAvailableIP() under
\* parent + "/" + lbInfo.IP, whether or not an address was found.
RegisterLoadBalance(i) ==
    /\ regIP' = [regIP EXCEPT ![i] = GetAvailableIP(i)]
    /\ zk' = IF GetAvailableIP(i) = NoIP THEN zk ELSE zk \cup {GetAvailableIP(i)}

\* Start: rd.Start, registerLoadBalance, DiscoverService, then
\* `go CheckMasterStatus()' and the event loop.
Start(i) ==
    /\ pc[i] = "new"
    /\ RegisterLoadBalance(i)
    /\ pc' = [pc EXCEPT ![i] = "running"]
    /\ checking' = [checking EXCEPT ![i] = TRUE]
    /\ UNCHANGED <<ifUp, seen, isMaster, expired, startFails>>

\* Start returns an error from rd.Start or RegisterAndWatchService:
\* nothing is registered and no goroutine runs.
StartFailEarly(i) ==
    /\ pc[i] = "new"
    /\ startFails < MaxStartFail
    /\ pc' = [pc EXCEPT ![i] = "failed"]
    /\ startFails' = startFails + 1
    /\ UNCHANGED <<ifUp, regIP, zk, seen, isMaster, checking, expired>>

\* Start returns the error of DiscoverService after registering: the node
\* stays registered (the session is not closed), with no event loop and no
\* checker behind it.
StartFailDiscover(i) ==
    /\ pc[i] = "new"
    /\ startFails < MaxStartFail
    /\ RegisterLoadBalance(i)
    /\ pc' = [pc EXCEPT ![i] = "failed"]
    /\ startFails' = startFails + 1
    /\ UNCHANGED <<ifUp, seen, isMaster, checking, expired>>

\* discoverBCSLBServ: an event of the watch replaces the list under the
\* lock (every entry is the JSON registerLoadBalance wrote, so none is
\* skipped as malformed).
DiscoverBCSLBServ(i) ==
    /\ pc[i] = "running"
    /\ seen[i] # zk
    /\ seen' = [seen EXCEPT ![i] = zk]
    /\ UNCHANGED <<ifUp, pc, regIP, zk, isMaster, checking, expired, startFails>>

\* One round of the CheckMasterStatus loop, which never exits; with an
\* empty list it leaves isMaster as it is.
CheckMasterStatus(i) ==
    /\ checking[i]
    /\ isMaster' = IF seen[i] # {}
                   THEN [isMaster EXCEPT ![i] = (First(seen[i]) = GetAvailableIP(i))]
                   ELSE isMaster
    /\ UNCHANGED <<ifUp, pc, regIP, zk, seen, checking, expired, startFails>>

\* The ZooKeeper session of i expires and its ephemeral node goes.
Expire(i) ==
    /\ expired < MaxExpire
    /\ regIP[i] \in zk
    /\ zk' = zk \ {regIP[i]}
    /\ expired' = expired + 1
    /\ UNCHANGED <<ifUp, pc, regIP, seen, isMaster, checking, startFails>>

\* RegisterAndWatchService re-creates the node with the data it was given.
Reregister(i) ==
    /\ pc[i] \in {"running", "failed"}
    /\ regIP[i] # NoIP
    /\ regIP[i] \notin zk
    /\ zk' = zk \cup {regIP[i]}
    /\ UNCHANGED <<ifUp, pc, regIP, seen, isMaster, checking, expired, startFails>>

\* Stop: cancel the root context (the event loop returns) and rd.Stop
\* (the session closes and the node goes).  The checker goroutine has no
\* exit and keeps running on the last list.
Stop(i) ==
    /\ CanStop
    /\ pc[i] = "running"
    /\ pc' = [pc EXCEPT ![i] = "stopped"]
    /\ zk' = zk \ {regIP[i]}
    /\ UNCHANGED <<ifUp, regIP, seen, isMaster, checking, expired, startFails>>

RDNext ==
    \E i \in Insts :
        \/ InterfaceUp(i)
        \/ Start(i) \/ StartFailEarly(i) \/ StartFailDiscover(i)
        \/ DiscoverBCSLBServ(i) \/ CheckMasterStatus(i)
        \/ Expire(i) \/ Reregister(i) \/ Stop(i)

(***************************************************************************)
(* Fairness: instances are started; the watch delivers events; the checker *)
(* loop runs every 5 s; the library re-registers an expired node.          *)
(***************************************************************************)
RDFairness ==
    \A i \in Insts :
        /\ WF_rdVars(Start(i))
        /\ WF_rdVars(DiscoverBCSLBServ(i))
        /\ WF_rdVars(CheckMasterStatus(i))
        /\ WF_rdVars(Reregister(i))

RDSpec == Init /\ [][RDNext]_rdVars
RDFairSpec == RDSpec /\ RDFairness

-----------------------------------------------------------------------------
Masters == {i \in Insts : isMaster[i]}

\* OnlyRegisteredMaster: an instance reports IsMaster() only if the
\* address it registered is its own, so an instance that registered "" (its
\* card was down at Start) never becomes master, even after the card is up
\* (registerLoadBalance's unchecked GetAvailableIP against CheckMasterStatus'
\* fresh one).
OnlyRegisteredMaster == \A i \in Insts : isMaster[i] => regIP[i] = IP[i]

Live == {i \in Insts : pc[i] = "running"}

\* EventuallyOneMaster: once sessions stop expiring, while any instance is
\* running, exactly one instance reports IsMaster() from some point on, and
\* it is a running one (CheckMasterStatus over the discovered lists).
EventuallyOneMaster == <>[](Live # {} => \E i \in Live : Masters = {i})

Election == INSTANCE LBElection WITH registry <- zk, view <- seen, master <- isMaster

\* ElectionRefined: the register/discover/check loop is the abstract
\* election: ZooKeeper only ever lists addresses instances registered as
\* their own, every discovered list is the registry at some moment, and
\* CheckMasterStatus' verdict, though it compares with a fresh
\* GetAvailableIP() rather than the registered address, is whether the
\* instance's own address heads its last list.
ElectionRefined == Election!ElSpec
-----------------------------------------------------------------------------
(***************************************************************************)
(* The inductive strengthening of OnlyRegisteredMaster.                    *)
(***************************************************************************)
\* An instance registers its own address or "".
RegOwn == \A j \in Insts : regIP[j] \in {IP[j], NoIP}

\* Before Start an instance has registered nothing and runs no checker.
FreshNew == \A j \in Insts :
    pc[j] = "new" => regIP[j] = NoIP /\ ~checking[j] /\ ~isMaster[j]

Registered(a) == \E j \in Insts : regIP[j] = a

\* Every child under the LB path, and every address an instance discovered,
\* is the address some instance registered.
ZkRegistered == \A a \in zk : Registered(a)
SeenRegistered == \A i \in Insts : \A a \in seen[i] : Registered(a)

\* An instance that registered its real address has its card up (the card
\* never loses its address once it has one).
RegUp == \A j \in Insts : regIP[j] = IP[j] => ifUp[j]

RDInv == /\ TypeOK /\ RegOwn /\ FreshNew /\ ZkRegistered /\ SeenRegistered
         /\ OnlyRegisteredMaster
=============================================================================

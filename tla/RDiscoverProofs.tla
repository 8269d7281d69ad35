-------------------------- MODULE RDiscoverProofs --------------------------
(***************************************************************************)
(* Proofs about the load balancer's register/discover and master election *)
(* (RDiscover): type correctness, and that only an instance that          *)
(* registered its own address ever reports IsMaster(), for every set of    *)
(* instances, addresses and discovery order.                               *)
(***************************************************************************)
EXTENDS RDiscover, WellFoundedInduction, TLAPS

USE IPAssumption, RankAssumption, RDBoundsAssumption

(***************************************************************************)
(* The first entry of a non-empty discovered list is one of its entries:  *)
(* Rank maps addresses into Nat, where `<' is well founded, so the list    *)
(* has an entry of least rank.                                             *)
(***************************************************************************)
LEMMA FirstInSet ==
    ASSUME NEW S \in SUBSET IPs, S # {}
    PROVE  First(S) \in S
<1> DEFINE T == {Rank[a] : a \in S}
<1>1. T \subseteq Nat /\ T # {}
  OBVIOUS
<1>2. PICK x \in T : \A y \in T : ~(<<y, x>> \in OpToRel(<, Nat))
  BY <1>1, NatLessThanWellFounded, WFMin
<1>3. PICK a \in S : Rank[a] = x
  OBVIOUS
<1>4. \A b \in S : Rank[a] <= Rank[b]
  <2> TAKE b \in S
  <2>1. Rank[b] \in T /\ Rank[b] \in Nat /\ x \in Nat
    BY <1>1
  <2>2. ~(<<Rank[b], x>> \in OpToRel(<, Nat))
    BY <1>2, <2>1
  <2>3. ~(Rank[b] < x)
    BY <2>1, <2>2, Zenon DEF OpToRel
  <2> QED
    BY <2>1, <2>3, <1>3
<1> QED
  BY <1>4 DEF First

(***************************************************************************)
(* The checker only claims mastership for an address of its own: when it  *)
(* finds itself first on a list of registered addresses, it registered    *)
(* that address.                                                           *)
(***************************************************************************)
LEMMA MasterOwnsHead ==
    ASSUME TypeOK, RegOwn, SeenRegistered, NEW i \in Insts,
           seen[i] # {}, First(seen[i]) = GetAvailableIP(i)
    PROVE  regIP[i] = IP[i]
<1>1. First(seen[i]) \in IPs /\ Registered(First(seen[i]))
  BY FirstInSet DEF TypeOK, SeenRegistered
<1>2. GetAvailableIP(i) = IP[i]
  BY <1>1 DEF GetAvailableIP
<1>3. PICK j \in Insts : regIP[j] = IP[i]
  BY <1>1, <1>2 DEF Registered
<1>4. j = i
  BY <1>3 DEF RegOwn, IPs
<1> QED
  BY <1>3, <1>4

(***************************************************************************)
(* Registering at Start keeps every registered address registered: the    *)
(* instance that starts had registered nothing before.                     *)
(***************************************************************************)
LEMMA RegisterKeeps ==
    ASSUME TypeOK, FreshNew, NEW i \in Insts, pc[i] = "new",
           regIP' = [regIP EXCEPT ![i] = GetAvailableIP(i)],
           NEW a \in IPs, Registered(a)
    PROVE  Registered(a)'
<1>1. PICK j \in Insts : regIP[j] = a
  BY DEF Registered
<1>2. j # i
  BY <1>1 DEF FreshNew
<1> QED
  BY <1>1, <1>2 DEF Registered, TypeOK

(***************************************************************************)
(* Type correctness.                                                       *)
(***************************************************************************)
LEMMA RDNextType ==
    ASSUME TypeOK, [RDNext]_rdVars
    PROVE  TypeOK'
<1> USE DEF TypeOK, GetAvailableIP
<1>1. CASE UNCHANGED rdVars
  BY <1>1 DEF rdVars
<1>2. ASSUME NEW i \in Insts PROVE
        /\ InterfaceUp(i) => TypeOK'
        /\ Start(i) => TypeOK'
        /\ StartFailEarly(i) => TypeOK'
        /\ StartFailDiscover(i) => TypeOK'
        /\ DiscoverBCSLBServ(i) => TypeOK'
        /\ CheckMasterStatus(i) => TypeOK'
        /\ Expire(i) => TypeOK'
        /\ Reregister(i) => TypeOK'
        /\ Stop(i) => TypeOK'
  <2>1. GetAvailableIP(i) \in IPs \cup {NoIP}
    BY DEF IPs
  <2>2. InterfaceUp(i) => TypeOK'
    BY DEF InterfaceUp
  <2>3. Start(i) => TypeOK'
    BY <2>1 DEF Start, RegisterLoadBalance
  <2>4. StartFailEarly(i) => TypeOK'
    BY DEF StartFailEarly
  <2>5. StartFailDiscover(i) => TypeOK'
    BY <2>1 DEF StartFailDiscover, RegisterLoadBalance
  <2>6. DiscoverBCSLBServ(i) => TypeOK'
    BY DEF DiscoverBCSLBServ
  <2>7. CheckMasterStatus(i) => TypeOK'
    BY DEF CheckMasterStatus
  <2>8. Expire(i) => TypeOK'
    BY DEF Expire
  <2>9. Reregister(i) => TypeOK'
    BY DEF Reregister
  <2>10. Stop(i) => TypeOK'
    BY DEF Stop
  <2> QED
    BY <2>2, <2>3, <2>4, <2>5, <2>6, <2>7, <2>8, <2>9, <2>10
<1> QED
  BY <1>1, <1>2 DEF RDNext

\* TypeCorrect: every reachable state of the load balancer's register,
\* discover and master check is well typed.
THEOREM RDTypeCorrect == RDSpec => []TypeOK
<1>1. Init => TypeOK
  BY DEF Init, TypeOK
<1> QED
  BY <1>1, RDNextType, PTL DEF RDSpec

(***************************************************************************)
(* The inductive step of RDInv, one case per action.                       *)
(***************************************************************************)
\* When regIP does not change, neither does being registered.
LEMMA RegisteredUnchanged ==
    ASSUME regIP' = regIP, NEW a
    PROVE  Registered(a)' = Registered(a)
  BY DEF Registered

LEMMA StartInv ==
    ASSUME RDInv, TypeOK', NEW i \in Insts, Start(i) \/ StartFailDiscover(i)
    PROVE  RDInv'
<1> USE DEF RDInv
<1>1. /\ pc[i] = "new" /\ pc'[i] # "new"
      /\ RegisterLoadBalance(i)
      /\ \A j \in Insts \ {i} : pc'[j] = pc[j] /\ checking'[j] = checking[j]
      /\ seen' = seen /\ isMaster' = isMaster
  BY DEF Start, StartFailDiscover, TypeOK
<1>2. regIP' = [regIP EXCEPT ![i] = GetAvailableIP(i)]
  BY <1>1 DEF RegisterLoadBalance
<1>3. RegOwn'
  BY <1>2 DEF RegOwn, GetAvailableIP, TypeOK
<1>4. FreshNew'
  BY <1>1, <1>2 DEF FreshNew, TypeOK
<1>5. ZkRegistered'
  <2> SUFFICES ASSUME NEW a \in zk' PROVE Registered(a)'
    BY DEF ZkRegistered
  <2>1. CASE a \in zk
    BY <1>1, <1>2, <2>1, RegisterKeeps DEF ZkRegistered, TypeOK
  <2>2. CASE a \notin zk
    <3>1. a = GetAvailableIP(i)
      BY <1>1, <2>2 DEF RegisterLoadBalance
    <3> QED
      BY <1>2, <3>1 DEF Registered, TypeOK
  <2> QED
    BY <2>1, <2>2
<1>6. SeenRegistered'
  BY <1>1, <1>2, RegisterKeeps DEF SeenRegistered, TypeOK
<1>7. OnlyRegisteredMaster'
  BY <1>1, <1>2 DEF OnlyRegisteredMaster, FreshNew, TypeOK
<1> QED
  BY <1>3, <1>4, <1>5, <1>6, <1>7

LEMMA CheckMasterInv ==
    ASSUME RDInv, TypeOK', NEW i \in Insts, CheckMasterStatus(i)
    PROVE  RDInv'
<1> USE DEF RDInv
<1>1. UNCHANGED <<pc, regIP, zk, seen, checking>> /\ checking[i]
  BY DEF CheckMasterStatus
<1>2. RegOwn' /\ FreshNew' /\ ZkRegistered' /\ SeenRegistered'
  <2>1. pc[i] # "new"
    BY <1>1 DEF FreshNew
  <2>2. \A j \in Insts \ {i} : isMaster'[j] = isMaster[j]
    BY DEF CheckMasterStatus, TypeOK
  <2> QED
    BY <1>1, <2>1, <2>2, RegisteredUnchanged
       DEF RegOwn, FreshNew, ZkRegistered, SeenRegistered
<1>3. OnlyRegisteredMaster'
  <2> SUFFICES ASSUME NEW j \in Insts, isMaster'[j] PROVE regIP[j] = IP[j]
    BY <1>1 DEF OnlyRegisteredMaster
  <2>1. CASE j = i /\ seen[i] # {}
    <3>1. First(seen[i]) = GetAvailableIP(i)
      BY <2>1 DEF CheckMasterStatus, TypeOK
    <3> QED
      BY <2>1, <3>1, MasterOwnsHead
  <2>2. CASE ~(j = i /\ seen[i] # {})
    BY <2>2 DEF CheckMasterStatus, OnlyRegisteredMaster, TypeOK
  <2> QED
    BY <2>1, <2>2
<1> QED
  BY <1>2, <1>3

LEMMA RDNextInv ==
    ASSUME RDInv, [RDNext]_rdVars
    PROVE  RDInv'
<1> USE DEF RDInv
<1>1. TypeOK'
  BY RDNextType
<1>2. CASE UNCHANGED rdVars
  BY <1>1, <1>2 DEF rdVars, Registered, RegOwn, FreshNew, ZkRegistered,
     SeenRegistered, OnlyRegisteredMaster
<1>3. ASSUME NEW i \in Insts PROVE
        /\ InterfaceUp(i) => RDInv'
        /\ (Start(i) \/ StartFailDiscover(i)) => RDInv'
        /\ StartFailEarly(i) => RDInv'
        /\ DiscoverBCSLBServ(i) => RDInv'
        /\ CheckMasterStatus(i) => RDInv'
        /\ (Expire(i) \/ Stop(i)) => RDInv'
        /\ Reregister(i) => RDInv'
  <2>1. InterfaceUp(i) => RDInv'
    BY <1>1, RegisteredUnchanged DEF InterfaceUp, RegOwn, FreshNew,
       ZkRegistered, SeenRegistered, OnlyRegisteredMaster
  <2>2. (Start(i) \/ StartFailDiscover(i)) => RDInv'
    BY <1>1, StartInv
  <2>3. StartFailEarly(i) => RDInv'
    BY <1>1, RegisteredUnchanged DEF StartFailEarly, RegOwn, FreshNew,
       ZkRegistered, SeenRegistered, OnlyRegisteredMaster, TypeOK
  <2>4. DiscoverBCSLBServ(i) => RDInv'
    BY <1>1, RegisteredUnchanged DEF DiscoverBCSLBServ, RegOwn, FreshNew,
       ZkRegistered, SeenRegistered, OnlyRegisteredMaster, TypeOK
  <2>5. CheckMasterStatus(i) => RDInv'
    BY <1>1, CheckMasterInv
  <2>6. (Expire(i) \/ Stop(i)) => RDInv'
    BY <1>1, RegisteredUnchanged DEF Expire, Stop, RegOwn, FreshNew,
       ZkRegistered, SeenRegistered, OnlyRegisteredMaster, TypeOK
  <2>7. Reregister(i) => RDInv'
    BY <1>1, RegisteredUnchanged DEF Reregister, RegOwn, FreshNew,
       ZkRegistered, SeenRegistered, OnlyRegisteredMaster, Registered
  <2> QED
    BY <2>1, <2>2, <2>3, <2>4, <2>5, <2>6, <2>7
<1> QED
  BY <1>2, <1>3 DEF RDNext

\* OnlyRegisteredMasterHolds: whatever the instances, addresses and
\* discovery order, an instance reports IsMaster() only if the address
\* registerLoadBalance published for it is its own, never after it
\* registered "" because its card had no address at Start.
THEOREM OnlyRegisteredMasterHolds == RDSpec => []OnlyRegisteredMaster
<1>1. Init => RDInv
  BY DEF Init, RDInv, TypeOK, RegOwn, FreshNew, ZkRegistered, SeenRegistered,
     OnlyRegisteredMaster
<1>2. RDInv => OnlyRegisteredMaster
  BY DEF RDInv
<1> QED
  BY <1>1, <1>2, RDNextInv, PTL DEF RDSpec
-----------------------------------------------------------------------------
(***************************************************************************)
(* The register/discover/check loop implements the abstract election     *)
(* LBElection under zk |-> registry, seen |-> view, isMaster |-> master.   *)
(* The checker compares the head of its list with a fresh                *)
(* GetAvailableIP(), the abstract verdict with the instance's own address; *)
(* they agree because the head is a registered address, only its owner   *)
(* registers it (RegOwn), and an owner that registered it has its card up *)
(* (RegUp).                                                                *)
(***************************************************************************)
ElInv == RDInv /\ RegUp

LEMMA RegUpStep ==
    ASSUME TypeOK, RegUp, [RDNext]_rdVars
    PROVE  RegUp'
<1> SUFFICES ASSUME NEW j \in Insts, regIP'[j] = IP[j] PROVE ifUp'[j]
  BY DEF RegUp
<1>1. IP[j] # NoIP
  BY DEF IPs
<1>2. CASE UNCHANGED rdVars
  BY <1>2 DEF rdVars, RegUp
<1>3. ASSUME NEW i \in Insts,
             Start(i) \/ StartFailDiscover(i)
      PROVE  ifUp'[j]
  <2>1. regIP' = [regIP EXCEPT ![i] = GetAvailableIP(i)] /\ ifUp' = ifUp
    BY <1>3 DEF Start, StartFailDiscover, RegisterLoadBalance
  <2> QED
    BY <2>1, <1>1 DEF GetAvailableIP, RegUp, TypeOK
<1>4. ASSUME NEW i \in Insts, InterfaceUp(i) PROVE ifUp'[j]
  BY <1>4 DEF InterfaceUp, RegUp, TypeOK
<1>5. ASSUME NEW i \in Insts,
             \/ StartFailEarly(i) \/ DiscoverBCSLBServ(i)
             \/ CheckMasterStatus(i) \/ Expire(i) \/ Reregister(i) \/ Stop(i)
      PROVE  ifUp'[j]
  <2>1. regIP' = regIP /\ ifUp' = ifUp
    BY <1>5 DEF StartFailEarly, DiscoverBCSLBServ, CheckMasterStatus, Expire,
       Reregister, Stop
  <2> QED
    BY <2>1 DEF RegUp
<1> QED
  BY <1>2, <1>3, <1>4, <1>5 DEF RDNext

\* An address some instance registered, other than "", belongs to it.
LEMMA RegisteredOwner ==
    ASSUME TypeOK, RegOwn, NEW i \in Insts, Registered(IP[i])
    PROVE  regIP[i] = IP[i]
<1>1. PICK j \in Insts : regIP[j] = IP[i]
  BY DEF Registered
<1>2. regIP[j] = IP[j]
  BY <1>1 DEF RegOwn, IPs
<1> QED
  BY <1>1, <1>2

\* The checker's verdict is the abstract one.
LEMMA CheckVerdict ==
    ASSUME RDInv, RegUp, NEW i \in Insts, seen[i] # {}
    PROVE  (First(seen[i]) = GetAvailableIP(i)) = (First(seen[i]) = IP[i])
<1>1. First(seen[i]) \in seen[i] /\ First(seen[i]) \in IPs
  BY FirstInSet DEF RDInv, TypeOK
<1>2. CASE ifUp[i]
  BY <1>2 DEF GetAvailableIP
<1>3. CASE ~ifUp[i]
  <2>1. GetAvailableIP(i) = NoIP /\ First(seen[i]) # NoIP
    BY <1>1, <1>3 DEF GetAvailableIP
  <2>2. First(seen[i]) # IP[i]
    <3> SUFFICES ASSUME First(seen[i]) = IP[i] PROVE FALSE
      OBVIOUS
    <3>1. Registered(IP[i])
      BY <1>1 DEF RDInv, SeenRegistered
    <3>2. regIP[i] = IP[i]
      BY <3>1, RegisteredOwner DEF RDInv
    <3> QED
      BY <3>2, <1>3 DEF RegUp
  <2> QED
    BY <2>1, <2>2
<1> QED
  BY <1>2, <1>3

\* The heads the checker and the abstract election compute are the same.
LEMMA LeaderIsFirst ==
    ASSUME NEW S
    PROVE  Election!Leader(S) = First(S)
  BY DEF Election!Leader, First

LEMMA RDStepRefines ==
    ASSUME ElInv, [RDNext]_rdVars
    PROVE  [Election!ElNext]_Election!elVars
<1> USE DEF ElInv, RDInv
<1>1. CASE UNCHANGED rdVars
  BY <1>1 DEF rdVars, Election!elVars
<1>2. ASSUME NEW i \in Insts,
             \/ InterfaceUp(i) \/ StartFailEarly(i)
             \/ Start(i) /\ GetAvailableIP(i) = NoIP
             \/ StartFailDiscover(i) /\ GetAvailableIP(i) = NoIP
             \/ CheckMasterStatus(i) /\ seen[i] = {}
             \/ Stop(i) /\ regIP[i] \notin zk
      PROVE  [Election!ElNext]_Election!elVars
  <2>1. zk' = zk /\ seen' = seen /\ isMaster' = isMaster
    BY <1>2 DEF InterfaceUp, StartFailEarly, Start, StartFailDiscover,
       RegisterLoadBalance, CheckMasterStatus, Stop
  <2> QED
    BY <2>1 DEF Election!elVars
<1>3. ASSUME NEW i \in Insts,
             \/ Start(i) /\ GetAvailableIP(i) # NoIP
             \/ StartFailDiscover(i) /\ GetAvailableIP(i) # NoIP
             \/ Reregister(i)
      PROVE  [Election!ElNext]_Election!elVars
  <2>1. zk' = zk \cup {IP[i]} /\ seen' = seen /\ isMaster' = isMaster
    <3>1. Reregister(i) => regIP[i] = IP[i]
      BY DEF Reregister, RegOwn
    <3> QED
      BY <1>3, <3>1 DEF Start, StartFailDiscover, RegisterLoadBalance,
         GetAvailableIP, Reregister
  <2>2. \E j \in Insts : zk' = zk \cup {IP[j]} /\ seen' = seen
                         /\ isMaster' = isMaster
    BY <2>1
  <2> QED
    BY <2>2 DEF Election!ElNext, Election!Publish
<1>4. ASSUME NEW i \in Insts, DiscoverBCSLBServ(i)
      PROVE  [Election!ElNext]_Election!elVars
  <2>1. \E j \in Insts : seen' = [seen EXCEPT ![j] = zk] /\ zk' = zk
                         /\ isMaster' = isMaster
    BY <1>4 DEF DiscoverBCSLBServ
  <2> QED
    BY <2>1 DEF Election!ElNext, Election!Snapshot
<1>5. ASSUME NEW i \in Insts, CheckMasterStatus(i), seen[i] # {}
      PROVE  [Election!ElNext]_Election!elVars
  <2>1. isMaster' = [isMaster EXCEPT ![i] = (First(seen[i]) = IP[i])]
        /\ zk' = zk /\ seen' = seen
    BY <1>5, CheckVerdict DEF CheckMasterStatus
  <2>2. \E j \in Insts :
          /\ seen[j] # {}
          /\ isMaster' = [isMaster EXCEPT ![j] = (Election!Leader(seen[j]) = IP[j])]
          /\ zk' = zk /\ seen' = seen
    BY <1>5, <2>1, LeaderIsFirst
  <2> QED
    BY <2>2 DEF Election!ElNext, Election!Decide
<1>6. ASSUME NEW i \in Insts,
             \/ Expire(i)
             \/ Stop(i) /\ regIP[i] \in zk
      PROVE  [Election!ElNext]_Election!elVars
  <2>1. \E a \in zk : zk' = zk \ {a} /\ seen' = seen /\ isMaster' = isMaster
    BY <1>6 DEF Expire, Stop
  <2> QED
    BY <2>1 DEF Election!ElNext, Election!Withdraw
<1> QED
  BY <1>1, <1>2, <1>3, <1>4, <1>5, <1>6 DEF RDNext

\* ElectionRefinedHolds: for every set of instances, addresses and
\* discovery order, every behaviour of register/discover/CheckMasterStatus
\* is a behaviour of the abstract election, in which the registry holds
\* only instances' own addresses and a verdict is whether one's own address
\* heads one's last snapshot.
THEOREM ElectionRefinedHolds == RDSpec => ElectionRefined
<1>1. Init => ElInv
  BY DEF Init, ElInv, RDInv, TypeOK, RegOwn, FreshNew, ZkRegistered,
     SeenRegistered, OnlyRegisteredMaster, RegUp, IPs
<1>2. Init => Election!ElInit
  BY DEF Init, Election!ElInit
<1>3. ElInv /\ [RDNext]_rdVars => ElInv'
  BY RDNextInv, RegUpStep DEF ElInv, RDInv
<1> QED
  BY <1>1, <1>2, <1>3, RDStepRefines, PTL DEF RDSpec, ElectionRefined,
     Election!ElSpec
=============================================================================

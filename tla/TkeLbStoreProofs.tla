-------------------------- MODULE TkeLbStoreProofs --------------------------
(***************************************************************************)
(* Proofs, for every set of regions and subnets and every bound on the     *)
(* primary keys, that SaveTkeLbSubnet called by one goroutine at a time    *)
(* keeps one row per region, makes every returned save visible to          *)
(* GetSubnetByClusterRegion, and implements the subnet map TkeSubnetMap.   *)
(* With two concurrent callers none of this holds (run tke_concurrent).    *)
(***************************************************************************)
EXTENDS TkeLbStore, TLAPS

USE TkeAssumption

\* The calls are sequential: the store has one caller at a time.
SingleCaller == \A c, d \in Callers : c = d

\* The lookup of region g in any table R, as GetSubnetByClusterRegion does.
Rows(R, g) == {w \in R : w.region = g}
FirstOf(S) ==
    IF S = {} THEN NoSubnet
    ELSE (CHOOSE w \in S : \A x \in S : w.id <= x.id).subnet
Lookup(R, g) == FirstOf(Rows(R, g))

\* Every primary key handed out is below the auto-increment counter.
RowIdsBelow == \A w \in rows : w.id < nextId
\* The primary key identifies a row.
IdsUnique == \A w, x \in rows : w.id = x.id => w = x
\* FirstOrCreate keeps at most one row per region.
OneRowPerRegion == \A w, x \in rows : w.region = x.region => w = x
\* What the SELECT returned still describes the table at the write.
SelectValid ==
    \A c \in Callers : pc[c] = "write" =>
        /\ found[c] = 0 => RegionRows(arg[c].region) = {}
        /\ found[c] # 0 =>
              \E w \in rows : w.id = found[c] /\ w.region = arg[c].region
\* Every returned save is what the lookup returns, save in progress or not.
Visible ==
    \A g \in Regions : lastSaved[g] # NoSubnet =>
        GetSubnetByClusterRegion(g) = lastSaved[g]

TKInv == TypeOK /\ RowIdsBelow /\ IdsUnique /\ OneRowPerRegion
         /\ SelectValid /\ Visible

\* GetSubnetByClusterRegion is the lookup in the current table.
LEMMA LookupDef == \A g : GetSubnetByClusterRegion(g) = Lookup(rows, g)
BY DEF GetSubnetByClusterRegion, FirstRow, RegionRows, Lookup, FirstOf, Rows

\* A region with no row has no subnet.
LEMMA LookupNone ==
    ASSUME NEW R, NEW g, \A x \in R : x.region # g
    PROVE  Lookup(R, g) = NoSubnet
BY DEF Lookup, FirstOf, Rows

\* A region with exactly one row has that row's subnet.
LEMMA LookupOne ==
    ASSUME NEW R, NEW g, NEW w \in R, w.region = g, w.id \in Nat,
           \A x \in R : x.region = g => x = w
    PROVE  Lookup(R, g) = w.subnet
<1>1. Rows(R, g) = {w}
      BY DEF Rows
<1>2. FirstOf({w}) = w.subnet
      BY DEF FirstOf
<1>3. QED
      BY <1>1, <1>2 DEF Lookup

\* Adding a row of another region leaves a region's lookup as it was.
LEMMA LookupElsewhere ==
    ASSUME NEW R, NEW O, NEW nw, NEW h, R = O \cup {nw}, nw.region # h
    PROVE  Lookup(R, h) = Lookup(O, h)
<1>1. Rows(R, h) = Rows(O, h)
      BY DEF Rows
<1>2. QED
      BY <1>1 DEF Lookup

\* A write leaves the table as the rows of other regions plus one row of
\* the saved region; every lookup is then that row's subnet for the saved
\* region and the lookup in the other rows elsewhere.
LEMMA LookupAfterWrite ==
    ASSUME NEW R, NEW O, NEW nw, NEW g, NEW h,
           R = O \cup {nw}, nw.region = g, nw.id \in Nat,
           \A x \in O : x.region # g
    PROVE  Lookup(R, h) = IF h = g THEN nw.subnet ELSE Lookup(O, h)
<1>1. CASE h = g
      <2>1. \A x \in R : x.region = g => x = nw
            OBVIOUS
      <2>2. Lookup(R, g) = nw.subnet
            BY <2>1, LookupOne
      <2>3. QED
            BY <1>1, <2>2
<1>2. CASE h # g
      BY <1>2, LookupElsewhere
<1>3. QED
      BY <1>1, <1>2

\* With one row per region, the first row of a region is its only row.
LEMMA FirstRowOne ==
    ASSUME TypeOK, OneRowPerRegion, NEW g, NEW w \in rows, w.region = g
    PROVE  FirstRow(g) = w
<1>1. RegionRows(g) = {w}
      BY DEF OneRowPerRegion, RegionRows
<1>2. w.id \in Nat
      BY DEF TypeOK
<1>3. QED
      BY <1>1, <1>2 DEF FirstRow

\* The initial state satisfies the invariant.
LEMMA TKInitInv == Init => TKInv
<1> SUFFICES ASSUME Init PROVE TKInv
    OBVIOUS
<1>1. \E a \in Args : TRUE
      <2>1. PICK g \in Regions, s \in Subnets : TRUE
            OBVIOUS
      <2>2. [region |-> g, subnet |-> s] \in Args
            BY DEF Args
      <2>3. QED
            BY <2>2
<1>2. TypeOK
      BY <1>1 DEF Init, TypeOK
<1>3. \A g \in Regions : lastSaved[g] = NoSubnet
      BY DEF Init
<1>4. QED
      BY <1>2, <1>3 DEF Init, TKInv, RowIdsBelow, IdsUnique, OneRowPerRegion,
                       SelectValid, Visible

\* A SELECT keeps the invariant: the table is unchanged, and what it
\* returns describes the region's row.
LEMMA SelectInv ==
    ASSUME TKInv, NEW c \in Callers, NEW a \in Args, Select(c, a)
    PROVE  TKInv'
<1> USE DEF TKInv
<1>1. CASE RegionRows(a.region) = {}
      <2>1. found' = [found EXCEPT ![c] = 0]
            BY <1>1 DEF Select
      <2>2. TypeOK'
            BY <2>1 DEF Select, TypeOK
      <2>3. SelectValid'
            BY <1>1, <2>1 DEF Select, SelectValid, TypeOK, RegionRows
      <2>4. QED
            BY <2>2, <2>3 DEF Select, RowIdsBelow, IdsUnique, OneRowPerRegion,
                             Visible, GetSubnetByClusterRegion, RegionRows, FirstRow
<1>2. CASE RegionRows(a.region) # {}
      <2>1. PICK w \in rows : w.region = a.region
            BY <1>2 DEF RegionRows
      <2>2. FirstRow(a.region) = w
            BY <2>1, FirstRowOne
      <2>3. found' = [found EXCEPT ![c] = w.id] /\ w.id \in 1..MaxRows
            BY <1>2, <2>2 DEF Select, TypeOK
      <2>4. TypeOK'
            BY <2>3 DEF Select, TypeOK
      <2>5. SelectValid'
        <3> SUFFICES ASSUME NEW d \in Callers, pc'[d] = "write"
                     PROVE  (/\ found[d] = 0 => RegionRows(arg[d].region) = {}
                             /\ found[d] # 0 =>
                                  \E x \in rows : x.id = found[d]
                                                /\ x.region = arg[d].region)'
            BY DEF SelectValid
        <3>1. CASE d = c
          <4>1. found'[d] = w.id /\ arg'[d] = a /\ rows' = rows
                BY <2>3, <3>1 DEF Select, TypeOK
          <4>2. w.id # 0
                BY <2>3
          <4>3. QED
                BY <2>1, <4>1, <4>2
        <3>2. CASE d # c
              BY <3>2 DEF Select, SelectValid, TypeOK, RegionRows
        <3>3. QED
              BY <3>1, <3>2
      <2>6. QED
            BY <2>4, <2>5 DEF Select, RowIdsBelow, IdsUnique, OneRowPerRegion,
                             Visible, GetSubnetByClusterRegion, RegionRows, FirstRow
<1>3. QED
      BY <1>1, <1>2

\* A failed statement keeps the invariant; with one caller no SELECT is
\* left pending.
LEMMA WriteFailsInv ==
    ASSUME SingleCaller, TKInv, NEW c \in Callers, WriteFails(c)
    PROVE  TKInv'
<1> USE DEF TKInv
<1>1. TypeOK'
      BY DEF WriteFails, TypeOK
<1>2. SelectValid'
      <2>1. \A d \in Callers : pc'[d] = "idle"
            BY DEF WriteFails, SingleCaller, TypeOK
      <2>2. QED
            BY <2>1 DEF SelectValid
<1>3. QED
      BY <1>1, <1>2 DEF WriteFails, RowIdsBelow, IdsUnique, OneRowPerRegion,
                       Visible, GetSubnetByClusterRegion, RegionRows, FirstRow

\* The INSERT or UPDATE of a save, after a SELECT whose result still holds,
\* leaves the table as the rows of the other regions plus one row of the
\* saved region with the saved subnet.
LEMMA WriteShape ==
    ASSUME TKInv, NEW c \in Callers, Write(c)
    PROVE  \E O, nw :
             /\ rows' = O \cup {nw}
             /\ O \subseteq rows
             /\ \A x \in rows \ O : x.region = arg[c].region
             /\ \A x \in O : x.region # arg[c].region /\ x.id # nw.id
             /\ nw = [id |-> nw.id, region |-> arg[c].region,
                      subnet |-> arg[c].subnet]
             /\ nw.id \in 1..MaxRows
             /\ nw.id < nextId'
             /\ nextId' \in 1..(MaxRows + 1)
             /\ nextId <= nextId'
<1> USE DEF TKInv
<1>1. CASE found[c] = 0
      <2> DEFINE nRow == [id |-> nextId, region |-> arg[c].region,
                          subnet |-> arg[c].subnet]
      <2>1. \A x \in rows : x.region # arg[c].region
            BY <1>1 DEF Write, SelectValid, RegionRows
      <2>2. \A x \in rows : x.id # nRow.id
            BY DEF RowIdsBelow, TypeOK
      <2>3. rows' = rows \cup {nRow} /\ nextId' = nextId + 1 /\ nextId <= MaxRows
            BY <1>1 DEF Write
      <2> WITNESS rows, nRow
      <2>4. QED
            BY <2>1, <2>2, <2>3 DEF TypeOK
<1>2. CASE found[c] # 0
      <2>1. PICK w0 \in rows : w0.id = found[c] /\ w0.region = arg[c].region
            BY <1>2 DEF Write, SelectValid
      <2> DEFINE nRow == [id |-> w0.id, region |-> arg[c].region,
                          subnet |-> arg[c].subnet]
                 Others == rows \ {w0}
      <2>2. \A x \in rows : x.id = found[c] <=> x = w0
            BY <2>1 DEF IdsUnique
      <2>3. [w0 EXCEPT !.subnet = arg[c].subnet] = nRow
            BY <2>1 DEF TypeOK
      <2>4. rows' = Others \cup {nRow}
            <3>1. rows' = {IF w.id = found[c] THEN [w EXCEPT !.subnet = arg[c].subnet]
                           ELSE w : w \in rows}
                  BY <1>2 DEF Write
            <3>2. QED
                  BY <2>2, <2>3, <3>1
      <2>5. \A x \in Others : x.region # arg[c].region /\ x.id # nRow.id
            BY <2>1 DEF OneRowPerRegion, IdsUnique
      <2>6. nextId' = nextId /\ w0.id < nextId /\ w0.id \in 1..MaxRows
            BY <1>2, <2>1 DEF Write, RowIdsBelow, TypeOK
      <2> WITNESS Others, nRow
      <2>7. QED
            BY <2>1, <2>4, <2>5, <2>6 DEF TypeOK
<1>3. QED
      BY <1>1, <1>2

\* After a save returns, the lookup of its region is the saved subnet and
\* the lookup of every other region is as it was.
LEMMA WriteLookups ==
    ASSUME TKInv, NEW c \in Callers, Write(c)
    PROVE  \A h \in Regions :
              GetSubnetByClusterRegion(h)' =
                 IF h = arg[c].region THEN arg[c].subnet
                 ELSE GetSubnetByClusterRegion(h)
<1>1. PICK O, nw :
             /\ rows' = O \cup {nw}
             /\ O \subseteq rows
             /\ \A x \in rows \ O : x.region = arg[c].region
             /\ \A x \in O : x.region # arg[c].region /\ x.id # nw.id
             /\ nw = [id |-> nw.id, region |-> arg[c].region,
                      subnet |-> arg[c].subnet]
             /\ nw.id \in 1..MaxRows
      BY WriteShape
<1> TAKE h \in Regions
<1>2. GetSubnetByClusterRegion(h)' = Lookup(rows', h)
      BY DEF GetSubnetByClusterRegion, FirstRow, RegionRows, Lookup, FirstOf, Rows
<1>3. Lookup(rows', h) = IF h = arg[c].region THEN nw.subnet ELSE Lookup(O, h)
      BY <1>1, LookupAfterWrite
<1>4. h # arg[c].region => Lookup(rows, h) = Lookup(O, h)
      <2>1. h # arg[c].region => Rows(rows, h) = Rows(O, h)
            BY <1>1 DEF Rows
      <2>2. QED
            BY <2>1 DEF Lookup
<1>5. QED
      BY <1>1, <1>2, <1>3, <1>4, LookupDef

\* A returned save keeps the invariant; with one caller no other SELECT is
\* pending.
LEMMA WriteInv ==
    ASSUME SingleCaller, TKInv, NEW c \in Callers, Write(c)
    PROVE  TKInv'
<1> USE DEF TKInv
<1>1. PICK O, nw :
             /\ rows' = O \cup {nw}
             /\ O \subseteq rows
             /\ \A x \in O : x.region # arg[c].region /\ x.id # nw.id
             /\ nw = [id |-> nw.id, region |-> arg[c].region,
                      subnet |-> arg[c].subnet]
             /\ nw.id \in 1..MaxRows
             /\ nw.id < nextId'
             /\ nextId' \in 1..(MaxRows + 1)
             /\ nextId <= nextId'
      BY WriteShape
<1>2. TypeOK'
      BY <1>1 DEF Write, TypeOK, Args
<1>3. RowIdsBelow' /\ IdsUnique' /\ OneRowPerRegion'
      BY <1>1 DEF RowIdsBelow, IdsUnique, OneRowPerRegion, TypeOK
<1>4. SelectValid'
      <2>1. \A d \in Callers : pc'[d] = "idle"
            BY DEF Write, SingleCaller, TypeOK
      <2>2. QED
            BY <2>1 DEF SelectValid
<1>5. Visible'
      <2>1. lastSaved' = [lastSaved EXCEPT ![arg[c].region] = arg[c].subnet]
            BY DEF Write
      <2>2. QED
            BY <2>1, WriteLookups DEF Visible, TypeOK, Args
<1>6. QED
      BY <1>2, <1>3, <1>4, <1>5

\* Every step of sequential saves keeps the invariant.
LEMMA TKNextInv ==
    ASSUME SingleCaller, TKInv, [TKNext]_tkVars
    PROVE  TKInv'
<1>1. CASE \E c \in Callers, a \in Args : Select(c, a)
      BY <1>1, SelectInv
<1>2. CASE \E c \in Callers : Write(c)
      BY <1>2, WriteInv
<1>3. CASE \E c \in Callers : WriteFails(c)
      BY <1>3, WriteFailsInv
<1>4. CASE UNCHANGED tkVars
      BY <1>4 DEF tkVars, TKInv, TypeOK, RowIdsBelow, IdsUnique, OneRowPerRegion,
                  SelectValid, Visible, GetSubnetByClusterRegion, RegionRows,
                  FirstRow
<1>5. QED
      BY <1>1, <1>2, <1>3, <1>4 DEF TKNext

\* SequentialLastSaveVisible: when SaveTkeLbSubnet is called by one
\* goroutine at a time, GetSubnetByClusterRegion returns, for every region,
\* the subnet of the last save that returned nil, whatever the regions,
\* subnets and number of rows (FirstOrCreate's SELECT, then INSERT or
\* Assign's UPDATE of the row found).
THEOREM SequentialLastSaveVisible ==
    SingleCaller => (TKSpec => []LastSaveVisible)
<1> SUFFICES ASSUME SingleCaller PROVE TKSpec => []LastSaveVisible
    OBVIOUS
<1>1. TKInv /\ [TKNext]_tkVars => TKInv'
      BY TKNextInv
<1>2. TKInv => LastSaveVisible
      BY DEF TKInv, Visible, LastSaveVisible
<1>3. QED
      BY <1>1, <1>2, TKInitInv, PTL DEF TKSpec

\* Each step of the table is a save of the map or leaves the map alone.
LEMMA TKStepRefines ==
    ASSUME TKInv, [TKNext]_tkVars
    PROVE  [Abs!MapNext]_Abs!mapVars
<1>1. CASE \E c \in Callers : Write(c)
      <2>1. PICK c \in Callers : Write(c)
            BY <1>1
      <2>2. arg[c].region \in Regions /\ arg[c].subnet \in Subnets
            BY DEF TKInv, TypeOK, Args
      <2>3. lastSaved' = [lastSaved EXCEPT ![arg[c].region] = arg[c].subnet]
            BY <2>1 DEF Write
      <2>4. Abs!MapSave(arg[c].region, arg[c].subnet)
            BY <2>1, <2>3, WriteLookups DEF Abs!MapSave
      <2>5. QED
            BY <2>2, <2>4 DEF Abs!MapNext
<1>2. CASE \E c \in Callers, a \in Args : Select(c, a)
      BY <1>2 DEF Select, Abs!mapVars, GetSubnetByClusterRegion, RegionRows, FirstRow
<1>3. CASE \E c \in Callers : WriteFails(c)
      BY <1>3 DEF WriteFails, Abs!mapVars, GetSubnetByClusterRegion, RegionRows,
                  FirstRow
<1>4. CASE UNCHANGED tkVars
      BY <1>4 DEF tkVars, Abs!mapVars, GetSubnetByClusterRegion, RegionRows,
                  FirstRow
<1>5. QED
      BY <1>1, <1>2, <1>3, <1>4 DEF TKNext

\* SequentialMapRefined: with one caller at a time, the SQL table behind
\* SaveTkeLbSubnet and GetSubnetByClusterRegion implements the subnet map
\* TkeSubnetMap: its initial state is the empty map and each step is a save
\* that takes effect as it returns, or no change of any lookup.
THEOREM SequentialMapRefined == SingleCaller => (TKSpec => MapRefined)
<1> SUFFICES ASSUME SingleCaller PROVE TKSpec => MapRefined
    OBVIOUS
<1>1. Init => Abs!MapInit
      <2> SUFFICES ASSUME Init PROVE Abs!MapInit
          OBVIOUS
      <2>1. \A g \in Regions : GetSubnetByClusterRegion(g) = NoSubnet
            BY DEF Init, GetSubnetByClusterRegion, RegionRows
      <2>2. QED
            BY <2>1 DEF Init, Abs!MapInit
<1>2. TKInv /\ [TKNext]_tkVars => TKInv'
      BY TKNextInv
<1>3. TKInv /\ [TKNext]_tkVars => [Abs!MapNext]_Abs!mapVars
      BY TKStepRefines
<1>4. QED
      BY <1>1, <1>2, <1>3, TKInitInv, PTL DEF TKSpec, MapRefined, Abs!MapSpec
=============================================================================

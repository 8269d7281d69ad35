--------------------------- MODULE ResourceModel ---------------------------
(***************************************************************************)
(* The scheduler's resource model (bcs-scheduler/src/types/application.go):*)
(* Version.CheckAndDefaultResource and CheckConstraints, as operators on   *)
(* a set of versions (the aggregations are in ResourceAggregates).         *)
(*                                                                         *)
(* A version is submitted (any member of Versions) and the scheduler may   *)
(* default it in place; the properties compare the code's operators with   *)
(* reference definitions written from the specification (sections 3, 4.2, *)
(* 4.3 and 8) on every reachable version.                                  *)
(*                                                                         *)
(* Data abstraction.  A process limit is a string: unset (""), a numeric   *)
(* string, or one that does not parse; ParseFloat maps it to its number,   *)
(* and to 0 when it is unset or does not parse (the ignored error), and    *)
(* Itoa(n) is the numeric string of n.  A container's DataClass and its    *)
(* Resources are pointers that may be nil.  A constraint entry carries its *)
(* declared type and the payload of that type.                             *)
(***************************************************************************)
EXTENDS Naturals, Sequences

CONSTANTS
    Versions,       \* the versions submitted to the scheduler
    Nil             \* a nil pointer

VARIABLES
    version,        \* the Version the scheduler holds
    defaulted       \* CheckAndDefaultResource has run on it

rmVars == <<version, defaulted>>

\* commtypes.BcsDataType_PROCESS, BcsDataType_APP, and the unset kind.
PROCESS == "process"
APP == "application"

\* CPUS_PER_TASK, MEM_PER_TASK, DISK_PER_TASK, MEM/DISK_PER_EXECUTOR.
CPUS_PER_TASK == 1
MEM_PER_TASK == 64
DISK_PER_TASK == 64
MEM_PER_EXECUTOR == 64
DISK_PER_EXECUTOR == 64

Unset == [tag |-> "unset", n |-> 0]
Junk == [tag |-> "junk", n |-> 0]
Itoa(n) == [tag |-> "num", n |-> n]
ParseFloat(s) == IF s.tag = "num" THEN s.n ELSE 0

\* The limit strings of a process, the requests of a container's Resource
\* (float64 values, whole numbers here), and the containers: a nil
\* DataClass has no Resources.
Limits == {Unset, Junk} \cup [tag : {"num"}, n : Nat]
Process == [cpu : Limits, mem : Limits, storage : Limits]
Requests == [cpus : Nat, mem : Nat, disk : Nat]
Container == {[dataClass |-> Nil, resources |-> Nil]}
             \cup [dataClass : {"set"}, resources : {Nil} \cup Requests]

\* A Version as CheckAndDefaultResource sees it: its Kind, and its Process
\* and Container lists (of non-nil pointers); the constraints are any tree.
IsVersion(v) ==
    /\ v = [kind |-> v.kind, process |-> v.process, container |-> v.container,
            constraints |-> v.constraints]
    /\ v.kind \in STRING
    /\ v.process \in Seq(Process)
    /\ v.container \in Seq(Container)

ASSUME NilAssumption == Nil \notin {"set"} \cup Requests
ASSUME VersionsAssumption == \A v \in Versions : IsVersion(v)

Init ==
    /\ version \in Versions
    /\ defaulted = FALSE

(***************************************************************************)
(* CheckAndDefaultResource: for PROCESS, every unset limit gets the task    *)
(* default; for APP or unset kind, a nil DataClass is allocated and a nil   *)
(* Resources gets the task defaults.  The version is changed in place.      *)
(***************************************************************************)
DefaultLimit(s, d) == IF s = Unset THEN Itoa(d) ELSE s

DefaultProcess(p) ==
    [p EXCEPT !.cpu = DefaultLimit(@, CPUS_PER_TASK),
              !.mem = DefaultLimit(@, MEM_PER_TASK),
              !.storage = DefaultLimit(@, DISK_PER_TASK)]

DefaultResource == [cpus |-> CPUS_PER_TASK, mem |-> MEM_PER_TASK, disk |-> DISK_PER_TASK]

\* Faulty variant: the DataClass is allocated without the nil check.
DefaultContainerAlways(c) == [dataClass |-> "set", resources |-> DefaultResource]

DefaultContainer(c) ==
    LET dc == IF c.dataClass = Nil THEN [c EXCEPT !.dataClass = "set", !.resources = Nil]
              ELSE c
    IN  IF dc.resources = Nil THEN [dc EXCEPT !.resources = DefaultResource] ELSE dc

CheckAndDefaultResource(v) ==
    CASE v.kind = PROCESS    -> [v EXCEPT !.process = [i \in DOMAIN @ |-> DefaultProcess(@[i])]]
      [] v.kind \in {APP, ""} -> [v EXCEPT !.container = [i \in DOMAIN @ |-> DefaultContainer(@[i])]]
      [] OTHER               -> v

Default ==
    /\ version' = CheckAndDefaultResource(version)
    /\ defaulted' = TRUE

Next == Default

RMSpec == Init /\ [][Next]_rmVars

(***************************************************************************)
(* CheckConstraints: a nil tree is valid; nil items and nil entries are    *)
(* skipped; an entry is invalid if the payload of its type is nil, or, for *)
(* a Range, if one of its ranges is nil.                                   *)
(***************************************************************************)
EntryPasses(d) ==
    CASE d.type \in {"Scalar", "Text", "Set"} -> d.payload # Nil
      [] d.type = "Range" -> \A k \in DOMAIN d.ranges : d.ranges[k] # Nil
      [] OTHER -> TRUE

CheckConstraints(v) ==
    \/ v.constraints = Nil
    \/ \A i \in DOMAIN v.constraints :
          v.constraints[i] # Nil =>
             \A j \in DOMAIN v.constraints[i] :
                v.constraints[i][j] # Nil => EntryPasses(v.constraints[i][j])

-----------------------------------------------------------------------------
(***************************************************************************)
(* Reference definitions, from the specification's words.                  *)
(***************************************************************************)
\* Section 4.2: a limit or a resource block that is set stays as it is; an
\* unset one gets 1 CPU unit, 64 MB memory, 64 MB disk.
RefDefaulted(v) ==
    LET u == CheckAndDefaultResource(v) IN
    /\ DOMAIN u.process = DOMAIN v.process
    /\ DOMAIN u.container = DOMAIN v.container
    /\ v.kind = PROCESS => u.container = v.container
    /\ v.kind \in {APP, ""} => u.process = v.process
    /\ v.kind = PROCESS =>
         \A i \in DOMAIN v.process : \A f \in {"cpu", "mem", "storage"} :
            u.process[i][f] = IF v.process[i][f] = Unset
                              THEN Itoa([cpu |-> 1, mem |-> 64, storage |-> 64][f])
                              ELSE v.process[i][f]
    /\ v.kind \in {APP, ""} =>
         \A i \in DOMAIN v.container :
            /\ u.container[i].dataClass # Nil
            /\ u.container[i].resources =
                  IF v.container[i].dataClass = Nil \/ v.container[i].resources = Nil
                  THEN [cpus |-> 1, mem |-> 64, disk |-> 64]
                  ELSE v.container[i].resources
    /\ v.kind \notin {PROCESS, APP, ""} => u = v

\* Section 3: every entry's payload is present and non-empty; a Range has
\* at least one range and every one of them populated.
RefEntryValid(d) ==
    IF d.type = "Range"
    THEN d.ranges # <<>> /\ \A k \in DOMAIN d.ranges : d.ranges[k] # Nil
    ELSE d.payload \notin {Nil, "empty"}

RefConstraintsValid(v) ==
    \/ v.constraints = Nil
    \/ \A i \in DOMAIN v.constraints :
          v.constraints[i] # Nil =>
             \A j \in DOMAIN v.constraints[i] :
                v.constraints[i][j] # Nil => RefEntryValid(v.constraints[i][j])

-----------------------------------------------------------------------------
\* DefaultsAsSpecified: CheckAndDefaultResource fills exactly the unset
\* limits and the missing resource blocks, keeps every request that is set,
\* and a second call changes nothing (idempotence, section 8).
DefaultsAsSpecified ==
    /\ RefDefaulted(version)
    /\ CheckAndDefaultResource(CheckAndDefaultResource(version))
          = CheckAndDefaultResource(version)

\* ConstraintsAsSpecified: CheckConstraints accepts exactly the trees whose
\* every entry has a present, non-empty payload (section 3).
ConstraintsAsSpecified ==
    CheckConstraints(version) = RefConstraintsValid(version)
=============================================================================

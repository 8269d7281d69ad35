------------------------ MODULE ResourceModelProofs -------------------------
(***************************************************************************)
(* Proofs, for every version the scheduler can hold, that                  *)
(* CheckAndDefaultResource fills exactly the unset limits and missing      *)
(* resource blocks, keeps the version well formed, and is idempotent.      *)
(***************************************************************************)
EXTENDS ResourceModel, SequenceTheorems, TLAPS

USE NilAssumption, VersionsAssumption

\* The state is a well-formed version.
RMInv == IsVersion(version) /\ defaulted \in BOOLEAN

\* A function on 1..n into S is a list of S.
LEMMA FunIsSeq ==
    ASSUME NEW S, NEW n \in Nat, NEW t \in [1..n -> S]
    PROVE  t \in Seq(S)
BY SeqDef

\* Defaulting a limit gives a set limit, and a second time changes nothing.
LEMMA DefaultLimitFacts ==
    ASSUME NEW s \in Limits, NEW d \in Nat
    PROVE  /\ DefaultLimit(s, d) \in Limits
           /\ DefaultLimit(s, d) # Unset
           /\ DefaultLimit(DefaultLimit(s, d), d) = DefaultLimit(s, d)
BY DEF DefaultLimit, Limits, Unset, Junk, Itoa

\* A defaulted process is a process, has each unset limit replaced by the
\* task default and every other limit kept, and is a fixpoint.
LEMMA DefaultProcessFacts ==
    ASSUME NEW p \in Process
    PROVE  /\ DefaultProcess(p) \in Process
           /\ \A f \in {"cpu", "mem", "storage"} :
                 DefaultProcess(p)[f] =
                    IF p[f] = Unset
                    THEN Itoa([cpu |-> 1, mem |-> 64, storage |-> 64][f])
                    ELSE p[f]
           /\ DefaultProcess(DefaultProcess(p)) = DefaultProcess(p)
<1>1. /\ DefaultLimit(p.cpu, CPUS_PER_TASK) \in Limits
      /\ DefaultLimit(p.cpu, CPUS_PER_TASK) # Unset
      /\ DefaultLimit(DefaultLimit(p.cpu, CPUS_PER_TASK), CPUS_PER_TASK)
            = DefaultLimit(p.cpu, CPUS_PER_TASK)
      BY DefaultLimitFacts DEF Process, CPUS_PER_TASK
<1>2. /\ DefaultLimit(p.mem, MEM_PER_TASK) \in Limits
      /\ DefaultLimit(p.mem, MEM_PER_TASK) # Unset
      /\ DefaultLimit(DefaultLimit(p.mem, MEM_PER_TASK), MEM_PER_TASK)
            = DefaultLimit(p.mem, MEM_PER_TASK)
      BY DefaultLimitFacts DEF Process, MEM_PER_TASK
<1>3. /\ DefaultLimit(p.storage, DISK_PER_TASK) \in Limits
      /\ DefaultLimit(p.storage, DISK_PER_TASK) # Unset
      /\ DefaultLimit(DefaultLimit(p.storage, DISK_PER_TASK), DISK_PER_TASK)
            = DefaultLimit(p.storage, DISK_PER_TASK)
      BY DefaultLimitFacts DEF Process, DISK_PER_TASK
<1>4. ASSUME NEW q \in Process
      PROVE  DefaultProcess(q) =
               [cpu |-> DefaultLimit(q.cpu, CPUS_PER_TASK),
                mem |-> DefaultLimit(q.mem, MEM_PER_TASK),
                storage |-> DefaultLimit(q.storage, DISK_PER_TASK)]
      <2>1. q = [cpu |-> q.cpu, mem |-> q.mem, storage |-> q.storage]
            BY DEF Process
      <2>2. DefaultProcess(q) =
               [[[q EXCEPT !.cpu = DefaultLimit(q.cpu, CPUS_PER_TASK)]
                    EXCEPT !.mem = DefaultLimit(q.mem, MEM_PER_TASK)]
                    EXCEPT !.storage = DefaultLimit(q.storage, DISK_PER_TASK)]
            BY DEF DefaultProcess
      <2>3. QED
            BY <2>1, <2>2
<1>5. DefaultProcess(p) \in Process
      BY <1>1, <1>2, <1>3, <1>4 DEF Process
<1>6. DefaultProcess(DefaultProcess(p)) = DefaultProcess(p)
      <2>1. DefaultProcess(DefaultProcess(p)) =
               [cpu |-> DefaultLimit(DefaultProcess(p).cpu, CPUS_PER_TASK),
                mem |-> DefaultLimit(DefaultProcess(p).mem, MEM_PER_TASK),
                storage |-> DefaultLimit(DefaultProcess(p).storage, DISK_PER_TASK)]
            BY <1>4, <1>5
      <2>2. QED
            BY <1>1, <1>2, <1>3, <1>4, <2>1
<1>7. QED
      BY <1>4, <1>5, <1>6 DEF DefaultLimit, Itoa, CPUS_PER_TASK, MEM_PER_TASK,
                             DISK_PER_TASK

\* A defaulted container has a DataClass and Resources: its own when it had
\* them, the task defaults otherwise.
LEMMA DefaultContainerShape ==
    ASSUME NEW c \in Container
    PROVE  DefaultContainer(c) =
              IF c.resources = Nil
              THEN [dataClass |-> "set", resources |-> DefaultResource]
              ELSE c
<1>1. CASE c.dataClass = Nil
      <2>1. c = [dataClass |-> Nil, resources |-> Nil]
            BY <1>1 DEF Container
      <2> DEFINE dc == [c EXCEPT !.dataClass = "set", !.resources = Nil]
      <2>2. dc = [dataClass |-> "set", resources |-> Nil]
        <3>1. dc = [[c EXCEPT !.dataClass = "set"] EXCEPT !.resources = Nil]
              OBVIOUS
        <3>2. [c EXCEPT !.dataClass = "set"] = [dataClass |-> "set", resources |-> Nil]
              BY <2>1
        <3>3. QED
              BY <3>1, <3>2
      <2>3. DefaultContainer(c) = [dc EXCEPT !.resources = DefaultResource]
            BY <1>1, <2>2 DEF DefaultContainer
      <2>4. QED
            BY <2>1, <2>2, <2>3
<1>2. CASE c.dataClass # Nil
      <2>1. c = [dataClass |-> "set", resources |-> c.resources]
            BY <1>2 DEF Container
      <2>2. DefaultContainer(c) =
               IF c.resources = Nil THEN [c EXCEPT !.resources = DefaultResource]
               ELSE c
            BY <1>2 DEF DefaultContainer
      <2>3. [c EXCEPT !.resources = DefaultResource]
               = [dataClass |-> "set", resources |-> DefaultResource]
            BY <2>1
      <2>4. QED
            BY <2>2, <2>3
<1>3. QED
      BY <1>1, <1>2

\* A defaulted container is a container with a DataClass and Resources, as
\* the specification says, and defaulting it again changes nothing.
LEMMA DefaultContainerFacts ==
    ASSUME NEW c \in Container
    PROVE  /\ DefaultContainer(c) \in Container
           /\ DefaultContainer(c).dataClass # Nil
           /\ DefaultContainer(c).resources =
                 IF c.dataClass = Nil \/ c.resources = Nil
                 THEN [cpus |-> 1, mem |-> 64, disk |-> 64]
                 ELSE c.resources
           /\ DefaultContainer(DefaultContainer(c)) = DefaultContainer(c)
<1>1. DefaultResource \in Requests /\ DefaultResource # Nil
      BY DEF DefaultResource, Requests, CPUS_PER_TASK, MEM_PER_TASK, DISK_PER_TASK
<1>2. c.dataClass = Nil => c.resources = Nil
      BY DEF Container
<1>3. DefaultContainer(c) \in Container /\ DefaultContainer(c).resources # Nil
      BY <1>1, DefaultContainerShape DEF Container
<1>4. QED
      BY <1>1, <1>2, <1>3, DefaultContainerShape
         DEF Container, DefaultResource, CPUS_PER_TASK, MEM_PER_TASK, DISK_PER_TASK

\* The process list with every process defaulted.
DefaultedProcs(v) == [i \in DOMAIN v.process |-> DefaultProcess(v.process[i])]
\* The container list with every container defaulted.
DefaultedConts(v) == [i \in DOMAIN v.container |-> DefaultContainer(v.container[i])]

\* Defaulting a list of processes gives a list of processes, and doing it
\* twice is doing it once.
LEMMA ProcsFacts ==
    ASSUME NEW v, IsVersion(v)
    PROVE  /\ DefaultedProcs(v) \in Seq(Process)
           /\ DOMAIN DefaultedProcs(v) = DOMAIN v.process
           /\ [i \in DOMAIN DefaultedProcs(v) |-> DefaultProcess(DefaultedProcs(v)[i])]
                 = DefaultedProcs(v)
<1>1. /\ Len(v.process) \in Nat
      /\ DOMAIN v.process = 1..Len(v.process)
      /\ \A i \in DOMAIN v.process : v.process[i] \in Process
      BY LenProperties DEF IsVersion
<1>2. DefaultedProcs(v) \in [1..Len(v.process) -> Process]
      BY <1>1, DefaultProcessFacts DEF DefaultedProcs
<1>3. QED
      BY <1>1, <1>2, FunIsSeq, DefaultProcessFacts DEF DefaultedProcs

\* The same for a list of containers.
LEMMA ContsFacts ==
    ASSUME NEW v, IsVersion(v)
    PROVE  /\ DefaultedConts(v) \in Seq(Container)
           /\ DOMAIN DefaultedConts(v) = DOMAIN v.container
           /\ [i \in DOMAIN DefaultedConts(v) |-> DefaultContainer(DefaultedConts(v)[i])]
                 = DefaultedConts(v)
<1>1. /\ Len(v.container) \in Nat
      /\ DOMAIN v.container = 1..Len(v.container)
      /\ \A i \in DOMAIN v.container : v.container[i] \in Container
      BY LenProperties DEF IsVersion
<1>2. DefaultedConts(v) \in [1..Len(v.container) -> Container]
      BY <1>1, DefaultContainerFacts DEF DefaultedConts
<1>3. QED
      BY <1>1, <1>2, FunIsSeq, DefaultContainerFacts DEF DefaultedConts

\* CheckAndDefaultResource replaces the list its Kind selects by the
\* defaulted list and leaves the rest of the version alone.
LEMMA DefaultShape ==
    ASSUME NEW v, IsVersion(v)
    PROVE  CheckAndDefaultResource(v) =
              CASE v.kind = PROCESS     -> [v EXCEPT !.process = DefaultedProcs(v)]
                [] v.kind \in {APP, ""} -> [v EXCEPT !.container = DefaultedConts(v)]
                [] OTHER                -> v
BY DEF CheckAndDefaultResource, DefaultedProcs, DefaultedConts

\* CheckAndDefaultResource keeps a version well formed, does what section
\* 4.2 says, and is idempotent.
LEMMA DefaultVersionFacts ==
    ASSUME NEW v, IsVersion(v)
    PROVE  /\ IsVersion(CheckAndDefaultResource(v))
           /\ RefDefaulted(v)
           /\ CheckAndDefaultResource(CheckAndDefaultResource(v))
                 = CheckAndDefaultResource(v)
<1> DEFINE u == CheckAndDefaultResource(v)
<1>1. CASE v.kind = PROCESS
      <2>1. u = [kind |-> v.kind, process |-> DefaultedProcs(v),
                 container |-> v.container, constraints |-> v.constraints]
        <3>1. u = [v EXCEPT !.process = DefaultedProcs(v)]
              BY <1>1, DefaultShape DEF PROCESS, APP
        <3>2. v = [kind |-> v.kind, process |-> v.process, container |-> v.container,
                   constraints |-> v.constraints]
              BY DEF IsVersion
        <3>3. QED
              BY <3>1, <3>2
      <2>2. IsVersion(u)
            BY <2>1, ProcsFacts DEF IsVersion
      <2>3. CheckAndDefaultResource(u) = u
            <3>0. u.kind = PROCESS
                  BY <1>1, <2>1
            <3>1. CheckAndDefaultResource(u) = [u EXCEPT !.process = DefaultedProcs(u)]
                  BY <3>0, <2>2, DefaultShape DEF PROCESS, APP
            <3>2. DefaultedProcs(u) = DefaultedProcs(v)
              <4>1. DefaultedProcs(u) =
                       [i \in DOMAIN DefaultedProcs(v) |-> DefaultProcess(DefaultedProcs(v)[i])]
                    BY <2>1 DEF DefaultedProcs
              <4>2. QED
                    BY <4>1, ProcsFacts
            <3>3. QED
                  BY <2>1, <3>1, <3>2
      <2>4. RefDefaulted(v)
            BY <1>1, <2>1, ProcsFacts, DefaultProcessFacts
               DEF RefDefaulted, DefaultedProcs, IsVersion, PROCESS, APP
      <2>5. QED
            BY <2>2, <2>3, <2>4
<1>2. CASE v.kind \in {APP, ""}
      <2>0. v.kind # PROCESS
            BY <1>2 DEF APP, PROCESS
      <2>1. u = [kind |-> v.kind, process |-> v.process,
                 container |-> DefaultedConts(v), constraints |-> v.constraints]
        <3>1. u = [v EXCEPT !.container = DefaultedConts(v)]
              BY <1>2, <2>0, DefaultShape
        <3>2. v = [kind |-> v.kind, process |-> v.process, container |-> v.container,
                   constraints |-> v.constraints]
              BY DEF IsVersion
        <3>3. QED
              BY <3>1, <3>2
      <2>2. IsVersion(u)
            BY <2>1, ContsFacts DEF IsVersion
      <2>3. CheckAndDefaultResource(u) = u
            <3>0. u.kind \in {APP, ""} /\ u.kind # PROCESS
              <4>1. u.kind = v.kind
                    BY <2>1
              <4>2. QED
                    BY <1>2, <2>0, <4>1
            <3>1. CheckAndDefaultResource(u) = [u EXCEPT !.container = DefaultedConts(u)]
                  BY <3>0, <2>2, DefaultShape
            <3>2. DefaultedConts(u) = DefaultedConts(v)
              <4>1. DefaultedConts(u) =
                       [i \in DOMAIN DefaultedConts(v) |-> DefaultContainer(DefaultedConts(v)[i])]
                    BY <2>1 DEF DefaultedConts
              <4>2. QED
                    BY <4>1, ContsFacts
            <3>3. QED
                  BY <2>1, <3>1, <3>2
      <2>4. RefDefaulted(v)
            <3>1. \A i \in DOMAIN v.container : v.container[i] \in Container
                  BY LenProperties DEF IsVersion
            <3>2. \A i \in DOMAIN v.container :
                     /\ u.container[i].dataClass # Nil
                     /\ u.container[i].resources =
                           IF v.container[i].dataClass = Nil \/ v.container[i].resources = Nil
                           THEN [cpus |-> 1, mem |-> 64, disk |-> 64]
                           ELSE v.container[i].resources
                  BY <2>1, <3>1, DefaultContainerFacts DEF DefaultedConts
            <3>3. DOMAIN u.container = DOMAIN v.container /\ u.process = v.process
                  BY <2>1, ContsFacts
            <3>4. QED
                  BY <2>0, <1>2, <3>2, <3>3 DEF RefDefaulted
      <2>5. QED
            BY <2>2, <2>3, <2>4
<1>3. CASE v.kind \notin {PROCESS, APP, ""}
      <2>1. u = v
            BY <1>3, DefaultShape
      <2>2. QED
            BY <1>3, <2>1 DEF RefDefaulted
<1>4. QED
      BY <1>1, <1>2, <1>3

\* Every reachable state holds a well-formed version.
LEMMA RMInvInductive == RMInv /\ [Next]_rmVars => RMInv'
<1> SUFFICES ASSUME RMInv, [Next]_rmVars PROVE RMInv'
    OBVIOUS
<1>1. CASE Default
      BY <1>1, DefaultVersionFacts DEF Default, RMInv
<1>2. CASE UNCHANGED rmVars
      BY <1>2 DEF rmVars, RMInv
<1>3. QED
      BY <1>1, <1>2 DEF Next

\* DefaultsAsSpecifiedHolds: for every version the scheduler may be given,
\* before and after CheckAndDefaultResource runs, the defaulting fills
\* exactly the unset process limits (PROCESS) or the missing DataClass and
\* Resources (APP or unset Kind), keeps everything set, and a second call
\* changes nothing.
THEOREM DefaultsAsSpecifiedHolds == RMSpec => []DefaultsAsSpecified
<1>1. Init => RMInv
      BY DEF Init, RMInv
<1>2. RMInv => DefaultsAsSpecified
      BY DefaultVersionFacts DEF RMInv, DefaultsAsSpecified
<1>3. QED
      BY <1>1, <1>2, RMInvInductive, PTL DEF RMSpec
=============================================================================

------------------------- MODULE ResourceAggregates -------------------------
(***************************************************************************)
(* AllCpus, AllMems, AllDisk and AllResource of the scheduler's Version    *)
(* (bcs-scheduler/src/types/application.go) over the versions of           *)
(* ResourceModel, with a reference sum written from the specification.     *)
(***************************************************************************)
EXTENDS ResourceModel, SequencesExt

(***************************************************************************)
(* AllCpus, AllMems, AllDisk, AllResource: the loop over the active list,  *)
(* with the executor overhead on memory and disk.                          *)
(***************************************************************************)
Plus(acc, x) == acc + x

\* Sum of a limit (process field pf, parsed) or a request (resource field
\* cf) over the list selected by Kind.
Active(v, pf, cf) ==
    CASE v.kind = PROCESS     -> FoldLeft(Plus, 0, [i \in DOMAIN v.process |-> ParseFloat(v.process[i][pf])])
      [] v.kind \in {APP, ""} -> FoldLeft(Plus, 0, [i \in DOMAIN v.container |-> v.container[i].resources[cf]])
      [] OTHER                -> 0

AllCpus(v) == Active(v, "cpu", "cpus")
\* Faulty variant: the executor's memory is not added.
AllMemsNoExecutor(v) == Active(v, "mem", "mem")

AllMems(v) == Active(v, "mem", "mem") + MEM_PER_EXECUTOR
AllDisk(v) == Active(v, "storage", "disk") + DISK_PER_EXECUTOR
AllResource(v) == [cpus |-> AllCpus(v), mem |-> AllMems(v), disk |-> AllDisk(v)]

-----------------------------------------------------------------------------
RECURSIVE RefSum(_)
RefSum(s) == IF s = <<>> THEN 0 ELSE Head(s) + RefSum(Tail(s))

\* Sections 4.2 and 8: the sum over the list selected by Kind only, plus
\* 64 MB executor overhead on memory and disk; a limit that does not parse
\* counts as zero.
RefResource(v) ==
    LET ps == v.process
        cs == v.container
        q(f, g) == IF v.kind = PROCESS
                   THEN RefSum([i \in DOMAIN ps |-> ParseFloat(ps[i][f])])
                   ELSE RefSum([i \in DOMAIN cs |-> cs[i].resources[g]])
    IN  [cpus |-> q("cpu", "cpus"), mem |-> q("mem", "mem") + 64,
         disk |-> q("storage", "disk") + 64]

-----------------------------------------------------------------------------
\* AggregatesAsSpecified: on a defaulted version, AllResource sums only the
\* list selected by Kind (kind exclusivity), counts unparsable limits as
\* zero and adds the executor overhead to memory and disk.
AggregatesAsSpecified ==
    defaulted => AllResource(version) = RefResource(version)
=============================================================================

# Verification of bk-bcs (storage sync, load-balancer discovery, credentials, resource model)

This directory holds TLA+ models of the Go sources under `src/`. There are
TLC configurations that model-check them on small instances, and TLAPS proofs
of the main safety properties for every value of the constants.
`PROJECT.json` is the machine-readable index. It lists:

- the components;
- the runs, and the mutants that confirm each property can fail;
- the map from every definition to the source lines it translates;
- the findings, the hazards and the theorems.

## 1. The system and its parts

The repository excerpt contains the following parts.

| Part | Source | What it does |
|---|---|---|
| Storage sync handlers | `bcs-mesos-watch/storage/{app,endpoint,exportservice}.go` | Turn the watch layer's Add/Update/Delete callbacks into CreateDCNode (PUT) and DeleteDCNode (DELETE) calls on the BCS storage service. Also turn the dirty-check tick into one DeleteDCNodes batch delete of every node older than 600 s. |
| Format converter | `app.go` FormatConv | Copies an Application into the report type, and formats the time. |
| Dispatcher, watch layer, storage service | not under `src/` (spec sections 4.4, 4.6 and 5) | The dispatcher runs callbacks on concurrent goroutines and has a dirty-check timer. The watch layer resyncs periodically. Storage upserts, with last-write-wins on the payload's update time. |
| Resource model | `bcs-scheduler/src/types/application.go` | Default resources, per-kind aggregation (AllCpus/AllMems/AllDisk), and placement-constraint validation. |
| LB discovery and master election | `bcs-loadbalance/rdiscover/rdiscover.go` | Registers the instance's IP in ZooKeeper and watches the registered list. A polling goroutine decides mastership: the master is the first IP of the list. |
| Credentials API | `bcs-api/.../credentials.go` | UpdateCredentials (token check, proxy-handler cache invalidation, save), GetCredentials, and the TKE credential sync (bind LB, poll for the VIP). |
| TKE LB subnet store | `bcs-api/.../sqlstore/tke_lb.go` | FirstOrCreate of a region's subnet, and a lookup. |
| CLI, main, options, ConfigMap types | `bcs-client/cmd/...`, `bcs-api/main.go`, `options.go`, `configmap.go` | Flag parsing, start-up, request/printing, and declarations. |

How the parts interact:

- The storage handlers are called by the watch layer (one goroutine per callback) and by the dispatcher's dirty-check timer.
- They talk to the storage service, whose node data the BCS API and the load balancer read.
- Those readers see the load balancer's registrations in ZooKeeper, and the credentials through the bcs-api proxy.

## 2. Modules

### StorageSync (core), MC_StorageSync, StorageSyncProofs, StorageIssuedProofs

State (VARIABLES), mapped to the code:

- `cluster[e]` is the orchestrator's current version of entity `e = <<kind, name>>`. It is `NoVal` when the entity is absent. A version stands for the payload FormatConv builds, of which only its update time matters to storage.
- `store[p]` is the storage node at path `p`: the version it holds and its age in ticks since it was last written. The three path shapes of the code (`.../dynamic/namespace_resources/...`, `.../watch/...` and the `all_resources/<kind>` scope) are `DynPath`, `WatchPath` and `ScopePath`.
- `worker[w]` is a callback goroutine. It records the handler it runs, the storage calls that handler still has to make (in program order), and how long the head call has been in flight.
- `sinceSync[e]` counts ticks since the watch layer last delivered Add/Update for `e`.
- `fails` counts failed storage calls, up to `MaxFail`.

Actions:

- **Handlers.** `AppAdd/AppUpdate/AppDelete/AppCheckDirty`, `EndpointAdd/...` and `ExpServiceAdd/...` are the Go methods. Each puts the method's whole sequence of storage calls on an idle goroutine:
  - App and Endpoint: one PUT to the dynamic node, one DELETE, or one sweep of the kind's scope carrying the 600 s window.
  - ExportService: a PUT (or DELETE) to the watch node, then one to the dynamic node.
  - `AppCheckDirty` is guarded by `DoCheckDirty` (the early return at app.go:37-41).
  - `ExpServiceHandler.CheckDirty` makes no call, so the dirty check only dispatches to App and Endpoint.
- **Deliver(w).** Storage applies the head call, and the goroutine moves to its next call or returns.
  - A PUT applies if its version is at least the stored one (spec section 5: last-write-wins on the update timestamp; an equal version refreshes the node).
  - A sweep deletes every dynamic node of its kind older than `window + delay`. This is exactly what `UpdateTimeEnd = now - 600`, fixed at the handler and applied `delay` ticks later, selects.
- **Fail(w).** A storage call fails in transport. App and Endpoint return the error, which ends the callback. ExportService ignores it and makes its next call (exportservice.go:45, 48).
- **Orchestrator.** `Create/Modify/Remove`.
- **Tick.** Time passes. It is guarded so that no call overstays `MaxDelay`, and no live application or endpoint goes longer than `ResyncAge` without a resync.

Lost watch events need no action of their own: a callback that is never invoked is a lost event. A duplicated or late one is a callback invoked again or after the entity changed.

The ordering of PUTs of one entity is settled by the storage service's last-write-wins (`Newer`), and the dirty check's selection by its time-window delete (`SweepHits`). Both are outside the repository and modelled from the spec. No property here is about them alone: a refinement onto a path-to-version map would hold by those two definitions, whatever the handlers send. Even without last-write-wins `converge` still passes, because a resync rewrites an overtaken PUT.

### RDiscover, LBElection, MC_RDiscover, RDiscoverProofs

Each load-balancer instance `i` has the following state:

- `pc[i]`: new, running, stopped or failed;
- `regIP[i]`: the `lbInfo.IP` it registered;
- `seen[i]`: its copy of `bcsLBServs`, a set ordered by the constant `Rank`;
- `isMaster[i]`;
- `checking[i]`: whether the CheckMasterStatus goroutine runs;
- `ifUp[i]`: whether its network card has its address yet.

`zk` is the set of addresses with a live ephemeral node.

The actions:

- `Start` registers with `GetAvailableIP` and starts the checker. `StartFailEarly` and `StartFailDiscover` are its error returns.
- `DiscoverBCSLBServ` is a watch event replacing the list.
- `CheckMasterStatus` is one round of the never-ending loop. Master means the first of the list is my address, and an empty list leaves the flag as it is.
- `Stop` cancels the event loop and closes the session. The checker keeps running.
- `InterfaceUp`, `Expire` and `Reregister` are the environment and the RegisterDiscover library, modelled at their boundary (`spec_modelled`).

The library is assumed to list the children in one fixed order, to re-create an expired node, and to make a registration under the empty address invisible. The module header states these assumptions.

**LBElection** is what the election promises, in terms of the registry alone. Its variables are `registry`, `view[i]` and `master[i]`. Its actions:

- `Publish(i)` adds `i`'s own address to the registry.
- `Withdraw(a)` removes an address.
- `Snapshot(i)` copies the registry into `view[i]`.
- `Decide(i)` sets `master[i]` to whether `IP[i]` heads a non-empty `view[i]`.

RDiscover instantiates it as `Election`, with `registry <- zk`, `view <- seen` and `master <- isMaster`. `ElectionRefined == Election!ElSpec` is the refinement. Under this mapping:

- a Start or Reregister that publishes an address is `Publish`;
- Expire, and a Stop whose node is live, is `Withdraw`;
- DiscoverBCSLBServ is `Snapshot`;
- a check on a non-empty list is `Decide`;
- every other step is a stutter.

The step that is not obvious is the check. The code compares the head with a fresh `GetAvailableIP()`, which is "" while the card is down. The abstract spec compares it with the instance's own address.

### ResourceModel, ResourceAggregates, MC_ResourceModel, ResourceModelProofs

`version` is one `Version`: kind, process list, container list and constraint tree. `defaulted` records whether `CheckAndDefaultResource` has run.

- The one state-changing step is `Default`, the in-place defaulting (`CheckAndDefaultResource`, application.go:173-205).
- A limit string is unset, numeric (`Itoa(n)`) or unparsable. `ParseFloat` gives 0 for the last two kinds of failure, the ignored error.
- Nil pointers are the model value `Nil`.
- `IsVersion` says what a `Version` is: a kind, a sequence of processes whose limits are in `Limits`, and a sequence of containers that have a nil DataClass or a set one (with nil or numeric `Resources`).
- Two assumptions constrain the constants:
  - `VersionsAssumption`: every version the model starts from satisfies `IsVersion`;
  - `NilAssumption`: `Nil` is none of the values it stands beside.
- `CheckConstraints` is an operator of this module.

The aggregations `AllCpus`, `AllMems`, `AllDisk` and `AllResource` are in **ResourceAggregates**. They are written as folds over the lists (FoldLeft of SequencesExt), with the RECURSIVE reference `RefSum`. They live in a module of their own so that ResourceModel, which holds the defaulting, reaches no RECURSIVE operator and can be reasoned about in ResourceModelProofs.

Reference definitions written from spec sections 3, 4.2 and 8 (`RefDefaulted`, `RefResource`, `RefConstraintsValid`) are compared with the code's operators on every reachable version.

### CredentialCache, CredentialRegistry, MC_CredentialCache, CredentialCacheProofs

The state:

- `db`: the cluster's credentials row;
- `cache`: the proxy handler, recorded as the credential it was built from;
- `upc[r]` and `form[r]`: the UpdateCredentials request goroutines;
- `tpc`, `tries` and `lb`: the SyncTke handler and the cloud LB.

UpdateCredentials is two actions:

- `CheckCredentials` covers lines 42-75: validation, the register-token check, the read of the row and the handler drop when the secret changed.
- `SaveCredentials` covers lines 77-83. `SaveFails` is its database error.
- `RejectCredentials` is the early returns.

`Rebuild` is the proxy building a missing handler from the row. It is outside the repository.

SyncTkeClusterCredentials is `SyncStart`/`SyncStartFails`, then one `Poll` per loop iteration with `PollFails` on a GetMasterVip error, then `SyncCredentials`.

**CredentialRegistry** is what the credentials API promises about one cluster. The row changes only to credentials in `Allowed`: those of a form that passes `validate.Struct` and carries the register token (`Register`). The handler is dropped (`Drop`) or rebuilt from the row (`Build`). It makes no promise about when a stale handler goes, which is why the failures of `CacheCoherent` are not failures here.

CredentialCache instantiates it as `Registry`, with `row <- db` and `handler <- cache`. `RegistryRefined == Registry!RegSpec`. Under this mapping:

- a CheckCredentials that drops the handler is `Drop`;
- a successful save is `Register`;
- `Rebuild` is `Build`;
- everything else, including SyncCredentials, is a stutter.

SyncCredentials is a stutter: the tke package's SyncClusterCredentials is outside the repository, and the model gives it no effect on the row or the handler (the refinement says nothing about what it writes).

### TkeLbStore, TkeSubnetMap, MC_TkeLbStore, TkeLbStoreProofs

`rows` is the tke_lb_subnet table. `pc`, `arg` and `found` belong to each caller goroutine. `lastSaved[g]` is the subnet of the last save of region `g` that returned nil.

- `SaveTkeLbSubnet` is `Select`, the SELECT of FirstOrCreate.
- It is followed by `Write`, the INSERT or UPDATE, or by `WriteFails`.
- `GetSubnetByClusterRegion` is an operator: the lowest-id row of the region.

The model assumes the table has no unique index on `cluster_region`, so a second INSERT for a region succeeds. The schema is not under src/. With such an index the second concurrent INSERT would fail instead, and `tke_concurrent` would show a failed save rather than a lost one.

**Abstract specification and refinement.** `TkeSubnetMap` states what the store promises its callers. It is a map from region to subnet, `subnetOf`, together with `saved`, the subnet each region's last successful save reported. Its one action, `MapSave(g, s)`, sets both in a single step.

`TkeLbStore` instantiates it as `Abs` with this refinement mapping:

- `subnetOf <- [g \in Regions |-> GetSubnetByClusterRegion(g)]`;
- `saved <- lastSaved`.

`MapRefined == Abs!MapSpec` says the table implements the map. Each `Select` and `WriteFails` leaves every lookup and every reported save unchanged, so it maps to a stutter. Each `Write` maps to `MapSave` of its region and subnet.

With one caller, `tke_sequential` checks this and TkeLbStoreProofs proves it. With two callers it fails, for the reason `tke_concurrent` shows: the second INSERT changes `lastSaved` but not the lookup.

## 3. Runs

| Run | Config | Result | What it shows |
|---|---|---|---|
| sweep_safety | MC_SweepSafety.cfg | pass, about 252k states | See below. |
| converge | MC_Converge.cfg | pass, about 94k states | See below. |
| expservice_orphan | MC_ExpServiceOrphan.cfg | violation | See below. |
| rd_safety | MC_RDSafety.cfg | pass, 79k states | `OnlyRegisteredMaster`: three instances, late cards, start failures, one expiry, Stop. `ElectionRefined`: every step is a step of LBElection. |
| rd_converge | MC_RDConverge.cfg | pass, 30k states | `EventuallyOneMaster` with one card up at start, two expiries, no Stop. |
| rd_no_single_master | MC_RDNoSingleMaster.cfg | violation | The instances do not settle on one master, for two reasons: a stopped master's checker keeps `isMaster` true while the survivor becomes master too, and instances started before their card is up register "" and never become master. |
| rm_defaults | MC_RMDefaults.cfg | pass, 83k states | Defaulting is as specified and idempotent. The aggregates follow the kind and add the executor overhead. |
| rm_constraints | MC_RMConstraints.cfg | violation | CheckConstraints accepts an empty Set payload and a Range with no ranges. |
| cc_auth | MC_CCAuth.cfg | pass, about 5k states | `AuthorizedOnly`: no credentials without the register token reach the row or the handler. `RegistryRefined`: every step is a step of CredentialRegistry. |
| cc_stale_handler | MC_CCStale.cfg | violation | `CacheCoherent` fails in two ways. A rebuild between the invalidation and the save leaves the old secret cached. An address-only update never invalidates the handler. With one address only the first can happen, and with one secret only the second. |
| tke_sequential | MC_TkeSequential.cfg | pass, 116 states | With one caller, the lookup returns the last save (`LastSaveVisible`), and the table refines `TkeSubnetMap` (`MapRefined`). |
| tke_concurrent | MC_TkeConcurrent.cfg | violation | Two concurrent first saves both insert, and the later one is lost to the lookup. |

**sweep_safety.** The setup:

- all three kinds, two goroutines and one name per kind;
- `StaleAge=2`, `ResyncAge=1`, `MaxDelay=1`, two versions and reliable storage.

It checks `TypeOK`, `FreshCurrent` and `CurrentRemovedOnlyByDelete`. The dirty check, delayed or not, never sees a current node as stale and never removes one. Only a DeleteDCNode of that path does.

**converge.** Applications and endpoints, with one failing call allowed, under `FairSpec`. It checks `EventuallyMirrored`: storage converges to the orchestrator despite lost deletes, reordered PUTs and a failed call.

**expservice_orphan.** The same property for export services. It is violated: a lost or overtaken delete leaves an orphan forever, because `ExpServiceHandler.CheckDirty` does nothing (finding 1).

**Why these bounds are enough.** Each bound makes the interesting case reachable:

- `StaleAge=2`, `ResyncAge=1` and `MaxDelay=1` allow a node to be one tick older than the resync period. They also allow a sweep delayed by a tick while a resync PUT is in flight.
- Two goroutines give two concurrent callbacks for one entity, which produces reordered PUTs and a DELETE overtaken by a PUT.
- Two versions let an older PUT arrive after a newer one.

The mutants confirm that each property catches the bug it is meant to catch:

- a sweep without its window;
- an Update writing the watch path;
- an inverted `DoCheckDirty`;
- a goroutine never released.

Outside the storage sync, two mutants target the refinements:

- an UpdateCredentials that skips `validate.Struct` (`CheckCredentialsNoValidate`) saves a malformed credential, which violates `RegistryRefined`;
- an inverted master check (`CheckMasterStatusInverted`) violates `ElectionRefined`.

**Bounds of the other modules:**

- **RDiscover.** Three instances with distinct ranks give a master, a runner-up and a third. `MaxExpire` of 1-2 lets the head's node disappear and come back. Which card is up at start is varied per run, so that each violation has a single cause.
- **ResourceModel.** Up to two processes and two containers is enough to show a sum, kind exclusivity and the section 8 example: cpus 2+3, memory 100+200+64 and disk 50+50+64. The limits take all three forms, and DataClass/Resources all three nil patterns.
- **CredentialCache.** Two requests with two addresses and two secrets. A wrong-token caller submits one credential that no authorized caller does, which is what makes `AuthorizedOnly` falsifiable. The TKE loop runs its real six tries.
  - In `cc_auth` the forms are `MCCheckedForms`: whether `validate.Struct` accepts a form depends on its credentials, and one credential (a1 with s2) is malformed. If every credential also came in a valid form, a request that skipped validation could never save anything outside `Allowed`, and `RegistryRefined` could not tell.
- **TkeLbStore.** Two regions and two subnets, with three row ids.

**Symmetry.** Goroutines are interchangeable, so the safety run uses symmetry over `Workers`. The liveness runs do not use it.

**Fairness (FairSpec), and why the code justifies it:**

- **Storage answers every call** (WF on Deliver). The DataOperator call is a blocking round trip, and transport failure is the separate, bounded `Fail`.
- **Time passes** (WF on Tick).
- **Resync and the dirty check eventually run** (SF on each live application/endpoint's resync, and on each kind's dirty check). These come from timers in the dispatcher and the watch layer. They wait for a free goroutine rather than being dropped, so they run whenever a goroutine is free infinitely often.
- **Lost events and failures get no fairness.**
- **RDiscover (RDFairness).** Instances are started, the watch delivers events, and the library re-registers expired nodes (WF). The checker loop runs every 5 s and is always enabled, so WF makes it run.
- **CredentialCache.** No liveness property is checked, so its runs use `CCSpec` without fairness. The six-try GetMasterVip loop bounds the handler by construction. What a reported bind failure promises when the LB binds later is stated nowhere, so no property covers it (hazard at credentials.go:165).

## 4. Proofs

All proofs are checked by tlapm, from the constants' assumptions (`KindsAssumption`, `WorkersAssumption`, `FlagAssumption`, `BoundsAssumption`).

- **TypeCorrect**: `Spec => []TypeOK`, for every value of the constants. There is one lemma per action: Invoke, Upsert, Erase, Sweep, Advance, Apply, Deliver, Fail and Tick.
- **IInvariant**: assuming `MaxFail = 0`, `Spec => []IInv`.
- **FreshCurrentHolds**: assuming `MaxFail = 0` and `ResyncAge + MaxDelay <= StaleAge`, `Spec => []FreshCurrent`.
- **SweepSparesCurrent**: under the same assumptions, `Spec => CurrentRemovedOnlyByDelete`. The supporting lemma `StepRemovesOnlyByDelete` shows that a Deliver emptying a current node must be that node's DELETE:
  - a PUT never carries `NoVal`;
  - a sweep needs age `> StaleAge + delay`, which IInv excludes.

**The inductive invariant.** FreshCurrent is not inductive: a node's age grows with every tick, and nothing in FreshCurrent says why it will be refreshed in time. IInv adds three conjuncts:

- `ValsIssued`: every version in the cluster or in storage was handed out.
- `WellFormedCalls`: the calls in flight are well formed. A PUT carries an issued version, a DELETE `NoVal`, and a sweep the 600 s window on a swept kind's scope.
- `CurrentAgeBound`: a current node is no older than the entity's time since its last resync, or else a resync PUT that storage will accept is in flight to it, and the node is at most `ResyncAge` ticks older than that PUT.

With `ResyncAge + MaxDelay <= StaleAge` this gives FreshCurrent. Last-write-wins matters here: it is what makes an in-flight PUT of the current version "accepted", so the refresh is guaranteed.

The `MaxFail = 0` assumption is needed: with failures, a resync PUT that fails leaves the node to age past the window. TLC confirms this; the sweep removes it and the next resync rewrites it, which is what `converge` checks.

**StorageIssuedProofs.** This theorem needs no `MaxFail = 0`; it holds with failing calls.

- `IssuedInvariant`: `Spec => [](TypeOK /\ Issued)`, where `Issued == ValsIssued /\ WellFormedCalls`.
  - These two conjuncts of IInv are inductive by themselves; only `CurrentAgeBound` needs reliable storage.
  - A failed call only shortens its goroutine's list of calls (lemma `AdvanceWellFormed`).

**ResourceModelProofs.** `DefaultsAsSpecifiedHolds`: `RMSpec => []DefaultsAsSpecified`, for every well-formed version of any length (from `NilAssumption` and `VersionsAssumption`).

- The invariant is `RMInv == IsVersion(version) /\ defaulted \in BOOLEAN`.
- `DefaultVersionFacts` shows that defaulting preserves `IsVersion`, meets `RefDefaulted`, and is idempotent. It rests on three lemmas:
  - `DefaultProcessFacts` and `DefaultContainerFacts`, one per element;
  - `ProcsFacts`/`ContsFacts`, which carry those over the whole sequence.
- The sequence lemmas need only the function form of `Seq` (`FunIsSeq`); no induction over the list is involved.

**RDiscoverProofs.**

- `RDTypeCorrect`: `RDSpec => []TypeOK`.
- `OnlyRegisteredMasterHolds`: `RDSpec => []OnlyRegisteredMaster`, from `IPAssumption`, `RankAssumption` and `RDBoundsAssumption`.

The inductive invariant is `RDInv`. It adds four conjuncts:

- an instance registers only its own address or "" (`RegOwn`);
- a new instance has registered nothing (`FreshNew`);
- every child in ZooKeeper was registered by someone (`ZkRegistered`);
- every address an instance discovered was registered by someone (`SeenRegistered`).

With the injectivity of `IP`, these give: if the first discovered address equals my fresh `GetAvailableIP`, then the address I registered is mine. The lemma `FirstInSet` shows that the CHOOSE in `First` picks a member of the set. It uses the well-foundedness of `<` on Nat from WellFoundedInduction.

- `ElectionRefinedHolds`: `RDSpec => ElectionRefined`. Its invariant is `ElInv == RDInv /\ RegUp`. `RegUp` says that an instance whose registered address is its own has its card up; it holds because a card never loses its address.

The step lemma `RDStepRefines` has one case per group of actions. The check case rests on `CheckVerdict`: for a non-empty list, "head = fresh GetAvailableIP()" equals "head = own address". With the card up this is immediate. With the card down, the left side is false because the head is an address and not "". The right side is also false: if the head were my address, then by `SeenRegistered` and `RegOwn` I registered it (lemma `RegisteredOwner`), and by `RegUp` my card would be up.

**CredentialCacheProofs.**

- `CCTypeCorrect`: `CCSpec => []TypeOK`.
- `AuthorizedOnlyHolds`: `CCSpec => []AuthorizedOnly`, from `CredAssumption`.

`AuthorizedOnly` alone is not inductive. A request between its token check and its save holds a form that is not yet in the row. `CCInv` adds `SavingAuthorized`: such a form carries the register token.

- `RegistryRefinedHolds`: `CCSpec => RegistryRefined`.
  - Its invariant is `RegInv == TypeOK /\ SavingAllowed`. `SavingAllowed` says that a request about to save holds a valid form with the register token, so its credential is in `Allowed`. `RegInvStep` proves that it is inductive.
  - `CCStepRefines` maps each step to `Register`, `Drop`, `Build` or a stutter.
  - A final PTL step combines them with `Init => Registry!RegInit`.

**TkeLbStoreProofs.** Both theorems assume `SingleCaller`, which says that every two callers are the same goroutine. With two callers both properties are false (run `tke_concurrent`).

- `SequentialLastSaveVisible`: `TKSpec => []LastSaveVisible`.
- `SequentialMapRefined`: `TKSpec => MapRefined`. It has three parts:
  - `Init` maps to `MapInit`;
  - each step maps to `MapSave` or to a stutter (lemma `TKStepRefines`);
  - a final PTL step.

`LastSaveVisible` is not inductive. It says nothing about a save whose SELECT has run and whose write has not, and that write may INSERT a second row. `TKInv` adds the following conjuncts:

- ids are below `nextId` (`RowIdsBelow`);
- ids are unique (`IdsUnique`);
- there is one row per region (`OneRowPerRegion`);
- what the pending SELECT returned still describes the table (`SelectValid`);
- the last save is visible even while a save is in progress (`Visible`).

The lemma `WriteShape` covers both branches of a write: after either the INSERT or the UPDATE, the table is the rows of the other regions plus one row of the saved region.

`LookupAfterWrite` and `LookupOne` then give the lookup after the write. The CHOOSE of `FirstRow` is evaluated on a one-element set, so no argument about minima is needed.

**Only model-checked:**

- **Liveness.** `EventuallyMirrored` and `EventuallyOneMaster` are liveness properties and stay with TLC. tlapm does not handle liveness under fairness, or ENABLED.
- **ResourceAggregates.** `AggregatesAsSpecified` relates folds to the RECURSIVE `RefSum`. Proving it for every list is induction over data, and a module reaching a RECURSIVE operator cannot hold a theorem. It is checked on bounded versions.
- **ResourceModel's `ConstraintsAsSpecified`.** It is false (run `rm_constraints`).
- **TkeLbStore with concurrent callers.** There the properties fail, and TLC shows it.

## 5. Not modelled

- **The CLI commands, `main.go`, `options.go` and `configmap.go`.** These are flag parsing, process start-up, HTTP request/printing and type declarations. They have no concurrent state or protocol to check.
- **The FormatConv field copy and timestamp formatting.** These are abstracted to the version a payload carries, because no property distinguishes payload fields.

- **GetCredentials, GetClientCredentials, GetBCSLBServList and IsMaster.** These only read state and are not actions. Their values are what the properties observe.
- **The proxy dispatcher, the tke package, RegisterDiscover and the scheduler's callers of the resource model.** They are not in the repository and appear only at their boundary.

## 6. Plan

1. **Storage sync: done.** FreshCurrent and the sweep's safety are proved with reliable storage; the issued-versions invariant is proved with failures.
2. **RDiscover: done.** Safety is proved, and liveness is checked, with two findings.
3. **CredentialCache and TkeLbStore: done.** The sequential TKE store is proved to refine its abstract map. AuthorizedOnly is proved. There are three findings: the invalidation race, the address-only update and the FirstOrCreate race.
4. **ResourceModel: done.** Defaulting is proved. There is one finding, on empty constraint payloads.
5. **Refinements proved:**
   - TkeLbStore onto TkeSubnetMap (one caller);
   - CredentialCache onto CredentialRegistry;
   - RDiscover onto LBElection.
6. **Next steps:**
   - a liveness run with start failures, for the partial-failure hazard of `StartFailDiscover`;
   - a proof of `CurrentRemovedOnlyByDelete`-style properties of the ExportService handler (its two-call sequence with ignored errors).

# A TLA+ model of mackerel-operator

mackerel-operator keeps external (HTTP) monitors in the monitoring service
Mackerel in step with `ExternalMonitor` custom resources (CRs) in a Kubernetes
cluster. This directory models its controller and the data it moves, checks the
models with TLC and proves their safety properties with TLAPS. `PROJECT.json` lists the runs, the
theorems, the source lines behind every definition, the findings and the hazards.

## The system

| part | state it keeps | operations | what makes it correct |
|---|---|---|---|
| controller (`internal/controller/externalmonitor_controller.go`) | nothing durable of its own: a work queue, the locals of one `Reconcile` | `Reconcile`, its deletion path, `findActual`, finalizer and status patches, Secret-to-CR mapping | one monitor per CR, none orphaned, none of somebody else's touched, status ends up true, deletions complete |
| headers (`headers.go`) | - | resolve header values from Secrets, past the cache; index CRs by Secret | a missing Secret blocks the CR instead of dropping the header; one version per Secret; rotations arrive |
| planner (`internal/planner`) | pure | `Plan`, `PlanDelete`, drift comparison | never updates what is not owned; sees every difference a PUT can remove and no other |
| ownership (`internal/ownership`) | pure; its markers live in Mackerel memos | build, parse, apply, remove | the marker is the only durable record of ownership |
| status (`internal/status`) | pure; writes the CR's status | `MarkReady`, `MarkOwnershipLost`, `MarkInvalidSpec`, `MarkError` | says of which generation it speaks |
| source, monitor (`internal/source`, `internal/monitor`) | pure | desired state and its hash | same spec, same desired state; the hash may collide |
| provider (`internal/provider`) | pure; talks to Mackerel | get, list, create, read-merge-write update, delete | fields the CR does not manage survive |
| Kubernetes API server, informer cache, Secrets | CRs, versions, Secrets | external | - |
| Mackerel | monitors | external | no preconditions, no transactions |
| manager setup (`cmd/main.go`) | flags | check flags, start | a restart with other flags leaves what is marked recognisable or untouched |
| chart, admission policy for agents | - | - | not modelled |

The parts interact through two stores that nobody locks. `Reconcile` reads a CR
from a cache that lags behind the API server, reads Secrets and Mackerel, plans,
writes Mackerel, and patches the CR's finalizers (with the resource version) and
its status (without). Between any two of these calls users may edit, delete and
recreate the CR, people may change monitors in the Mackerel UI, operators of
other clusters may do the same, a call may fail with or without effect, and the
process may die. These orders are what unit tests hardly reach, and what the
hazards in `PROJECT.json` list at their lines.

## Modules

Three machines, at three levels of detail, and what they are built from:

| module | what it is |
|---|---|
| `Ownership`, `Planner` | markers and memos as records; `Plan`, `PlanDelete` and the comparison over whole values |
| `Reconciler` (EXTENDS `Planner`) | **machine 1**: the controller between the API server and Mackerel, one action per remote call |
| `ReconcilerInvariant` | the inductive invariants: `OwnershipInv`, `FinalizerInv`, `ReleaseInv` |
| `OwnershipContract` | abstract specification: who holds, claims and releases monitors |
| `ReconcilerRefinement` | `Reconciler` implements `OwnershipContract` (INSTANCE ... WITH) |
| `Fields` | a monitor field by field: validation, defaults, conversions, comparison |
| `MarkerText` | markers as text: escapes, the pattern, removal, the newline |
| `MonitorSync` (EXTENDS both) | **machine 2**: one CR and its monitor with all fields and the whole memo, one action per `Reconcile` |
| `Headers` | **machine 3**: headers from several Secrets, one action per round of `resolveHeaderValues` |
| `MCReconciler`, `MCMonitorSync`, `MCHeaders` | constants for the runs |
| `ReconcilerProofs` | theorems: types of `Reconciler` |
| `OwnershipProofs` | one monitor per CR, recorded ids, other people's monitors |
| `FinalizerProofs` | the finalizer comes before the monitor |
| `ReleaseProofs` | the monitor goes before the finalizer; only the doomed are deleted |
| `RefinementProofs` | `Reconciler` implements `OwnershipContract` |
| `HeadersProofs` | `Headers`: complete header lists, one version per Secret |
| `MarkerProofs` | `MarkerText`: what is put into a memo is read back |
| `SyncProofs` (EXTENDS `MarkerProofs`) | `MonitorSync`: types, comparison, one write is enough, memos, deletion |

The proof modules of machine 1 extend each other in the order given: each theorem is
cited by the next.

Machine 1 has all the interleavings and failures and treats data as a few values;
machine 2 has all the data and makes a `Reconcile` one step; machine 3 splits the one
step of machine 1 that reads Secrets. Machine 2 justifies the abstractions of
machine 1: that all compared fields can be one value (`WriteSettles`, `NoBlindSpot`: what is
written is read back as it was, and equal means equal but for numbers that no spec can ask
for, see "Findings"), that a header list is one value
up to order (`ReorderingIsQuiet`), and that a memo is a text and a marker (`MemoKept`).

Operators whose comment begins with "Mutant" are faulty variants of the definition
they precede. They are used by no specification; each shows that a property can
fail (see "Mutants").

### State of `Reconciler`

| variable | stands for |
|---|---|
| `objs[r]` | the versions of CR `r` from the one in the informer cache (first) to the one in the API server (last) |
| `secret`, `secretEvents` | the header list each Secret stands for, and undelivered watch events |
| `store`, `nextID` | Mackerel's monitors, and its next id (ids are never reused) |
| `queue`, `timer` | the work queue; CRs that come back after a delay (`RequeueAfter` or back-off) |
| `pc`, `w` | the remote call `Reconcile` makes next, and its local variables |
| `edits`, `faults`, `crashes` | how much of the bounds is used |

### Actions of `Reconciler` and code

`Fetch` is the head of `Reconcile` (cache read, deletion path or not);
`ResolveHeaders` is `resolveHeaderValues` and the construction of the desired
state; `AddFinalizer`, `RemoveFinalizer`, `Conflict` and `Reread` are
`patchFinalizers` with its retry; `GetMonitor` and `ListMonitors` are the halves of
`findActual`, each followed in the same step by the planner and `Reconcile`'s switch
(`Decide`), which make no remote call; `CreateMonitor` is the POST; `GetCurrent`
and `PutMonitor` are the two calls of `UpdateExternalMonitor`; `DeleteMonitor` is
`reconcileDelete`'s DELETE; `PatchStatus` computes the status and sends the fields that
differ from the version `Reconcile` read. Every call has a failing branch (`Fault`),
and every write one in which it fails after taking effect. `DeliverWatch`,
`TimerFires`, `DeliverSecret` and `Crash` wake the worker up or restart it. `CreateCR`,
`EditSpec`, `DeleteCR`, `SetSecret`, `EditMonitor`, `RemoveMonitor` and `AddMonitor` are
other people; the constant `Outside` says which kinds of change to monitors they make.

### The other machines

`MonitorSync`: `flags` and `running` are what `main` was started with and whether it accepted
it (`Accepted`), `spec`, `alive` the CR, `wire` the monitor as Mackerel stores it, `last`
what `Reconcile` did last. `keeper` is a history variable: the owner id under which
`Reconcile` last reported success, until somebody else touches the memo. `Sync` is `Reconcile` from the desired state to the write,
`Finalize` the deletion path with its own desired state (`externalMonitorDeletionSource`),
whose owner and resource `PlanDelete` looks for.
`EditSpec` (filtered by the CRD's rules, `ValidSpec`), `EditWire`, `EditMemo`, `RemoveMonitor`
and `Restart` are other people. A nil pointer is the empty set, a pointer a singleton; a
`float64` is counted in halves; a memo is a sequence of tokens, and an owner id in a
marker a sequence of bytes, escaped and unescaped as the code does it. Tokens `head` and
`tail` are a marker cut in two by something inside it: `RemoveMarker` works in one pass, so
removing what is inside makes a marker of them. That is the one way in which
`WriteSettles` and `OwnedIsDeleted` may fail, and their statements exclude exactly it.

`Headers`: `specs[r]` are the versions of a CR's header list as in `Reconciler`; a Secret
has a version and the keys it holds, and a header's value is (Secret, key, version), so
that every rotation changes every value; `w.read` is the map of Secrets that
`resolveHeaderValues` keeps for one call. `Return` is the status patch and the result of
`Reconcile`; a failing status patch is left to `Reconciler`.

`OwnershipContract`: `held` (finalizer), `doomed` (deletion requested), `claim` (monitor to the
CR whose marker it carries) and `turn`, which changes when the operator moves (`pc`), so
that what others may do to monitors is not a way out for the operator.

### Abstractions of `Reconciler`

- A monitor has a name, one value `body` for all other compared fields except the
  headers (the code compares them in one conjunction and writes them together), a
  header list up to order, and a memo.
- A memo is a text, up to the newline `ApplyMarker` adds, and a marker.
- The headers of a spec are a fixed list, one Secret, unmanaged (nil), or broken
  (a header with neither value nor reference: only where the CRD's validation
  rule is not enforced). A `valueFrom` without `secretKeyRef`, for which `headers.go` has an
  error of its own, does not get past the CRD and is left out.
- `HashDesired` is any function, constant ones included.
- `resourceVersion` is not a number: `w.fresh` says whether the version the worker
  holds is still the current one, which is all the optimistic lock asks.
- Status fields: monitor id, observed generation, hash, and one condition with
  reason and generation. A new `lastSyncedAt` makes a new version of the CR.
- Errors: not found, and any other; rate limits and other errors both come back later.

### Assumptions

- One worker: `MaxConcurrentReconciles` is left at 1, and the chart turns leader
  election on.
- A request has its effect, if any, before its call returns or the process dies.
- After a restart the cache starts as the API server's state, and everything is
  queued once.
- No other finalizers on the CRs; nobody removes ours by hand; nobody but this
  operator writes its owner id into a memo.
- Mackerel never reuses ids. The order in which it lists monitors is a constant
  of the model (newest first in the runs); the code relies on none.

## Properties and runs

None of the runs checks for deadlock: once all CRs are gone and the bounds are used up
the system rightly has nothing to do.

| run | checks | bounds | shows |
|---|---|---|---|
| `Lifecycle` | `TypeOK`, `UniqueOwned`, `NoOrphan`, `FinalizerInv`, `FinalizerBeforeMonitor`, `DeletesOnlyDoomed`, `KeepsContract` | 1 CR, 2 specs, 2 changes, 1 fault, 1 crash | lost answers, crashes, a stale cache and recreated CRs lead neither to a second monitor nor to an orphan nor to the deletion of a live CR's monitor; the controller implements the contract |
| `SharedName` | `OwnershipInv`, `ReleaseInv`, `RecordedMonitorIsOwned`, `LeavesOthersAlone`, `KeepsContract` | 2 CRs of one monitor name, 1 change, 1 fault | CRs do not take monitors from each other, from people or from other operators |
| `FaultyCalls` | `Settles`, `DeletionCompletes` | 1 CR, 1 Secret, 1 change, 1 fault, 1 crash, no Secret watch | the status becomes and stays true and deletion ends, failures or not, by the resync timer alone |
| `SecretHeaders` | `Settles`, `ComesToRest` | 1 CR, 1 Secret, 2 changes | Secrets that come, rotate and go; the operator stops writing |
| `Conflicts` | `Settles`, `DeletesOnlyDoomed`, `OnlyAmbiguityBlocksDeletion` | 1 CR, up to two monitors of its name from the start, every kind of change by others, 2 changes, constant hash, upsert-only | synchronised in all fields, or blocked for the reason the status gives; the hash is never the only drift check; the default policy deletes nothing; only ambiguous names hold up a deletion, and only while they last |
| `FieldDrift` | `SyncTypeOK`, `WriteSettles`, `NoBlindSpot`, `AdoptsOnlyEqual`, `ReorderingIsQuiet`, `MemoKept`, `OwnedIsDeleted` | `MonitorSync`: 2 edits of any field on either side, of the memo, of the flags | one write is enough; no drift goes unseen and adoption only adds a marker, but for monitors with numbers that no spec can ask for; text stays; the deletion path recognises what was synchronised, restarts in between included |
| `Headers` | `HeadersTypeOK`, `ResolvedSoFar`, `OneVersionPerSecret`, `NoPartialHeaders`, `RotationArrives` | `Headers`: 1 CR, 2 Secrets of 2 keys, 3 changes, 1 fault | no torn reads of a Secret, no header left out, the newest values arrive through the Secret watch alone |

The bounds are on what happens, not on how long `Reconcile` runs: resyncs go on
forever. Two changes are enough for the known races: an edit during `Reconcile`
and one while its result is in flight, or a deletion and a recreation (CRs may
exist from the start) before the cache shows either. One fault and one crash each
reach every pair of a failure and the recovery from it. In `FieldDrift` fields are
compared and converted one by one, so two edits reach every pair of values of a field,
one in the spec and one in Mackerel, at the boundaries the CRD allows (and just outside
of them, which `ValidSpec` must refuse); one of the initial memos holds a cut marker. `MaxInt` is
1000; people write numbers above it in Mackerel, too, and limits that are no whole number.
In `Conflicts` two changes are, among others, the deletion of a CR whose name is ambiguous
and the change that ends the ambiguity. In `Headers` three changes are a rotation or deletion of each Secret and an
edit of the CR, in any order around the reads. `RetrySteps` is 2 instead
of client-go's 5: one conflict that is retried and one that is not. The theorems
below need none of these bounds.

Two monitors of the CR's name, none of them marked as its own, make `findActual` fail (if the
status records no monitor that is there), and then the finalizer stays: the operator cannot
know that there is nothing to delete. That is how the code is meant to work, so
`DeletionCompletes` is checked where it cannot happen (`FaultyCalls`), and
`OnlyAmbiguityBlocksDeletion` where it can (`Conflicts`). On the deletion path no condition tells the user
why the CR stays.

`NoOrphan` is checked for specs that pass the CRD's validation. Where that is not
enforced, a spec made invalid after its monitor was created does orphan it: the deletion
path drops the finalizer when it cannot build the desired state, as the comment on
`externalMonitorDeletionSource` says.

**Fairness.** `FairSpec` assumes that a running `Reconcile` goes on (`WF` of
`Work`), that watch events and delays arrive (`WF`), and that the work queue
serves every CR it holds (`SF` of `Fetch(r)`: the queue is first-in-first-out, but
between two CRs `Fetch(r)` is enabled only while the worker is idle). Users, faults
and crashes have no fairness. `Headers!Fairness` is the same without the resync timer,
which may fire but need not: controller-runtime delivers the watch events that
`RotationArrives` is about, and ends every back-off.

**Mutants.** For every property of a passing run, `PROJECT.json` names a faulty
variant of a definition under which TLC finds that property violated: for instance
`addFinalizer` tolerating a vanished CR (`FinalizerBeforeMonitor`), a planner
that trusts the hash (`Settles`), a DELETE whose error is ignored (`NoOrphan`).

## Findings

Five statements of the repository that the code does not keep, each with a run
that TLC ends with a counterexample.

- `MemoRace`: *"the operator preserves all text outside the marker"* - the PUT's memo
  comes from `findActual`'s read, not from the read right before the PUT. (Headers a
  CR does not manage are exposed too, but only between that last read and the PUT. A
  marker that another operator puts on a monitor which is just being adopted is lost in
  the same window.)
- `StaleReady`: *"Mackerel external monitor is synchronized"* for a generation that was
  not applied yet, when the spec changes while the finalizer is being added. The next
  `Reconcile` puts it right (`Settles` holds).
- `MemoOfSpec`: *"Every other field in the spec resets to its default when omitted"* -
  not `memo`: updates keep the text they find.
- `MemoLimit`: *"`spec.memo` plus ownership marker must fit within Mackerel's 2048-character
  memo limit"* - the CRD allows 1900 characters whatever the length of the marker, which
  grows with namespace, name and owner id; from 59 characters of namespace and name on
  (with the defaults) a memo of 1900 no longer fits, and the refused creation is retried
  for ever.
- `FractionUnseen`: *"a change made in the Mackerel web UI is reverted"* - not a fraction of a
  millisecond in a response time limit: `intPtrFromFloat64` cuts it off, so 1.5 in Mackerel
  compares equal to 1 in the spec and stays, under a status that says synchronised.
  For the same reason *"the operator cannot silently overwrite a value set in the UI"* fails:
  an unmarked monitor with a limit of 1.5 looks equal to a spec of 1, is adopted, and has its
  limit set to 1 by the PUT that adds the marker.

`NoBlindSpot` and `AdoptsOnlyEqual` name these cases (`Representable`) and claim everything else.
`Representable` also leaves out intervals, days and durations above `math.MaxInt`, which
`intPtrFromUint64` and `intPtrFromUint64Ptr` read as absent; no monitor has such values in practice.

## Proofs

TLAPS checks the theorems below for every value of the constants that satisfies the
named assumptions of the modules; TLC evaluates these assumptions in every run.
`LiteralsAssumption` only states that a few string literals are strings, which the
provers do not know, and `KeysAssumption` that no CR is called "free" or "theirs", the
two values the refinement mapping adds to the CRs.

### The controller (`Reconciler`)

For every set of CRs, Secrets, specs and initial monitors, every hash, policy, number of
retries and bound:

- `TypeCorrect`: `Spec => []TypeOK`. `TypeOK` is inductive as it stands, as the conjunction
  of one predicate per group of variables; one lemma per action, resting on lemmas about
  how `Reconcile` goes on (`GoOnType`, `ReturnType`, `ReportType`, `DecideType`) and about
  patches (`AppendType`, `MergedStatusType`).
- `OwnershipInvariant`: `Spec => []OwnershipInv` if nobody strips markers. `UniqueOwned` is
  not inductive: a creation is safe only if what the scan concluded still holds at the
  POST, and an update only if its target is the CR's only candidate. `OwnershipInv` adds
  what the worker relies on. A *claim* is an id that Mackerel has given out and whose
  monitor, if it still exists, is the CR's. All ids in all versions of all CRs, in the
  worker's copy, and in the report it is about to write are claims; `desired` names the CR
  it works on; at `create` the CR owns nothing; at `getCurrent` and `put` it owns at most
  the target, and nobody else of this operator does; at `delete` the target is a claim.
  Claims survive because ids are not reused and only the worker writes this owner's
  markers. `OneMonitorPerCR` (`UniqueOwned`), `RecordedIdsAreOurs`
  (`RecordedMonitorIsOwned`) and `OthersUntouched` (`LeavesOthersAlone`) follow.
- `FinalizerInvariant`: `Spec => []FinalizerInv`, whatever others do. The worker sees only the
  oldest of the versions that the cache lags behind with, so `FinalizerBeforeMonitor` needs
  an invariant on the whole backlog: in it either no finalizer and no deletion timestamp is
  ever taken away again (`Guarded`), or where there still is a finalizer the CR was being
  deleted all along (`Released`). So a Reconcile that sees a live CR works on a guarded
  backlog, where a finalizer once seen is still in the API server; a finalizing one works
  on a released backlog, whose removal of the finalizer can hit no live CR, even one that
  was recreated. `FinalizerComesFirst` (`FinalizerBeforeMonitor`) follows from that at the
  POST and the PUT, the only steps after which a monitor is newly ours (lemma `MineSteps`).
- `ReleaseInvariant`: `Spec => []ReleaseInv`. `NoOrphan` is not inductive either: the
  finalizer may go because, since the deletion path found nothing or deleted what it found,
  nothing of the CR has come back (`NothingLeft`), and what it deletes is all there is
  (`DeleteIsTotal`). `NoMonitorIsOrphaned` (`NoOrphan`) and `OnlyTheDoomedAreDeleted`
  (`DeletesOnlyDoomed`) follow. They assume that nobody strips markers, and that specs pass
  the CRD's validation (no `Broken` headers).
- `ControllerKeepsContract`: `Spec => KeepsContract`, see "Refinement".

Why these hypotheses are needed: a stripped monitor that the status still records may be
marked again after another one was created, and a deletion does not find it; an unmarked monitor that another operator
adopts just now may be overwritten, since the PUT has no precondition (see `MemoRace`), so
`OthersUntouched` and the refinement assume that nobody adopts; and with an invalid spec
the deletion path lets the CR go without its monitor.

### Headers (`Headers`)

For every number of Secrets, keys, headers, changes and faults: `HeadersInvariant`, from
`HeadersTypeOK`, the two properties of what Mackerel has, and `ResolvedSoFar`, which makes them
inductive: each value collected so far is its own header's, read from the one version of its
Secret that this call keeps. `HeadersTypeCorrect`, `ValuesAreTheirHeaders`, `OneVersion` and
`HeadersAreComplete` are its conjuncts.

### Markers (`MarkerText`)

`EscapesAreUndone`: an owner id of any bytes, once escaped, matches the marker's pattern,
can be unescaped, and comes back as it was. `AppliedMarkerIsRead`: `ParseMarker` reads from
a memo exactly the marker that `ApplyMarker` put into it, whatever was in it before, unless
a head and a tail have come together in front of it. The scan of `unescapeMarkerValue` and
`FlattenSeq` are recursive functions; the library's induction theorems cannot be
instantiated by the provers, so the induction is by the least counterexample: a set of
numbers has a least element (`WFMin`, lemma `Least`), hence a set that holds 0 and the
successor of each number it holds has them all (`Climb`). From it come the existence and the
layout of joined lists (`FlattenOffsets`) and of the scan (`ScanExists`), and that the scan
stops exactly where the escapes of the single bytes begin (`WrittenScanned`).

### One CR in full (`MonitorSync`)

For every set of flags, specs, monitors and edits of the declared types, every size of
tokens and both memo limits:

- `SyncTypeCorrect`: what the operator sends is always a monitor that Mackerel accepts
  (`PayloadTyped`: no conversion leaves the range of its type).
- `ComparisonIsComplete` (`NoBlindSpot`) and `AdoptionIsHarmless` (`AdoptsOnlyEqual`), from
  `EqualActsAlike`: if a desired state equals what is seen of a monitor, the payload made of
  it acts like the monitor. Nothing is assumed of what people write; the two properties
  speak of monitors whose numbers a spec can ask for (`Representable`), and need the
  whole milliseconds (`WholeLimit`) and the `MaxInt` (`ConversionsAgree`) exactly there.
- `WritesSettle` (`WriteSettles`), from `SettledInv`: after a Reconcile that is reported as a
  success the plan is to do nothing. It joins two round trips, that of the fields
  (`PayloadMatches`: for an accepted spec, what is seen of the payload equals the desired
  state) and that of the marker (`AppliedMarkerIsRead`). No hypotheses.
- `DeletionRecognisesOwn` (`OwnedIsDeleted`), from `KeeperInv`: the monitor carries the marker
  under the owner id that last looked after it. By `SettledInv` a success means that the plan
  is to do nothing, and that means an owned monitor; edits of other fields and restarts
  leave the marker, and owner and resource are all that `PlanDelete` asks for.
- `WritesKeepTheMemo` (`MemoKept`): removing markers keeps the tokens of every kind that no
  match has (`RemovalKeeps`, by induction on the memo); words are such kinds unless a head
  has met its tail, newlines always are; and if the marker had a line of its own, the
  newline before it is what remains at the end (`RemovalEndsOnNewLine`).
- `OrderDoesNotMatter` (`ReorderingIsQuiet`): the sort of `source` is modelled by the place
  it gives each header. Names differ by the CRD's list-map, so places differ
  (`PlacesDiffer`) and, there being as many as headers, each is taken (`PlacesTaken`); a
  place depends on the headers alone and not on their order (`SamePlaces`), so two orders
  of one list become the same list (`SortedAlike`) and the same hash.

### Only model-checked

- `Settles`, `DeletionCompletes`, `OnlyAmbiguityBlocksDeletion`, `ComesToRest` and
  `RotationArrives`: liveness is out of the prover's reach.
- The five violations.

## Refinement

`KeepsContract` says that every step of `Reconciler` is a step of `OwnershipContract` under the
mapping of `ReconcilerRefinement`: a finalizer in the API server is a hold, a deletion
timestamp dooms, the marker in a memo is the claim. In the contract a CR claims a
monitor only while it is held and has none, and only one that nobody claims; only a
doomed CR's monitor is deleted, and only under `sync`; and under `sync` a CR is released
only when its monitor is gone. Stale reads, retries, lost answers and crashes all map to
steps that leave the three unchanged. `RefinementProofs` proves it step by step, where nobody
strips or adopts markers and specs are valid: each action is mapped to the step of the
contract it takes or to a stutter, with `OwnershipInv`, `FinalizerInv` and `ReleaseInv` in
both states, since what the worker knows when it acts is what the contract demands.

## Not modelled

- Generated deep copies, charts and manifests, the end-to-end test helpers: no logic of
  the operator's own.
- The admission policy that injects the Mackerel agent: one pure CEL expression without
  state, which shares nothing with the controller.
- Of manager setup: metrics, probes, TLS, logging. Leader election is assumed to work.
- Of the status: URL, name, message, timestamps; events.
- Monitors of other types, which `ListExternalMonitors` skips (`GetExternalMonitor` is only
  given ids of external monitors).
- A request to Mackerel that takes effect after the process that sent it has died.
- Floats in Mackerel that are too large for an `int`, and what is finer than half a
  millisecond: one fraction stands for all.

## Plan

1. Done: `Ownership`, `Planner`, `Reconciler` with its runs; type correctness and
   ownership proved.
2. Done: `Fields`, `MarkerText`, `MonitorSync`; `Headers`; `OwnershipContract` and the refinement.
3. Done: proofs of the finalizer's order, of release and deletion, and of the refinement;
   of all safety properties of `Headers`; of the marker's round trip and of all safety
   properties of `MonitorSync`.
4. Left: a proof that machine 3's resolution implements the one step of machine 1.

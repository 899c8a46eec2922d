----------------------------- MODULE Reconciler ------------------------------
(***************************************************************************)
(* The ExternalMonitor controller (internal/controller) between the two    *)
(* systems it keeps in step: the Kubernetes API server, which holds the    *)
(* ExternalMonitor custom resources (CRs) and the Secrets their headers    *)
(* refer to, and Mackerel, which holds the monitors.                       *)
(*                                                                         *)
(* One worker (MaxConcurrentReconciles is left at 1 and leader election    *)
(* admits one process) runs Reconcile for one CR at a time.  Each remote   *)
(* call of Reconcile is one step of the model, so users, people in the     *)
(* Mackerel UI, operators of other clusters, the watch stream and a crash  *)
(* may all intervene between any two calls.  A call may fail, and a write  *)
(* may take effect although its answer is lost.                            *)
(***************************************************************************)
EXTENDS Planner, Sequences, FiniteSets

CONSTANTS
  CRs,            \* the ExternalMonitors, as "namespace/name"
  Names,          \* monitor names
  Bodies,         \* values of the compared fields other than name and headers
  HeaderLists,    \* header lists a monitor can have; NoHeaders is the empty one
  Secrets,        \* Secrets (in fact: keys of Secrets) that headers refer to
  Texts,          \* memo texts outside the marker
  Specs,          \* CR specs users write
  Owner,          \* --owner-id of this operator
  Foreign,        \* owner id of an operator in another cluster
  Policy,         \* --policy
  SecretWatch,    \* ~DisableSecretWatch
  HashDesired(_), \* the truncated SHA-256 of a desired state
  InitialStores,  \* what Mackerel may hold before the operator is installed
  NewestFirst,    \* the order in which Mackerel lists monitors (the code does not know)
  Outside,        \* the kinds of change others make to monitors in Mackerel
  RetrySteps,     \* attempts of retry.DefaultRetry (5 in client-go)
  MaxEdits,       \* bound: changes by users, people in the UI, other operators
  MaxFaults,      \* bound: failing remote calls
  MaxCrashes      \* bound: crashes of the operator process

NoHeaders      == "none"
DefaultHeaders == "cache-control: no-cache"  \* what Mackerel gives a new monitor
Missing        == "missing"                  \* a Secret, or a key of it, that is not there
Broken         == "broken"                   \* a header with neither value nor valueFrom

\* The zero ExternalMonitorSpec.
NoSpec == [name |-> "", body |-> "", headers |-> Unmanaged, memo |-> ""]

OutsideKinds ==
  {"body", "rename", "headers", "memo", "strip", "remove", "add", "foreign", "adopt"}

(***************************************************************************)
(* internal/source: the desired state of CR r.  headerValues are the       *)
(* headers with every reference resolved.                                  *)
(***************************************************************************)
FromExternalMonitor(r, spec, headerValues) ==
  LET content == [name     |-> IF spec.name = "" THEN r ELSE spec.name,
                  body     |-> spec.body,
                  headers  |-> headerValues,
                  memo     |-> spec.memo,
                  resource |-> r,
                  owner    |-> Owner]
  IN [name     |-> content.name,
      body     |-> content.body,
      headers  |-> content.headers,
      memo     |-> content.memo,
      resource |-> content.resource,
      owner    |-> content.owner,
      hash     |-> HashDesired(content)]

\* externalMonitorDeletionSource has no header values: secret-backed headers drop out.
DeletionDesired(r, spec) ==
  FromExternalMonitor(r, spec, IF spec.headers \in Secrets THEN NoHeaders ELSE spec.headers)

ASSUME NamesAssumption ==
  /\ CRs \subseteq STRING /\ "" \notin CRs
  /\ Owner \in STRING /\ Foreign \in STRING
  /\ Owner # "" /\ Foreign # "" /\ Foreign # Owner

ASSUME DataAssumption ==
  /\ Names \subseteq STRING /\ Bodies \subseteq STRING /\ Texts \subseteq STRING
  /\ HeaderLists \subseteq STRING /\ Secrets \subseteq STRING
  /\ NoHeaders \in HeaderLists /\ DefaultHeaders \in HeaderLists
  /\ {Unmanaged, Broken, Missing} \cap (HeaderLists \cup Secrets) = {}
  /\ Secrets \cap HeaderLists = {}

ASSUME SpecsAssumption ==
  Specs \subseteq [name    : Names \cup {""},
                   body    : Bodies,
                   headers : HeaderLists \cup Secrets \cup {Unmanaged, Broken},
                   memo    : Texts]

ASSUME OptionsAssumption ==
  /\ Policy \in {"sync", "upsert-only"}
  /\ SecretWatch \in BOOLEAN
  /\ NewestFirst \in BOOLEAN
  /\ Outside \subseteq OutsideKinds
  /\ RetrySteps \in Nat /\ RetrySteps > 0
  /\ MaxEdits \in Nat /\ MaxFaults \in Nat /\ MaxCrashes \in Nat

\* String literals are strings, which the provers' theory of strings does not include.
ASSUME LiteralsAssumption ==
  {"", "f", Unmanaged, "Synced", "OwnershipLost", "ProviderError", "SecretError",
   "SecretNotFound", "InvalidSpec"} \subseteq STRING

\* HashDesired yields some text for every desired state; it may well collide.
ASSUME HashAssumption ==
  \A r \in CRs, s \in Specs \cup {NoSpec}, h \in HeaderLists \cup {Unmanaged} :
    FromExternalMonitor(r, s, h).hash \in STRING

Monitor == [name : STRING, body : STRING, headers : HeaderLists, memo : Memo]

\* Nobody but this operator writes its owner id into a memo.
ASSUME StoresAssumption ==
  /\ InitialStores # {}
  /\ InitialStores \subseteq Seq(Monitor)
  /\ \A st \in InitialStores : \A i \in 1..Len(st) : st[i].memo.marker.owner # Owner

VARIABLES
  objs,          \* objs[r]: the versions of CR r from the one in the informer cache
                 \* (the first) to the one the API server holds (the last)
  secret,        \* the header list each Secret stands for, or Missing
  secretEvents,  \* Secrets with an undelivered watch event
  store,         \* Mackerel: monitor id -> monitor
  nextID,        \* Mackerel: the next monitor id, never reused
  queue,         \* CRs in the work queue
  timer,         \* CRs to be queued again after a delay (RequeueAfter or back-off)
  pc,            \* the remote call the worker makes next
  w,             \* the worker's local variables
  edits, faults, crashes  \* how much of each bound is used

kube     == <<objs, secret, secretEvents>>
mackerel == <<store, nextID>>
work     == <<queue, timer>>
worker   == <<pc, w>>
budget   == <<edits, faults, crashes>>
vars     == <<objs, secret, secretEvents, store, nextID, queue, timer, pc, w,
              edits, faults, crashes>>

------------------------------------------------------------------------------
(***************************************************************************)
(* Objects.  resourceVersion is not a field: the code only ever asks       *)
(* whether it is still the current one, which w.fresh records.             *)
(***************************************************************************)
NoCond    == [reason |-> "", gen |-> 0]
NewStatus == [monitorID |-> 0, observedGeneration |-> 0, lastAppliedHash |-> "",
              cond |-> NoCond]

Absent == [exists |-> FALSE, gen |-> 0, spec |-> NoSpec, deleting |-> FALSE,
           finalizer |-> FALSE, status |-> NewStatus]

NewCR(s) == [exists |-> TRUE, gen |-> 1, spec |-> s, deleting |-> FALSE,
             finalizer |-> FALSE, status |-> NewStatus]

Cache(r) == objs[r][1]
Api(r)   == objs[r][Len(objs[r])]

\* The API server stores a new version of r; a patch that changes nothing makes none.
Versions(r, o) == IF o = Api(r) THEN objs[r] ELSE Append(objs[r], o)

Actual(i) == [id |-> i, name |-> store[i].name, body |-> store[i].body,
              headers |-> store[i].headers, memo |-> store[i].memo]

NoDesired == [name |-> "", body |-> "", headers |-> Unmanaged, memo |-> "",
              resource |-> "", owner |-> "", hash |-> ""]
NoMark    == [reason |-> "", id |-> 0, applied |-> FALSE]

IdleWorker == [key |-> "", finalizing |-> FALSE, cr |-> Absent, fresh |-> FALSE,
               tries |-> 0, desired |-> NoDesired, actual |-> NilMonitor,
               base |-> NoHeaders, mark |-> NoMark]

Init ==
  /\ objs \in [CRs -> {<<Absent>>} \cup {<<NewCR(s)>> : s \in Specs}]
  /\ secret \in [Secrets -> HeaderLists \cup {Missing}]
  /\ secretEvents = {}
  /\ store \in InitialStores
  /\ nextID = Len(store) + 1
  /\ queue = {r \in CRs : Api(r).exists}
  /\ timer = {}
  /\ pc = "idle"
  /\ w = IdleWorker
  /\ edits = 0 /\ faults = 0 /\ crashes = 0

------------------------------------------------------------------------------
(***************************************************************************)
(* How a call of Reconcile ends or goes on.  Locals that the rest of the   *)
(* call does not read are cleared.                                         *)
(***************************************************************************)

\* Reconcile returns; requeue: with an error or with RequeueAfter.
Return(requeue) ==
  /\ pc' = "idle"
  /\ w' = IdleWorker
  /\ timer' = IF requeue THEN timer \cup {w.key} ELSE timer

\* Go on with another remote call.
GoOn(next, locals) ==
  /\ pc' = next
  /\ w' = locals
  /\ UNCHANGED timer

\* Go on to patch the status; the condition's reason says which Mark function.
Report(reason, id, applied) ==
  GoOn("status", [w EXCEPT !.actual = NilMonitor, !.base = NoHeaders, !.fresh = FALSE,
                           !.mark = [reason |-> reason, id |-> id, applied |-> applied]])

\* Some remote call fails.
Fault ==
  /\ faults < MaxFaults
  /\ faults' = faults + 1
  /\ UNCHANGED <<edits, crashes>>

\* Mutant: no recorded id is taken to mean that there is no monitor.
FindActualByIdOnly(cr) == IF cr.status.monitorID # 0 THEN "get" ELSE "create"

\* findActual starts with the recorded id, if there is one.
FindActual(cr) == IF cr.status.monitorID # 0 THEN "get" ELSE "list"

\* Mutant: a monitor that has to change is deleted, to be created anew.
DecideToReplace(actual) ==
  IF w.finalizing \/ Plan(w.desired, actual) = "Update"
    THEN IF PlanDelete(actual, w.desired.owner, w.desired.resource, Policy) = "Delete"
           THEN GoOn("delete", [w EXCEPT !.actual = actual])
           ELSE GoOn("removeFinalizer", [w EXCEPT !.desired = NoDesired])
    ELSE IF Plan(w.desired, actual) = "Create" THEN GoOn("create", w)
    ELSE Report("Synced", actual.id, FALSE)

\* What Reconcile does with the outcome of findActual: plan and go on.
Decide(actual) ==
  IF w.finalizing
    THEN IF PlanDelete(actual, w.desired.owner, w.desired.resource, Policy) = "Delete"
           THEN GoOn("delete", [w EXCEPT !.actual = actual])
           ELSE GoOn("removeFinalizer", [w EXCEPT !.desired = NoDesired])
    ELSE LET action == Plan(w.desired, actual) IN
         \/ action = "Create" /\ GoOn("create", w)
         \/ /\ action \in {"Update", "RestoreMarker"}
            /\ GoOn("getCurrent", [w EXCEPT !.actual = actual])
         \/ action = "Noop" /\ Report("Synced", actual.id, FALSE)
         \/ action = "OwnershipLost" /\ Report("OwnershipLost", 0, FALSE)

\* Mutant: on the deletion path the error is dropped, and nobody tries again.
FindActualFailsForGood ==
  IF w.finalizing THEN Return(FALSE) ELSE Report("ProviderError", 0, FALSE)

\* findActual fails: on the deletion path the error is returned with no status.
FindActualFails ==
  IF w.finalizing THEN Return(TRUE) ELSE Report("ProviderError", 0, FALSE)

(***************************************************************************)
(* Reconcile, remote call by remote call.                                  *)
(***************************************************************************)

\* The worker takes r from the queue and reads it from the informer cache.
Fetch(r) ==
  /\ pc = "idle"
  /\ r \in queue
  /\ queue' = queue \ {r}
  /\ LET cr     == Cache(r)
         locals == [IdleWorker EXCEPT !.key = r, !.cr = cr, !.fresh = Len(objs[r]) = 1]
         doomed == [locals EXCEPT !.finalizing = TRUE,
                                  !.desired = DeletionDesired(r, cr.spec)]
     IN \/ ~cr.exists /\ UNCHANGED <<timer, pc, w>>
        \/ cr.exists /\ ~cr.deleting /\ GoOn("resolveHeaders", locals)
        \/ /\ cr.exists /\ cr.deleting /\ cr.spec.headers = Broken
           /\ GoOn("removeFinalizer", [locals EXCEPT !.finalizing = TRUE])
        \/ /\ cr.exists /\ cr.deleting /\ cr.spec.headers # Broken
           /\ GoOn(FindActual(cr), doomed)
  /\ UNCHANGED <<kube, mackerel, budget>>

\* Mutant: a header whose Secret is missing is left out.
ResolveHeadersDropping ==
  /\ pc = "resolveHeaders"
  /\ LET h      == w.cr.spec.headers
         values == IF h \in Secrets THEN IF secret[h] = Missing THEN NoHeaders ELSE secret[h]
                                    ELSE h
     IN \/ h = Broken /\ Report("InvalidSpec", 0, FALSE)
        \/ /\ h # Broken
           /\ GoOn(IF w.cr.finalizer THEN FindActual(w.cr) ELSE "addFinalizer",
                   [w EXCEPT !.desired = FromExternalMonitor(w.key, w.cr.spec, values)])
  /\ UNCHANGED <<kube, mackerel, queue, budget>>

\* resolveHeaderValues reads the Secret past the cache; then the desired state is built.
ResolveHeaders ==
  /\ pc = "resolveHeaders"
  /\ LET h      == w.cr.spec.headers
         values == IF h \in Secrets THEN secret[h] ELSE h
     IN \/ h \in Secrets /\ Fault /\ Report("SecretError", 0, FALSE)
        \/ /\ h \in Secrets /\ values = Missing
           /\ Report("SecretNotFound", 0, FALSE) /\ UNCHANGED budget
        \/ h = Broken /\ Report("InvalidSpec", 0, FALSE) /\ UNCHANGED budget
        \/ /\ values \notin {Missing, Broken}
           /\ GoOn(IF w.cr.finalizer THEN FindActual(w.cr) ELSE "addFinalizer",
                   [w EXCEPT !.desired = FromExternalMonitor(w.key, w.cr.spec, values),
                             !.fresh = @ /\ ~w.cr.finalizer])
           /\ UNCHANGED budget
  /\ UNCHANGED <<kube, mackerel, queue>>

\* Mutant: one attempt too many.
ConflictOffByOne(reread) ==
  IF w.tries < RetrySteps
    THEN GoOn(reread, [w EXCEPT !.tries = @ + 1])
    ELSE Return(TRUE)

\* patchFinalizers: the patch lost against a newer version.
Conflict(reread) ==
  IF w.tries + 1 < RetrySteps
    THEN GoOn(reread, [w EXCEPT !.tries = @ + 1])
    ELSE Return(TRUE)

\* Mutant: addFinalizer tolerates a CR that is gone, as removeFinalizer does.
AddFinalizerIgnoringNotFound ==
  LET patched == [Api(w.key) EXCEPT !.finalizer = TRUE] IN
  /\ pc = "addFinalizer"
  /\ \/ /\ w.fresh
        /\ objs' = [objs EXCEPT ![w.key] = Versions(w.key, patched)]
        /\ GoOn(FindActual(patched), [w EXCEPT !.cr = patched, !.fresh = FALSE, !.tries = 0])
     \/ ~w.fresh /\ Api(w.key).exists /\ Conflict("rereadToAdd") /\ UNCHANGED objs
     \/ ~Api(w.key).exists /\ GoOn(FindActual(w.cr), w) /\ UNCHANGED objs
  /\ UNCHANGED <<secret, secretEvents, mackerel, queue, budget>>

\* addFinalizer's patch, which carries the resourceVersion.
AddFinalizer ==
  LET patched == [Api(w.key) EXCEPT !.finalizer = TRUE] IN
  /\ pc = "addFinalizer"
  /\ \/ /\ w.fresh
        /\ objs' = [objs EXCEPT ![w.key] = Versions(w.key, patched)]
        /\ GoOn(FindActual(patched), [w EXCEPT !.cr = patched, !.fresh = FALSE, !.tries = 0])
        /\ UNCHANGED budget
     \/ /\ ~w.fresh /\ Api(w.key).exists
        /\ Conflict("rereadToAdd") /\ UNCHANGED <<objs, budget>>
     \/ ~Api(w.key).exists /\ Return(TRUE) /\ UNCHANGED <<objs, budget>>
     \/ Fault /\ Return(TRUE) /\ UNCHANGED objs
     \/ /\ w.fresh /\ Fault /\ Return(TRUE)
        /\ objs' = [objs EXCEPT ![w.key] = Versions(w.key, patched)]
  /\ UNCHANGED <<secret, secretEvents, mackerel, queue>>

\* removeFinalizer's patch.  A CR being deleted goes away with its finalizer.
RemoveFinalizer ==
  LET patched == IF Api(w.key).deleting THEN Absent
                 ELSE [Api(w.key) EXCEPT !.finalizer = FALSE] IN
  /\ pc = "removeFinalizer"
  /\ \/ /\ w.fresh /\ Return(FALSE) /\ UNCHANGED budget
        /\ objs' = [objs EXCEPT ![w.key] = Versions(w.key, patched)]
     \/ /\ ~w.fresh /\ Api(w.key).exists
        /\ Conflict("rereadToRemove") /\ UNCHANGED <<objs, budget>>
     \/ ~Api(w.key).exists /\ Return(FALSE) /\ UNCHANGED <<objs, budget>>
     \/ Fault /\ Return(TRUE) /\ UNCHANGED objs
     \/ /\ w.fresh /\ Fault /\ Return(TRUE)
        /\ objs' = [objs EXCEPT ![w.key] = Versions(w.key, patched)]
  /\ UNCHANGED <<secret, secretEvents, mackerel, queue>>

\* After a conflict the CR is read again past the cache.  w.desired stays as it was.
Reread ==
  /\ pc \in {"rereadToAdd", "rereadToRemove"}
  /\ \/ /\ Api(w.key).exists
        /\ GoOn(IF pc = "rereadToAdd" THEN "addFinalizer" ELSE "removeFinalizer",
                [w EXCEPT !.cr = Api(w.key), !.fresh = TRUE])
        /\ UNCHANGED budget
     \/ ~Api(w.key).exists /\ Return(pc = "rereadToAdd") /\ UNCHANGED budget
     \/ Fault /\ Return(TRUE)
  /\ UNCHANGED <<kube, mackerel, queue>>

\* Mutant: a recorded monitor that is gone is an error.
GetMonitorOrFail ==
  /\ pc = "get"
  /\ LET id == w.cr.status.monitorID IN
     \/ id \in DOMAIN store /\ Decide(Actual(id))
     \/ id \notin DOMAIN store /\ FindActualFails
  /\ UNCHANGED <<kube, mackerel, queue, budget>>

\* findActual, first half: the monitor the status records.
GetMonitor ==
  /\ pc = "get"
  /\ LET id == w.cr.status.monitorID IN
     \/ id \in DOMAIN store /\ Decide(Actual(id)) /\ UNCHANGED budget
     \/ id \notin DOMAIN store /\ GoOn("list", w) /\ UNCHANGED budget
     \/ Fault /\ FindActualFails
  /\ UNCHANGED <<kube, mackerel, queue>>

Mine(i, r) == i \in DOMAIN store /\ OwnedBy(store[i].memo, Owner, r)

\* Monitors of the desired name that carry no marker of this CR.
NameMatches(r, name) == {i \in DOMAIN store : store[i].name = name /\ ~Mine(i, r)}

\* Mackerel lists i before j.
Before(i, j) == IF NewestFirst THEN i > j ELSE i < j

\* findActual, second half.  The scan stops at the first monitor with this CR's marker
\* or, whichever comes first, at the second name match.
ListMonitors ==
  /\ pc = "list"
  /\ LET matches   == NameMatches(w.key, w.desired.name)
         owned     == {i \in DOMAIN store : Mine(i, w.key)}
         ambiguous == \E i, j \in matches :
                        i # j /\ \A o \in owned : Before(i, o) /\ Before(j, o)
     IN \/ ambiguous /\ FindActualFails /\ UNCHANGED budget
        \/ /\ ~ambiguous
           /\ \E i \in owned : /\ \A o \in owned \ {i} : Before(i, o)
                               /\ Decide(Actual(i))
           /\ UNCHANGED budget
        \/ /\ ~ambiguous /\ owned = {}
           /\ \E i \in matches : Decide(Actual(i))
           /\ UNCHANGED budget
        \/ owned = {} /\ matches = {} /\ Decide(NilMonitor) /\ UNCHANGED budget
        \/ Fault /\ FindActualFails
  /\ UNCHANGED <<kube, mackerel, queue>>

\* mergeMackerelExternalMonitor: nil headers keep those of the base.
Merge(base, memo) ==
  [name    |-> w.desired.name,
   body    |-> w.desired.body,
   headers |-> IF w.desired.headers = Unmanaged THEN base ELSE w.desired.headers,
   memo    |-> ApplyMarker(memo, BuildMarker(w.desired.resource, w.desired.owner,
                                             w.desired.hash))]

SpecMemo(desired) == [text |-> desired.memo, marker |-> NoMarker]

CreateMonitor ==
  LET created == [i \in DOMAIN store \cup {nextID} |->
                    IF i = nextID THEN Merge(DefaultHeaders, SpecMemo(w.desired))
                                  ELSE store[i]] IN
  /\ pc = "create"
  /\ \/ /\ store' = created /\ nextID' = nextID + 1
        /\ Report("Synced", nextID, TRUE) /\ UNCHANGED budget
     \/ Fault /\ Report("ProviderError", 0, FALSE) /\ UNCHANGED mackerel
     \/ /\ Fault /\ Report("ProviderError", 0, FALSE)
        /\ store' = created /\ nextID' = nextID + 1
  /\ UNCHANGED <<kube, queue>>

\* UpdateExternalMonitor, first half: read the monitor again to merge into it.
GetCurrent ==
  /\ pc = "getCurrent"
  /\ LET id == w.actual.id IN
     \/ /\ id \in DOMAIN store
        /\ GoOn("put", [w EXCEPT !.base = store[id].headers]) /\ UNCHANGED budget
     \/ id \notin DOMAIN store /\ Report("ProviderError", 0, FALSE) /\ UNCHANGED budget
     \/ Fault /\ Report("ProviderError", 0, FALSE)
  /\ UNCHANGED <<kube, mackerel, queue>>

\* UpdateExternalMonitor, second half: the memo is built from the monitor findActual saw.
PutMonitor ==
  LET id      == w.actual.id
      updated == [store EXCEPT ![id] = Merge(w.base, w.actual.memo)] IN
  /\ pc = "put"
  /\ \/ /\ id \in DOMAIN store /\ store' = updated
        /\ Report("Synced", id, TRUE) /\ UNCHANGED budget
     \/ /\ id \notin DOMAIN store
        /\ Report("ProviderError", 0, FALSE) /\ UNCHANGED <<store, budget>>
     \/ Fault /\ Report("ProviderError", 0, FALSE) /\ UNCHANGED store
     \/ /\ id \in DOMAIN store /\ store' = updated
        /\ Fault /\ Report("ProviderError", 0, FALSE)
  /\ UNCHANGED <<kube, nextID, queue>>

\* Mutant: the outcome of the deletion is not looked at.
DeleteMonitorIgnoringErrors ==
  /\ pc = "delete"
  /\ \/ /\ store' = [i \in DOMAIN store \ {w.actual.id} |-> store[i]]
        /\ UNCHANGED budget
     \/ Fault /\ UNCHANGED store
  /\ GoOn("removeFinalizer", [w EXCEPT !.actual = NilMonitor, !.desired = NoDesired])
  /\ UNCHANGED <<kube, nextID, queue>>

\* reconcileDelete: a monitor that is already gone counts as deleted.
DeleteMonitor ==
  LET removed == [i \in DOMAIN store \ {w.actual.id} |-> store[i]] IN
  /\ pc = "delete"
  /\ \/ /\ store' = removed /\ UNCHANGED budget
        /\ GoOn("removeFinalizer", [w EXCEPT !.actual = NilMonitor, !.desired = NoDesired])
     \/ Fault /\ Return(TRUE) /\ UNCHANGED store
     \/ Fault /\ Return(TRUE) /\ store' = removed
  /\ UNCHANGED <<kube, nextID, queue>>

(***************************************************************************)
(* internal/status: what the Mark functions make of a status.  Only        *)
(* MarkReady touches the monitor id and the hash.                          *)
(***************************************************************************)
Marked(status) ==
  [monitorID          |-> IF w.mark.reason = "Synced" THEN w.mark.id ELSE status.monitorID,
   observedGeneration |-> w.cr.gen,
   lastAppliedHash    |-> IF w.mark.reason = "Synced" THEN w.desired.hash
                                                      ELSE status.lastAppliedHash,
   cond               |-> [reason |-> w.mark.reason, gen |-> w.cr.gen]]

\* Mutant: a status that could not be written is given up.
PatchStatusOnce ==
  /\ pc = "status"
  /\ \/ /\ Api(w.key).exists /\ UNCHANGED budget
        /\ objs' = [objs EXCEPT ![w.key] =
                      Versions(w.key, [Api(w.key) EXCEPT !.status = Marked(@)])]
     \/ ~Api(w.key).exists /\ UNCHANGED <<objs, budget>>
     \/ Fault /\ UNCHANGED objs
  /\ Return(FALSE)
  /\ UNCHANGED <<secret, secretEvents, mackerel, queue>>

\* patchStatus sends the fields that differ from the version this Reconcile read, with
\* no resourceVersion.  lastSyncedAt moves with every applied change.
PatchStatus ==
  LET before  == w.cr.status
      after   == Marked(before)
      live    == Api(w.key)
      merged  == [live EXCEPT !.status =
                    [f \in DOMAIN live.status |->
                       IF after[f] # before[f] THEN after[f] ELSE live.status[f]]]
      written == [objs EXCEPT ![w.key] = IF w.mark.applied THEN Append(@, merged)
                                                           ELSE Versions(w.key, merged)]
      changed == w.mark.applied \/ after # before
  IN
  /\ pc = "status"
  /\ \/ /\ ~changed /\ Return(w.mark.reason # "InvalidSpec")
        /\ UNCHANGED <<objs, budget>>
     \/ /\ changed /\ live.exists /\ objs' = written
        /\ Return(w.mark.reason # "InvalidSpec") /\ UNCHANGED budget
     \/ changed /\ ~live.exists /\ Return(TRUE) /\ UNCHANGED <<objs, budget>>
     \/ changed /\ Fault /\ Return(TRUE) /\ UNCHANGED objs
     \/ changed /\ live.exists /\ Fault /\ Return(TRUE) /\ objs' = written
  /\ UNCHANGED <<secret, secretEvents, mackerel, queue>>

Work ==
  \/ ResolveHeaders \/ AddFinalizer \/ RemoveFinalizer \/ Reread
  \/ GetMonitor \/ ListMonitors \/ CreateMonitor \/ GetCurrent \/ PutMonitor
  \/ DeleteMonitor \/ PatchStatus

------------------------------------------------------------------------------
(***************************************************************************)
(* What wakes the worker up.                                               *)
(***************************************************************************)

\* The informer cache moves on by one version of r, and the event queues r.
DeliverWatch(r) ==
  /\ Len(objs[r]) > 1
  /\ objs' = [objs EXCEPT ![r] = Tail(@)]
  /\ queue' = queue \cup {r}
  /\ UNCHANGED <<secret, secretEvents, mackerel, timer, worker, budget>>

\* A delayed requeue falls due.
TimerFires(r) ==
  /\ r \in timer
  /\ timer' = timer \ {r}
  /\ queue' = queue \cup {r}
  /\ UNCHANGED <<kube, mackerel, worker, budget>>

\* externalMonitorsForSecret: the index is over the cached CRs.
DeliverSecret(s) ==
  /\ s \in secretEvents
  /\ secretEvents' = secretEvents \ {s}
  /\ queue' = queue \cup {r \in CRs : Cache(r).exists /\ Cache(r).spec.headers = s}
  /\ UNCHANGED <<objs, secret, mackerel, timer, worker, budget>>

\* The process dies between two calls and comes back with a cache it lists afresh.
Crash ==
  /\ crashes < MaxCrashes
  /\ crashes' = crashes + 1
  /\ pc' = "idle" /\ w' = IdleWorker
  /\ objs' = [r \in CRs |-> <<Api(r)>>]
  /\ queue' = {r \in CRs : Api(r).exists}
  /\ timer' = {} /\ secretEvents' = {}
  /\ UNCHANGED <<secret, mackerel, edits, faults>>

------------------------------------------------------------------------------
(***************************************************************************)
(* Users, through the Kubernetes API.                                      *)
(***************************************************************************)
Edit ==
  /\ edits < MaxEdits
  /\ edits' = edits + 1
  /\ UNCHANGED <<faults, crashes>>

\* Somebody other than the worker writes CR r: the version the worker holds is old.
UserWrites(r, o) ==
  /\ Edit
  /\ objs' = [objs EXCEPT ![r] = Append(@, o)]
  /\ w' = [w EXCEPT !.fresh = @ /\ w.key # r]
  /\ UNCHANGED <<secret, secretEvents, mackerel, work, pc>>

CreateCR(r) ==
  /\ ~Api(r).exists
  /\ \E s \in Specs : UserWrites(r, NewCR(s))

EditSpec(r) ==
  /\ Api(r).exists
  /\ \E s \in Specs \ {Api(r).spec} :
       UserWrites(r, [Api(r) EXCEPT !.spec = s, !.gen = @ + 1])

\* A finalizer keeps a deleted CR around, marked with a deletion timestamp.
DeleteCR(r) ==
  /\ Api(r).exists /\ ~Api(r).deleting
  /\ UserWrites(r, IF Api(r).finalizer
                     THEN [Api(r) EXCEPT !.deleting = TRUE, !.gen = @ + 1]
                     ELSE Absent)

\* Create, rotate or delete a Secret.
SetSecret(s) ==
  /\ Edit
  /\ \E v \in (HeaderLists \cup {Missing}) \ {secret[s]} :
       secret' = [secret EXCEPT ![s] = v]
  /\ secretEvents' = IF SecretWatch THEN secretEvents \cup {s} ELSE secretEvents
  /\ UNCHANGED <<objs, mackerel, work, worker>>

(***************************************************************************)
(* People in the Mackerel UI and operators of other clusters.  They never  *)
(* write this operator's owner id.                                         *)
(***************************************************************************)
SetMonitor(i, m) ==
  /\ Edit
  /\ m # store[i]
  /\ store' = [store EXCEPT ![i] = m]
  /\ UNCHANGED <<kube, nextID, work, worker>>

ForeignMarker(r) == BuildMarker(r, Foreign, "f")

EditMonitor(i) ==
  \/ /\ "body" \in Outside
     /\ \E b \in Bodies : SetMonitor(i, [store[i] EXCEPT !.body = b])
  \/ /\ "rename" \in Outside
     /\ \E n \in Names : SetMonitor(i, [store[i] EXCEPT !.name = n])
  \/ /\ "headers" \in Outside
     /\ \E h \in HeaderLists : SetMonitor(i, [store[i] EXCEPT !.headers = h])
  \/ /\ "memo" \in Outside
     /\ \E t \in Texts : SetMonitor(i, [store[i] EXCEPT !.memo.text = t])
  \/ /\ "strip" \in Outside
     /\ SetMonitor(i, [store[i] EXCEPT !.memo.marker = NoMarker])
  \/ /\ "adopt" \in Outside
     /\ ~HasMarker(store[i].memo)
     /\ \E r \in CRs : SetMonitor(i, [store[i] EXCEPT !.memo.marker = ForeignMarker(r)])

RemoveMonitor(i) ==
  /\ "remove" \in Outside
  /\ Edit
  /\ store' = [j \in DOMAIN store \ {i} |-> store[j]]
  /\ UNCHANGED <<kube, nextID, work, worker>>

NewMonitor(marker) ==
  /\ Edit
  /\ \E n \in Names, b \in Bodies, t \in Texts :
       store' = [i \in DOMAIN store \cup {nextID} |->
                   IF i = nextID
                     THEN [name |-> n, body |-> b, headers |-> DefaultHeaders,
                           memo |-> [text |-> t, marker |-> marker]]
                     ELSE store[i]]
  /\ nextID' = nextID + 1
  /\ UNCHANGED <<kube, work, worker>>

AddMonitor ==
  \/ "add" \in Outside /\ NewMonitor(NoMarker)
  \/ "foreign" \in Outside /\ \E r \in CRs : NewMonitor(ForeignMarker(r))

Environment ==
  \/ \E r \in CRs : CreateCR(r) \/ EditSpec(r) \/ DeleteCR(r)
  \/ \E s \in Secrets : SetSecret(s)
  \/ \E i \in DOMAIN store : EditMonitor(i) \/ RemoveMonitor(i)
  \/ AddMonitor

Next ==
  \/ \E r \in CRs : Fetch(r) \/ DeliverWatch(r) \/ TimerFires(r)
  \/ \E s \in Secrets : DeliverSecret(s)
  \/ Work
  \/ Crash
  \/ Environment

Spec == Init /\ [][Next]_vars

\* The worker never stops in the middle, watch events and delays arrive, and the work
\* queue serves every CR it holds.  Nobody else is obliged to do anything.
Fairness ==
  /\ WF_vars(Work)
  /\ \A r \in CRs : SF_vars(Fetch(r)) /\ WF_vars(DeliverWatch(r)) /\ WF_vars(TimerFires(r))
  /\ \A s \in Secrets : WF_vars(DeliverSecret(s))

FairSpec == Spec /\ Fairness

------------------------------------------------------------------------------
(***************************************************************************)
(* Types.                                                                  *)
(***************************************************************************)
StatusOK == [monitorID : Nat, observedGeneration : Nat, lastAppliedHash : STRING,
             cond : [reason : STRING, gen : Nat]]
Object   == [exists : BOOLEAN, gen : Nat, spec : Specs \cup {NoSpec}, deleting : BOOLEAN,
             finalizer : BOOLEAN, status : StatusOK]
Desired  == [name : STRING, body : STRING,
             headers : HeaderLists \cup {Unmanaged}, memo : STRING,
             resource : STRING, owner : STRING, hash : STRING]
ActualOK == [id : Nat, name : STRING, body : STRING, headers : STRING, memo : Memo]
Locals   == [key : CRs \cup {""}, finalizing : BOOLEAN, cr : Object, fresh : BOOLEAN,
             tries : 0..(RetrySteps - 1), desired : Desired, actual : ActualOK, base : HeaderLists,
             mark : [reason : STRING, id : Nat, applied : BOOLEAN]]

Calls == {"resolveHeaders", "addFinalizer", "rereadToAdd", "get", "list", "create",
          "getCurrent", "put", "delete", "removeFinalizer", "rereadToRemove", "status"}

ObjsOK ==
  /\ objs \in [CRs -> Seq(Object)]
  /\ \A r \in CRs : Len(objs[r]) > 0

SecretsOK ==
  /\ secret \in [Secrets -> HeaderLists \cup {Missing}]
  /\ secretEvents \subseteq Secrets

StoreOK ==
  /\ nextID \in Nat
  /\ nextID > 0
  /\ \A i \in DOMAIN store : i \in Nat /\ i > 0 /\ i < nextID
  /\ store \in [DOMAIN store -> Monitor]

QueueOK == queue \subseteq CRs /\ timer \subseteq CRs

WorkerOK ==
  /\ pc \in Calls \cup {"idle"}
  /\ w \in Locals
  /\ (pc = "idle") <=> (w.key = "")

BudgetOK ==
  /\ edits \in Nat /\ edits <= MaxEdits
  /\ faults \in Nat /\ faults <= MaxFaults
  /\ crashes \in Nat /\ crashes <= MaxCrashes

\* Every variable holds a value of its Go type; the worker has a CR exactly while it
\* runs Reconcile, RetryOnConflict stays within its attempts, and Mackerel's ids lie
\* below the next one.
TypeOK == ObjsOK /\ SecretsOK /\ StoreOK /\ QueueOK /\ WorkerOK /\ BudgetOK

------------------------------------------------------------------------------
(***************************************************************************)
(* Safety.                                                                 *)
(***************************************************************************)

\* At most one monitor in Mackerel carries the marker of a CR: neither a lost answer
\* to the POST, nor a crash before the status is patched, nor a status that the cache
\* does not show yet makes Reconcile create or adopt a second one.
UniqueOwned ==
  \A r \in CRs : \A i, j \in DOMAIN store : Mine(i, r) /\ Mine(j, r) => i = j

\* Under policy sync a monitor this operator owns is backed by a CR that still holds
\* the finalizer, so that the deletion of the CR cannot bypass reconcileDelete.
NoOrphan ==
  Policy = "sync" =>
    \A r \in CRs : \A i \in DOMAIN store :
      Mine(i, r) => Api(r).exists /\ Api(r).finalizer

\* The id in the status (of any version of the CR, the ones the cache still shows
\* included) never names somebody else's monitor: findActual takes that monitor
\* without looking at its marker.
RecordedMonitorIsOwned ==
  \A r \in CRs : \A k \in 1..Len(objs[r]) :
    LET id == objs[r][k].status.monitorID IN id \in DOMAIN store => Mine(id, r)

\* A step of the worker: the environment and the watch leave pc alone.
WorkerStep == pc' # pc

\* The worker neither changes nor removes a monitor that at that moment carries the
\* marker of another owner or of another CR.
LeavesOthersAlone ==
  [][WorkerStep =>
       \A i \in DOMAIN store :
         HasMarker(store[i].memo) /\ ~Mine(i, w.key) =>
           i \in DOMAIN store' /\ store'[i] = store[i]]_vars

\* Reconcile deletes a monitor only under policy sync, only if the monitor is this
\* CR's own, and only while the API server (not just the cache) has the CR marked for
\* deletion: a stale deletion event never removes the monitor of a recreated CR.
DeletesOnlyDoomed ==
  [][\A i \in DOMAIN store \ DOMAIN store' :
       WorkerStep => Policy = "sync" /\ Mine(i, w.key) /\ Api(w.key).deleting]_vars

\* A monitor enters Mackerel with this operator's marker, or is adopted, only once the
\* finalizer is on the CR the API server holds.
FinalizerBeforeMonitor ==
  [][\A r \in CRs : \A i \in DOMAIN store' :
       Mine(i, r)' /\ ~Mine(i, r) => Api(r).exists /\ Api(r).finalizer]_vars

------------------------------------------------------------------------------
(***************************************************************************)
(* Liveness.                                                               *)
(***************************************************************************)

\* The CR's desired state with the Secrets as they are now.
ResolvedHeaders(spec) == IF spec.headers \in Secrets THEN secret[spec.headers] ELSE spec.headers
DesiredNow(r) == FromExternalMonitor(r, Api(r).spec, ResolvedHeaders(Api(r).spec))

\* Monitor m shows everything the CR manages, and the marker of that desired state.
InStep(m, desired) ==
  /\ m.name = desired.name /\ m.body = desired.body
  /\ desired.headers \in {Unmanaged, m.headers}
  /\ m.memo.marker.hash = desired.hash

\* The status of r tells the truth about this generation of the CR.
Truthful(r) ==
  LET o       == Api(r)
      reason  == o.status.cond.reason
      matches == NameMatches(r, DesiredNow(r).name)
  IN /\ o.status.observedGeneration = o.gen /\ o.status.cond.gen = o.gen
     /\ reason = "InvalidSpec" <=> o.spec.headers = Broken
     /\ reason = "SecretNotFound" <=> ResolvedHeaders(o.spec) = Missing
     /\ reason = "Synced" =>
          /\ Mine(o.status.monitorID, r)
          /\ InStep(store[o.status.monitorID], DesiredNow(r))
          /\ o.status.lastAppliedHash = DesiredNow(r).hash
     /\ reason = "OwnershipLost" =>
          /\ \A i \in DOMAIN store : ~Mine(i, r)
          /\ o.status.monitorID \in DOMAIN store \/ matches # {}
     /\ reason = "ProviderError" => Cardinality(matches) > 1
     /\ reason \in {"InvalidSpec", "SecretNotFound", "Synced", "OwnershipLost", "ProviderError"}

\* Once users, faults and crashes come to rest, every CR that is not being deleted
\* ends up with a status that is, and stays, true: synchronised with a monitor in
\* Mackerel that matches it, or blocked for the reason it gives.
Settles == \A r \in CRs : <>[](Api(r).exists /\ ~Api(r).deleting => Truthful(r))

\* A CR marked for deletion goes away.
DeletionCompletes == \A r \in CRs : Api(r).deleting ~> ~Api(r).exists

\* findActual cannot tell which monitor is r's: the status records none that is there, and
\* several others have its name.
Ambiguous(r) ==
  /\ Api(r).status.monitorID \notin DOMAIN store
  /\ Cardinality(NameMatches(r, DesiredNow(r).name)) > 1

\* Nothing but ambiguous names holds up a deletion for good, and it goes on as soon as
\* people have removed or renamed enough of the monitors.
OnlyAmbiguityBlocksDeletion ==
  \A r \in CRs : <>[](Api(r).exists /\ Api(r).deleting => Ambiguous(r))

\* The operator comes to rest: from some point on it writes neither to Mackerel nor to
\* the API server, whatever the resync timer makes it look at.
ComesToRest == <>[][store' = store /\ objs' = objs]_vars

------------------------------------------------------------------------------
(***************************************************************************)
(* What the repository's texts say of the operator and the code does not   *)
(* do: each is violated (see the findings in the README).                  *)
(***************************************************************************)

\* "If a user edits the Mackerel memo, the operator preserves all text outside the
\* marker": no PUT of the worker changes the memo text the monitor has at that moment.
MemoTextPreserved ==
  [][WorkerStep =>
       \A i \in DOMAIN store \cap DOMAIN store' :
         store'[i].memo.text = store[i].memo.text]_vars

\* "Mackerel external monitor is synchronized": a CR that is Ready for its current
\* generation has had the desired state of that generation applied.
ReadyMeansApplied ==
  \A r \in CRs :
    LET o == Api(r) IN
    o.exists /\ o.status.cond.reason = "Synced" /\ o.status.cond.gen = o.gen /\ ~o.deleting
      => o.status.lastAppliedHash = DesiredNow(r).hash

\* "Every other field in the spec resets to its default when omitted": the memo text in
\* Mackerel ends up as the memo of the spec (when nobody edits it in Mackerel).
MemoFollowsSpec ==
  \A r \in CRs :
    <>[](Api(r).status.cond.reason = "Synced" /\ Api(r).status.monitorID \in DOMAIN store
           => store[Api(r).status.monitorID].memo.text = Api(r).spec.memo)

==============================================================================

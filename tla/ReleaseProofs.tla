---------------------------- MODULE ReleaseProofs ----------------------------
(***************************************************************************)
(* The finalizer stays until the monitor is gone, and only the monitor of  *)
(* a CR that is being deleted is deleted: the proof that ReleaseInv is     *)
(* inductive, on top of OwnershipInv and FinalizerInv.                     *)
(***************************************************************************)
EXTENDS FinalizerProofs

\* A step leaves the finalizer and the deletion timestamp of r in the API server alone.
SameFlags(r) ==
  /\ Api(r).finalizer' = Api(r).finalizer
  /\ Api(r).deleting' = Api(r).deleting

\* Only the flags of k may change.
OnlyFlagsOf(k) == \A q \in CRs \ {k} : SameFlags(q)

------------------------------------------------------------------------------
(***************************************************************************)
(* What a step does to the flags of the CRs the API server holds.          *)
(***************************************************************************)

\* Steps that write no CR.
LEMMA QuietFlags == ASSUME UNCHANGED objs PROVE \A r \in CRs : SameFlags(r)
  BY DEF SameFlags, Api

\* The patch that adds the finalizer.
LEMMA AddedFlags ==
  ASSUME TypeOK, FinalizerInv, AddFinalizer, objs' # objs
  PROVE  \E k \in CRs : /\ k = w.key /\ pc' # pc /\ OnlyFlagsOf(k)
                        /\ Api(k).finalizer'
                        /\ Api(k).deleting' = Api(k).deleting
<1>. DEFINE patched == [Api(w.key) EXCEPT !.finalizer = TRUE]
<1>0. /\ pc = "addFinalizer" /\ pc # "idle" /\ w.key \in CRs /\ Api(w.key) \in Object
      /\ w.fresh /\ objs' = [objs EXCEPT ![w.key] = Versions(w.key, patched)]
  BY BusyType, VersionsType DEF AddFinalizer
<1>. PICK k \in CRs : k = w.key
  BY <1>0
<1>1. /\ patched \in Object /\ patched.exists = Api(k).exists /\ patched.finalizer
      /\ patched.deleting = Api(k).deleting
  BY <1>0 DEF Object
<1>2. Api(k).exists
  BY <1>0 DEF FinalizerInv, FreshIsCurrent
<1>. HIDE DEF patched
<1>3. Api(k)' = patched /\ \A q \in CRs \ {k} : objs'[q] = objs[q]
  BY <1>0, <1>1, <1>2, AppendedHistory DEF FinalizerInv
<1>4. OnlyFlagsOf(k)
  BY <1>3, SameHistory DEF OnlyFlagsOf, SameFlags
<1>5. pc' # pc
  BY <1>0, FindActualType DEF AddFinalizer, GoOn, Return, Conflict
<1>. QED
  BY <1>1, <1>3, <1>4, <1>5

\* The patch that takes the finalizer away.
LEMMA RemovedFlags ==
  ASSUME TypeOK, FinalizerInv, RemoveFinalizer, objs' # objs
  PROVE  \E k \in CRs : /\ k = w.key /\ pc' # pc /\ OnlyFlagsOf(k)
                        /\ ~Api(k).finalizer'
                        /\ ~Api(k).deleting'
<1>. DEFINE patched == IF Api(w.key).deleting THEN Absent
                       ELSE [Api(w.key) EXCEPT !.finalizer = FALSE]
<1>0. /\ pc = "removeFinalizer" /\ pc # "idle" /\ w.key \in CRs /\ Api(w.key) \in Object
      /\ objs' = [objs EXCEPT ![w.key] = Versions(w.key, patched)]
      /\ pc' = "idle"
  BY BusyType, VersionsType DEF RemoveFinalizer, Return
<1>. PICK k \in CRs : k = w.key
  BY <1>0
<1>1. Absent \in Object /\ ~Absent.finalizer /\ ~Absent.deleting
  BY IdleWorkerType DEF Absent
<1>2. patched \in Object /\ ~patched.finalizer /\ ~patched.deleting
  BY <1>0, <1>1 DEF Object
<1>. HIDE DEF patched
<1>3. Api(k)' = patched /\ \A q \in CRs \ {k} : objs'[q] = objs[q]
  BY <1>0, <1>2, AppendedHistory DEF FinalizerInv
<1>4. OnlyFlagsOf(k)
  BY <1>3, SameHistory DEF OnlyFlagsOf, SameFlags
<1>. QED
  BY <1>0, <1>2, <1>3, <1>4

\* The status patch leaves both flags alone.
LEMMA ReportedFlags ==
  ASSUME TypeOK, FinalizerInv, PatchStatus
  PROVE  \A r \in CRs : SameFlags(r)
<1>. DEFINE before == w.cr.status
            after  == Marked(before)
            live   == Api(w.key)
            status == [f \in DOMAIN live.status |->
                         IF after[f] # before[f] THEN after[f] ELSE live.status[f]]
            merged == [live EXCEPT !.status = status]
<1>0. pc = "status" /\ pc # "idle" /\ w \in Locals /\ w.key \in CRs
  BY BusyType DEF PatchStatus
<1>. PICK k \in CRs : k = w.key
  BY <1>0
<1>1. CASE UNCHANGED objs
  BY <1>1, QuietFlags
<1>2. CASE objs' \in {[objs EXCEPT ![k] = Append(@, merged)],
                      [objs EXCEPT ![k] = Versions(k, merged)]}
  <2>1. /\ live \in Object /\ live.status \in StatusOK /\ after \in StatusOK
        /\ before \in StatusOK
    BY <1>0, BusyType, VersionsType, MarkedType DEF Object
  <2>2. status \in StatusOK
    BY <2>1, MergedStatusType
  <2>3. /\ merged \in Object /\ merged.exists = live.exists
        /\ merged.finalizer = live.finalizer /\ merged.deleting = live.deleting
    <3>. HIDE DEF status
    <3>. QED
      BY <2>1, <2>2 DEF Object
  <2>4. (live.deleting => live.finalizer) /\ (live.finalizer => live.exists)
    BY ViewFlags DEF FinalizerInv
  <2>. HIDE DEF merged
  <2>5. Api(k)' = merged /\ \A q \in CRs \ {k} : objs'[q] = objs[q]
    BY <1>2, <2>3, <2>4, AppendedHistory DEF FinalizerInv
  <2>. QED
    BY <2>3, <2>5, SameHistory DEF SameFlags
<1>. QED
  BY <1>1, <1>2 DEF PatchStatus

\* The watch stream and a restart change what the cache shows, not what there is.
LEMMA WokenFlags ==
  ASSUME TypeOK, FinalizerInv,
         \/ \E r \in CRs : DeliverWatch(r) \/ TimerFires(r)
         \/ \E s \in Secrets : DeliverSecret(s)
         \/ Crash
  PROVE  \A r \in CRs : SameFlags(r)
<1>1. ASSUME NEW r \in CRs, DeliverWatch(r) PROVE \A q \in CRs : SameFlags(q)
  <2>1. Len(objs[r]) > 1 /\ objs' = [objs EXCEPT ![r] = Tail(@)]
    BY <1>1 DEF DeliverWatch
  <2>2. Api(r)' = Api(r) /\ \A q \in CRs \ {r} : objs'[q] = objs[q]
    BY <2>1, AdvancedHistory DEF FinalizerInv
  <2>. QED
    BY <2>2, SameHistory DEF SameFlags
<1>2. CASE \/ \E r \in CRs : TimerFires(r)
           \/ \E s \in Secrets : DeliverSecret(s)
  BY <1>2, QuietFlags DEF TimerFires, DeliverSecret, kube
<1>3. CASE Crash
  <2>1. \A r \in CRs : objs'[r] = <<Api(r)>>
    BY <1>3 DEF Crash
  <2>2. \A r \in CRs : Api(r)' = Api(r)
    <3>1. \A r \in CRs : Len(objs'[r]) = 1 /\ objs'[r][1] = Api(r)
      BY <2>1
    <3>2. \A r \in CRs : Api(r)' = objs'[r][Len(objs'[r])]
      BY DEF Api
    <3>. QED
      BY <3>1, <3>2
  <2>. QED
    BY <2>2 DEF SameFlags
<1>. QED
  BY <1>1, <1>2, <1>3

\* A user can mark a CR that carries the finalizer for deletion, and no more.
LEMMA UserFlags ==
  ASSUME TypeOK, FinalizerInv, NEW r \in CRs, CreateCR(r) \/ EditSpec(r) \/ DeleteCR(r)
  PROVE  /\ OnlyFlagsOf(r) /\ UNCHANGED <<store, pc>>
         /\ \/ SameFlags(r)
            \/ Api(r).finalizer /\ Api(r).finalizer' /\ Api(r).deleting'
<1>0. /\ Api(r) \in Object /\ (Api(r).deleting => Api(r).finalizer)
      /\ (Api(r).finalizer => Api(r).exists)
  BY VersionsType, ViewFlags DEF FinalizerInv
<1>1. PICK o \in Object :
        /\ UserWrites(r, o)
        /\ o.deleting => o.finalizer
        /\ o.finalizer => o.exists
        /\ o.finalizer = Api(r).finalizer
        /\ o.deleting = Api(r).deleting \/ (o.deleting /\ Api(r).finalizer)
  <2>1. CASE CreateCR(r)
    <3>1. \A s \in Specs : /\ NewCR(s) \in Object /\ NewCR(s).finalizer = FALSE
                           /\ NewCR(s).deleting = FALSE
      BY LiteralsAssumption
      DEF LiteralsAssumption, NewCR, Object, NewStatus, StatusOK, NoCond
    <3>2. Api(r).finalizer = FALSE /\ Api(r).deleting = FALSE
      BY <1>0, <2>1 DEF CreateCR, Object
    <3>. QED
      BY <2>1, <3>1, <3>2 DEF CreateCR
  <2>2. CASE EditSpec(r)
    <3>1. PICK s \in Specs : UserWrites(r, [Api(r) EXCEPT !.spec = s, !.gen = @ + 1])
      BY <2>2 DEF EditSpec
    <3>2. /\ [Api(r) EXCEPT !.spec = s, !.gen = @ + 1] \in Object
          /\ [Api(r) EXCEPT !.spec = s, !.gen = @ + 1].exists = Api(r).exists
          /\ [Api(r) EXCEPT !.spec = s, !.gen = @ + 1].finalizer = Api(r).finalizer
          /\ [Api(r) EXCEPT !.spec = s, !.gen = @ + 1].deleting = Api(r).deleting
      BY <1>0, EditedObjectType DEF Object
    <3>. QED
      BY <1>0, <3>1, <3>2
  <2>3. CASE DeleteCR(r)
    <3>1. /\ [Api(r) EXCEPT !.deleting = TRUE, !.gen = @ + 1] \in Object
          /\ [Api(r) EXCEPT !.deleting = TRUE, !.gen = @ + 1].exists = Api(r).exists
          /\ [Api(r) EXCEPT !.deleting = TRUE, !.gen = @ + 1].finalizer = Api(r).finalizer
          /\ [Api(r) EXCEPT !.deleting = TRUE, !.gen = @ + 1].deleting
      BY <1>0, DeletedObjectType DEF Object
    <3>2. Absent \in Object /\ Absent.finalizer = FALSE /\ Absent.deleting = FALSE
      BY IdleWorkerType DEF Absent
    <3>3. ~Api(r).finalizer => Api(r).finalizer = FALSE /\ Api(r).deleting = FALSE
      BY <1>0 DEF Object
    <3>. QED
      BY <1>0, <2>3, <3>1, <3>2, <3>3 DEF DeleteCR
  <2>. QED
    BY <2>1, <2>2, <2>3
<1>2. UNCHANGED <<store, pc>> /\ objs' = [objs EXCEPT ![r] = Append(@, o)]
  BY <1>1 DEF UserWrites, mackerel
<1>3. Api(r)' = o /\ \A q \in CRs \ {r} : objs'[q] = objs[q]
  BY <1>1, <1>2, AppendedHistory DEF FinalizerInv
<1>. QED
  BY <1>1, <1>2, <1>3, SameHistory DEF OnlyFlagsOf, SameFlags

\* All together: the operator adds the finalizer or takes it away, a user asks for the
\* deletion of a CR that has it, or the flags stay as they are.
LEMMA FlagSteps ==
  ASSUME TypeOK, FinalizerInv, [Next]_vars
  PROVE  \/ \A r \in CRs : SameFlags(r)
         \/ \E k \in CRs :
              /\ OnlyFlagsOf(k) /\ UNCHANGED store
              /\ \/ /\ pc = "addFinalizer" /\ pc' # pc /\ k = w.key
                    /\ Api(k).finalizer' /\ Api(k).deleting' = Api(k).deleting
                 \/ /\ pc = "removeFinalizer" /\ pc' # pc /\ k = w.key
                    /\ ~Api(k).finalizer' /\ ~Api(k).deleting'
                 \/ /\ pc' = pc
                    /\ Api(k).finalizer /\ Api(k).finalizer' /\ Api(k).deleting'
<1>1. CASE UNCHANGED objs
  BY <1>1, QuietFlags
<1>2. CASE AddFinalizer /\ objs' # objs
  BY <1>2, AddedFlags DEF AddFinalizer, mackerel
<1>3. CASE RemoveFinalizer /\ objs' # objs
  BY <1>3, RemovedFlags DEF RemoveFinalizer, mackerel
<1>4. CASE PatchStatus
  BY <1>4, ReportedFlags
<1>5. CASE (\E r \in CRs : DeliverWatch(r)) \/ Crash
  BY <1>5, WokenFlags
<1>6. ASSUME NEW r \in CRs, CreateCR(r) \/ EditSpec(r) \/ DeleteCR(r)
      PROVE  \/ \A q \in CRs : SameFlags(q)
             \/ /\ OnlyFlagsOf(r) /\ UNCHANGED store /\ pc' = pc
                /\ Api(r).finalizer /\ Api(r).finalizer' /\ Api(r).deleting'
  BY <1>6, UserFlags DEF OnlyFlagsOf
<1>. QED
  BY <1>1, <1>2, <1>3, <1>4, <1>5, <1>6
  DEF Next, Work, Environment, Fetch, ResolveHeaders, Reread, GetMonitor, ListMonitors,
      CreateMonitor, GetCurrent, PutMonitor, DeleteMonitor, TimerFires, DeliverSecret, SetSecret,
      EditMonitor, SetMonitor, RemoveMonitor, AddMonitor, NewMonitor, kube, vars

------------------------------------------------------------------------------
(***************************************************************************)
(* The outcome of findActual, and the deletion path.                       *)
(***************************************************************************)

\* findActual ends with a conclusion, goes on from the recorded id to the list, or fails.
LEMMA FindActualOutcome ==
  ASSUME TypeOK, OwnershipInv, GetMonitor \/ ListMonitors
  PROVE  /\ pc \in {"get", "list"} /\ UNCHANGED <<objs, mackerel>>
         /\ \/ \E a : Found(a) /\ Decide(a)
            \/ GoOn("list", w)
            \/ FindActualFails
<1>1. CASE GetMonitor
  <2>. DEFINE id == w.cr.status.monitorID
  <2>1. ASSUME id \in DOMAIN store PROVE Found(Actual(id))
    <3>1. Mine(id, w.key) /\ w.key \in CRs
      BY <1>1, <2>1, BusyClaims DEF Claim, GetMonitor
    <3>. QED
      BY <2>1, <3>1 DEF Found, OwnershipInv, UniqueOwned
  <2>. QED
    BY <1>1, <2>1 DEF GetMonitor, kube
<1>2. CASE ListMonitors
  <2>. DEFINE matches == NameMatches(w.key, w.desired.name)
              owned   == {i \in DOMAIN store : Mine(i, w.key)}
  <2>0. w.key \in CRs
    BY <1>2, BusyClaims DEF ListMonitors
  <2>1. \A i \in owned : Found(Actual(i))
    BY <2>0 DEF Found, OwnershipInv, UniqueOwned
  <2>2. owned = {} => Found(NilMonitor) /\ \A i \in matches : Found(Actual(i))
    BY DEF Found, NameMatches
  <2>. QED
    BY <1>2, <2>1, <2>2 DEF ListMonitors, kube
<1>. QED
  BY <1>1, <1>2

\* On the deletion path findActual leads to the deletion of all there is, or to the removal
\* of the finalizer when there is nothing (or the policy says so).
LEMMA DecideRelease ==
  ASSUME TypeOK, OwnershipInv, FinalizerInv, UNCHANGED mackerel, pc \in {"get", "list"},
         NEW a, Found(a), Decide(a)
  PROVE  DeleteIsTotal' /\ NothingLeft'
<1>0. /\ w \in Locals /\ w.desired.resource = w.key /\ w.desired.owner = Owner
      /\ \A i, r : Mine(i, r)' <=> Mine(i, r)
  BY BusyType DEF OwnershipInv, WorkerClaims, DesiredIsOurs, mackerel, Mine
<1>1. CASE w.finalizing /\ PlanDelete(a, w.desired.owner, w.desired.resource, Policy) = "Delete"
  <2>1. Policy = "sync" /\ a # NilMonitor
    BY <1>1 DEF PlanDelete
  <2>2. \A j \in DOMAIN store : Mine(j, w.key) => j = a.id
    BY <2>1 DEF Found, Actual
  <2>3. pc' = "delete" /\ w'.key = w.key /\ w'.actual = a
    BY <1>0, <1>1 DEF Decide, GoOn, Locals
  <2>. QED
    BY <1>0, <2>1, <2>2, <2>3 DEF DeleteIsTotal, NothingLeft, mackerel
<1>2. CASE w.finalizing /\ PlanDelete(a, w.desired.owner, w.desired.resource, Policy) # "Delete"
  <2>1. pc' = "removeFinalizer" /\ w'.key = w.key
    BY <1>0, <1>2 DEF Decide, GoOn, Locals
  <2>2. Policy = "sync" => a = NilMonitor \/ ~OwnedBy(a.memo, Owner, w.key)
    BY <1>0, <1>2 DEF PlanDelete
  <2>3. \A i \in DOMAIN store : Actual(i) # NilMonitor /\ Actual(i).memo = store[i].memo
    BY StoreIds DEF Actual, NilMonitor
  <2>4. Policy = "sync" => \A i \in DOMAIN store : ~Mine(i, w.key)
    BY <2>2, <2>3 DEF Found, Mine
  <2>. QED
    BY <1>0, <2>1, <2>4 DEF DeleteIsTotal, NothingLeft, mackerel
<1>3. CASE ~w.finalizing
  <2>1. pc' \in {"create", "getCurrent", "status"}
    BY <1>3 DEF Decide, GoOn, Report
  <2>. QED
    BY <2>1 DEF DeleteIsTotal, NothingLeft
<1>. QED
  BY <1>1, <1>2, <1>3

\* The worker's part of the invariant, where no spec is broken.
LEMMA ReleaseWorker ==
  ASSUME TypeOK, OwnershipInv, FinalizerInv, ReleaseInv, [Next]_vars,
         \A s \in Specs : s.headers # Broken
  PROVE  DeleteIsTotal' /\ NothingLeft'
<1>1. CASE pc' \notin {"delete", "removeFinalizer", "rereadToRemove"}
  BY <1>1 DEF DeleteIsTotal, NothingLeft
<1>2. CASE /\ pc' \in {"delete", "removeFinalizer", "rereadToRemove"}
           /\ GetMonitor \/ ListMonitors
  <2>1. ~GoOn("list", w) /\ ~FindActualFails
    BY <1>2 DEF GoOn, FindActualFails, Return, Report
  <2>. QED
    BY <1>2, <2>1, FindActualOutcome, DecideRelease
<1>3. CASE DeleteMonitor /\ pc' \in {"delete", "removeFinalizer", "rereadToRemove"}
  <2>1. /\ pc = "delete" /\ w \in Locals
        /\ store' = [i \in DOMAIN store \ {w.actual.id} |-> store[i]]
        /\ GoOn("removeFinalizer", [w EXCEPT !.actual = NilMonitor, !.desired = NoDesired])
    BY <1>3, BusyType DEF DeleteMonitor, Return
  <2>2. pc' = "removeFinalizer" /\ w'.key = w.key
    BY <2>1 DEF GoOn, Locals
  <2>3. \A i \in DOMAIN store' : i \in DOMAIN store /\ i # w.actual.id /\ store'[i] = store[i]
    BY <2>1
  <2>4. \A i \in DOMAIN store' : ~Mine(i, w.key)'
    <3>. PICK k : k = w.key
      OBVIOUS
    <3>1. \A i \in DOMAIN store' : ~Mine(i, k)'
      BY <2>1, <2>3 DEF ReleaseInv, DeleteIsTotal, Mine
    <3>. QED
      BY <2>2, <3>1 DEF Mine
  <2>. QED
    BY <2>2, <2>4 DEF DeleteIsTotal, NothingLeft
<1>4. ASSUME pc' \in {"delete", "removeFinalizer", "rereadToRemove"},
             w'.key = w.key, w.key \in CRs, pc \notin {"create", "put"},
             \/ pc' = pc /\ w'.actual = w.actual
             \/ /\ pc \in {"removeFinalizer", "rereadToRemove"}
                /\ pc' \in {"removeFinalizer", "rereadToRemove"}
      PROVE  DeleteIsTotal' /\ NothingLeft'
  <2>. PICK k \in CRs : k = w.key
    BY <1>4
  <2>1. \A i : Mine(i, k)' => Mine(i, k)
    BY <1>4, MineSteps
  <2>2. \A i : Mine(i, k)' => i \in DOMAIN store
    BY <2>1 DEF Mine
  <2>. QED
    BY <1>4, <2>1, <2>2 DEF ReleaseInv, DeleteIsTotal, NothingLeft, Mine
<1>5. CASE /\ RemoveFinalizer \/ Reread
           /\ pc' \in {"delete", "removeFinalizer", "rereadToRemove"}
  <2>1. /\ pc \in {"removeFinalizer", "rereadToRemove"} /\ w \in Locals /\ w.key \in CRs
        /\ pc' \in {"removeFinalizer", "rereadToRemove"} /\ w'.key = w.key
    BY <1>5, BusyType DEF RemoveFinalizer, Reread, Conflict, Return, GoOn, Locals
  <2>. QED
    BY <1>4, <2>1
<1>6. CASE /\ pc' = pc /\ pc' \in {"delete", "removeFinalizer", "rereadToRemove"}
           /\ w'.key = w.key /\ w'.actual = w.actual
  BY <1>4, <1>6, BusyType
<1>7. CASE pc' # pc /\ \E r \in CRs : Fetch(r)
  <2>1. PICK r \in CRs : Fetch(r)
    BY <1>7
  <2>2. Cache(r).spec.headers # Broken
    <3>1. NoSpec.headers # Broken
      BY DEF NoSpec, Unmanaged, Broken
    <3>2. Cache(r).spec \in Specs \cup {NoSpec}
      BY VersionsType DEF Object
    <3>. QED
      BY <3>1, <3>2
  <2>3. pc' \in {"resolveHeaders", "get", "list"}
    BY <1>7, <2>1, <2>2, FindActualType DEF Fetch, GoOn
  <2>. QED
    BY <1>1, <2>3
<1>8. CASE ResolveHeaders \/ AddFinalizer \/ CreateMonitor \/ GetCurrent \/ PutMonitor
           \/ PatchStatus \/ Crash
  <2>1. pc' \notin {"delete", "removeFinalizer", "rereadToRemove"}
    BY <1>8, FindActualType
    DEF ResolveHeaders, AddFinalizer, CreateMonitor, GetCurrent, PutMonitor, PatchStatus, Crash,
        Conflict, GoOn, Return, Report
  <2>. QED
    BY <1>1, <2>1
<1>9. CASE \/ UNCHANGED vars \/ Environment
           \/ \E r \in CRs : DeliverWatch(r) \/ TimerFires(r)
           \/ \E s \in Secrets : DeliverSecret(s)
  <2>1. pc' = pc /\ w'.key = w.key /\ w'.actual = w.actual
    <3>1. w \in Locals
      BY DEF TypeOK, WorkerOK
    <3>. QED
      BY <1>9, <3>1
      DEF Environment, CreateCR, EditSpec, DeleteCR, UserWrites, SetSecret, EditMonitor,
          SetMonitor, RemoveMonitor, AddMonitor, NewMonitor, DeliverWatch, TimerFires,
          DeliverSecret, worker, vars, Locals
  <2>. QED
    BY <1>1, <1>6, <2>1
<1>10. CASE pc' = pc /\ \E r \in CRs : Fetch(r)
  BY <1>1, <1>10 DEF Fetch
<1>. QED
  BY <1>1, <1>2, <1>3, <1>5, <1>7, <1>8, <1>9, <1>10 DEF Next, Work

\* Every step preserves the invariant.
LEMMA ReleaseNext ==
  ASSUME "strip" \notin Outside, \A s \in Specs : s.headers # Broken
  PROVE  TypeOK /\ OwnershipInv /\ FinalizerInv /\ ReleaseInv /\ [Next]_vars => ReleaseInv'
<1>. SUFFICES ASSUME TypeOK, OwnershipInv, FinalizerInv, ReleaseInv, [Next]_vars
              PROVE  ReleaseInv'
  OBVIOUS
<1>1. DeleteIsTotal' /\ NothingLeft'
  BY ReleaseWorker
<1>2. ASSUME Policy = "sync", NEW r \in CRs, NEW i, Mine(i, r)'
      PROVE  Api(r).finalizer'
  <2>1. CASE ~Mine(i, r)
    <3>1. pc \in {"create", "put"} /\ Api(r).finalizer
      BY <1>2, <2>1, MineSteps
    <3>. QED
      BY <3>1, FlagSteps DEF OnlyFlagsOf, SameFlags
  <2>2. CASE Mine(i, r)
    <3>1. Api(r).finalizer /\ ~(pc = "removeFinalizer" /\ r = w.key)
      BY <1>2, <2>2 DEF ReleaseInv, NoOrphan, NothingLeft, Mine
    <3>. QED
      BY <3>1, FlagSteps DEF OnlyFlagsOf, SameFlags
  <2>. QED
    BY <2>1, <2>2
<1>3. \A r \in CRs : Api(r).finalizer' => Api(r).exists'
  <2>1. TypeOK' /\ FlagsOK'
    BY TypeNext, BranchNext DEF FinalizerInv
  <2>2. \A r \in CRs : Len(objs'[r]) \in 1..Len(objs'[r])
    BY <2>1 DEF TypeOK, ObjsOK
  <2>. QED
    BY <2>1, <2>2 DEF FlagsOK, Api
<1>. QED
  BY <1>1, <1>2, <1>3 DEF ReleaseInv, NoOrphan

\* There is nothing to release at first.
LEMMA ReleaseInit == Init => ReleaseInv
<1>. SUFFICES ASSUME Init PROVE ReleaseInv
  OBVIOUS
<1>1. \A i \in DOMAIN store : store[i].memo.marker.owner # Owner
  <2>1. DOMAIN store = 1..Len(store)
    BY StoresAssumption DEF StoresAssumption, Init
  <2>. QED
    BY <2>1, StoresAssumption DEF StoresAssumption, Init
<1>2. \A i, r : ~Mine(i, r)
  BY <1>1, OwnedByMarker DEF Mine
<1>. QED
  BY <1>2 DEF Init, ReleaseInv, NoOrphan, DeleteIsTotal, NothingLeft

------------------------------------------------------------------------------
\* The finalizer goes only after the monitor, in every behaviour where nobody strips markers
\* from memos and the CRD's validation keeps broken headers out.
THEOREM ReleaseInvariant ==
  ASSUME "strip" \notin Outside, \A s \in Specs : s.headers # Broken
  PROVE  Spec => []ReleaseInv
<1>1. TypeOK /\ OwnershipInv /\ FinalizerInv /\ ReleaseInv /\ [Next]_vars => ReleaseInv'
  BY ReleaseNext
<1>. QED
  BY <1>1, ReleaseInit, OwnershipInvariant, FinalizerInvariant, TypeCorrect, PTL DEF Spec

\* Under policy sync every monitor with this operator's marker has a CR with the finalizer
\* behind it: no interleaving of deletions, retries, faults and crashes leaves an orphan.
THEOREM NoMonitorIsOrphaned ==
  ASSUME "strip" \notin Outside, \A s \in Specs : s.headers # Broken
  PROVE  Spec => []NoOrphan
<1>1. ReleaseInv => NoOrphan
  BY DEF ReleaseInv
<1>. QED
  BY <1>1, ReleaseInvariant, PTL

\* Reconcile deletes a monitor only while the CR in the API server is marked for deletion,
\* although it decided so on a cached version: a recreated CR keeps its monitor.
THEOREM OnlyTheDoomedAreDeleted ==
  ASSUME "strip" \notin Outside, \A s \in Specs : s.headers # Broken
  PROVE  Spec => DeletesOnlyDoomed
<1>. DEFINE Doomed == \A i \in DOMAIN store \ DOMAIN store' :
                        WorkerStep => Policy = "sync" /\ Mine(i, w.key) /\ Api(w.key).deleting
<1>1. ASSUME TypeOK, OwnershipInv, FinalizerInv, ReleaseInv, [Next]_vars
      PROVE  [Doomed]_vars
  <2>1. CASE DOMAIN store \subseteq DOMAIN store' \/ pc' = pc
    BY <2>1 DEF WorkerStep
  <2>2. CASE DeleteMonitor
    <3>0. pc = "delete" /\ w.key \in CRs
      BY <1>1, <2>2, BusyType DEF DeleteMonitor
    <3>. PICK k \in CRs : k = w.key
      BY <3>0
    <3>1. ASSUME NEW i \in DOMAIN store \ DOMAIN store' PROVE Mine(i, k) /\ Policy = "sync"
      BY <1>1, <2>2, <3>0, <3>1
      DEF DeleteMonitor, OwnershipInv, WorkerClaims, DeleteIsSafe, Claim, ReleaseInv,
          DeleteIsTotal
    <3>2. Released(k)
      BY <1>1, <3>0 DEF FinalizerInv, BranchOK, PathOK
    <3>3. ASSUME NEW i \in DOMAIN store \ DOMAIN store' PROVE Api(k).deleting
      <4>1. Api(k).finalizer
        BY <1>1, <3>1, <3>3 DEF ReleaseInv, NoOrphan
      <4>. QED
        BY <1>1, <3>2, <4>1, ViewFlags DEF FinalizerInv
    <3>. QED
      BY <3>1, <3>3
  <2>3. CASE UNCHANGED store
    BY <2>3
  <2>4. CASE CreateMonitor \/ PutMonitor
    <3>1. DOMAIN store \subseteq DOMAIN store'
      BY <2>4 DEF CreateMonitor, PutMonitor, mackerel
    <3>. QED
      BY <2>1, <3>1
  <2>5. CASE Environment
    <3>1. pc' = pc
      BY <2>5 DEF Environment, CreateCR, EditSpec, DeleteCR, UserWrites, SetSecret, EditMonitor,
         SetMonitor, RemoveMonitor, AddMonitor, NewMonitor, worker
    <3>. QED
      BY <2>1, <3>1
  <2>. QED
    BY <1>1, <2>2, <2>3, <2>4, <2>5
    DEF Next, Work, Fetch, ResolveHeaders, AddFinalizer, RemoveFinalizer, Reread, GetMonitor,
        ListMonitors, GetCurrent, PatchStatus, DeliverWatch, TimerFires, DeliverSecret, Crash,
        mackerel, vars
<1>. QED
  BY <1>1, ReleaseInvariant, OwnershipInvariant, FinalizerInvariant, TypeCorrect, PTL
  DEF Spec, DeletesOnlyDoomed

==============================================================================

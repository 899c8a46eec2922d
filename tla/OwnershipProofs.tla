--------------------------- MODULE OwnershipProofs ---------------------------
(***************************************************************************)
(* The operator owns at most one monitor per CR and leaves the monitors of *)
(* others alone, for every set of CRs, every Secret, name and bound: the   *)
(* proof that OwnershipInv is inductive.  The hypothesis that nobody       *)
(* strips markers, "strip" \notin Outside, is part of every step.          *)
(***************************************************************************)
EXTENDS ReconcilerInvariant, ReconcilerProofs

\* Ids that Mackerel holds are old, and zero is none of them.
LEMMA StoreIds ==
  ASSUME TypeOK
  PROVE  /\ nextID \in Nat /\ 0 < nextID /\ 0 \notin DOMAIN store /\ nextID \notin DOMAIN store
         /\ \A i \in DOMAIN store : i \in Nat /\ i < nextID /\ store[i] \in Monitor
  BY DEF TypeOK, StoreOK

\* No recorded id is a harmless claim.
LEMMA NoClaim == ASSUME TypeOK, NEW r PROVE Claim(0, r)
  BY StoreIds DEF Claim

\* A marker of the owner is a marker: the owner id is not empty.
LEMMA OwnedByMarker ==
  ASSUME NEW memo, NEW r
  PROVE  /\ OwnedBy(memo, Owner, r) => memo.marker.owner = Owner /\ memo.marker.resource = r
         /\ memo.marker.owner = Owner /\ memo.marker.resource = r => OwnedBy(memo, Owner, r)
<1>1. Owner # "" /\ NoMarker.owner = ""
  BY NamesAssumption DEF NamesAssumption, NoMarker
<1>2. memo.marker.owner = Owner => memo.marker # NoMarker
  BY <1>1
<1>. QED
  BY <1>2 DEF OwnedBy, HasMarker, ParseMarker

\* While Mackerel does not change, neither do claims.
LEMMA QuietClaims ==
  ASSUME UNCHANGED mackerel
  PROVE  \A i, r : /\ Mine(i, r)' <=> Mine(i, r)
                   /\ Claim(i, r)' <=> Claim(i, r)
  BY DEF mackerel, Mine, Claim

------------------------------------------------------------------------------
\* What the planner's answers imply about the monitor it looked at.
LEMMA PlanImplies ==
  ASSUME NEW d, NEW a
  PROVE  /\ Plan(d, a) = "Create" => a = NilMonitor
         /\ Plan(d, a) \in {"Update", "RestoreMarker"} =>
              a # NilMonitor /\ (OwnedBy(a.memo, d.owner, d.resource) \/ ~HasMarker(a.memo))
         /\ Plan(d, a) = "Noop" => OwnedBy(a.memo, d.owner, d.resource)
  BY DEF Plan, OwnedBy

\* The outcome of findActual: no monitor of this CR at all, or the only candidate.
Found(actual) ==
  \/ actual = NilMonitor /\ \A i \in DOMAIN store : ~Mine(i, w.key)
  \/ \E i \in DOMAIN store :
       actual = Actual(i) /\ \A j \in DOMAIN store : Mine(j, w.key) => j = i

\* The worker goes back to rest without a claim.
LEMMA IdleClaims == ASSUME pc' = "idle" PROVE WorkerClaims'
  BY DEF WorkerClaims, CarriedClaim, DesiredIsOurs, CreateIsSafe, UpdateIsSafe,
     DeleteIsSafe, ReportIsSafe

\* Calls that need nothing but the claim of the CR they carry.
LEMMA PlainCallClaims ==
  ASSUME pc' \in {"resolveHeaders", "removeFinalizer", "rereadToRemove"},
         Claim(w.cr.status.monitorID, w.key)'
  PROVE  WorkerClaims'
  BY DEF WorkerClaims, CarriedClaim, DesiredIsOurs, CreateIsSafe, UpdateIsSafe,
     DeleteIsSafe, ReportIsSafe

\* Calls that also need the desired state.
LEMMA SearchCallClaims ==
  ASSUME pc' \in {"addFinalizer", "rereadToAdd", "get", "list"},
         Claim(w.cr.status.monitorID, w.key)',
         w'.desired.resource = w'.key, w'.desired.owner = Owner
  PROVE  WorkerClaims'
  BY DEF WorkerClaims, CarriedClaim, DesiredIsOurs, CreateIsSafe, UpdateIsSafe,
     DeleteIsSafe, ReportIsSafe

\* A report that claims nothing, or claims a monitor of this CR.
LEMMA ReportClaims ==
  ASSUME TypeOK, pc # "idle", NEW reason, NEW id, NEW applied, Report(reason, id, applied),
         Claim(w.cr.status.monitorID, w.key)',
         reason = "Synced" => \A r : r = w.key => Claim(id, r)'
  PROVE  WorkerClaims'
<1>1. /\ pc' = "status" /\ w'.key = w.key /\ w'.mark.reason = reason /\ w'.mark.id = id
      /\ w'.cr = w.cr
  BY BusyType DEF Report, GoOn, Locals
<1>2. ReportIsSafe'
  BY <1>1 DEF ReportIsSafe
<1>. QED
  BY <1>1, <1>2 DEF WorkerClaims, CarriedClaim, DesiredIsOurs, CreateIsSafe, UpdateIsSafe,
     DeleteIsSafe

\* From findActual's outcome the planner draws only conclusions that are safe.
LEMMA DecideClaims ==
  ASSUME TypeOK, WorkerClaims, UNCHANGED mackerel, pc \in {"get", "list"},
         NEW a, Found(a), Decide(a)
  PROVE  WorkerClaims'
<1>0. /\ pc # "idle" /\ w \in Locals
      /\ w.desired.resource = w.key /\ w.desired.owner = Owner
      /\ Claim(w.cr.status.monitorID, w.key)
  BY BusyType DEF WorkerClaims, DesiredIsOurs, CarriedClaim
<1>1. ASSUME OwnedBy(a.memo, Owner, w.key) \/ a # NilMonitor
      PROVE  \E i \in DOMAIN store :
               /\ a = Actual(i) /\ a.id = i /\ a.memo = store[i].memo
               /\ \A j \in DOMAIN store : Mine(j, w.key) => j = i
  <2>1. a # NilMonitor
    <3>1. NilMonitor.memo.marker.owner # Owner
      BY ForeignMarkerType DEF NilMonitor
    <3>. QED
      BY <1>1, <3>1, OwnedByMarker
  <2>. QED
    BY <2>1 DEF Found, Actual
<1>2. ASSUME OwnedBy(a.memo, Owner, w.key) PROVE Claim(a.id, w.key) /\ a.id < nextID
  BY <1>1, <1>2, StoreIds DEF Claim, Mine
<1>3. CASE GoOn("delete", [w EXCEPT !.actual = a]) /\ OwnedBy(a.memo, Owner, w.key)
  <2>1. pc' = "delete" /\ w'.key = w.key /\ w'.cr = w.cr /\ w'.actual = a
        /\ w'.desired = w.desired
    BY <1>0, <1>3 DEF GoOn, Locals
  <2>. QED
    BY <1>0, <1>2, <1>3, <2>1, QuietClaims
    DEF WorkerClaims, CarriedClaim, DesiredIsOurs, CreateIsSafe, UpdateIsSafe, DeleteIsSafe,
        ReportIsSafe
<1>4. CASE GoOn("removeFinalizer", [w EXCEPT !.desired = NoDesired])
  <2>1. pc' = "removeFinalizer" /\ w'.key = w.key /\ w'.cr = w.cr
    BY <1>0, <1>4 DEF GoOn, Locals
  <2>. QED
    BY <1>0, <2>1, QuietClaims, PlainCallClaims
<1>5. CASE GoOn("create", w) /\ a = NilMonitor
  <2>1. \A i \in DOMAIN store : ~Mine(i, w.key)
    <3>1. \A i \in DOMAIN store : Actual(i) # NilMonitor
      BY StoreIds DEF Actual, NilMonitor
    <3>. QED
      BY <1>5, <3>1 DEF Found
  <2>2. pc' = "create" /\ w' = w
    BY <1>5 DEF GoOn
  <2>. QED
    BY <1>0, <2>1, <2>2, QuietClaims
    DEF WorkerClaims, CarriedClaim, DesiredIsOurs, CreateIsSafe, UpdateIsSafe, DeleteIsSafe,
        ReportIsSafe, mackerel
<1>6. CASE /\ GoOn("getCurrent", [w EXCEPT !.actual = a])
           /\ a # NilMonitor /\ (OwnedBy(a.memo, Owner, w.key) \/ ~HasMarker(a.memo))
  <2>1. pc' = "getCurrent" /\ w'.key = w.key /\ w'.cr = w.cr /\ w'.actual = a
        /\ w'.desired = w.desired
    BY <1>0, <1>6 DEF GoOn, Locals
  <2>2. PICK i \in DOMAIN store :
          /\ a = Actual(i) /\ a.id = i /\ a.memo = store[i].memo
          /\ \A j \in DOMAIN store : Mine(j, w.key) => j = i
    BY <1>1, <1>6
  <2>3. OwnedBy(a.memo, Owner, w.key) => Mine(i, w.key)
    BY <2>2 DEF Mine
  <2>4. ~HasMarker(a.memo) => store[i].memo.marker.owner # Owner
    BY <2>2, ForeignMarkerType DEF HasMarker, ParseMarker
  <2>5. UpdateIsSafe'
    BY <1>6, <2>1, <2>2, <2>3, <2>4, StoreIds, QuietClaims DEF UpdateIsSafe, mackerel
  <2>. QED
    BY <1>0, <2>1, <2>5, QuietClaims
    DEF WorkerClaims, CarriedClaim, DesiredIsOurs, CreateIsSafe, DeleteIsSafe, ReportIsSafe
<1>7. CASE Report("Synced", a.id, FALSE) /\ OwnedBy(a.memo, Owner, w.key)
  <2>1. w'.cr = w.cr /\ w'.key = w.key
    BY <1>0, <1>7 DEF Report, GoOn, Locals
  <2>. QED
    BY <1>0, <1>2, <1>7, <2>1, QuietClaims, ReportClaims
<1>8. CASE Report("OwnershipLost", 0, FALSE)
  <2>1. w'.cr = w.cr /\ w'.key = w.key
    BY <1>0, <1>8 DEF Report, GoOn, Locals
  <2>. QED
    BY <1>0, <1>8, <2>1, QuietClaims, ReportClaims
<1>9. PlanDelete(a, w.desired.owner, w.desired.resource, Policy) = "Delete"
        => OwnedBy(a.memo, Owner, w.key)
  BY <1>0 DEF PlanDelete
<1>. QED
  BY <1>0, <1>3, <1>4, <1>5, <1>6, <1>7, <1>8, <1>9, PlanImplies DEF Decide

------------------------------------------------------------------------------
\* The ids that the cache and the API server show are claims.
LEMMA ViewClaims ==
  ASSUME TypeOK, RecordedClaims, NEW r \in CRs
  PROVE  Claim(Api(r).status.monitorID, r) /\ Claim(Cache(r).status.monitorID, r)
<1>1. 1 \in 1..Len(objs[r]) /\ Len(objs[r]) \in 1..Len(objs[r])
  BY VersionsType
<1>. QED
  BY <1>1 DEF RecordedClaims, Api, Cache

\* A new version of a CR brings no new id, or one that is a claim.
LEMMA RecordedAppend ==
  ASSUME TypeOK, RecordedClaims, UNCHANGED mackerel, NEW r \in CRs, NEW o \in Object,
         Claim(o.status.monitorID, r),
         objs' \in {objs, [objs EXCEPT ![r] = Append(@, o)],
                    [objs EXCEPT ![r] = Versions(r, o)]}
  PROVE  RecordedClaims'
<1>1. CASE objs' = objs
  BY <1>1, QuietClaims DEF RecordedClaims
<1>2. CASE objs' = [objs EXCEPT ![r] = Append(objs[r], o)]
  <2>1. /\ objs'[r] = Append(objs[r], o) /\ objs[r] \in Seq(Object)
        /\ \A q \in CRs \ {r} : objs'[q] = objs[q]
    BY <1>2, VersionsType DEF TypeOK, ObjsOK
  <2>2. ASSUME NEW k \in 1..Len(objs'[r])
        PROVE  Claim(objs'[r][k].status.monitorID, r)
    <3>1. objs'[r][k] = o \/ (k \in 1..Len(objs[r]) /\ objs'[r][k] = objs[r][k])
      BY <2>1
    <3>. QED
      BY <3>1 DEF RecordedClaims
  <2>. QED
    BY <2>1, <2>2, QuietClaims DEF RecordedClaims
<1>3. [objs EXCEPT ![r] = objs[r]] = objs
  BY DEF TypeOK, ObjsOK
<1>4. CASE objs' = [objs EXCEPT ![r] = Versions(r, o)]
  BY <1>1, <1>2, <1>3, <1>4 DEF Versions
<1>. QED
  BY <1>1, <1>2, <1>4

\* A step that leaves Mackerel alone cannot bring about a second monitor.
LEMMA QuietInv ==
  ASSUME OwnershipInv, UNCHANGED mackerel, RecordedClaims', WorkerClaims'
  PROVE  OwnershipInv'
  BY DEF OwnershipInv, UniqueOwned, Mine, mackerel

\* The desired state names the CR it was made from and this operator.
LEMMA DesiredNames ==
  ASSUME NEW r, NEW s, NEW h
  PROVE  /\ FromExternalMonitor(r, s, h).resource = r
         /\ FromExternalMonitor(r, s, h).owner = Owner
  BY DEF FromExternalMonitor

\* Reading the CR from the cache: the id it shows is a claim.
LEMMA OwnFetch ==
  ASSUME TypeOK, OwnershipInv, NEW r \in CRs, Fetch(r)
  PROVE  OwnershipInv'
<1>. DEFINE cr     == Cache(r)
            locals == [IdleWorker EXCEPT !.key = r, !.cr = cr, !.fresh = Len(objs[r]) = 1]
            doomed == [locals EXCEPT !.finalizing = TRUE,
                                     !.desired = DeletionDesired(r, cr.spec)]
<1>1. UNCHANGED <<mackerel, objs>>
  BY DEF Fetch, kube
<1>2. RecordedClaims'
  BY <1>1, QuietClaims DEF OwnershipInv, RecordedClaims
<1>3. Claim(cr.status.monitorID, r)
  BY ViewClaims DEF OwnershipInv
<1>4. CASE UNCHANGED <<pc, w>>
  BY <1>1, <1>2, <1>4, QuietInv, IdleClaims DEF Fetch
<1>5. CASE GoOn("resolveHeaders", locals)
           \/ GoOn("removeFinalizer", [locals EXCEPT !.finalizing = TRUE])
  <2>1. pc' \in {"resolveHeaders", "removeFinalizer"} /\ w'.cr = cr /\ w'.key = r
    BY <1>5 DEF GoOn, IdleWorker
  <2>. QED
    BY <1>1, <1>2, <1>3, <2>1, QuietClaims, PlainCallClaims, QuietInv
<1>6. CASE GoOn(FindActual(cr), doomed)
  <2>1. /\ pc' \in {"get", "list"} /\ w'.cr = cr /\ w'.key = r
        /\ w'.desired = DeletionDesired(r, cr.spec)
    BY <1>6, FindActualType DEF GoOn, IdleWorker
  <2>2. w'.desired.resource = r /\ w'.desired.owner = Owner
    BY <2>1, DesiredNames DEF DeletionDesired
  <2>. QED
    BY <1>1, <1>2, <1>3, <2>1, <2>2, QuietClaims, SearchCallClaims, QuietInv
<1>. QED
  BY <1>4, <1>5, <1>6 DEF Fetch

\* Building the desired state.
LEMMA OwnResolveHeaders ==
  ASSUME TypeOK, OwnershipInv, ResolveHeaders
  PROVE  OwnershipInv'
<1>0. pc # "idle" /\ w \in Locals
  BY BusyType DEF ResolveHeaders
<1>1. UNCHANGED <<mackerel, objs>>
  BY DEF ResolveHeaders, kube
<1>2. RecordedClaims' /\ Claim(w.cr.status.monitorID, w.key)
  BY <1>0, <1>1, QuietClaims DEF OwnershipInv, RecordedClaims, WorkerClaims, CarriedClaim
<1>3. CASE \E reason \in {"SecretError", "SecretNotFound", "InvalidSpec"} :
             Report(reason, 0, FALSE)
  <2>1. PICK reason \in {"SecretError", "SecretNotFound", "InvalidSpec"} :
          Report(reason, 0, FALSE)
    BY <1>3
  <2>2. w'.cr = w.cr /\ w'.key = w.key
    BY <1>0, <2>1 DEF Report, GoOn, Locals
  <2>. QED
    BY <1>0, <1>1, <1>2, <2>1, <2>2, QuietClaims, ReportClaims, QuietInv
<1>4. CASE \E values :
             GoOn(IF w.cr.finalizer THEN FindActual(w.cr) ELSE "addFinalizer",
                  [w EXCEPT !.desired = FromExternalMonitor(w.key, w.cr.spec, values),
                            !.fresh = @ /\ ~w.cr.finalizer])
  <2>1. PICK values :
          GoOn(IF w.cr.finalizer THEN FindActual(w.cr) ELSE "addFinalizer",
               [w EXCEPT !.desired = FromExternalMonitor(w.key, w.cr.spec, values),
                         !.fresh = @ /\ ~w.cr.finalizer])
    BY <1>4
  <2>2. /\ pc' \in {"get", "list", "addFinalizer"} /\ w'.cr = w.cr /\ w'.key = w.key
        /\ w'.desired = FromExternalMonitor(w.key, w.cr.spec, values)
    BY <1>0, <2>1, FindActualType DEF GoOn, Locals
  <2>. QED
    BY <1>1, <1>2, <2>2, DesiredNames, QuietClaims, SearchCallClaims, QuietInv
<1>. QED
  BY <1>3, <1>4 DEF ResolveHeaders

\* What a step of a busy worker may rely on.
LEMMA BusyClaims ==
  ASSUME TypeOK, OwnershipInv, pc # "idle"
  PROVE  /\ w \in Locals /\ w.key \in CRs
         /\ Claim(w.cr.status.monitorID, w.key)
         /\ Claim(Api(w.key).status.monitorID, w.key)
         /\ Api(w.key) \in Object
  BY BusyType, ViewClaims, VersionsType DEF OwnershipInv, WorkerClaims, CarriedClaim

\* The versions of r after a write that records no new id.
LEMMA PatchedClaims ==
  ASSUME TypeOK, OwnershipInv, UNCHANGED mackerel, NEW r \in CRs, NEW o \in Object,
         o.status.monitorID = 0 \/ o.status.monitorID = Api(r).status.monitorID,
         objs' \in {objs, [objs EXCEPT ![r] = Append(@, o)],
                    [objs EXCEPT ![r] = Versions(r, o)]}
  PROVE  RecordedClaims'
<1>1. Claim(o.status.monitorID, r)
  BY NoClaim, ViewClaims DEF OwnershipInv
<1>. QED
  BY <1>1, RecordedAppend DEF OwnershipInv

\* The finalizer patch: the CR it hands back has a claim as well.
LEMMA OwnAddFinalizer ==
  ASSUME TypeOK, OwnershipInv, AddFinalizer
  PROVE  OwnershipInv'
<1>. DEFINE patched == [Api(w.key) EXCEPT !.finalizer = TRUE]
<1>0. pc = "addFinalizer" /\ pc # "idle"
  BY DEF AddFinalizer
<1>1. UNCHANGED mackerel
  BY DEF AddFinalizer
<1>2. RecordedClaims'
  <2>1. objs' \in {objs, [objs EXCEPT ![w.key] = Versions(w.key, patched)]}
    BY DEF AddFinalizer
  <2>2. patched \in Object /\ patched.status = Api(w.key).status
    BY <1>0, BusyClaims DEF Object
  <2>. HIDE DEF patched
  <2>. QED
    BY <1>0, <1>1, <2>1, <2>2, BusyClaims, PatchedClaims
<1>3. w.desired.resource = w.key /\ w.desired.owner = Owner
  BY <1>0 DEF OwnershipInv, WorkerClaims, DesiredIsOurs
<1>4. CASE GoOn(FindActual(patched), [w EXCEPT !.cr = patched, !.fresh = FALSE, !.tries = 0])
  <2>1. /\ pc' \in {"get", "list"} /\ w'.cr = patched /\ w'.key = w.key
        /\ w'.desired = w.desired
    BY <1>0, <1>4, BusyClaims, FindActualType DEF GoOn, Locals
  <2>2. w'.cr.status.monitorID = Api(w.key).status.monitorID
    BY <1>0, <2>1, BusyClaims DEF Object
  <2>. QED
    BY <1>0, <1>1, <1>2, <1>3, <2>1, <2>2, BusyClaims, QuietClaims, SearchCallClaims, QuietInv
<1>5. CASE Conflict("rereadToAdd")
  <2>1. \/ pc' = "idle"
        \/ /\ pc' = "rereadToAdd" /\ w'.cr = w.cr /\ w'.key = w.key
           /\ w'.desired = w.desired
    BY <1>0, <1>5, BusyClaims DEF Conflict, Return, GoOn, Locals
  <2>. QED
    BY <1>0, <1>1, <1>2, <1>3, <2>1, BusyClaims, QuietClaims, SearchCallClaims, IdleClaims,
       QuietInv
<1>6. CASE Return(TRUE)
  BY <1>1, <1>2, <1>6, IdleClaims, QuietInv DEF Return
<1>. QED
  BY <1>4, <1>5, <1>6 DEF AddFinalizer

\* See OwnAddFinalizer.
LEMMA OwnRemoveFinalizer ==
  ASSUME TypeOK, OwnershipInv, RemoveFinalizer
  PROVE  OwnershipInv'
<1>. DEFINE patched == IF Api(w.key).deleting THEN Absent
                       ELSE [Api(w.key) EXCEPT !.finalizer = FALSE]
<1>0. pc # "idle"
  BY DEF RemoveFinalizer
<1>1. UNCHANGED mackerel
  BY DEF RemoveFinalizer
<1>2. RecordedClaims'
  <2>1. objs' \in {objs, [objs EXCEPT ![w.key] = Versions(w.key, patched)]}
    BY DEF RemoveFinalizer
  <2>2. Absent \in Object /\ Absent.status.monitorID = 0
    BY IdleWorkerType DEF Absent, NewStatus
  <2>3. /\ [Api(w.key) EXCEPT !.finalizer = FALSE] \in Object
        /\ [Api(w.key) EXCEPT !.finalizer = FALSE].status = Api(w.key).status
    BY <1>0, BusyClaims DEF Object
  <2>4. /\ patched \in Object
        /\ patched.status.monitorID = 0 \/ patched.status.monitorID = Api(w.key).status.monitorID
    BY <2>2, <2>3
  <2>. HIDE DEF patched
  <2>. QED
    BY <1>0, <1>1, <2>1, <2>4, BusyClaims, PatchedClaims
<1>3. \/ pc' = "idle"
      \/ pc' = "rereadToRemove" /\ w'.cr = w.cr /\ w'.key = w.key
  BY <1>0, BusyClaims DEF RemoveFinalizer, Conflict, Return, GoOn, Locals
<1>. QED
  BY <1>0, <1>1, <1>2, <1>3, BusyClaims, QuietClaims, PlainCallClaims, IdleClaims, QuietInv

\* Reading the CR past the cache after a conflict.
LEMMA OwnReread ==
  ASSUME TypeOK, OwnershipInv, Reread
  PROVE  OwnershipInv'
<1>0. pc # "idle"
  BY DEF Reread
<1>1. UNCHANGED <<mackerel, objs>>
  BY DEF Reread, kube
<1>2. RecordedClaims'
  BY <1>1, QuietClaims DEF OwnershipInv, RecordedClaims
<1>3. \/ pc' = "idle"
      \/ /\ pc' = (IF pc = "rereadToAdd" THEN "addFinalizer" ELSE "removeFinalizer")
         /\ w'.cr = Api(w.key) /\ w'.key = w.key /\ w'.desired = w.desired
  BY <1>0, BusyClaims DEF Reread, Return, GoOn, Locals
<1>4. pc = "rereadToAdd" => w.desired.resource = w.key /\ w.desired.owner = Owner
  BY DEF OwnershipInv, WorkerClaims, DesiredIsOurs
<1>. QED
  BY <1>0, <1>1, <1>2, <1>3, <1>4, BusyClaims, QuietClaims, PlainCallClaims, SearchCallClaims,
     IdleClaims, QuietInv

\* findActual's failures claim nothing.
LEMMA FailClaims ==
  ASSUME TypeOK, OwnershipInv, pc # "idle", UNCHANGED mackerel,
         FindActualFails \/ Report("ProviderError", 0, FALSE)
  PROVE  WorkerClaims'
<1>1. CASE Return(TRUE)
  BY <1>1, IdleClaims DEF Return
<1>2. CASE Report("ProviderError", 0, FALSE)
  <2>1. w'.cr = w.cr /\ w'.key = w.key
    BY <1>2, BusyClaims DEF Report, GoOn, Locals
  <2>. QED
    BY <1>2, <2>1, BusyClaims, QuietClaims, ReportClaims
<1>. QED
  BY <1>1, <1>2 DEF FindActualFails

\* The recorded id names the CR's only monitor.
LEMMA OwnGetMonitor ==
  ASSUME TypeOK, OwnershipInv, GetMonitor
  PROVE  OwnershipInv'
<1>. DEFINE id == w.cr.status.monitorID
<1>0. pc = "get" /\ pc # "idle"
  BY DEF GetMonitor
<1>1. UNCHANGED <<mackerel, objs>>
  BY DEF GetMonitor, kube
<1>2. RecordedClaims'
  BY <1>1, QuietClaims DEF OwnershipInv, RecordedClaims
<1>3. CASE id \in DOMAIN store /\ Decide(Actual(id))
  <2>1. Mine(id, w.key)
    BY <1>0, <1>3, BusyClaims DEF Claim
  <2>2. Found(Actual(id))
    BY <1>0, <1>3, <2>1, BusyClaims DEF Found, OwnershipInv, UniqueOwned
  <2>. QED
    BY <1>0, <1>1, <1>2, <1>3, <2>2, DecideClaims, QuietInv DEF OwnershipInv
<1>4. CASE GoOn("list", w)
  <2>1. pc' = "list" /\ w' = w
    BY <1>4 DEF GoOn
  <2>2. w.desired.resource = w.key /\ w.desired.owner = Owner
    BY <1>0 DEF OwnershipInv, WorkerClaims, DesiredIsOurs
  <2>. QED
    BY <1>0, <1>1, <1>2, <2>1, <2>2, BusyClaims, QuietClaims, SearchCallClaims, QuietInv
<1>5. CASE FindActualFails
  BY <1>0, <1>1, <1>2, <1>5, FailClaims, QuietInv
<1>. QED
  BY <1>3, <1>4, <1>5 DEF GetMonitor

\* The scan finds the owned monitor, an unmarked candidate, or nothing.
LEMMA OwnListMonitors ==
  ASSUME TypeOK, OwnershipInv, ListMonitors
  PROVE  OwnershipInv'
<1>. DEFINE matches == NameMatches(w.key, w.desired.name)
            owned   == {i \in DOMAIN store : Mine(i, w.key)}
<1>0. pc = "list" /\ pc # "idle" /\ w.key \in CRs
  BY BusyClaims DEF ListMonitors
<1>1. UNCHANGED <<mackerel, objs>>
  BY DEF ListMonitors, kube
<1>2. RecordedClaims'
  BY <1>1, QuietClaims DEF OwnershipInv, RecordedClaims
<1>3. ASSUME NEW i \in owned, Decide(Actual(i)) PROVE OwnershipInv'
  <2>1. Found(Actual(i))
    BY <1>0, <1>3 DEF Found, OwnershipInv, UniqueOwned
  <2>. QED
    BY <1>0, <1>1, <1>2, <1>3, <2>1, DecideClaims, QuietInv DEF OwnershipInv
<1>4. ASSUME owned = {}, NEW i \in matches, Decide(Actual(i)) PROVE OwnershipInv'
  <2>1. Found(Actual(i))
    BY <1>4 DEF Found, NameMatches
  <2>. QED
    BY <1>0, <1>1, <1>2, <1>4, <2>1, DecideClaims, QuietInv DEF OwnershipInv
<1>5. CASE owned = {} /\ Decide(NilMonitor)
  <2>1. Found(NilMonitor)
    BY <1>5 DEF Found
  <2>. QED
    BY <1>0, <1>1, <1>2, <1>5, <2>1, DecideClaims, QuietInv DEF OwnershipInv
<1>6. CASE FindActualFails
  BY <1>0, <1>1, <1>2, <1>6, FailClaims, QuietInv
<1>. QED
  BY <1>3, <1>4, <1>5, <1>6 DEF ListMonitors

\* The provider's read before the PUT.
LEMMA OwnGetCurrent ==
  ASSUME TypeOK, OwnershipInv, GetCurrent
  PROVE  OwnershipInv'
<1>0. pc = "getCurrent" /\ pc # "idle"
  BY DEF GetCurrent
<1>1. UNCHANGED <<mackerel, objs>>
  BY DEF GetCurrent, kube
<1>2. RecordedClaims'
  BY <1>1, QuietClaims DEF OwnershipInv, RecordedClaims
<1>3. CASE GoOn("put", [w EXCEPT !.base = store[w.actual.id].headers])
  <2>1. /\ pc' = "put" /\ w'.cr = w.cr /\ w'.key = w.key /\ w'.desired = w.desired
        /\ w'.actual = w.actual
    BY <1>0, <1>3, BusyClaims DEF GoOn, Locals
  <2>2. UpdateIsSafe'
    BY <1>0, <1>1, <2>1, QuietClaims DEF OwnershipInv, WorkerClaims, UpdateIsSafe, mackerel
  <2>3. CarriedClaim' /\ DesiredIsOurs'
    BY <1>0, <1>1, <2>1, BusyClaims, QuietClaims
    DEF OwnershipInv, WorkerClaims, CarriedClaim, DesiredIsOurs
  <2>4. WorkerClaims'
    BY <2>1, <2>2, <2>3 DEF WorkerClaims, CreateIsSafe, DeleteIsSafe, ReportIsSafe
  <2>. QED
    BY <1>1, <1>2, <2>4, QuietInv
<1>4. CASE Report("ProviderError", 0, FALSE)
  BY <1>0, <1>1, <1>2, <1>4, FailClaims, QuietInv
<1>. QED
  BY <1>3, <1>4 DEF GetCurrent

\* The status patch records a claim.
LEMMA OwnPatchStatus ==
  ASSUME TypeOK, OwnershipInv, PatchStatus
  PROVE  OwnershipInv'
<1>. DEFINE before == w.cr.status
            after  == Marked(before)
            live   == Api(w.key)
            status == [f \in DOMAIN live.status |->
                         IF after[f] # before[f] THEN after[f] ELSE live.status[f]]
            merged == [live EXCEPT !.status = status]
<1>0. pc = "status" /\ pc # "idle" /\ w.key \in CRs
  BY BusyClaims DEF PatchStatus
<1>1. UNCHANGED mackerel /\ pc' = "idle"
  BY DEF PatchStatus, Return
<1>2. live \in Object /\ live.status \in StatusOK /\ after \in StatusOK /\ before \in StatusOK
  BY <1>0, BusyClaims, MarkedType DEF Object
<1>3. Claim(after.monitorID, w.key)
  <2>1. after.monitorID = (IF w.mark.reason = "Synced" THEN w.mark.id ELSE before.monitorID)
    BY DEF Marked
  <2>. QED
    BY <1>0, <2>1, BusyClaims DEF OwnershipInv, WorkerClaims, ReportIsSafe
<1>4. status.monitorID \in {after.monitorID, live.status.monitorID}
  BY <1>2 DEF StatusOK
<1>5. status \in StatusOK
  BY <1>2, MergedStatusType
<1>6. merged \in Object /\ merged.status = status
  <2>. HIDE DEF status
  <2>. QED
    BY <1>2, <1>5 DEF Object
<1>7. Claim(merged.status.monitorID, w.key)
  <2>. HIDE DEF status, merged
  <2>. QED
    BY <1>0, <1>3, <1>4, <1>6, BusyClaims
<1>8. RecordedClaims'
  <2>1. objs' \in {objs, [objs EXCEPT ![w.key] = Append(@, merged)],
                   [objs EXCEPT ![w.key] = Versions(w.key, merged)]}
    BY DEF PatchStatus
  <2>. HIDE DEF merged
  <2>. QED
    BY <1>0, <1>1, <1>6, <1>7, <2>1, RecordedAppend DEF OwnershipInv
<1>. QED
  BY <1>1, <1>8, IdleClaims, QuietInv

------------------------------------------------------------------------------
\* The worker's writes.  What it writes is the monitor of the CR it works on.
LEMMA MergeIsMine ==
  ASSUME NEW base, NEW memo, w.desired.resource = w.key, w.desired.owner = Owner
  PROVE  \A r : OwnedBy(Merge(base, memo).memo, Owner, r) <=> r = w.key
<1>1. /\ Merge(base, memo).memo.marker.owner = Owner
      /\ Merge(base, memo).memo.marker.resource = w.key
  BY DEF Merge, ApplyMarker, BuildMarker
<1>. QED
  BY <1>1, OwnedByMarker

\* Claims that a change to Mackerel preserves stay on record.
LEMMA KeptClaims ==
  ASSUME RecordedClaims, UNCHANGED objs, \A i, r : Claim(i, r) => Claim(i, r)'
  PROVE  RecordedClaims'
  BY DEF RecordedClaims

\* A creation happens only while the CR owns nothing.
LEMMA OwnCreateMonitor ==
  ASSUME TypeOK, OwnershipInv, CreateMonitor
  PROVE  OwnershipInv'
<1>0. pc = "create" /\ pc # "idle" /\ UNCHANGED objs
  BY DEF CreateMonitor, kube
<1>1. CASE UNCHANGED mackerel /\ Report("ProviderError", 0, FALSE)
  <2>1. RecordedClaims'
    BY <1>0, <1>1, QuietClaims DEF OwnershipInv, RecordedClaims
  <2>. QED
    BY <1>0, <1>1, <2>1, FailClaims, QuietInv
<1>2. CASE /\ store' = [i \in DOMAIN store \cup {nextID} |->
                          IF i = nextID THEN Merge(DefaultHeaders, SpecMemo(w.desired))
                                        ELSE store[i]]
           /\ nextID' = nextID + 1
           /\ Report("Synced", nextID, TRUE) \/ Report("ProviderError", 0, FALSE)
  <2>1. /\ \A i \in DOMAIN store : i \in DOMAIN store' /\ store'[i] = store[i]
        /\ DOMAIN store' = DOMAIN store \cup {nextID}
        /\ store'[nextID] = Merge(DefaultHeaders, SpecMemo(w.desired))
    BY <1>2, StoreIds
  <2>2. \A r : OwnedBy(Merge(DefaultHeaders, SpecMemo(w.desired)).memo, Owner, r) <=> r = w.key
    BY <1>0, MergeIsMine DEF OwnershipInv, WorkerClaims, DesiredIsOurs
  <2>3. \A i, r : Mine(i, r)' <=> (Mine(i, r) \/ (i = nextID /\ r = w.key))
    BY <2>1, <2>2, StoreIds DEF Mine
  <2>4. /\ nextID \in Nat /\ nextID < nextID'
        /\ \A i : i < nextID /\ i \in DOMAIN store' => i \in DOMAIN store
    BY <1>2, <2>1, StoreIds
  <2>5. \A i, r : Claim(i, r) => Claim(i, r)'
    <3>. SUFFICES ASSUME NEW i, NEW r, Claim(i, r) PROVE Claim(i, r)'
      OBVIOUS
    <3>1. i < nextID' 
      BY <1>2, StoreIds DEF Claim
    <3>. QED
      BY <2>3, <2>4, <3>1 DEF Claim
  <2>6. Claim(nextID, w.key) => FALSE
    BY StoreIds DEF Claim
  <2>7. \A i, r : i = nextID /\ r = w.key => Claim(i, r)'
    BY <2>3, <2>4 DEF Claim
  <2>8. UniqueOwned'
    <3>1. \A i \in DOMAIN store : ~Mine(i, w.key)
      BY <1>0 DEF OwnershipInv, WorkerClaims, CreateIsSafe
    <3>2. \A r \in CRs : \A i, j \in DOMAIN store : Mine(i, r) /\ Mine(j, r) => i = j
      BY DEF OwnershipInv, UniqueOwned
    <3>3. ASSUME NEW r \in CRs, NEW i \in DOMAIN store', NEW j \in DOMAIN store',
                 Mine(i, r)', Mine(j, r)'
          PROVE  i = j
      <4>1. /\ Mine(i, r) \/ (i = nextID /\ r = w.key)
            /\ Mine(j, r) \/ (j = nextID /\ r = w.key)
        BY <2>3, <3>3
      <4>2. \A k : Mine(k, r) => k \in DOMAIN store
        BY DEF Mine
      <4>. QED
        BY <3>1, <3>2, <4>1, <4>2
    <3>. QED
      BY <3>3 DEF UniqueOwned
  <2>9. WorkerClaims'
    <3>1. w'.cr = w.cr /\ w'.key = w.key
      BY <1>0, <1>2, BusyClaims DEF Report, GoOn, Locals
    <3>2. Claim(w.cr.status.monitorID, w.key)'
      BY <1>0, <2>5, <3>1, BusyClaims
    <3>. QED
      BY <1>0, <1>2, <2>7, <3>2, ReportClaims
  <2>. QED
    BY <1>0, <2>5, <2>8, <2>9, KeptClaims DEF OwnershipInv
<1>. QED
  BY <1>1, <1>2 DEF CreateMonitor

\* An update keeps, or takes, the only monitor of the CR.
LEMMA OwnPutMonitor ==
  ASSUME TypeOK, OwnershipInv, PutMonitor
  PROVE  OwnershipInv'
<1>. DEFINE id == w.actual.id
<1>0. pc = "put" /\ pc # "idle" /\ UNCHANGED <<objs, nextID>>
  BY DEF PutMonitor, kube
<1>1. CASE UNCHANGED store /\ Report("ProviderError", 0, FALSE)
  <2>1. UNCHANGED mackerel
    BY <1>0, <1>1 DEF mackerel
  <2>2. RecordedClaims'
    BY <1>0, <2>1, QuietClaims DEF OwnershipInv, RecordedClaims
  <2>. QED
    BY <1>0, <1>1, <2>1, <2>2, FailClaims, QuietInv
<1>2. CASE /\ id \in DOMAIN store
           /\ store' = [store EXCEPT ![id] = Merge(w.base, w.actual.memo)]
           /\ Report("Synced", id, TRUE) \/ Report("ProviderError", 0, FALSE)
  <2>1. /\ DOMAIN store' = DOMAIN store
        /\ \A i \in DOMAIN store \ {id} : store'[i] = store[i]
        /\ store'[id] = Merge(w.base, w.actual.memo)
    BY <1>2
  <2>2. \A r : OwnedBy(Merge(w.base, w.actual.memo).memo, Owner, r) <=> r = w.key
    BY <1>0, MergeIsMine DEF OwnershipInv, WorkerClaims, DesiredIsOurs
  <2>3. \A i, r : Mine(i, r)' <=> IF i = id THEN r = w.key ELSE Mine(i, r)
    BY <1>2, <2>1, <2>2 DEF Mine
  <2>4. \A r : Mine(id, r) => r = w.key
    <3>1. store[id].memo.marker.owner = Owner => Mine(id, w.key)
      BY <1>0, <1>2 DEF OwnershipInv, WorkerClaims, UpdateIsSafe
    <3>. QED
      BY <3>1, OwnedByMarker DEF Mine
  <2>5. \A i, r : Claim(i, r) => Claim(i, r)'
    BY <1>0, <2>1, <2>3, <2>4 DEF Claim
  <2>6. \A i, r : i = id /\ r = w.key => Claim(i, r)'
    BY <1>0, <1>2, <2>3, StoreIds DEF Claim
  <2>7. UniqueOwned'
    <3>1. \A i \in DOMAIN store : Mine(i, w.key) => i = id
      BY <1>0 DEF OwnershipInv, WorkerClaims, UpdateIsSafe
    <3>. QED
      BY <2>1, <2>3, <3>1 DEF OwnershipInv, UniqueOwned
  <2>8. WorkerClaims'
    <3>1. w'.cr = w.cr /\ w'.key = w.key
      BY <1>0, <1>2, BusyClaims DEF Report, GoOn, Locals
    <3>2. Claim(w.cr.status.monitorID, w.key)'
      BY <1>0, <2>5, <3>1, BusyClaims
    <3>. QED
      BY <1>0, <1>2, <2>6, <3>2, ReportClaims
  <2>. QED
    BY <1>0, <2>5, <2>7, <2>8, KeptClaims DEF OwnershipInv
<1>. QED
  BY <1>1, <1>2 DEF PutMonitor

\* A deletion takes away the CR's own monitor.
LEMMA OwnDeleteMonitor ==
  ASSUME TypeOK, OwnershipInv, DeleteMonitor
  PROVE  OwnershipInv'
<1>0. pc = "delete" /\ pc # "idle" /\ UNCHANGED <<objs, nextID>>
  BY DEF DeleteMonitor, kube
<1>1. /\ DOMAIN store' \subseteq DOMAIN store
      /\ \A i \in DOMAIN store' : store'[i] = store[i]
  BY DEF DeleteMonitor
<1>2. \A i, r : Mine(i, r)' => Mine(i, r)
  BY <1>1 DEF Mine
<1>3. \A i, r : Claim(i, r) => Claim(i, r)'
  BY <1>0, <1>1 DEF Mine, Claim
<1>4. UniqueOwned'
  BY <1>1, <1>2 DEF OwnershipInv, UniqueOwned
<1>5. \/ pc' = "idle"
      \/ pc' = "removeFinalizer" /\ w'.cr = w.cr /\ w'.key = w.key
  BY <1>0, BusyClaims DEF DeleteMonitor, Return, GoOn, Locals
<1>6. WorkerClaims'
  BY <1>0, <1>3, <1>5, BusyClaims, IdleClaims, PlainCallClaims
<1>. QED
  BY <1>0, <1>3, <1>4, <1>6, KeptClaims DEF OwnershipInv

------------------------------------------------------------------------------
\* The versions left when the cache moves on by one.
LEMMA TailElement ==
  ASSUME NEW S, NEW s \in Seq(S), Len(s) > 1, NEW k \in 1..Len(Tail(s))
  PROVE  k + 1 \in 1..Len(s) /\ Tail(s)[k] = s[k + 1]
  OBVIOUS

\* What wakes the worker up, and the crash.
LEMMA OwnWake ==
  ASSUME TypeOK, OwnershipInv,
         \/ \E r \in CRs : DeliverWatch(r) \/ TimerFires(r)
         \/ \E s \in Secrets : DeliverSecret(s)
         \/ Crash
  PROVE  OwnershipInv'
<1>0. UNCHANGED mackerel
  BY DEF DeliverWatch, TimerFires, DeliverSecret, Crash
<1>1. ASSUME UNCHANGED worker PROVE WorkerClaims'
  BY <1>0, <1>1, QuietClaims
  DEF OwnershipInv, WorkerClaims, CarriedClaim, DesiredIsOurs, CreateIsSafe, UpdateIsSafe,
      DeleteIsSafe, ReportIsSafe, worker, mackerel
<1>2. CASE UNCHANGED <<objs, worker>>
  <2>1. RecordedClaims'
    BY <1>0, <1>2, QuietClaims DEF OwnershipInv, RecordedClaims
  <2>. QED
    BY <1>0, <1>1, <1>2, <2>1, QuietInv
<1>3. ASSUME NEW r \in CRs, DeliverWatch(r) PROVE OwnershipInv'
  <2>1. UNCHANGED worker /\ objs' = [objs EXCEPT ![r] = Tail(@)] /\ Len(objs[r]) > 1
    BY <1>3 DEF DeliverWatch
  <2>2. /\ objs'[r] = Tail(objs[r]) /\ objs[r] \in Seq(Object)
        /\ \A q \in CRs \ {r} : objs'[q] = objs[q]
    BY <2>1, VersionsType DEF TypeOK, ObjsOK
  <2>3. ASSUME NEW k \in 1..Len(objs'[r])
        PROVE  Claim(objs'[r][k].status.monitorID, r)
    <3>1. k + 1 \in 1..Len(objs[r]) /\ objs'[r][k] = objs[r][k + 1]
      BY <2>1, <2>2, TailElement
    <3>. QED
      BY <3>1 DEF OwnershipInv, RecordedClaims
  <2>4. RecordedClaims'
    BY <1>0, <2>2, <2>3, QuietClaims DEF OwnershipInv, RecordedClaims
  <2>. QED
    BY <1>0, <1>1, <2>1, <2>4, QuietInv
<1>4. CASE Crash
  <2>1. pc' = "idle" /\ objs' = [r \in CRs |-> <<Api(r)>>]
    BY <1>4 DEF Crash
  <2>2. \A r \in CRs : \A k \in 1..Len(objs'[r]) : objs'[r][k] = Api(r)
    BY <2>1
  <2>3. RecordedClaims'
    BY <1>0, <2>2, ViewClaims, QuietClaims DEF OwnershipInv, RecordedClaims
  <2>. QED
    BY <1>0, <2>1, <2>3, IdleClaims, QuietInv
<1>. QED
  BY <1>2, <1>3, <1>4 DEF TimerFires, DeliverSecret, kube

\* Users of the Kubernetes API: a write of theirs records no id.
LEMMA OwnUsers ==
  ASSUME TypeOK, OwnershipInv, NEW r \in CRs, CreateCR(r) \/ EditSpec(r) \/ DeleteCR(r)
  PROVE  OwnershipInv'
<1>1. PICK o \in Object :
        /\ UserWrites(r, o)
        /\ o.status.monitorID = 0 \/ o.status.monitorID = Api(r).status.monitorID
  <2>1. \A s \in Specs : NewCR(s) \in Object /\ NewCR(s).status.monitorID = 0
    BY LiteralsAssumption
    DEF LiteralsAssumption, NewCR, Object, NewStatus, StatusOK, NoCond
  <2>2. /\ \A s \in Specs :
             [Api(r) EXCEPT !.spec = s, !.gen = @ + 1].status = Api(r).status
        /\ [Api(r) EXCEPT !.deleting = TRUE, !.gen = @ + 1].status = Api(r).status
    BY VersionsType DEF Object
  <2>3. Absent.status.monitorID = 0
    BY DEF Absent, NewStatus
  <2>4. /\ Absent \in Object
        /\ \A s \in Specs : [Api(r) EXCEPT !.spec = s, !.gen = @ + 1] \in Object
        /\ [Api(r) EXCEPT !.deleting = TRUE, !.gen = @ + 1] \in Object
    BY IdleWorkerType, VersionsType, EditedObjectType, DeletedObjectType
  <2>. QED
    BY <2>1, <2>2, <2>3, <2>4 DEF CreateCR, EditSpec, DeleteCR
<1>2. /\ UNCHANGED <<mackerel, pc>> /\ objs' = [objs EXCEPT ![r] = Append(@, o)]
      /\ w' = [w EXCEPT !.fresh = @ /\ w.key # r]
  BY <1>1 DEF UserWrites
<1>3. RecordedClaims'
  BY <1>1, <1>2, PatchedClaims
<1>4. /\ w'.key = w.key /\ w'.cr = w.cr /\ w'.desired = w.desired /\ w'.actual = w.actual
      /\ w'.mark = w.mark
  BY <1>2 DEF TypeOK, WorkerOK, Locals
<1>5. WorkerClaims'
  BY <1>2, <1>4, QuietClaims
  DEF OwnershipInv, WorkerClaims, CarriedClaim, DesiredIsOurs, CreateIsSafe, UpdateIsSafe,
      DeleteIsSafe, ReportIsSafe, mackerel
<1>. QED
  BY <1>2, <1>3, <1>5, QuietInv

\* A change to Mackerel by somebody else: it may take monitors away and add some, but
\* it neither gives nor (while nobody strips markers) takes away ownership.
LEMMA OwnOthers ==
  ASSUME TypeOK, OwnershipInv, UNCHANGED <<objs, pc, w>>, nextID' \in Nat, nextID <= nextID',
         \A j \in DOMAIN store' :
           \/ /\ j \in DOMAIN store
              /\ \/ store'[j].memo.marker = store[j].memo.marker
                 \/ /\ "adopt" \in Outside /\ ~HasMarker(store[j].memo)
                    /\ store'[j].memo.marker.owner # Owner
           \/ j >= nextID /\ store'[j].memo.marker.owner # Owner
  PROVE  OwnershipInv'
<1>1. \A i : i \in Nat /\ i < nextID /\ i \in DOMAIN store' => i \in DOMAIN store
  BY StoreIds
<1>2. \A i, r : Mine(i, r)' => Mine(i, r)
  BY OwnedByMarker DEF Mine, OwnedBy, HasMarker, ParseMarker
<1>3. \A i, r : Mine(i, r) /\ i \in DOMAIN store' => Mine(i, r)'
  BY StoreIds DEF Mine, OwnedBy, HasMarker, ParseMarker
<1>4. \A i, r : Claim(i, r) => Claim(i, r)'
  <2>. SUFFICES ASSUME NEW i, NEW r, Claim(i, r) PROVE Claim(i, r)'
    OBVIOUS
  <2>1. i \in Nat /\ i < nextID'
    BY StoreIds DEF Claim
  <2>. QED
    BY <1>1, <1>3, <2>1 DEF Claim
<1>5. RecordedClaims'
  BY <1>4, KeptClaims DEF OwnershipInv
<1>6. UniqueOwned'
  <2>1. \A i, r : Mine(i, r)' => Mine(i, r) /\ i \in DOMAIN store
    BY <1>2 DEF Mine
  <2>. QED
    BY <2>1 DEF OwnershipInv, UniqueOwned
<1>7. CarriedClaim' /\ DesiredIsOurs' /\ DeleteIsSafe' /\ ReportIsSafe'
  BY <1>4 DEF OwnershipInv, WorkerClaims, CarriedClaim, DesiredIsOurs, DeleteIsSafe, ReportIsSafe
<1>8. CreateIsSafe'
  <2>1. \A i, r : Mine(i, r)' => Mine(i, r) /\ i \in DOMAIN store
    BY <1>2 DEF Mine
  <2>. QED
    BY <2>1 DEF OwnershipInv, WorkerClaims, CreateIsSafe
<1>9. UpdateIsSafe'
  <2>. SUFFICES ASSUME pc \in {"getCurrent", "put"}
                PROVE  UpdateIsSafe'
    BY DEF UpdateIsSafe
  <2>. DEFINE id == w.actual.id
  <2>1. UpdateIsSafe /\ id \in Nat
    BY BusyType DEF OwnershipInv, WorkerClaims, Locals, ActualOK
  <2>2. id < nextID /\ id < nextID'
    BY <2>1, StoreIds DEF UpdateIsSafe
  <2>3. \A i \in DOMAIN store' : Mine(i, w.key)' => i = id
    BY <1>2, <2>1 DEF UpdateIsSafe, Mine
  <2>4. ASSUME id \in DOMAIN store', store'[id].memo.marker.owner = Owner
        PROVE  Mine(id, w.key)'
    BY <1>1, <1>3, <2>1, <2>2, <2>4, StoreIds DEF UpdateIsSafe
  <2>5. ASSUME "adopt" \notin Outside, id \in DOMAIN store'
        PROVE  ~HasMarker(store'[id].memo) \/ Mine(id, w.key)'
    <3>1. id \in DOMAIN store /\ store'[id].memo.marker = store[id].memo.marker
      BY <1>1, <2>2, <2>5, <2>1, StoreIds
    <3>. QED
      BY <1>3, <2>1, <2>5, <3>1 DEF UpdateIsSafe, HasMarker, ParseMarker
  <2>. QED
    BY <2>2, <2>3, <2>4, <2>5 DEF UpdateIsSafe
<1>. QED
  BY <1>5, <1>6, <1>7, <1>8, <1>9 DEF OwnershipInv, WorkerClaims

\* What people and other operators may do to the marker of an existing monitor.
LEMMA EditedMonitor ==
  ASSUME TypeOK, NEW i \in DOMAIN store, EditMonitor(i)
  PROVE  \E m : /\ SetMonitor(i, m)
               /\ \/ m.memo.marker = store[i].memo.marker
                  \/ "strip" \in Outside /\ m.memo.marker = NoMarker
                  \/ /\ "adopt" \in Outside /\ ~HasMarker(store[i].memo)
                     /\ m.memo.marker.owner # Owner
<1>0. store[i] \in Monitor
  BY StoreIds
<1>1. /\ \A b : [store[i] EXCEPT !.body = b].memo = store[i].memo
      /\ \A n : [store[i] EXCEPT !.name = n].memo = store[i].memo
      /\ \A h : [store[i] EXCEPT !.headers = h].memo = store[i].memo
  BY <1>0 DEF Monitor
<1>2. \A t : [store[i] EXCEPT !.memo.text = t].memo.marker = store[i].memo.marker
  BY <1>0 DEF Monitor, Memo
<1>3. \A k : [store[i] EXCEPT !.memo.marker = k].memo.marker = k
  BY <1>0 DEF Monitor, Memo
<1>4. \A r \in CRs :
        [store[i] EXCEPT !.memo.marker = ForeignMarker(r)].memo.marker.owner # Owner
  BY <1>3, ForeignMarkerType
<1>5. [store[i] EXCEPT !.memo.marker = NoMarker].memo.marker = NoMarker
  BY <1>3
<1>. QED
  BY <1>1, <1>2, <1>4, <1>5 DEF EditMonitor

\* Users and other clients of Mackerel.
LEMMA OwnEnvironment ==
  ASSUME "strip" \notin Outside, TypeOK, OwnershipInv, Environment
  PROVE  OwnershipInv'
<1>1. ASSUME NEW s \in Secrets, SetSecret(s) PROVE OwnershipInv'
  <2>1. UNCHANGED <<objs, mackerel, worker>>
    BY <1>1 DEF SetSecret
  <2>. QED
    BY <2>1, StoreIds, OwnOthers DEF mackerel, worker
<1>2. ASSUME NEW i \in DOMAIN store, EditMonitor(i) PROVE OwnershipInv'
  <2>1. PICK m : /\ SetMonitor(i, m)
                 /\ \/ m.memo.marker = store[i].memo.marker
                    \/ /\ "adopt" \in Outside /\ ~HasMarker(store[i].memo)
                       /\ m.memo.marker.owner # Owner
    BY <1>2, EditedMonitor
  <2>2. /\ UNCHANGED <<kube, nextID, work, worker>>
        /\ store' = [store EXCEPT ![i] = m]
    BY <2>1 DEF SetMonitor
  <2>3. UNCHANGED <<objs, pc, w>> /\ nextID' = nextID
    BY <2>2 DEF kube, worker
  <2>4. /\ DOMAIN store' = DOMAIN store /\ store'[i] = m
        /\ \A j \in DOMAIN store \ {i} : store'[j] = store[j]
    BY <2>2
  <2>. QED
    BY <2>1, <2>3, <2>4, StoreIds, OwnOthers
<1>3. ASSUME NEW i \in DOMAIN store, RemoveMonitor(i) PROVE OwnershipInv'
  <2>1. /\ UNCHANGED <<objs, pc, w>> /\ nextID' = nextID
        /\ \A j \in DOMAIN store' : j \in DOMAIN store /\ store'[j] = store[j]
    BY <1>3 DEF RemoveMonitor, kube, worker
  <2>. QED
    BY <2>1, StoreIds, OwnOthers
<1>4. ASSUME NEW k, k.owner # Owner, NewMonitor(k) PROVE OwnershipInv'
  <2>1. UNCHANGED <<objs, pc, w>> /\ nextID' = nextID + 1
    BY <1>4 DEF NewMonitor, kube, worker
  <2>2. \A j \in DOMAIN store' :
          \/ j \in DOMAIN store /\ store'[j] = store[j]
          \/ j = nextID /\ store'[j].memo.marker = k
    BY <1>4 DEF NewMonitor
  <2>3. nextID' \in Nat /\ nextID <= nextID' /\ nextID >= nextID
    BY <2>1, StoreIds
  <2>. QED
    BY <1>4, <2>1, <2>2, <2>3, OwnOthers
<1>. QED
  BY <1>1, <1>2, <1>3, <1>4, OwnUsers, ForeignMarkerType DEF Environment, AddMonitor

\* Nothing is owned, or recorded, at first.
LEMMA OwnInit == Init => OwnershipInv
<1>. SUFFICES ASSUME Init PROVE OwnershipInv
  OBVIOUS
<1>0. TypeOK
  BY TypeInit
<1>1. \A i, r : ~Mine(i, r)
  <2>1. \A i \in DOMAIN store : store[i].memo.marker.owner # Owner
    <3>1. DOMAIN store = 1..Len(store)
      BY StoresAssumption DEF StoresAssumption, Init
    <3>. QED
      BY <3>1, StoresAssumption DEF StoresAssumption, Init
  <2>. QED
    BY <2>1, OwnedByMarker DEF Mine
<1>2. \A r \in CRs : \A k \in 1..Len(objs[r]) : objs[r][k].status.monitorID = 0
  <2>1. \A r \in CRs : \E o : objs[r] = <<o>> /\ o.status.monitorID = 0
    <3>1. /\ Absent.status.monitorID = 0
          /\ \A x \in Specs : NewCR(x).status.monitorID = 0
      BY DEF Absent, NewCR, NewStatus
    <3>2. \A r \in CRs : objs[r] = <<Absent>> \/ \E x \in Specs : objs[r] = <<NewCR(x)>>
      BY DEF Init
    <3>. QED
      BY <3>1, <3>2
  <2>. QED
    BY <2>1
<1>3. RecordedClaims
  BY <1>0, <1>2, NoClaim DEF RecordedClaims
<1>4. WorkerClaims
  BY DEF Init, WorkerClaims, CarriedClaim, DesiredIsOurs, CreateIsSafe, UpdateIsSafe,
     DeleteIsSafe, ReportIsSafe
<1>. QED
  BY <1>1, <1>3, <1>4 DEF OwnershipInv, UniqueOwned

\* Every step preserves the invariant.
LEMMA OwnNext ==
  ASSUME "strip" \notin Outside
  PROVE  TypeOK /\ OwnershipInv /\ [Next]_vars => OwnershipInv'
<1>. SUFFICES ASSUME TypeOK, OwnershipInv, [Next]_vars PROVE OwnershipInv'
  OBVIOUS
<1>1. CASE \E r \in CRs : Fetch(r)
  BY <1>1, OwnFetch
<1>2. CASE Work
  BY <1>2, OwnResolveHeaders, OwnAddFinalizer, OwnRemoveFinalizer, OwnReread, OwnGetMonitor,
     OwnListMonitors, OwnCreateMonitor, OwnGetCurrent, OwnPutMonitor, OwnDeleteMonitor,
     OwnPatchStatus DEF Work
<1>3. CASE \/ \E r \in CRs : DeliverWatch(r) \/ TimerFires(r)
           \/ \E s \in Secrets : DeliverSecret(s)
           \/ Crash
  BY <1>3, OwnWake
<1>4. CASE Environment
  BY <1>4, OwnEnvironment
<1>5. CASE UNCHANGED vars
  <2>1. UNCHANGED <<objs, pc, w, store, nextID>>
    BY <1>5 DEF vars
  <2>. QED
    BY <2>1, StoreIds, OwnOthers
<1>. QED
  BY <1>1, <1>2, <1>3, <1>4, <1>5 DEF Next

------------------------------------------------------------------------------
\* The inductive invariant holds in every behaviour, however many CRs, calls, faults,
\* crashes and changes by others there are, as long as nobody strips markers.
THEOREM OwnershipInvariant ==
  ASSUME "strip" \notin Outside
  PROVE  Spec => []OwnershipInv
<1>1. TypeOK /\ OwnershipInv /\ [Next]_vars => OwnershipInv'
  BY OwnNext
<1>. QED
  BY <1>1, OwnInit, TypeCorrect, PTL DEF Spec

\* Reconcile never brings about a second monitor with the marker of one CR.
THEOREM OneMonitorPerCR ==
  ASSUME "strip" \notin Outside
  PROVE  Spec => []UniqueOwned
<1>1. OwnershipInv => UniqueOwned
  BY DEF OwnershipInv
<1>. QED
  BY <1>1, OwnershipInvariant, PTL

\* The id in a CR's status never names a monitor of somebody else, although findActual
\* takes that monitor without looking at its marker first.
THEOREM RecordedIdsAreOurs ==
  ASSUME "strip" \notin Outside
  PROVE  Spec => []RecordedMonitorIsOwned
<1>1. OwnershipInv => RecordedMonitorIsOwned
  BY DEF OwnershipInv, RecordedClaims, Claim, RecordedMonitorIsOwned
<1>. QED
  BY <1>1, OwnershipInvariant, PTL

\* As long as nobody else adopts unmarked monitors either (the PUT that adopts one
\* has no precondition), Reconcile neither changes nor removes a monitor that carries another marker.
THEOREM OthersUntouched ==
  ASSUME "strip" \notin Outside, "adopt" \notin Outside
  PROVE  Spec => LeavesOthersAlone
<1>. DEFINE Untouched == WorkerStep =>
              \A i \in DOMAIN store :
                HasMarker(store[i].memo) /\ ~Mine(i, w.key) =>
                  i \in DOMAIN store' /\ store'[i] = store[i]
<1>1. ASSUME TypeOK, OwnershipInv, [Next]_vars PROVE [Untouched]_vars
  <2>1. CASE UNCHANGED store
    BY <2>1
  <2>2. CASE CreateMonitor
    <3>1. \A i \in DOMAIN store : i \in DOMAIN store' /\ store'[i] = store[i]
      BY <1>1, <2>2, StoreIds DEF CreateMonitor, mackerel
    <3>. QED
      BY <3>1
  <2>3. CASE PutMonitor
    <3>1. w.actual.id \in DOMAIN store =>
            ~HasMarker(store[w.actual.id].memo) \/ Mine(w.actual.id, w.key)
      BY <1>1, <2>3 DEF PutMonitor, OwnershipInv, WorkerClaims, UpdateIsSafe
    <3>. QED
      BY <2>3, <3>1 DEF PutMonitor
  <2>4. CASE DeleteMonitor
    <3>1. w.actual.id \in DOMAIN store => Mine(w.actual.id, w.key)
      BY <1>1, <2>4 DEF DeleteMonitor, OwnershipInv, WorkerClaims, DeleteIsSafe, Claim
    <3>. QED
      BY <2>4, <3>1 DEF DeleteMonitor
  <2>5. CASE Environment
    BY <2>5 DEF Environment, CreateCR, EditSpec, DeleteCR, UserWrites, SetSecret, EditMonitor,
       SetMonitor, RemoveMonitor, AddMonitor, NewMonitor, worker, WorkerStep
  <2>. QED
    BY <1>1, <2>1, <2>2, <2>3, <2>4, <2>5
    DEF Next, Work, Fetch, ResolveHeaders, AddFinalizer, RemoveFinalizer, Reread, GetMonitor,
        ListMonitors, GetCurrent, PatchStatus, DeliverWatch, TimerFires, DeliverSecret, Crash,
        mackerel, vars
<1>. QED
  BY <1>1, OwnershipInvariant, TypeCorrect, PTL DEF Spec, LeavesOthersAlone

==============================================================================

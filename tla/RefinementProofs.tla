--------------------------- MODULE RefinementProofs ---------------------------
(***************************************************************************)
(* The controller implements the ownership contract: its initial states    *)
(* are the contract's, and each of its steps is a step of the contract or  *)
(* changes nothing the contract speaks of.                                 *)
(***************************************************************************)
EXTENDS ReleaseProofs, ReconcilerRefinement

\* What the mapping needs of a state.
Mapped == TypeOK /\ OwnershipInv /\ FinalizerInv /\ ReleaseInv

------------------------------------------------------------------------------
(***************************************************************************)
(* Holds and dooms.                                                        *)
(***************************************************************************)

\* A finalizer or a deletion timestamp is on a CR that exists.
LEMMA HeldByFlags ==
  ASSUME TypeOK, FinalizerInv
  PROVE  /\ HeldCRs = {r \in CRs : Api(r).finalizer}
         /\ DoomedCRs = {r \in CRs : Api(r).deleting}
  BY ViewFlags DEF HeldCRs, DoomedCRs, FinalizerInv

\* The same of the next state.
LEMMA HeldByFlagsNext ==
  ASSUME TypeOK', FinalizerInv'
  PROVE  /\ HeldCRs' = {r \in CRs : Api(r).finalizer'}
         /\ DoomedCRs' = {r \in CRs : Api(r).deleting'}
<1>1. \A r \in CRs : Len(objs'[r]) \in 1..Len(objs'[r])
  BY DEF TypeOK, ObjsOK
<1>2. \A r \in CRs : Api(r).deleting' => Api(r).finalizer'
  BY <1>1 DEF FinalizerInv, FlagsOK, Api
<1>3. \A r \in CRs : Api(r).finalizer' => Api(r).exists'
  BY <1>1 DEF FinalizerInv, FlagsOK, Api
<1>. QED
  BY <1>2, <1>3 DEF HeldCRs, DoomedCRs

\* Steps that leave the flags alone.
LEMMA SameHeld ==
  ASSUME TypeOK, FinalizerInv, TypeOK', FinalizerInv', \A r \in CRs : SameFlags(r)
  PROVE  UNCHANGED <<HeldCRs, DoomedCRs>>
  BY HeldByFlags, HeldByFlagsNext DEF SameFlags

------------------------------------------------------------------------------
(***************************************************************************)
(* Claims.                                                                 *)
(***************************************************************************)

\* A claim is the marker of this operator for a CR.
LEMMA ClaimIsMine ==
  ASSUME NEW i \in DOMAIN store, NEW r \in CRs
  PROVE  ClaimOf(i) = r <=> Mine(i, r)
<1>1. r # "free" /\ r # "theirs"
  BY KeysAssumption DEF KeysAssumption
<1>2. Mine(i, r) <=> store[i].memo.marker.owner = Owner /\ store[i].memo.marker.resource = r
  BY OwnedByMarker DEF Mine
<1>3. store[i].memo.marker.owner = Owner => HasMarker(store[i].memo)
  BY ForeignMarkerType DEF HasMarker, ParseMarker
<1>. QED
  BY <1>1, <1>2, <1>3 DEF ClaimOf, ParseMarker

\* What a CR claims.
LEMMA ClaimsAreMine ==
  ASSUME NEW r \in CRs
  PROVE  Contract!Claims(r) = {i \in DOMAIN store : Mine(i, r)}
  BY ClaimIsMine DEF Contract!Claims, MonitorClaims

\* Claims depend on markers only.
LEMMA SameClaims ==
  ASSUME DOMAIN store' = DOMAIN store,
         \A i \in DOMAIN store : store'[i].memo.marker = store[i].memo.marker
  PROVE  UNCHANGED MonitorClaims
<1>1. \A i \in DOMAIN store : ClaimOf(i)' = ClaimOf(i)
  BY DEF ClaimOf, HasMarker, ParseMarker
<1>. QED
  BY <1>1 DEF MonitorClaims

\* One monitor is added, or its marker written.
LEMMA WithClaim ==
  ASSUME NEW i, NEW who, DOMAIN store' = DOMAIN store \cup {i}, ClaimOf(i)' = who,
         \A j \in DOMAIN store \ {i} : store'[j] = store[j]
  PROVE  MonitorClaims' = Contract!With(i, who) /\ i \in Contract!Touched
<1>1. \A j \in DOMAIN store \ {i} : ClaimOf(j)' = ClaimOf(j)
  BY DEF ClaimOf
<1>. QED
  BY <1>1 DEF MonitorClaims, Contract!With, Contract!Touched

\* One monitor is removed.
LEMMA WithoutClaim ==
  ASSUME NEW i \in DOMAIN store, store' = [j \in DOMAIN store \ {i} |-> store[j]]
  PROVE  MonitorClaims' = Contract!Without(i) /\ i \in Contract!Touched
<1>1. DOMAIN store' = DOMAIN store \ {i} /\ \A j \in DOMAIN store' : store'[j] = store[j]
  OBVIOUS
<1>2. \A j \in DOMAIN store \ {i} : ClaimOf(j)' = ClaimOf(j)
  BY <1>1 DEF ClaimOf
<1>. QED
  BY <1>1, <1>2 DEF MonitorClaims, Contract!Without, Contract!Touched

------------------------------------------------------------------------------
(***************************************************************************)
(* Steps that write CRs.                                                   *)
(***************************************************************************)

\* A step that neither the flags nor the markers notice.
LEMMA ThinkStep ==
  ASSUME UNCHANGED <<HeldCRs, DoomedCRs, MonitorClaims>>
  PROVE  [Contract!Next]_(Contract!cvars)
<1>1. CASE pc' # pc
  BY <1>1 DEF Contract!Next, Contract!Operator, Contract!Think
<1>2. CASE pc' = pc
  BY <1>2 DEF Contract!cvars
<1>. QED
  BY <1>1, <1>2

\* The operator holds or releases a CR, or a user dooms it.
LEMMA FlagsRefine ==
  ASSUME Mapped, TypeOK', FinalizerInv', [Next]_vars, UNCHANGED store
  PROVE  [Contract!Next]_(Contract!cvars)
<1>0. UNCHANGED MonitorClaims
  BY SameClaims
<1>1. CASE \A r \in CRs : SameFlags(r)
  BY <1>0, <1>1, SameHeld, ThinkStep DEF Mapped
<1>2. ASSUME NEW k \in CRs, OnlyFlagsOf(k), pc' # pc, Api(k).finalizer',
             Api(k).deleting' = Api(k).deleting
      PROVE  Contract!Operator
  <2>1. HeldCRs' = HeldCRs \cup {k} /\ DoomedCRs' = DoomedCRs
    BY <1>2, HeldByFlags, HeldByFlagsNext DEF Mapped, OnlyFlagsOf, SameFlags
  <2>. QED
    BY <1>0, <1>2, <2>1 DEF Contract!Operator, Contract!Hold
<1>3. ASSUME NEW k \in CRs, OnlyFlagsOf(k), pc = "removeFinalizer", pc' # pc, k = w.key,
             ~Api(k).finalizer', ~Api(k).deleting'
      PROVE  Contract!Operator
  <2>1. HeldCRs' = HeldCRs \ {k} /\ DoomedCRs' = DoomedCRs \ {k}
    BY <1>3, HeldByFlags, HeldByFlagsNext DEF Mapped, OnlyFlagsOf, SameFlags
  <2>2. CASE k \in DoomedCRs
    <3>1. Policy = "sync" => Contract!Claims(k) = {}
      BY <1>3, ClaimsAreMine DEF Mapped, ReleaseInv, NothingLeft
    <3>. QED
      BY <1>0, <1>3, <2>1, <2>2, <3>1 DEF Contract!Operator, Contract!Release
  <2>3. CASE k \notin DoomedCRs
    <3>1. Released(k)
      BY <1>3 DEF Mapped, FinalizerInv, BranchOK, PathOK
    <3>2. k \notin HeldCRs
      BY <2>3, <3>1, ViewFlags, HeldByFlags DEF Mapped, FinalizerInv
    <3>. QED
      BY <1>0, <1>3, <2>1, <2>3, <3>2 DEF Contract!Operator, Contract!Think
  <2>. QED
    BY <2>2, <2>3
<1>4. ASSUME NEW k \in CRs, OnlyFlagsOf(k), pc' = pc,
             Api(k).finalizer, Api(k).finalizer', Api(k).deleting'
      PROVE  Contract!Others
  <2>1. HeldCRs' = HeldCRs /\ DoomedCRs' = DoomedCRs \cup {k} /\ k \in HeldCRs
    BY <1>4, HeldByFlags, HeldByFlagsNext DEF Mapped, OnlyFlagsOf, SameFlags
  <2>. QED
    BY <1>0, <1>4, <2>1 DEF Contract!Others, Contract!Doom
<1>. QED
  BY <1>1, <1>2, <1>3, <1>4, FlagSteps DEF Mapped, Contract!Next

------------------------------------------------------------------------------
(***************************************************************************)
(* Steps that write monitors.                                              *)
(***************************************************************************)

\* Writes to Mackerel leave holds and dooms alone.
LEMMA StoreFlags ==
  ASSUME Mapped, TypeOK', FinalizerInv', UNCHANGED objs
  PROVE  UNCHANGED <<HeldCRs, DoomedCRs>>
  BY QuietFlags, SameHeld DEF Mapped

\* The monitor is the worker's after a merge.
LEMMA MergedClaim ==
  ASSUME Mapped, pc \in {"create", "put"}, NEW i \in DOMAIN store', NEW base, NEW memo,
         store'[i] = Merge(base, memo)
  PROVE  ClaimOf(i)' = w.key
<1>1. w.desired.resource = w.key /\ w.desired.owner = Owner
  BY DEF Mapped, FinalizerInv, DesiredIsOurs
<1>2. /\ store'[i].memo.marker.owner = Owner
      /\ store'[i].memo.marker.resource = w.key
  BY <1>1 DEF Merge, ApplyMarker, BuildMarker
<1>3. HasMarker(store'[i].memo)
  BY <1>2, ForeignMarkerType DEF HasMarker, ParseMarker
<1>. QED
  BY <1>2, <1>3 DEF ClaimOf, ParseMarker

\* A POST that takes effect claims a new monitor, answer or not.
LEMMA CreateRefines ==
  ASSUME Mapped, TypeOK', FinalizerInv', CreateMonitor, store' # store
  PROVE  [Contract!Next]_(Contract!cvars)
<1>0. /\ pc = "create" /\ pc' = "status" /\ w.key \in CRs /\ UNCHANGED objs
      /\ store' = [i \in DOMAIN store \cup {nextID} |->
                    IF i = nextID THEN Merge(DefaultHeaders, SpecMemo(w.desired))
                                  ELSE store[i]]
  BY BusyType DEF Mapped, CreateMonitor, Report, GoOn, kube, mackerel
<1>. PICK k \in CRs : k = w.key
  BY <1>0
<1>. PICK n : n = nextID
  OBVIOUS
<1>1. UNCHANGED <<HeldCRs, DoomedCRs>>
  BY <1>0, StoreFlags
<1>2. /\ DOMAIN store' = DOMAIN store \cup {n} /\ n \notin DOMAIN store
      /\ store'[n] = Merge(DefaultHeaders, SpecMemo(w.desired))
      /\ \A j \in DOMAIN store \ {n} : store'[j] = store[j]
  BY <1>0, StoreIds DEF Mapped
<1>3. ClaimOf(n)' = k
  BY <1>0, <1>2, MergedClaim
<1>4. MonitorClaims' = Contract!With(n, k) /\ n \in Contract!Touched
  BY <1>2, <1>3, WithClaim
<1>5. k \in HeldCRs
  BY <1>0, WriteIsGuarded DEF Mapped, HeldCRs
<1>6. Contract!Claims(k) = {}
  BY <1>0, ClaimsAreMine DEF Mapped, OwnershipInv, WorkerClaims, CreateIsSafe
<1>7. Contract!Claim(n, k)
  BY <1>1, <1>2, <1>4, <1>5, <1>6 DEF Contract!Claim, MonitorClaims
<1>. QED
  BY <1>0, <1>4, <1>7 DEF Contract!Next, Contract!Operator

\* A PUT refreshes the CR's monitor, or adopts one that nobody claims.
LEMMA PutRefines ==
  ASSUME "adopt" \notin Outside, Mapped, TypeOK', FinalizerInv', PutMonitor, store' # store
  PROVE  [Contract!Next]_(Contract!cvars)
<1>. PICK id : id = w.actual.id
  OBVIOUS
<1>0. /\ pc = "put" /\ pc' = "status" /\ w.key \in CRs /\ UNCHANGED objs /\ id \in DOMAIN store
      /\ store' = [store EXCEPT ![id] = Merge(w.base, w.actual.memo)]
  BY BusyType DEF Mapped, PutMonitor, Report, GoOn, kube
<1>. PICK k \in CRs : k = w.key
  BY <1>0
<1>1. UNCHANGED <<HeldCRs, DoomedCRs>>
  BY <1>0, StoreFlags
<1>2. /\ DOMAIN store' = DOMAIN store
      /\ store'[id] = Merge(w.base, w.actual.memo)
      /\ \A j \in DOMAIN store \ {id} : store'[j] = store[j]
  BY <1>0
<1>3. ClaimOf(id)' = k
  BY <1>0, <1>2, MergedClaim
<1>4. /\ \A i \in DOMAIN store : Mine(i, k) => i = id
      /\ ~HasMarker(store[id].memo) \/ Mine(id, k)
  BY <1>0 DEF Mapped, OwnershipInv, WorkerClaims, UpdateIsSafe
<1>5. MonitorClaims' = Contract!With(id, k) /\ id \in Contract!Touched
  BY <1>0, <1>2, <1>3, WithClaim
<1>6. CASE Mine(id, k)
  <2>1. \A i \in DOMAIN store : ClaimOf(i)' = ClaimOf(i)
    <3>1. ClaimOf(id) = k
      BY <1>0, <1>6, ClaimIsMine
    <3>. QED
      BY <1>2, <1>3, <3>1 DEF ClaimOf
  <2>2. UNCHANGED MonitorClaims
    BY <1>2, <2>1 DEF MonitorClaims
  <2>. QED
    BY <1>1, <2>2, ThinkStep
<1>7. CASE ~Mine(id, k)
  <2>1. Contract!Claims(k) = {}
    BY <1>4, <1>7, ClaimsAreMine
  <2>2. id \in DOMAIN MonitorClaims => MonitorClaims[id] = Contract!Free
    BY <1>0, <1>4, <1>7 DEF MonitorClaims, ClaimOf, Contract!Free
  <2>3. k \in HeldCRs
    BY <1>0, WriteIsGuarded DEF Mapped, HeldCRs
  <2>4. Contract!Claim(id, k)
    BY <1>1, <1>5, <2>1, <2>2, <2>3 DEF Contract!Claim
  <2>. QED
    BY <1>0, <1>5, <2>4 DEF Contract!Next, Contract!Operator
<1>. QED
  BY <1>6, <1>7

\* A DELETE removes the monitor of a doomed CR, under policy sync.
LEMMA DeleteRefines ==
  ASSUME Mapped, TypeOK', FinalizerInv', DeleteMonitor, store' # store
  PROVE  [Contract!Next]_(Contract!cvars)
<1>. DEFINE id == w.actual.id
<1>0. /\ pc = "delete" /\ pc' # pc /\ w.key \in CRs /\ UNCHANGED objs
      /\ store' = [i \in DOMAIN store \ {id} |-> store[i]]
  BY BusyType DEF Mapped, DeleteMonitor, Return, GoOn, kube
<1>. PICK k \in CRs : k = w.key
  BY <1>0
<1>. HIDE DEF id
<1>1. UNCHANGED <<HeldCRs, DoomedCRs>>
  BY <1>0, StoreFlags
<1>2. id \in DOMAIN store
  <2>1. store = [i \in DOMAIN store |-> store[i]]
    BY DEF Mapped, TypeOK, StoreOK
  <2>. QED
    BY <1>0, <2>1
<1>3. Mine(id, k) /\ Policy = "sync"
  BY <1>0, <1>2
  DEF Mapped, OwnershipInv, WorkerClaims, DeleteIsSafe, Claim, ReleaseInv, DeleteIsTotal, id
<1>4. k \in DoomedCRs
  <2>1. Released(k)
    BY <1>0 DEF Mapped, FinalizerInv, BranchOK, PathOK
  <2>2. Api(k).exists /\ Api(k).finalizer
    BY <1>2, <1>3 DEF Mapped, ReleaseInv, NoOrphan
  <2>. QED
    BY <2>1, <2>2, ViewFlags DEF Mapped, FinalizerInv, DoomedCRs
<1>5. MonitorClaims' = Contract!Without(id) /\ id \in Contract!Touched
  BY <1>0, <1>2, WithoutClaim
<1>6. id \in Contract!Claims(k)
  BY <1>2, <1>3, ClaimsAreMine
<1>7. Contract!Delete(id, k)
  BY <1>1, <1>3, <1>4, <1>5, <1>6 DEF Contract!Delete
<1>. QED
  BY <1>0, <1>5, <1>7 DEF Contract!Next, Contract!Operator

\* Others' monitors come and go, and nobody touches a marker.
LEMMA OthersRefine ==
  ASSUME "strip" \notin Outside, "adopt" \notin Outside, Mapped, TypeOK', FinalizerInv',
         Environment, store' # store
  PROVE  [Contract!Next]_(Contract!cvars)
<1>1. ASSUME NEW i \in DOMAIN store, EditMonitor(i) PROVE [Contract!Next]_(Contract!cvars)
  <2>1. PICK m : SetMonitor(i, m) /\ m.memo.marker = store[i].memo.marker
    BY <1>1, EditedMonitor DEF Mapped
  <2>2. /\ DOMAIN store' = DOMAIN store /\ UNCHANGED objs
        /\ \A j \in DOMAIN store : store'[j].memo.marker = store[j].memo.marker
    BY <2>1 DEF SetMonitor, kube
  <2>. QED
    BY <2>2, SameClaims, StoreFlags, ThinkStep
<1>2. ASSUME NEW i \in DOMAIN store, RemoveMonitor(i) PROVE Contract!Others
  <2>1. /\ store' = [j \in DOMAIN store \ {i} |-> store[j]]
        /\ UNCHANGED <<objs, pc>>
    BY <1>2 DEF RemoveMonitor, kube, worker
  <2>2. /\ MonitorClaims' = Contract!Without(i) /\ i \in Contract!Touched
        /\ UNCHANGED <<HeldCRs, DoomedCRs>>
    BY <2>1, WithoutClaim, StoreFlags
  <2>3. i \in DOMAIN MonitorClaims
    BY DEF MonitorClaims
  <2>. QED
    BY <2>1, <2>2, <2>3 DEF Contract!Others, Contract!Vanish
<1>3. ASSUME NEW marker, marker = NoMarker \/ \E r \in CRs : marker = ForeignMarker(r),
             NewMonitor(marker)
      PROVE  Contract!Others
  <2>. PICK n : n = nextID
    OBVIOUS
  <2>1. /\ DOMAIN store' = DOMAIN store \cup {n} /\ UNCHANGED <<objs, pc>>
        /\ store'[n].memo.marker = marker
        /\ \A j \in DOMAIN store \ {n} : store'[j] = store[j]
    BY <1>3 DEF NewMonitor, kube, worker
  <2>2. n \notin DOMAIN store
    BY StoreIds DEF Mapped
  <2>3. ClaimOf(n)' \in {Contract!Free, Contract!Theirs}
    BY <1>3, <2>1, ForeignMarkerType
    DEF ClaimOf, HasMarker, ParseMarker, Contract!Free, Contract!Theirs
  <2>4. PICK who \in {Contract!Free, Contract!Theirs} : ClaimOf(n)' = who
    BY <2>3
  <2>5. /\ MonitorClaims' = Contract!With(n, who) /\ n \in Contract!Touched
        /\ UNCHANGED <<HeldCRs, DoomedCRs>>
    BY <2>1, <2>4, WithClaim, StoreFlags
  <2>6. n \notin DOMAIN MonitorClaims
    BY <2>2 DEF MonitorClaims
  <2>7. Contract!Appear(n, who)
    BY <2>5, <2>6 DEF Contract!Appear
  <2>. QED
    BY <2>1, <2>4, <2>5, <2>7 DEF Contract!Others
<1>4. AddMonitor => Contract!Others
  BY <1>3 DEF AddMonitor
<1>. QED
  BY <1>1, <1>2, <1>4
  DEF Contract!Next, Environment, CreateCR, EditSpec, DeleteCR, UserWrites, SetSecret, mackerel

------------------------------------------------------------------------------
\* At first nothing is held and nothing is claimed.
LEMMA ContractInit == Init => Contract!Init
<1>. SUFFICES ASSUME Init PROVE Contract!Init
  OBVIOUS
<1>1. HeldCRs = {} /\ DoomedCRs = {}
  <2>1. TypeOK /\ FinalizerInv
    BY TypeInit, BranchInit
  <2>2. /\ ~Absent.finalizer /\ ~Absent.deleting
        /\ \A x \in Specs : ~NewCR(x).finalizer /\ ~NewCR(x).deleting
    BY DEF Absent, NewCR
  <2>3. \A r \in CRs : ~Api(r).finalizer /\ ~Api(r).deleting
    <3>1. \A r \in CRs : objs[r] = <<Absent>> \/ \E x \in Specs : objs[r] = <<NewCR(x)>>
      BY DEF Init
    <3>2. \A r \in CRs : Api(r) = Absent \/ \E x \in Specs : Api(r) = NewCR(x)
      BY <3>1 DEF Api
    <3>. QED
      BY <2>2, <3>2
  <2>. QED
    BY <2>1, <2>3, HeldByFlags
<1>2. \A i \in DOMAIN store : store[i].memo.marker.owner # Owner
  <2>1. DOMAIN store = 1..Len(store)
    BY StoresAssumption DEF StoresAssumption, Init
  <2>. QED
    BY <2>1, StoresAssumption DEF StoresAssumption, Init
<1>3. \A i \in DOMAIN MonitorClaims : MonitorClaims[i] \in {Contract!Free, Contract!Theirs}
  BY <1>2 DEF MonitorClaims, ClaimOf, ParseMarker, Contract!Free, Contract!Theirs
<1>4. pc = "idle"
  BY DEF Init
<1>. QED
  BY <1>1, <1>3, <1>4 DEF Contract!Init

\* Every step is one the contract allows.
LEMMA ContractNext ==
  ASSUME "strip" \notin Outside, "adopt" \notin Outside
  PROVE  /\ TypeOK /\ OwnershipInv /\ FinalizerInv /\ ReleaseInv /\ [Next]_vars
         => [Contract!Next]_(Contract!cvars)
<1>. SUFFICES ASSUME Mapped, [Next]_vars PROVE [Contract!Next]_(Contract!cvars)
  BY DEF Mapped
<1>0. TypeOK' /\ FinalizerInv'
  BY TypeNext, BranchNext DEF Mapped
<1>1. CASE UNCHANGED store
  BY <1>0, <1>1, FlagsRefine
<1>2. CASE store' # store
  <2>1. CreateMonitor \/ PutMonitor \/ DeleteMonitor \/ Environment
    BY <1>2
    DEF Next, Work, Fetch, ResolveHeaders, AddFinalizer, RemoveFinalizer, Reread, GetMonitor,
        ListMonitors, GetCurrent, PatchStatus, DeliverWatch, TimerFires, DeliverSecret, Crash,
        mackerel, vars
  <2>. QED
    BY <1>0, <1>2, <2>1, CreateRefines, PutRefines, DeleteRefines, OthersRefine
<1>. QED
  BY <1>1, <1>2

------------------------------------------------------------------------------
\* The controller keeps its contract, for every set of CRs, every cache lag, fault, crash
\* and change by users: it claims a monitor only for a CR that it holds and that has no
\* other, deletes only the monitor of a doomed CR, and lets a CR go only after its monitor,
\* where nobody strips or adopts markers and the CRD's validation keeps broken headers out.
THEOREM ControllerKeepsContract ==
  ASSUME "strip" \notin Outside, "adopt" \notin Outside, \A s \in Specs : s.headers # Broken
  PROVE  Spec => KeepsContract
<1>1. /\ TypeOK /\ OwnershipInv /\ FinalizerInv /\ ReleaseInv /\ [Next]_vars
      => [Contract!Next]_(Contract!cvars)
  BY ContractNext
<1>. QED
  BY <1>1, ContractInit, ReleaseInvariant, OwnershipInvariant, FinalizerInvariant, TypeCorrect,
     PTL DEF Spec, KeepsContract, Contract!Spec

==============================================================================

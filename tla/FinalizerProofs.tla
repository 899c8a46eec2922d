--------------------------- MODULE FinalizerProofs ---------------------------
(***************************************************************************)
(* The finalizer is on the CR before a monitor is written, for every set   *)
(* of CRs, every history of deletions and recreations, every lag of the    *)
(* cache and every bound: the proof that FinalizerInv is inductive.        *)
(***************************************************************************)
EXTENDS OwnershipProofs

------------------------------------------------------------------------------
(***************************************************************************)
(* Histories of CRs.                                                       *)
(***************************************************************************)

\* A history that does not change keeps its shape.
LEMMA SameHistory ==
  ASSUME NEW r, objs'[r] = objs[r]
  PROVE  /\ Guarded(r)' <=> Guarded(r)
         /\ Released(r)' <=> Released(r)
         /\ Api(r)' = Api(r)
  BY DEF Guarded, Released, Api

\* The same for all CRs at once.
LEMMA SameHistories ==
  ASSUME UNCHANGED objs
  PROVE  /\ FlagsOK' <=> FlagsOK
         /\ HistoriesOK' <=> HistoriesOK
         /\ \A r : /\ Guarded(r)' <=> Guarded(r)
                   /\ Released(r)' <=> Released(r)
                   /\ Api(r)' = Api(r)
  BY DEF FlagsOK, HistoriesOK, Guarded, Released, Api

\* What the flags of the cached and of the current version say about each other.
LEMMA ViewFlags ==
  ASSUME TypeOK, FlagsOK, NEW r \in CRs
  PROVE  /\ Api(r).deleting => Api(r).finalizer
         /\ Api(r).finalizer => Api(r).exists
         /\ Guarded(r) => (Cache(r).finalizer => Api(r).finalizer)
         /\ Guarded(r) => (Cache(r).deleting => Released(r))
         /\ Released(r) => (Api(r).finalizer => Api(r).deleting)
         /\ Released(r) /\ ~Cache(r).deleting => Guarded(r)
<1>. DEFINE n == Len(objs[r])
<1>1. n \in Nat /\ 1 \in 1..n /\ n \in 1..n /\ 1 <= n /\ \A k \in 1..n : 1 <= k /\ k <= n
  BY VersionsType
<1>2. Api(r) = objs[r][n] /\ Cache(r) = objs[r][1]
  BY DEF Api, Cache
<1>3. \A k \in 1..n : /\ objs[r][k].deleting => objs[r][k].finalizer
                      /\ objs[r][k].finalizer => objs[r][k].exists
  BY DEF FlagsOK
<1>4. ASSUME Guarded(r) PROVE Cache(r).finalizer => Api(r).finalizer
  BY <1>1, <1>2, <1>4 DEF Guarded
<1>5. ASSUME Guarded(r), Cache(r).deleting PROVE Released(r)
  <2>1. \A k \in 1..n : objs[r][k].deleting
    BY <1>1, <1>2, <1>5 DEF Guarded
  <2>. QED
    BY <2>1 DEF Released
<1>6. ASSUME Released(r) PROVE Api(r).finalizer => Api(r).deleting
  BY <1>1, <1>2, <1>6 DEF Released
<1>7. ASSUME Released(r), ~Cache(r).deleting PROVE Guarded(r)
  <2>1. \A k \in 1..n : ~objs[r][k].finalizer
    BY <1>1, <1>2, <1>7 DEF Released
  <2>. QED
    BY <1>3, <2>1 DEF Guarded
<1>. QED
  BY <1>1, <1>2, <1>3, <1>4, <1>5, <1>6, <1>7

\* The API server stores another version o of r.
LEMMA AppendedHistory ==
  ASSUME TypeOK, FlagsOK, NEW r \in CRs, NEW o \in Object,
         o.deleting => o.finalizer, o.finalizer => o.exists,
         objs' \in {[objs EXCEPT ![r] = Append(@, o)], [objs EXCEPT ![r] = Versions(r, o)]}
  PROVE  /\ FlagsOK'
         /\ \A q \in CRs \ {r} : objs'[q] = objs[q]
         /\ Api(r)' = o
         /\ /\ Guarded(r)
            /\ Api(r).finalizer => o.finalizer
            /\ Api(r).deleting => o.deleting
            => Guarded(r)'
         /\ /\ Released(r)
            /\ o.finalizer => Api(r).finalizer /\ o.deleting
            => Released(r)'
<1>. DEFINE n == Len(objs[r])
<1>0. /\ objs[r] \in Seq(Object) /\ n \in Nat /\ n > 0 /\ Api(r) = objs[r][n]
      /\ \A q \in CRs \ {r} : objs'[q] = objs[q]
  BY VersionsType DEF Api, TypeOK, ObjsOK
<1>1. CASE objs'[r] = objs[r] /\ o = Api(r)
  <2>1. \A q \in CRs : objs'[q] = objs[q]
    BY <1>0, <1>1
  <2>. QED
    BY <1>0, <1>1, <2>1, SameHistory DEF FlagsOK
<1>2. CASE objs'[r] = Append(objs[r], o)
  <2>1. /\ Len(objs'[r]) = n + 1 /\ objs'[r][n + 1] = o
        /\ \A k \in 1..n : objs'[r][k] = objs[r][k]
    BY <1>0, <1>2
  <2>2. /\ \A k \in 1..(n + 1) : k \in 1..n \/ k = n + 1
        /\ n \in 1..n /\ \A j \in 1..n : j <= n
        /\ \A k \in 1..n : ~(n + 1 <= k)
    BY <1>0
  <2>3. FlagsOK'
    <3>1. \A k \in 1..Len(objs'[r]) :
            /\ objs'[r][k].deleting => objs'[r][k].finalizer
            /\ objs'[r][k].finalizer => objs'[r][k].exists
      BY <2>1, <2>2 DEF FlagsOK
    <3>. QED
      BY <1>0, <3>1 DEF FlagsOK
  <2>4. Api(r)' = o
    BY <2>1 DEF Api
  <2>5. ASSUME Guarded(r), Api(r).finalizer => o.finalizer, Api(r).deleting => o.deleting
        PROVE  Guarded(r)'
    <3>1. \A j \in 1..n : /\ objs[r][j].finalizer => o.finalizer
                          /\ objs[r][j].deleting => o.deleting
      BY <1>0, <2>2, <2>5 DEF Guarded
    <3>. QED
      BY <2>1, <2>2, <2>5, <3>1 DEF Guarded
  <2>6. ASSUME Released(r), o.finalizer => Api(r).finalizer /\ o.deleting
        PROVE  Released(r)'
    <3>1. o.finalizer => \A j \in 1..n : objs[r][j].deleting
      BY <1>0, <2>2, <2>6 DEF Released
    <3>. QED
      BY <2>1, <2>2, <2>6, <3>1 DEF Released
  <2>. QED
    BY <1>0, <2>3, <2>4, <2>5, <2>6
<1>3. \/ objs'[r] = objs[r] /\ o = Api(r)
      \/ objs'[r] = Append(objs[r], o)
  BY DEF Versions, TypeOK, ObjsOK
<1>. QED
  BY <1>1, <1>2, <1>3

\* See TailElement.
LEMMA TailLength ==
  ASSUME NEW S, NEW s \in Seq(S), Len(s) > 1
  PROVE  Len(s) \in Nat /\ Len(Tail(s)) = Len(s) - 1
  OBVIOUS

\* The cache moves on by one version.
LEMMA AdvancedHistory ==
  ASSUME TypeOK, FlagsOK, NEW r \in CRs, Len(objs[r]) > 1, objs' = [objs EXCEPT ![r] = Tail(@)]
  PROVE  /\ FlagsOK'
         /\ \A q \in CRs \ {r} : objs'[q] = objs[q]
         /\ Api(r)' = Api(r)
         /\ Guarded(r) => Guarded(r)'
         /\ Released(r) => Released(r)'
<1>0. /\ objs[r] \in Seq(Object) /\ objs'[r] = Tail(objs[r])
      /\ \A q \in CRs \ {r} : objs'[q] = objs[q]
  BY VersionsType DEF TypeOK, ObjsOK
<1>1. ASSUME NEW k \in 1..Len(objs'[r])
      PROVE  k + 1 \in 1..Len(objs[r]) /\ objs'[r][k] = objs[r][k + 1]
  BY <1>0, TailElement
<1>2. Api(r)' = Api(r)
  <2>1. Len(objs[r]) \in Nat /\ Len(objs'[r]) = Len(objs[r]) - 1
    BY <1>0, TailLength
  <2>2. /\ Len(objs'[r]) \in 1..Len(objs'[r])
        /\ Len(objs'[r]) + 1 = Len(objs[r])
    BY <2>1
  <2>3. objs'[r][Len(objs'[r])] = objs[r][Len(objs'[r]) + 1]
    BY <1>1, <2>2
  <2>. QED
    BY <2>2, <2>3 DEF Api
<1>3. Guarded(r) => Guarded(r)'
  <2>1. \A j, k \in 1..Len(objs'[r]) : j <= k => j + 1 <= k + 1
    OBVIOUS
  <2>. QED
    BY <1>1, <2>1 DEF Guarded
<1>4. Released(r) => Released(r)'
  <2>1. \A j, k \in 1..Len(objs'[r]) : j <= k => j + 1 <= k + 1
    OBVIOUS
  <2>. QED
    BY <1>1, <2>1 DEF Released
<1>5. FlagsOK'
  BY <1>0, <1>1 DEF FlagsOK
<1>. QED
  BY <1>0, <1>2, <1>3, <1>4, <1>5

\* After a crash the cache is listed afresh.
LEMMA ListedHistory ==
  ASSUME TypeOK, FlagsOK, objs' = [r \in CRs |-> <<Api(r)>>]
  PROVE  FlagsOK' /\ HistoriesOK'
<1>1. \A r \in CRs : /\ Len(objs'[r]) = 1
                    /\ \A k \in 1..Len(objs'[r]) : k = 1 /\ objs'[r][k] = Api(r)
  OBVIOUS
<1>2. FlagsOK'
  BY <1>1, ViewFlags DEF FlagsOK
<1>3. HistoriesOK'
  BY <1>1 DEF HistoriesOK, Guarded
<1>. QED
  BY <1>2, <1>3

------------------------------------------------------------------------------
(***************************************************************************)
(* How a step of the worker ends.                                          *)
(***************************************************************************)

\* A worker at rest relies on nothing.
LEMMA RestsBranch ==
  ASSUME FlagsOK', HistoriesOK', pc' = "idle"
  PROVE  FinalizerInv'
  BY DEF FinalizerInv, BranchOK, PathOK, FreshIsCurrent, SeenFinalizerStays, FinalizerSeen,
     DesiredIsOurs

\* A call that leaves the API server alone and hands on what the worker knows of its CR.
LEMMA GoesOnBranch ==
  ASSUME FinalizerInv, pc # "idle", pc' # "idle", UNCHANGED objs,
         w'.key = w.key, w'.finalizing = w.finalizing, w'.cr = w.cr, w'.fresh => w.fresh,
         PathOK', FinalizerSeen', DesiredIsOurs'
  PROVE  FinalizerInv'
<1>1. FlagsOK' /\ HistoriesOK'
  BY SameHistories DEF FinalizerInv
<1>2. Api(w.key)' = Api(w.key)
  BY DEF Api
<1>3. BranchOK'
  BY DEF FinalizerInv, BranchOK, Guarded, Released
<1>4. FreshIsCurrent' /\ SeenFinalizerStays'
  BY <1>2 DEF FinalizerInv, FreshIsCurrent, SeenFinalizerStays
<1>. QED
  BY <1>1, <1>3, <1>4 DEF FinalizerInv

\* A step that ends Reconcile without a write to the API server.
LEMMA ReturnsBranch ==
  ASSUME FinalizerInv, pc' = "idle", UNCHANGED objs
  PROVE  FinalizerInv'
  BY SameHistories, RestsBranch DEF FinalizerInv

\* Going on to report: only Reconciles of CRs that are not being deleted do.
LEMMA ReportsBranch ==
  ASSUME TypeOK, FinalizerInv, pc # "idle", UNCHANGED objs, ~w.finalizing,
         NEW reason, NEW id, NEW applied, Report(reason, id, applied)
  PROVE  FinalizerInv'
<1>1. /\ pc' = "status" /\ w'.key = w.key /\ w'.finalizing = w.finalizing /\ w'.cr = w.cr
      /\ ~w'.fresh
  BY BusyType DEF Report, GoOn, Locals
<1>2. PathOK' /\ FinalizerSeen' /\ DesiredIsOurs'
  BY <1>1 DEF PathOK, FinalizerSeen, DesiredIsOurs
<1>. QED
  BY <1>1, <1>2, GoesOnBranch

\* Whatever the planner decides, the branch is kept.
LEMMA DecidesBranch ==
  ASSUME TypeOK, FinalizerInv, pc \in {"get", "list"}, UNCHANGED objs, NEW a, Decide(a)
  PROVE  FinalizerInv'
<1>0. /\ pc # "idle" /\ w \in Locals /\ (w.finalizing \/ w.cr.finalizer)
      /\ w.desired.resource = w.key /\ w.desired.owner = Owner
  BY BusyType DEF FinalizerInv, FinalizerSeen, DesiredIsOurs
<1>1. CASE ~w.finalizing /\ \E reason, id, applied : Report(reason, id, applied)
  BY <1>0, <1>1, ReportsBranch
<1>2. ASSUME w'.key = w.key, w'.finalizing = w.finalizing, w'.cr = w.cr, w'.fresh = w.fresh,
             \/ pc' = "delete" /\ w.finalizing /\ w'.desired = w.desired
             \/ pc' = "removeFinalizer" /\ w.finalizing
             \/ pc' \in {"create", "getCurrent"} /\ ~w.finalizing /\ w'.desired = w.desired
      PROVE  FinalizerInv'
  <2>1. PathOK' /\ FinalizerSeen' /\ DesiredIsOurs'
    BY <1>0, <1>2 DEF PathOK, FinalizerSeen, DesiredIsOurs
  <2>. QED
    BY <1>0, <1>2, <2>1, GoesOnBranch
<1>3. CASE w.finalizing /\ GoOn("delete", [w EXCEPT !.actual = a])
  <2>1. /\ pc' = "delete" /\ w'.key = w.key /\ w'.finalizing = w.finalizing /\ w'.cr = w.cr
        /\ w'.fresh = w.fresh /\ w'.desired = w.desired
    BY <1>0, <1>3 DEF GoOn, Locals
  <2>. QED
    BY <1>2, <1>3, <2>1
<1>4. CASE w.finalizing /\ GoOn("removeFinalizer", [w EXCEPT !.desired = NoDesired])
  <2>1. /\ pc' = "removeFinalizer" /\ w'.key = w.key /\ w'.finalizing = w.finalizing /\ w'.cr = w.cr
        /\ w'.fresh = w.fresh
    BY <1>0, <1>4 DEF GoOn, Locals
  <2>. QED
    BY <1>2, <1>4, <2>1
<1>5. CASE ~w.finalizing /\ GoOn("create", w)
  BY <1>0, <1>2, <1>5 DEF GoOn
<1>6. CASE ~w.finalizing /\ GoOn("getCurrent", [w EXCEPT !.actual = a])
  <2>1. /\ pc' = "getCurrent" /\ w'.key = w.key /\ w'.finalizing = w.finalizing /\ w'.cr = w.cr
        /\ w'.fresh = w.fresh /\ w'.desired = w.desired
    BY <1>0, <1>6 DEF GoOn, Locals
  <2>. QED
    BY <1>2, <1>6, <2>1
<1>. QED
  BY <1>1, <1>3, <1>4, <1>5, <1>6 DEF Decide

\* findActual fails.
LEMMA FailsBranch ==
  ASSUME TypeOK, FinalizerInv, pc # "idle", UNCHANGED objs, FindActualFails
  PROVE  FinalizerInv'
  BY ReturnsBranch, ReportsBranch DEF FindActualFails, Return

\* A lost patch: try again or give up.
LEMMA ConflictsBranch ==
  ASSUME TypeOK, FinalizerInv, UNCHANGED objs,
         \/ pc = "addFinalizer" /\ Conflict("rereadToAdd")
         \/ pc = "removeFinalizer" /\ Conflict("rereadToRemove")
  PROVE  FinalizerInv'
<1>0. pc # "idle" /\ w \in Locals
  BY BusyType
<1>1. CASE Return(TRUE)
  BY <1>1, ReturnsBranch DEF Return
<1>2. CASE \/ pc = "addFinalizer" /\ GoOn("rereadToAdd", [w EXCEPT !.tries = @ + 1])
           \/ pc = "removeFinalizer" /\ GoOn("rereadToRemove", [w EXCEPT !.tries = @ + 1])
  <2>1. /\ w'.key = w.key /\ w'.finalizing = w.finalizing /\ w'.cr = w.cr /\ w'.fresh = w.fresh
        /\ w'.desired = w.desired
        /\ \/ pc = "addFinalizer" /\ pc' = "rereadToAdd"
           \/ pc = "removeFinalizer" /\ pc' = "rereadToRemove"
    BY <1>0, <1>2 DEF GoOn, Locals
  <2>2. PathOK' /\ FinalizerSeen' /\ DesiredIsOurs'
    BY <2>1 DEF FinalizerInv, PathOK, FinalizerSeen, DesiredIsOurs
  <2>. QED
    BY <1>0, <2>1, <2>2, GoesOnBranch
<1>. QED
  BY <1>1, <1>2 DEF Conflict

------------------------------------------------------------------------------
(***************************************************************************)
(* Reconcile, remote call by remote call.                                  *)
(***************************************************************************)

\* The branch is chosen by the cached version, which may be old: by HistoriesOK it is
\* the right one all the same.
LEMMA BranchFetch ==
  ASSUME TypeOK, FinalizerInv, NEW r \in CRs, Fetch(r)
  PROVE  FinalizerInv'
<1>. DEFINE cr     == Cache(r)
            locals == [IdleWorker EXCEPT !.key = r, !.cr = cr, !.fresh = Len(objs[r]) = 1]
            doomed == [locals EXCEPT !.finalizing = TRUE,
                                     !.desired = DeletionDesired(r, cr.spec)]
<1>1. UNCHANGED objs /\ pc = "idle"
  BY DEF Fetch, kube
<1>2. FlagsOK' /\ HistoriesOK' /\ Api(r)' = Api(r)
  BY <1>1, SameHistories DEF FinalizerInv
<1>3. Len(objs[r]) = 1 => cr = Api(r)
  BY DEF Cache, Api
<1>4. CASE UNCHANGED pc
  BY <1>1, <1>2, <1>4, RestsBranch
<1>5. CASE cr.exists /\ ~cr.deleting /\ GoOn("resolveHeaders", locals)
  <2>1. /\ pc' = "resolveHeaders" /\ w'.key = r /\ w'.cr = cr /\ ~w'.finalizing
        /\ w'.fresh = (Len(objs[r]) = 1)
    BY <1>5 DEF GoOn, IdleWorker
  <2>2. Guarded(r)
    BY <1>5, ViewFlags DEF FinalizerInv, HistoriesOK
  <2>3. BranchOK'
    BY <1>1, <2>1, <2>2, SameHistories DEF BranchOK, Guarded
  <2>4. FreshIsCurrent'
    BY <1>2, <1>3, <1>5, <2>1 DEF FreshIsCurrent, Api
  <2>5. SeenFinalizerStays'
    <3>1. cr.finalizer => Api(r).finalizer
      BY <2>2, ViewFlags DEF FinalizerInv
    <3>. QED
      BY <1>2, <2>1, <3>1 DEF SeenFinalizerStays, Api
  <2>. QED
    BY <1>2, <2>1, <2>3, <2>4, <2>5
    DEF FinalizerInv, PathOK, FinalizerSeen, DesiredIsOurs
<1>6. ASSUME cr.exists, cr.deleting, w'.key = r, w'.cr = cr, w'.finalizing,
             w'.fresh = (Len(objs[r]) = 1),
             \/ pc' = "removeFinalizer"
             \/ /\ pc' \in {"get", "list"}
                /\ w'.desired.resource = r /\ w'.desired.owner = Owner
      PROVE  FinalizerInv'
  <2>1. Released(r)
    BY <1>6, ViewFlags DEF FinalizerInv, HistoriesOK
  <2>2. BranchOK'
    BY <1>1, <1>6, <2>1 DEF BranchOK, Released
  <2>3. FreshIsCurrent'
    BY <1>2, <1>3, <1>6 DEF FreshIsCurrent, Api
  <2>4. SeenFinalizerStays' /\ PathOK' /\ FinalizerSeen' /\ DesiredIsOurs'
    BY <1>6 DEF SeenFinalizerStays, PathOK, FinalizerSeen, DesiredIsOurs
  <2>. QED
    BY <1>2, <2>2, <2>3, <2>4 DEF FinalizerInv
<1>7. CASE /\ cr.exists /\ cr.deleting
           /\ GoOn("removeFinalizer", [locals EXCEPT !.finalizing = TRUE])
  BY <1>6, <1>7 DEF GoOn, IdleWorker
<1>8. CASE cr.exists /\ cr.deleting /\ GoOn(FindActual(cr), doomed)
  <2>1. /\ pc' \in {"get", "list"} /\ w'.cr = cr /\ w'.key = r /\ w'.finalizing
        /\ w'.fresh = (Len(objs[r]) = 1) /\ w'.desired = DeletionDesired(r, cr.spec)
    BY <1>8, FindActualType DEF GoOn, IdleWorker
  <2>2. w'.desired.resource = r /\ w'.desired.owner = Owner
    BY <2>1, DesiredNames DEF DeletionDesired
  <2>. QED
    BY <1>6, <1>8, <2>1, <2>2
<1>. QED
  BY <1>4, <1>5, <1>7, <1>8 DEF Fetch

\* Only a CR whose finalizer was seen skips the patch.
LEMMA BranchResolveHeaders ==
  ASSUME TypeOK, FinalizerInv, ResolveHeaders
  PROVE  FinalizerInv'
<1>0. pc = "resolveHeaders" /\ pc # "idle" /\ w \in Locals /\ ~w.finalizing
  BY BusyType DEF ResolveHeaders, FinalizerInv, PathOK
<1>1. UNCHANGED objs
  BY DEF ResolveHeaders, kube
<1>2. CASE \E reason : Report(reason, 0, FALSE)
  BY <1>0, <1>1, <1>2, ReportsBranch
<1>3. ASSUME NEW values,
             GoOn(IF w.cr.finalizer THEN FindActual(w.cr) ELSE "addFinalizer",
                  [w EXCEPT !.desired = FromExternalMonitor(w.key, w.cr.spec, values),
                            !.fresh = @ /\ ~w.cr.finalizer])
      PROVE  FinalizerInv'
  <2>1. /\ IF w.cr.finalizer THEN pc' \in {"get", "list"} ELSE pc' = "addFinalizer"
        /\ w'.cr = w.cr /\ w'.key = w.key /\ w'.finalizing = w.finalizing
        /\ w'.fresh => w.fresh
        /\ w'.desired = FromExternalMonitor(w.key, w.cr.spec, values)
    BY <1>0, <1>3, FindActualType DEF GoOn, Locals
  <2>2. PathOK' /\ FinalizerSeen' /\ DesiredIsOurs'
    BY <1>0, <2>1, DesiredNames DEF PathOK, FinalizerSeen, DesiredIsOurs
  <2>. QED
    BY <1>0, <1>1, <2>1, <2>2, GoesOnBranch
<1>. QED
  BY <1>2, <1>3 DEF ResolveHeaders

\* The finalizer goes onto the version the worker holds: a CR, and one whose history
\* knows of no finalizer that was taken away.
LEMMA BranchAddFinalizer ==
  ASSUME TypeOK, FinalizerInv, AddFinalizer
  PROVE  FinalizerInv'
<1>. DEFINE patched == [Api(w.key) EXCEPT !.finalizer = TRUE]
<1>0. /\ pc = "addFinalizer" /\ pc # "idle" /\ w \in Locals /\ ~w.finalizing /\ w.key \in CRs
      /\ Guarded(w.key) /\ w.desired.resource = w.key /\ w.desired.owner = Owner
  BY BusyType DEF AddFinalizer, FinalizerInv, PathOK, BranchOK, DesiredIsOurs
<1>. PICK r \in CRs : r = w.key
  BY <1>0
<1>1. ASSUME w.fresh, objs' = [objs EXCEPT ![r] = Versions(r, patched)]
      PROVE  FlagsOK' /\ HistoriesOK' /\ Guarded(r)' /\ Api(r)' = patched
  <2>1. Api(w.key) \in Object /\ Api(w.key).exists
    BY <1>0, <1>1, VersionsType DEF FinalizerInv, FreshIsCurrent
  <2>2. /\ patched \in Object /\ patched.finalizer /\ patched.exists
        /\ patched.deleting = Api(w.key).deleting
    BY <2>1 DEF Object
  <2>. HIDE DEF patched
  <2>3. /\ FlagsOK' /\ \A q \in CRs \ {r} : objs'[q] = objs[q]
        /\ Api(r)' = patched /\ Guarded(r)'
    BY <1>0, <1>1, <2>2, AppendedHistory DEF FinalizerInv
  <2>4. HistoriesOK'
    BY <2>3, SameHistory DEF FinalizerInv, HistoriesOK
  <2>. QED
    BY <2>3, <2>4
<1>2. CASE /\ w.fresh
           /\ objs' = [objs EXCEPT ![w.key] = Versions(w.key, patched)]
           /\ GoOn(FindActual(patched), [w EXCEPT !.cr = patched, !.fresh = FALSE, !.tries = 0])
  <2>1. /\ pc' \in {"get", "list"} /\ w'.cr = patched /\ w'.key = w.key /\ ~w'.finalizing
        /\ ~w'.fresh /\ w'.desired = w.desired
    BY <1>0, <1>2, FindActualType DEF GoOn, Locals
  <2>2. patched.finalizer
    BY <1>0, VersionsType DEF Object
  <2>3. BranchOK'
    BY <1>1, <1>2, <2>1 DEF BranchOK, Guarded
  <2>4. SeenFinalizerStays'
    BY <1>1, <1>2, <2>1, <2>2 DEF SeenFinalizerStays, Api
  <2>. HIDE DEF patched
  <2>. QED
    BY <1>0, <1>1, <1>2, <2>1, <2>2, <2>3, <2>4
    DEF FinalizerInv, PathOK, FreshIsCurrent, FinalizerSeen, DesiredIsOurs
<1>3. CASE UNCHANGED objs /\ (Conflict("rereadToAdd") \/ Return(TRUE))
  BY <1>0, <1>3, ConflictsBranch, ReturnsBranch DEF Return
<1>4. CASE w.fresh /\ Return(TRUE) /\ objs' = [objs EXCEPT ![w.key] = Versions(w.key, patched)]
  BY <1>1, <1>4, RestsBranch DEF Return
<1>. QED
  BY <1>2, <1>3, <1>4 DEF AddFinalizer

\* The finalizer goes from a CR that is being deleted, and from no other: where the CR was
\* recreated there is none.
LEMMA BranchRemoveFinalizer ==
  ASSUME TypeOK, FinalizerInv, RemoveFinalizer
  PROVE  FinalizerInv'
<1>. DEFINE patched == IF Api(w.key).deleting THEN Absent
                       ELSE [Api(w.key) EXCEPT !.finalizer = FALSE]
<1>0. /\ pc = "removeFinalizer" /\ pc # "idle" /\ w \in Locals /\ w.key \in CRs
      /\ Released(w.key)
  BY BusyType DEF RemoveFinalizer, FinalizerInv, PathOK, BranchOK
<1>. PICK r \in CRs : r = w.key
  BY <1>0
<1>1. ASSUME objs' = [objs EXCEPT ![r] = Versions(r, patched)]
      PROVE  FlagsOK' /\ HistoriesOK'
  <2>1. Api(w.key) \in Object
    BY <1>0, VersionsType
  <2>2. Absent \in Object /\ ~Absent.finalizer /\ ~Absent.deleting
    BY IdleWorkerType DEF Absent
  <2>3. patched \in Object /\ ~patched.finalizer /\ ~patched.deleting
    BY <2>1, <2>2 DEF Object
  <2>. HIDE DEF patched
  <2>4. FlagsOK' /\ Released(r)' /\ \A q \in CRs \ {r} : objs'[q] = objs[q]
    BY <1>0, <1>1, <2>3, AppendedHistory DEF FinalizerInv
  <2>. QED
    BY <2>4, SameHistory DEF FinalizerInv, HistoriesOK
<1>2. CASE objs' = [objs EXCEPT ![w.key] = Versions(w.key, patched)] /\ pc' = "idle"
  BY <1>1, <1>2, RestsBranch
<1>3. CASE UNCHANGED objs /\ (Conflict("rereadToRemove") \/ pc' = "idle")
  BY <1>0, <1>3, ConflictsBranch, ReturnsBranch
<1>. QED
  BY <1>2, <1>3 DEF RemoveFinalizer, Return

\* Reading the CR past the cache makes the version the worker holds the current one.
LEMMA BranchReread ==
  ASSUME TypeOK, FinalizerInv, Reread
  PROVE  FinalizerInv'
<1>0. pc \in {"rereadToAdd", "rereadToRemove"} /\ pc # "idle" /\ w \in Locals /\ w.key \in CRs
  BY BusyType DEF Reread
<1>1. UNCHANGED objs
  BY DEF Reread, kube
<1>. PICK r \in CRs : r = w.key
  BY <1>0
<1>2. CASE pc' = "idle"
  BY <1>1, <1>2, ReturnsBranch
<1>3. CASE /\ Api(w.key).exists
           /\ GoOn(IF pc = "rereadToAdd" THEN "addFinalizer" ELSE "removeFinalizer",
                   [w EXCEPT !.cr = Api(w.key), !.fresh = TRUE])
  <2>1. /\ w'.key = r /\ w'.cr = Api(r) /\ w'.finalizing = w.finalizing
        /\ w'.desired = w.desired
        /\ \/ pc = "rereadToAdd" /\ pc' = "addFinalizer"
           \/ pc = "rereadToRemove" /\ pc' = "removeFinalizer"
    BY <1>0, <1>3 DEF GoOn, Locals
  <2>2. Api(r)' = Api(r) /\ FlagsOK' /\ HistoriesOK'
    BY <1>1, SameHistories DEF FinalizerInv
  <2>3. BranchOK'
    BY <1>0, <1>1, <2>1 DEF FinalizerInv, BranchOK, Guarded, Released
  <2>4. FreshIsCurrent' /\ SeenFinalizerStays'
    BY <1>3, <2>1, <2>2 DEF FreshIsCurrent, SeenFinalizerStays, Api
  <2>5. PathOK' /\ FinalizerSeen' /\ DesiredIsOurs'
    BY <2>1 DEF FinalizerInv, PathOK, FinalizerSeen, DesiredIsOurs
  <2>. QED
    BY <2>2, <2>3, <2>4, <2>5 DEF FinalizerInv
<1>. QED
  BY <1>2, <1>3 DEF Reread, Return

\* findActual and the planner.
LEMMA BranchFindActual ==
  ASSUME TypeOK, FinalizerInv, GetMonitor \/ ListMonitors
  PROVE  FinalizerInv'
<1>0. pc \in {"get", "list"} /\ pc # "idle" /\ w \in Locals
  BY BusyType DEF GetMonitor, ListMonitors
<1>1. UNCHANGED objs
  BY DEF GetMonitor, ListMonitors, kube
<1>2. CASE \E a : Decide(a)
  BY <1>0, <1>1, <1>2, DecidesBranch
<1>3. CASE FindActualFails
  BY <1>0, <1>1, <1>3, FailsBranch
<1>4. CASE GoOn("list", w)
  <2>1. pc' = "list" /\ w' = w
    BY <1>4 DEF GoOn
  <2>2. PathOK' /\ FinalizerSeen' /\ DesiredIsOurs'
    BY <1>0, <2>1 DEF FinalizerInv, PathOK, FinalizerSeen, DesiredIsOurs
  <2>. QED
    BY <1>0, <1>1, <2>1, <2>2, GoesOnBranch
<1>. QED
  BY <1>2, <1>3, <1>4 DEF GetMonitor, ListMonitors

\* The calls to Mackerel that follow.
LEMMA BranchMackerel ==
  ASSUME TypeOK, FinalizerInv, CreateMonitor \/ GetCurrent \/ PutMonitor \/ DeleteMonitor
  PROVE  FinalizerInv'
<1>0. pc \in {"create", "getCurrent", "put", "delete"} /\ pc # "idle" /\ w \in Locals
  BY BusyType DEF CreateMonitor, GetCurrent, PutMonitor, DeleteMonitor
<1>1. UNCHANGED objs
  BY DEF CreateMonitor, GetCurrent, PutMonitor, DeleteMonitor, kube
<1>2. CASE /\ pc \in {"create", "getCurrent", "put"}
           /\ \E reason, id, applied : Report(reason, id, applied)
  <2>1. ~w.finalizing
    BY <1>2 DEF FinalizerInv, PathOK
  <2>. QED
    BY <1>0, <1>1, <1>2, <2>1, ReportsBranch
<1>3. CASE pc' = "idle"
  BY <1>1, <1>3, ReturnsBranch
<1>4. CASE pc = "getCurrent" /\ GoOn("put", [w EXCEPT !.base = store[w.actual.id].headers])
  <2>1. /\ pc' = "put" /\ w'.key = w.key /\ w'.cr = w.cr /\ w'.finalizing = w.finalizing
        /\ w'.fresh = w.fresh /\ w'.desired = w.desired
    BY <1>0, <1>4 DEF GoOn, Locals
  <2>2. PathOK' /\ FinalizerSeen' /\ DesiredIsOurs'
    BY <1>4, <2>1 DEF FinalizerInv, PathOK, FinalizerSeen, DesiredIsOurs
  <2>. QED
    BY <1>0, <1>1, <2>1, <2>2, GoesOnBranch
<1>5. CASE /\ pc = "delete"
           /\ GoOn("removeFinalizer", [w EXCEPT !.actual = NilMonitor, !.desired = NoDesired])
  <2>1. /\ pc' = "removeFinalizer" /\ w'.key = w.key /\ w'.cr = w.cr
        /\ w'.finalizing = w.finalizing /\ w'.fresh = w.fresh
    BY <1>0, <1>5 DEF GoOn, Locals
  <2>2. PathOK' /\ FinalizerSeen' /\ DesiredIsOurs'
    BY <1>5, <2>1 DEF FinalizerInv, PathOK, FinalizerSeen, DesiredIsOurs
  <2>. QED
    BY <1>0, <1>1, <2>1, <2>2, GoesOnBranch
<1>. QED
  BY <1>2, <1>3, <1>4, <1>5 DEF CreateMonitor, GetCurrent, PutMonitor, DeleteMonitor, Return

\* The status patch touches neither the finalizer nor the deletion timestamp.
LEMMA BranchPatchStatus ==
  ASSUME TypeOK, FinalizerInv, PatchStatus
  PROVE  FinalizerInv'
<1>. DEFINE before == w.cr.status
            after  == Marked(before)
            live   == Api(w.key)
            status == [f \in DOMAIN live.status |->
                         IF after[f] # before[f] THEN after[f] ELSE live.status[f]]
            merged == [live EXCEPT !.status = status]
<1>0. pc = "status" /\ pc # "idle" /\ w \in Locals /\ w.key \in CRs /\ pc' = "idle"
  BY BusyType DEF PatchStatus, Return
<1>. PICK r \in CRs : r = w.key
  BY <1>0
<1>1. CASE UNCHANGED objs
  BY <1>0, <1>1, ReturnsBranch
<1>2. CASE objs' \in {[objs EXCEPT ![r] = Append(@, merged)],
                      [objs EXCEPT ![r] = Versions(r, merged)]}
  <2>1. /\ live \in Object /\ live.status \in StatusOK /\ after \in StatusOK
        /\ before \in StatusOK
    BY <1>0, BusyType, VersionsType, MarkedType DEF Object
  <2>2. status \in StatusOK
    BY <2>1, MergedStatusType
  <2>3. /\ merged \in Object /\ merged.exists = live.exists
        /\ merged.finalizer = live.finalizer /\ merged.deleting = live.deleting
    <3>. HIDE DEF status
    <3>. QED
      BY <2>1, <2>2 DEF Object
  <2>4. (live.deleting => live.finalizer) /\ (live.finalizer => live.exists)
    BY ViewFlags DEF FinalizerInv
  <2>5. Guarded(r)
    BY <1>0 DEF FinalizerInv, BranchOK, PathOK
  <2>. HIDE DEF merged
  <2>6. FlagsOK' /\ Guarded(r)' /\ \A q \in CRs \ {r} : objs'[q] = objs[q]
    BY <1>2, <2>3, <2>4, <2>5, AppendedHistory DEF FinalizerInv
  <2>7. HistoriesOK'
    BY <2>6, SameHistory DEF FinalizerInv, HistoriesOK
  <2>. QED
    BY <1>0, <2>6, <2>7, RestsBranch
<1>. QED
  BY <1>1, <1>2 DEF PatchStatus

------------------------------------------------------------------------------
(***************************************************************************)
(* Everybody else.                                                         *)
(***************************************************************************)

\* Steps that change neither CRs nor the worker.
LEMMA BranchQuiet ==
  ASSUME FinalizerInv, UNCHANGED <<objs, pc, w>>
  PROVE  FinalizerInv'
<1>1. FlagsOK' /\ HistoriesOK'
  BY SameHistories DEF FinalizerInv
<1>2. BranchOK' /\ PathOK' /\ FreshIsCurrent' /\ SeenFinalizerStays' /\ FinalizerSeen'
      /\ DesiredIsOurs'
  BY DEF FinalizerInv, BranchOK, Guarded, Released, PathOK, FreshIsCurrent, SeenFinalizerStays,
     FinalizerSeen, DesiredIsOurs, Api
<1>. QED
  BY <1>1, <1>2 DEF FinalizerInv

\* The cache moves on under a worker that holds an older version.
LEMMA BranchWake ==
  ASSUME TypeOK, FinalizerInv,
         \/ \E r \in CRs : DeliverWatch(r) \/ TimerFires(r)
         \/ \E s \in Secrets : DeliverSecret(s)
         \/ Crash
  PROVE  FinalizerInv'
<1>1. ASSUME NEW r \in CRs, DeliverWatch(r) PROVE FinalizerInv'
  <2>1. UNCHANGED <<pc, w>> /\ Len(objs[r]) > 1 /\ objs' = [objs EXCEPT ![r] = Tail(@)]
    BY <1>1 DEF DeliverWatch, worker
  <2>2. /\ FlagsOK' /\ \A q \in CRs \ {r} : objs'[q] = objs[q]
        /\ Api(r)' = Api(r)
        /\ Guarded(r) => Guarded(r)'
        /\ Released(r) => Released(r)'
    BY <2>1, AdvancedHistory DEF FinalizerInv
  <2>3. /\ UNCHANGED <<pc, w>>
        /\ \A q \in CRs : /\ Guarded(q) => Guarded(q)'
                          /\ Released(q) => Released(q)'
                          /\ Api(q)' = Api(q)
    BY <2>1, <2>2, SameHistory
  <2>4. HistoriesOK'
    BY <2>3 DEF FinalizerInv, HistoriesOK
  <2>5. CASE pc = "idle"
    BY <2>2, <2>3, <2>4, <2>5, RestsBranch
  <2>6. CASE pc # "idle"
    <3>. PICK k \in CRs : k = w.key
      BY <2>6, BusyType
    <3>1. w'.key = k /\ Api(k)' = Api(k)
      BY <2>3
    <3>2. BranchOK'
      <4>1. IF w.finalizing THEN Released(k)' ELSE Guarded(k)'
        BY <2>3, <2>6 DEF FinalizerInv, BranchOK
      <4>. QED
        BY <2>3, <3>1, <4>1 DEF BranchOK, Guarded, Released
    <3>3. FreshIsCurrent' /\ SeenFinalizerStays'
      BY <2>3, <2>6, <3>1 DEF FinalizerInv, FreshIsCurrent, SeenFinalizerStays, Api
    <3>4. PathOK' /\ FinalizerSeen' /\ DesiredIsOurs'
      BY <2>3 DEF FinalizerInv, PathOK, FinalizerSeen, DesiredIsOurs
    <3>. QED
      BY <2>2, <2>4, <3>2, <3>3, <3>4 DEF FinalizerInv
  <2>. QED
    BY <2>5, <2>6
<1>2. CASE \/ \E r \in CRs : TimerFires(r)
           \/ \E s \in Secrets : DeliverSecret(s)
  BY <1>2, BranchQuiet DEF TimerFires, DeliverSecret, kube, worker
<1>3. CASE Crash
  BY <1>3, ListedHistory, RestsBranch DEF Crash, FinalizerInv
<1>. QED
  BY <1>1, <1>2, <1>3

\* A user's write: it takes no finalizer away, and it makes the worker's version old.
LEMMA BranchUsers ==
  ASSUME TypeOK, FinalizerInv, NEW r \in CRs, CreateCR(r) \/ EditSpec(r) \/ DeleteCR(r)
  PROVE  FinalizerInv'
<1>0. /\ Api(r) \in Object /\ (Api(r).deleting => Api(r).finalizer)
      /\ (Api(r).finalizer => Api(r).exists)
      /\ Released(r) => (Api(r).finalizer => Api(r).deleting)
  BY VersionsType, ViewFlags DEF FinalizerInv
<1>1. PICK o \in Object :
        /\ UserWrites(r, o)
        /\ o.deleting => o.finalizer
        /\ o.finalizer => o.exists
        /\ o.finalizer <=> Api(r).finalizer
        /\ Api(r).deleting => o.deleting
        /\ Released(r) => (o.finalizer => o.deleting)
  <2>1. CASE CreateCR(r)
    <3>1. \A s \in Specs : NewCR(s) \in Object /\ ~NewCR(s).finalizer /\ ~NewCR(s).deleting
      BY LiteralsAssumption
      DEF LiteralsAssumption, NewCR, Object, NewStatus, StatusOK, NoCond
    <3>. QED
      BY <1>0, <2>1, <3>1 DEF CreateCR
  <2>2. CASE EditSpec(r)
    <3>1. PICK s \in Specs : UserWrites(r, [Api(r) EXCEPT !.spec = s, !.gen = @ + 1])
      BY <2>2 DEF EditSpec
    <3>2. /\ [Api(r) EXCEPT !.spec = s, !.gen = @ + 1] \in Object
          /\ [Api(r) EXCEPT !.spec = s, !.gen = @ + 1].exists = Api(r).exists
          /\ [Api(r) EXCEPT !.spec = s, !.gen = @ + 1].finalizer = Api(r).finalizer
          /\ [Api(r) EXCEPT !.spec = s, !.gen = @ + 1].deleting = Api(r).deleting
      BY <1>0, EditedObjectType DEF Object
    <3>. QED
      BY <1>0, <3>1, <3>2
  <2>3. CASE DeleteCR(r)
    <3>1. /\ [Api(r) EXCEPT !.deleting = TRUE, !.gen = @ + 1] \in Object
          /\ [Api(r) EXCEPT !.deleting = TRUE, !.gen = @ + 1].exists = Api(r).exists
          /\ [Api(r) EXCEPT !.deleting = TRUE, !.gen = @ + 1].finalizer = Api(r).finalizer
          /\ [Api(r) EXCEPT !.deleting = TRUE, !.gen = @ + 1].deleting
      BY <1>0, DeletedObjectType DEF Object
    <3>2. Absent \in Object /\ ~Absent.finalizer /\ ~Absent.deleting
      BY IdleWorkerType DEF Absent
    <3>. QED
      BY <1>0, <2>3, <3>1, <3>2 DEF DeleteCR
  <2>. QED
    BY <2>1, <2>2, <2>3
<1>2. /\ UNCHANGED pc /\ objs' = [objs EXCEPT ![r] = Append(@, o)]
      /\ w' = [w EXCEPT !.fresh = @ /\ w.key # r]
  BY <1>1 DEF UserWrites
<1>3. /\ FlagsOK' /\ \A q \in CRs \ {r} : objs'[q] = objs[q]
      /\ Api(r)' = o
      /\ Guarded(r) => Guarded(r)'
      /\ Released(r) => Released(r)'
  BY <1>1, <1>2, AppendedHistory DEF FinalizerInv
<1>4. HistoriesOK'
  BY <1>3, SameHistory DEF FinalizerInv, HistoriesOK
<1>5. CASE pc = "idle"
  BY <1>2, <1>3, <1>4, <1>5, RestsBranch
<1>6. CASE pc # "idle"
  <2>. PICK k \in CRs : k = w.key
    BY <1>6, BusyType
  <2>1. /\ w'.key = k /\ w'.cr = w.cr /\ w'.desired = w.desired /\ w'.finalizing = w.finalizing
        /\ w'.fresh => w.fresh /\ k # r
    BY <1>2 DEF TypeOK, WorkerOK, Locals
  <2>2. /\ Guarded(k) => Guarded(k)'
        /\ Released(k) => Released(k)'
        /\ Api(k).finalizer => Api(k)'.finalizer
        /\ k # r => Api(k)' = Api(k)
    BY <1>1, <1>3, SameHistory
  <2>3. BranchOK'
    <3>1. IF w.finalizing THEN Released(k)' ELSE Guarded(k)'
      BY <1>6, <2>2 DEF FinalizerInv, BranchOK
    <3>. QED
      BY <1>2, <2>1, <3>1 DEF BranchOK, Guarded, Released
  <2>4. FreshIsCurrent'
    BY <1>6, <2>1, <2>2 DEF FinalizerInv, FreshIsCurrent, Api
  <2>5. SeenFinalizerStays'
    BY <1>6, <2>1, <2>2 DEF FinalizerInv, SeenFinalizerStays, Api
  <2>6. PathOK' /\ FinalizerSeen' /\ DesiredIsOurs'
    BY <1>2, <2>1 DEF FinalizerInv, PathOK, FinalizerSeen, DesiredIsOurs
  <2>. QED
    BY <1>3, <1>4, <2>3, <2>4, <2>5, <2>6 DEF FinalizerInv
<1>. QED
  BY <1>5, <1>6

\* What others do to CRs, Secrets and monitors.
LEMMA BranchEnvironment ==
  ASSUME TypeOK, FinalizerInv, Environment
  PROVE  FinalizerInv'
<1>1. CASE \E r \in CRs : CreateCR(r) \/ EditSpec(r) \/ DeleteCR(r)
  BY <1>1, BranchUsers
<1>2. CASE \/ \E s \in Secrets : SetSecret(s)
           \/ \E i \in DOMAIN store : EditMonitor(i) \/ RemoveMonitor(i)
           \/ AddMonitor
  <2>1. UNCHANGED <<objs, pc, w>>
    BY <1>2 DEF SetSecret, EditMonitor, SetMonitor, RemoveMonitor, AddMonitor, NewMonitor, kube,
       worker
  <2>. QED
    BY <2>1, BranchQuiet
<1>. QED
  BY <1>1, <1>2 DEF Environment

\* No CR carries the finalizer at first.
LEMMA BranchInit == Init => FinalizerInv
<1>. SUFFICES ASSUME Init PROVE FinalizerInv
  OBVIOUS
<1>1. \A r \in CRs : \A k \in 1..Len(objs[r]) : ~objs[r][k].finalizer /\ ~objs[r][k].deleting
  <2>1. /\ ~Absent.finalizer /\ ~Absent.deleting
        /\ \A x \in Specs : ~NewCR(x).finalizer /\ ~NewCR(x).deleting
    BY DEF Absent, NewCR
  <2>2. \A r \in CRs : \E o : objs[r] = <<o>> /\ ~o.finalizer /\ ~o.deleting
    <3>1. \A r \in CRs : objs[r] = <<Absent>> \/ \E x \in Specs : objs[r] = <<NewCR(x)>>
      BY DEF Init
    <3>. QED
      BY <2>1, <3>1
  <2>. QED
    BY <2>2
<1>2. FlagsOK /\ HistoriesOK
  BY <1>1 DEF FlagsOK, HistoriesOK, Guarded
<1>. QED
  BY <1>2 DEF Init, FinalizerInv, BranchOK, PathOK, FreshIsCurrent, SeenFinalizerStays,
     FinalizerSeen, DesiredIsOurs

\* Every step preserves the invariant.
LEMMA BranchNext == TypeOK /\ FinalizerInv /\ [Next]_vars => FinalizerInv'
<1>. SUFFICES ASSUME TypeOK, FinalizerInv, [Next]_vars PROVE FinalizerInv'
  OBVIOUS
<1>1. CASE \E r \in CRs : Fetch(r)
  BY <1>1, BranchFetch
<1>2. CASE Work
  BY <1>2, BranchResolveHeaders, BranchAddFinalizer, BranchRemoveFinalizer, BranchReread,
     BranchFindActual, BranchMackerel, BranchPatchStatus DEF Work
<1>3. CASE \/ \E r \in CRs : DeliverWatch(r) \/ TimerFires(r)
           \/ \E s \in Secrets : DeliverSecret(s)
           \/ Crash
  BY <1>3, BranchWake
<1>4. CASE Environment
  BY <1>4, BranchEnvironment
<1>5. CASE UNCHANGED vars
  BY <1>5, BranchQuiet DEF vars
<1>. QED
  BY <1>1, <1>2, <1>3, <1>4, <1>5 DEF Next

------------------------------------------------------------------------------
\* The worker takes the right branch of Reconcile, and sees the finalizer before it
\* writes, in every behaviour: whatever the cache lags behind with, however often a CR is
\* deleted and recreated under it, and whatever others do in Mackerel.
THEOREM FinalizerInvariant == Spec => []FinalizerInv
  BY BranchInit, BranchNext, TypeCorrect, PTL DEF Spec

\* A worker that is about to write a monitor has the finalizer of its CR in the API server.
LEMMA WriteIsGuarded ==
  ASSUME TypeOK, FinalizerInv, pc \in {"create", "put"}
  PROVE  Api(w.key).exists /\ Api(w.key).finalizer
<1>1. w.key \in CRs
  BY BusyType
<1>. PICK r \in CRs : r = w.key
  BY <1>1
<1>2. Api(r).finalizer
  BY DEF FinalizerInv, PathOK, SeenFinalizerStays, FinalizerSeen
<1>. QED
  BY <1>2, ViewFlags DEF FinalizerInv

\* Nobody else's change makes a monitor this operator's.
LEMMA OthersMakeNothingOurs ==
  ASSUME TypeOK, Environment, NEW r \in CRs, NEW i \in DOMAIN store', Mine(i, r)'
  PROVE  Mine(i, r)
<1>1. \/ i \in DOMAIN store /\ store'[i].memo.marker = store[i].memo.marker
      \/ store'[i].memo.marker.owner # Owner
  <2>1. NoMarker.owner # Owner /\ \A q \in CRs : ForeignMarker(q).owner # Owner
    BY NamesAssumption DEF NamesAssumption, NoMarker, ForeignMarker, BuildMarker
  <2>2. CASE UNCHANGED store
    BY <2>2
  <2>3. ASSUME NEW j \in DOMAIN store, RemoveMonitor(j)
        PROVE  i \in DOMAIN store /\ store'[i].memo.marker = store[i].memo.marker
    BY <2>3 DEF RemoveMonitor
  <2>4. ASSUME NEW k, k.owner # Owner, NewMonitor(k)
        PROVE  \/ i \in DOMAIN store /\ store'[i].memo.marker = store[i].memo.marker
               \/ store'[i].memo.marker.owner # Owner
    BY <2>4 DEF NewMonitor
  <2>5. ASSUME NEW j \in DOMAIN store, EditMonitor(j)
        PROVE  \/ i \in DOMAIN store /\ store'[i].memo.marker = store[i].memo.marker
               \/ store'[i].memo.marker.owner # Owner
    <3>1. PICK m : /\ SetMonitor(j, m)
                   /\ m.memo.marker = store[j].memo.marker \/ m.memo.marker.owner # Owner
      BY <2>1, <2>5, EditedMonitor
    <3>. QED
      BY <3>1 DEF SetMonitor
  <2>. QED
    BY <2>1, <2>2, <2>3, <2>4, <2>5
    DEF Environment, AddMonitor, CreateCR, EditSpec, DeleteCR, UserWrites, SetSecret, mackerel
<1>. QED
  BY <1>1, OwnedByMarker DEF Mine

\* A monitor becomes a CR's only by the worker's POST or PUT for that CR, which holds the
\* finalizer then.
LEMMA MineSteps ==
  ASSUME TypeOK, FinalizerInv, [Next]_vars, NEW r \in CRs, NEW i, Mine(i, r)', ~Mine(i, r)
  PROVE  pc \in {"create", "put"} /\ r = w.key /\ Api(r).exists /\ Api(r).finalizer
<1>0. i \in DOMAIN store' /\ OwnedBy(store'[i].memo, Owner, r)
  BY DEF Mine
<1>1. ASSUME pc \in {"create", "put"}, NEW base, NEW memo,
             \A j \in DOMAIN store' : \/ j \in DOMAIN store /\ store'[j] = store[j]
                                      \/ store'[j] = Merge(base, memo)
      PROVE  pc \in {"create", "put"} /\ r = w.key /\ Api(r).exists /\ Api(r).finalizer
  <2>1. w.desired.resource = w.key /\ w.desired.owner = Owner
    BY <1>1 DEF FinalizerInv, DesiredIsOurs
  <2>2. store'[i] = Merge(base, memo)
    BY <1>0, <1>1 DEF Mine
  <2>3. r = w.key
    BY <1>0, <2>1, <2>2, MergeIsMine
  <2>. QED
    BY <1>1, <2>3, WriteIsGuarded
<1>2. CASE CreateMonitor
  <2>1. \/ UNCHANGED store
        \/ store' = [j \in DOMAIN store \cup {nextID} |->
                      IF j = nextID THEN Merge(DefaultHeaders, SpecMemo(w.desired))
                                    ELSE store[j]]
    BY <1>2 DEF CreateMonitor, mackerel
  <2>2. \A j \in DOMAIN store' : \/ j \in DOMAIN store /\ store'[j] = store[j]
                                 \/ store'[j] = Merge(DefaultHeaders, SpecMemo(w.desired))
    BY <2>1
  <2>3. pc \in {"create", "put"}
    BY <1>2 DEF CreateMonitor
  <2>. QED
    BY <1>1, <2>2, <2>3
<1>3. CASE PutMonitor
  <2>1. \A j \in DOMAIN store' : \/ j \in DOMAIN store /\ store'[j] = store[j]
                                 \/ store'[j] = Merge(w.base, w.actual.memo)
    BY <1>3 DEF PutMonitor
  <2>2. pc \in {"create", "put"}
    BY <1>3 DEF PutMonitor
  <2>. QED
    BY <1>1, <2>1, <2>2
<1>4. CASE DeleteMonitor
  <2>1. \A j \in DOMAIN store' : j \in DOMAIN store /\ store'[j] = store[j]
    BY <1>4 DEF DeleteMonitor
  <2>. QED
    BY <1>0, <2>1 DEF Mine
<1>5. CASE Environment
  BY <1>0, <1>5, OthersMakeNothingOurs
<1>6. CASE UNCHANGED store
  BY <1>0, <1>6 DEF Mine
<1>. QED
  BY <1>2, <1>3, <1>4, <1>5, <1>6
  DEF Next, Work, Fetch, ResolveHeaders, AddFinalizer, RemoveFinalizer, Reread, GetMonitor,
      ListMonitors, GetCurrent, PatchStatus, DeliverWatch, TimerFires, DeliverSecret, Crash,
      mackerel, vars

\* A monitor becomes this operator's only by a POST or a PUT for a CR whose finalizer is in
\* the API server at that moment, although Reconcile only ever saw an older version.
THEOREM FinalizerComesFirst == Spec => FinalizerBeforeMonitor
<1>. DEFINE Claimed == \A r \in CRs : \A i \in DOMAIN store' :
                        Mine(i, r)' /\ ~Mine(i, r) => Api(r).exists /\ Api(r).finalizer
<1>1. ASSUME TypeOK, FinalizerInv, [Next]_vars PROVE [Claimed]_vars
  BY <1>1, MineSteps
<1>. QED
  BY <1>1, FinalizerInvariant, TypeCorrect, PTL DEF Spec, FinalizerBeforeMonitor

==============================================================================

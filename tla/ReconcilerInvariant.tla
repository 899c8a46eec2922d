------------------------- MODULE ReconcilerInvariant -------------------------
(***************************************************************************)
(* The inductive invariants of the controller.                             *)
(*                                                                         *)
(* OwnershipInv: why the operator never owns two monitors for one CR and   *)
(* never touches somebody else's.  It holds as long as nobody strips a     *)
(* marker from a memo, for then a recorded id may name a monitor without a *)
(* marker while Reconcile owns another one.                                *)
(*                                                                         *)
(* FinalizerInv: why the finalizer is on the CR whenever the worker writes *)
(* a monitor, and why a stale view of a CR that was deleted and recreated  *)
(* does no harm.  It holds whatever others do.                             *)
(*                                                                         *)
(* ReleaseInv: why the finalizer goes only after the monitor.              *)
(***************************************************************************)
EXTENDS Reconciler

\* What an id recorded for r is worth: it was given out by Mackerel (so no later
\* monitor can take it), and the monitor, if it is still there, is r's.
Claim(id, r) == id \in Nat /\ id < nextID /\ (id \in DOMAIN store => Mine(id, r))

\* Of every version of every CR, the ones the cache lags behind with included.
RecordedClaims ==
  \A r \in CRs : \A k \in 1..Len(objs[r]) : Claim(objs[r][k].status.monitorID, r)

\* Of the CR as the worker read it.
CarriedClaim == pc # "idle" => Claim(w.cr.status.monitorID, w.key)

\* The worker looks for, and writes, the monitor of the CR it works on.
DesiredIsOurs ==
  pc \in {"addFinalizer", "rereadToAdd", "get", "list", "create", "getCurrent", "put", "delete"}
    => w.desired.resource = w.key /\ w.desired.owner = Owner

\* What findActual concluded still holds when the worker acts on it, several calls and
\* other people's changes later.
CreateIsSafe == pc = "create" => \A i \in DOMAIN store : ~Mine(i, w.key)

UpdateIsSafe ==
  pc \in {"getCurrent", "put"} =>
    /\ w.actual.id < nextID
    /\ \A i \in DOMAIN store : Mine(i, w.key) => i = w.actual.id
    /\ w.actual.id \in DOMAIN store /\ store[w.actual.id].memo.marker.owner = Owner
         => Mine(w.actual.id, w.key)
    /\ "adopt" \notin Outside /\ w.actual.id \in DOMAIN store
         => ~HasMarker(store[w.actual.id].memo) \/ Mine(w.actual.id, w.key)

DeleteIsSafe == pc = "delete" => Claim(w.actual.id, w.key)

ReportIsSafe == pc = "status" /\ w.mark.reason = "Synced" => Claim(w.mark.id, w.key)

WorkerClaims ==
  CarriedClaim /\ DesiredIsOurs /\ CreateIsSafe /\ UpdateIsSafe /\ DeleteIsSafe /\ ReportIsSafe

\* Together, for every interleaving of the worker with users, with other people in
\* Mackerel and with a cache that lags behind: one monitor per CR, ids that name only
\* the CR's own monitor, and a worker whose conclusions from findActual do not expire
\* before the write they lead to.
OwnershipInv == UniqueOwned /\ RecordedClaims /\ WorkerClaims

------------------------------------------------------------------------------
(***************************************************************************)
(* Finalizers.                                                             *)
(***************************************************************************)

\* A deletion timestamp waits for the finalizer, and the finalizer is on a CR.
FlagsOK ==
  \A r \in CRs : \A k \in 1..Len(objs[r]) :
    /\ objs[r][k].deleting => objs[r][k].finalizer
    /\ objs[r][k].finalizer => objs[r][k].exists

\* Of the versions of r that the cache still has to show: the finalizer, and the deletion
\* timestamp, are never taken away again.
Guarded(r) ==
  \A j, k \in 1..Len(objs[r]) : j <= k =>
    /\ objs[r][j].finalizer => objs[r][k].finalizer
    /\ objs[r][j].deleting => objs[r][k].deleting

\* The finalizer may be taken away, but where it still is, r was being deleted all along.
Released(r) ==
  \A j, k \in 1..Len(objs[r]) : j <= k => (objs[r][k].finalizer => objs[r][j].deleting)

\* A finalizer is lost only in histories that the cache shows as deletions from the
\* start, so that no Reconcile which sees a live CR relies on a finalizer that is gone.
HistoriesOK == \A r \in CRs : Guarded(r) \/ Released(r)

\* Reconcile took the branch that the history of its CR calls for.
BranchOK == pc # "idle" => IF w.finalizing THEN Released(w.key) ELSE Guarded(w.key)

PathOK ==
  /\ pc \in {"delete", "removeFinalizer", "rereadToRemove"} => w.finalizing
  /\ pc \in {"resolveHeaders", "addFinalizer", "rereadToAdd", "create", "getCurrent", "put",
            "status"} => ~w.finalizing

\* The resourceVersion of a patch: the version the worker holds is the current one.
FreshIsCurrent == pc # "idle" /\ w.fresh => w.cr = Api(w.key) /\ w.cr.exists

\* A finalizer the worker has seen, in the cache or from its own patch, is still there.
SeenFinalizerStays ==
  pc # "idle" /\ ~w.finalizing /\ w.cr.finalizer => Api(w.key).finalizer

\* Nothing is looked up in, or written to, Mackerel before the finalizer was seen.
FinalizerSeen ==
  pc \in {"get", "list", "create", "getCurrent", "put"} => w.finalizing \/ w.cr.finalizer

\* Together, for every interleaving of the worker with users, crashes and a lagging cache:
\* a worker that is about to write a monitor has its CR's finalizer in the API server,
\* although it only ever saw an older version; a worker that is about to remove the
\* finalizer has no live CR before it, although the CR may have been recreated; and a
\* patch with a resourceVersion changes exactly the version the worker holds.
FinalizerInv ==
  /\ FlagsOK /\ HistoriesOK /\ BranchOK /\ PathOK
  /\ FreshIsCurrent /\ SeenFinalizerStays /\ FinalizerSeen /\ DesiredIsOurs

------------------------------------------------------------------------------
(***************************************************************************)
(* The end of a CR, where specs are valid.                                 *)
(***************************************************************************)

\* The monitor to be deleted is all there is of the CR in Mackerel.
DeleteIsTotal ==
  pc = "delete" =>
    Policy = "sync" /\ \A i \in DOMAIN store : Mine(i, w.key) => i = w.actual.id

\* Nothing of the CR is left when its finalizer is about to go.
NothingLeft ==
  pc \in {"removeFinalizer", "rereadToRemove"} /\ Policy = "sync" =>
    \A i \in DOMAIN store : ~Mine(i, w.key)

\* Together: the finalizer outlives the monitor through conflicts, lost answers, retries,
\* crashes and changes by others.
ReleaseInv == NoOrphan /\ DeleteIsTotal /\ NothingLeft

==============================================================================

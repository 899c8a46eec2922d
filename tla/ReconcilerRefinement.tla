------------------------ MODULE ReconcilerRefinement -------------------------
(***************************************************************************)
(* The controller keeps the ownership contract: a finalizer in the API     *)
(* server is a hold, a deletion timestamp dooms, and a memo's marker is    *)
(* the claim on its monitor.  Everything else Reconcile does is Think.     *)
(***************************************************************************)
EXTENDS ReconcilerInvariant

\* A CR is "namespace/name", which is neither of the contract's two other claimants.
ASSUME KeysAssumption == {"free", "theirs"} \cap CRs = {}

HeldCRs   == {r \in CRs : Api(r).exists /\ Api(r).finalizer}
DoomedCRs == {r \in CRs : Api(r).exists /\ Api(r).deleting}

ClaimOf(i) ==
  LET memo == store[i].memo IN
  IF ~HasMarker(memo) THEN "free"
  ELSE IF ParseMarker(memo).owner # Owner THEN "theirs"
  ELSE ParseMarker(memo).resource

MonitorClaims == [i \in DOMAIN store |-> ClaimOf(i)]

Contract == INSTANCE OwnershipContract WITH
  held   <- HeldCRs,
  doomed <- DoomedCRs,
  claim  <- MonitorClaims,
  turn   <- pc

\* Every step of the controller and of its surroundings is a step the contract allows:
\* a monitor is claimed only for a CR that holds the finalizer and has no other, only
\* the monitor of a CR whose deletion was requested is deleted, and under policy sync
\* the CR is let go only after that.  (Where nobody strips or adopts markers, and
\* specs are valid.)
KeepsContract == Contract!Spec

==============================================================================

------------------------------- MODULE Planner -------------------------------
(***************************************************************************)
(* The pure decision layer (internal/planner/planner.go).                  *)
(*                                                                         *)
(* A desired monitor is a record                                           *)
(*   [name, body, headers, memo, resource, owner, hash]                    *)
(* and an actual one                                                       *)
(*   [id, name, body, headers, memo].                                      *)
(* `body' stands for every compared field except the name and the headers  *)
(* (service, URL, method, thresholds, ...): the code compares them with    *)
(* one conjunction of equalities and always writes all of them together.   *)
(* `headers' is a whole header list up to order; a desired value of        *)
(* Unmanaged is the nil pointer, "the CR does not manage headers".         *)
(***************************************************************************)
EXTENDS Ownership, Integers

Unmanaged == "unmanaged"

\* *ActualExternalMonitor = nil.  Mackerel's own ids start at 1 here.
NilMonitor == [id |-> 0, name |-> "", body |-> "", headers |-> "",
               memo |-> [text |-> "", marker |-> NoMarker]]

\* headersMatch compares unordered header sets; a header list is one value here.
headersMatch(desired, actual) == desired = actual

\* Mutant: nil headers are compared like an empty list.
headersInSyncNilIsEmpty(desired, actual) ==
  headersMatch(IF desired = Unmanaged THEN "none" ELSE desired, actual)

headersInSync(desired, actual) ==
  \/ desired = Unmanaged
  \/ headersMatch(desired, actual)

\* The memo takes part in the desired hash but not in this comparison.
actualMatchesDesired(desired, actual) ==
  /\ desired.name = actual.name
  /\ desired.body = actual.body
  /\ headersInSync(desired.headers, actual.headers)

\* The marker names this owner and this resource.
OwnedBy(memo, owner, resource) ==
  /\ HasMarker(memo)
  /\ ParseMarker(memo).owner = owner
  /\ ParseMarker(memo).resource = resource

\* Mutants: the marker's resource, or its owner, is not compared; an equal hash is
\* taken as proof that nothing drifted.
PlanIgnoringResource(desired, actual) ==
  IF actual = NilMonitor THEN "Create"
  ELSE IF ParseMarker(actual.memo).owner # desired.owner THEN "OwnershipLost"
  ELSE IF actualMatchesDesired(desired, actual) THEN "Noop" ELSE "Update"

PlanIgnoringOwner(desired, actual) ==
  IF actual = NilMonitor THEN "Create"
  ELSE IF ParseMarker(actual.memo).resource # desired.resource THEN "OwnershipLost"
  ELSE IF ParseMarker(actual.memo).hash = desired.hash THEN "Noop" ELSE "Update"

PlanTrustingHash(desired, actual) ==
  IF actual = NilMonitor THEN "Create"
  ELSE IF ~OwnedBy(actual.memo, desired.owner, desired.resource) THEN "OwnershipLost"
  ELSE IF ParseMarker(actual.memo).hash = desired.hash THEN "Noop" ELSE "Update"

Plan(desired, actual) ==
  CASE actual = NilMonitor -> "Create"
    [] actual # NilMonitor /\ ~HasMarker(actual.memo) ->
         IF actualMatchesDesired(desired, actual) THEN "RestoreMarker" ELSE "OwnershipLost"
    [] actual # NilMonitor /\ HasMarker(actual.memo)
         /\ ~OwnedBy(actual.memo, desired.owner, desired.resource) -> "OwnershipLost"
    [] actual # NilMonitor /\ OwnedBy(actual.memo, desired.owner, desired.resource) ->
         IF /\ ParseMarker(actual.memo).hash = desired.hash
            /\ actualMatchesDesired(desired, actual)
           THEN "Noop" ELSE "Update"

\* Mutant: the policy is not looked at.
PlanDeleteAnyPolicy(actual, owner, resource, policy) ==
  IF actual # NilMonitor /\ OwnedBy(actual.memo, owner, resource)
    THEN "Delete" ELSE "SkipDelete"

PlanDelete(actual, owner, resource, policy) ==
  IF /\ actual # NilMonitor
     /\ policy = "sync"
     /\ OwnedBy(actual.memo, owner, resource)
    THEN "Delete" ELSE "SkipDelete"

==============================================================================

----------------------------- MODULE MonitorSync ------------------------------
(***************************************************************************)
(* One CR and the monitor that findActual finds for it, with every field   *)
(* and every token of the memo: what Reconcile makes of them, while users  *)
(* edit the spec, people edit the monitor in Mackerel, and the operator is *)
(* restarted with other flags.                                             *)
(*                                                                         *)
(* A whole Reconcile is one step here.  What happens between its remote    *)
(* calls, and how findActual finds the monitor, is Reconciler's subject;   *)
(* name and id of the monitor are therefore left out.                      *)
(***************************************************************************)
EXTENDS Fields, MarkerText

CONSTANTS
  Flags,       \* how the operator may be started: [owner, policy, length, apiKey]
  FirstSpecs,  \* specs a CR is created with
  FirstWires,  \* what Mackerel may hold then: sets of at most one monitor
  SpecEdits,   \* field -> values users give it
  WireEdits,   \* field -> values people give it in Mackerel
  Pieces,      \* tokens people put into a memo in Mackerel
  TokenSize,   \* kind of token -> characters
  SpecLimit,   \* the characters the CRD allows in spec.memo
  MemoLimit,   \* the characters Mackerel allows in a memo
  MaxEdits     \* bound: edits by users and people

Size(memo) == FoldSeq(LAMBDA t, n : n + TokenSize[t.kind], 0, memo)

\* What the API server and Mackerel accept.
Fits(memo)      == Size(memo) <= MemoLimit

AcceptedSpec(s) ==
  /\ HasType(s, SpecFields) /\ IsMemo(s.memo)
  /\ IsPointer(s.headers) /\ s.headers \subseteq SpecHeaders
  /\ ValidSpec(s) /\ Size(s.memo) <= SpecLimit

AcceptedWire(m) == HasType(m, WireFields) /\ IsMemo(m.memo) /\ Fits(m.memo)

ASSUME SyncAssumption ==
  /\ \A s \in FirstSpecs : AcceptedSpec(s)
  /\ \A ms \in FirstWires : IsPointer(ms) /\ \A m \in ms : AcceptedWire(m)
  /\ \A f \in Flags : f.owner \in Seq(Bytes)
  /\ \A f \in DOMAIN SpecEdits :
       \A v \in SpecEdits[f] :
         CASE f = "headers" -> IsPointer(v) /\ v \subseteq SpecHeaders
           [] f = "memo" -> IsMemo(v)
           [] OTHER -> f \in DOMAIN SpecFields /\ v \in SpecFields[f]
  /\ \A f \in DOMAIN WireEdits :
       f # "headers" => f \in DOMAIN WireFields /\ WireEdits[f] \subseteq WireFields[f]
  /\ \A t \in Pieces : IsToken(t)
  /\ MaxInt \in Nat \ {0} /\ MaxEdits \in Nat

VARIABLES
  flags,    \* the flags and the API key the operator was started with
  running,  \* whether it runs with them
  spec,     \* the spec of the CR
  alive,    \* the CR is there
  wire,     \* Mackerel: {} or {the monitor}
  last,     \* what Reconcile did last; "edit" if something changed since
  keeper,   \* history: the owner id under which Reconcile last succeeded, as a set; empty
            \* once somebody else has touched the memo
  edits     \* how many edits there have been

operator == <<flags, running>>
vars     == <<flags, running, spec, alive, wire, last, keeper, edits>>

Resource          == "externalmonitor/ns/a"
defaultHashLength == 7
defaultOwnerID    == <<100, 101, 102, 97, 117, 108, 116>>

\* main exits on a policy, a hash length or an API key that makes no sense.
Accepted(f) ==
  /\ f.policy \in {"upsert-only", "sync"}
  /\ f.length \in 1..64
  /\ f.apiKey

ownerID == IF flags.owner = <<>> THEN defaultOwnerID ELSE flags.owner

\* Two desired states have the same hash only if they are equal and cut to the same length
\* (collisions are Reconciler's subject).
HashDesired(content, owner, resource, length) == <<content, owner, resource, length>>

DesiredState(length, resolves) ==
  LET content == FromExternalMonitor(spec, resolves)
  IN [content |-> content, owner |-> ownerID, resource |-> Resource,
      hash |-> HashDesired(content, ownerID, Resource, length)]

Desired         == DesiredState(flags.length, TRUE)
DeletionDesired == DesiredState(defaultHashLength, FALSE)

\* The memo carries the marker of this owner and resource.
OwnedBy(memo, owner, resource) ==
  \E marker \in ParseMarker(memo) : marker.owner = owner /\ marker.resource = resource

Plan(desired) ==
  IF wire = {} THEN "Create"
  ELSE LET m      == Deref(wire)
           equal  == actualMatchesDesired(desired.content, actualExternalMonitorFromMackerel(m))
           marker == ParseMarker(m.memo)
           owned  == OwnedBy(m.memo, desired.owner, desired.resource)
       IN CASE marker = {} -> IF equal THEN "RestoreMarker" ELSE "OwnershipLost"
            [] marker # {} /\ ~owned -> "OwnershipLost"
            [] marker # {} /\ owned ->
                 IF equal /\ Deref(marker).hash = desired.hash THEN "Noop" ELSE "Update"

\* Mutant: the hash has to agree as well.
PlanDeleteSameHash(desired) ==
  IF /\ wire # {}
     /\ flags.policy = "sync"
     /\ OwnedBy(Deref(wire).memo, desired.owner, desired.resource)
     /\ Deref(ParseMarker(Deref(wire).memo)).hash = desired.hash
    THEN "Delete" ELSE "SkipDelete"

PlanDelete(desired) ==
  IF /\ wire # {}
     /\ flags.policy = "sync"
     /\ OwnedBy(Deref(wire).memo, desired.owner, desired.resource)
    THEN "Delete" ELSE "SkipDelete"

Init ==
  /\ flags \in Flags /\ running = Accepted(flags)
  /\ spec \in FirstSpecs
  /\ alive = TRUE
  /\ wire \in FirstWires
  /\ last = "edit"
  /\ keeper = {}
  /\ edits = 0

------------------------------------------------------------------------------
\* The outcomes of Reconcile after which the CR is reported as synchronised.
Writes == {"Create", "Update", "RestoreMarker"}
Synced == Writes \cup {"Noop"}

\* Reconcile: plan, and write if the plan says so.  No payload can be made of negative
\* numbers, and Mackerel refuses a memo that is too long.
Sync ==
  LET desired == Desired
      action  == Plan(desired)
      base    == IF wire = {} THEN NoBase ELSE Deref(wire)
      found   == IF wire = {} THEN desired.content.memo ELSE Deref(wire).memo
      memo    == ApplyMarker(found, [resource |-> desired.resource, owner |-> desired.owner,
                                     hash |-> desired.hash])
      refused == Negative(desired.content) \/ ~Fits(memo)
      writes  == action \in Writes
  IN /\ running /\ alive
     /\ \/ ~writes /\ last' = action /\ UNCHANGED wire
        \/ writes /\ refused /\ last' = "Refused" /\ UNCHANGED wire
        \/ /\ writes /\ ~refused
           /\ last' = action
           /\ wire' = {mergeMackerelExternalMonitor(base, desired.content, memo)}
     /\ keeper' = IF last' \in Synced THEN {desired.owner} ELSE keeper
     /\ UNCHANGED <<operator, spec, alive, edits>>

\* The CR is deleted: reconcileDelete, and the finalizer goes.
Finalize ==
  LET action == PlanDelete(DeletionDesired) IN
  /\ running /\ alive
  /\ alive' = FALSE
  /\ wire' = IF action = "Delete" THEN {} ELSE wire
  /\ last' = action
  /\ UNCHANGED <<operator, spec, keeper, edits>>

Edit ==
  /\ alive /\ edits < MaxEdits
  /\ edits' = edits + 1
  /\ last' = "edit"
  /\ UNCHANGED alive

\* A user changes a field of the spec, and the API server accepts it.
EditSpec ==
  /\ Edit
  /\ \E f \in DOMAIN SpecEdits : \E v \in SpecEdits[f] :
       /\ spec' = [spec EXCEPT ![f] = v]
       /\ ValidSpec(spec') /\ Size(spec'.memo) <= SpecLimit
  /\ UNCHANGED <<operator, wire, keeper>>

\* Somebody changes a field of the monitor in Mackerel.
EditWire ==
  /\ Edit
  /\ \E m \in wire, f \in DOMAIN WireEdits : \E v \in WireEdits[f] :
       wire' = {[m EXCEPT ![f] = v]}
  /\ UNCHANGED <<operator, spec, keeper>>

\* A memo with something put in, or something taken out.
Rewritten(memo) ==
  {InsertAt(memo, i, t) : i \in 1..(Len(memo) + 1), t \in Pieces}
    \cup {RemoveAt(memo, i) : i \in 1..Len(memo)}

\* Somebody edits the memo in Mackerel.
EditMemo ==
  /\ Edit
  /\ \E m \in wire : \E memo \in Rewritten(m.memo) :
       /\ Fits(memo)
       /\ wire' = {[m EXCEPT !.memo = memo]}
  /\ keeper' = {}
  /\ UNCHANGED <<operator, spec>>

RemoveMonitor ==
  /\ Edit
  /\ wire # {} /\ wire' = {}
  /\ keeper' = {}
  /\ UNCHANGED <<operator, spec>>

\* The operator is started again with other flags.
Restart ==
  /\ Edit
  /\ flags' \in Flags \ {flags}
  /\ running' = Accepted(flags')
  /\ UNCHANGED <<spec, wire, keeper>>

Next == Sync \/ Finalize \/ EditSpec \/ EditWire \/ EditMemo \/ RemoveMonitor \/ Restart

Spec == Init /\ [][Next]_vars

------------------------------------------------------------------------------
(***************************************************************************)
(* Properties.                                                             *)
(***************************************************************************)

\* Text of a person that becomes a marker once a marker inside it has been removed.
Joined(memo) == \E i \in DOMAIN memo : memo[i].kind = "head" /\ Matched(memo, i)

\* The monitor as it works: unset and default alike, headers in any order, the memo left
\* out.
Effect(m) ==
  [m EXCEPT !.dualstack = IF @ = nil THEN {"ipv4"} ELSE @,
            !.headers   = ToBag(@),
            !.memo      = <<>>]

\* A PUT of the desired state would not change how monitor m works.
InStep(m) == Effect(mergeMackerelExternalMonitor(m, Desired.content, m.memo)) = Effect(m)

\* The numbers of m are such as a spec can ask for.  Not so a fraction of a millisecond and
\* a number above MaxInt: the conversions read the one as the whole number below it, the
\* other as absent.
Representable(m) ==
  /\ m.interval <= MaxInt
  /\ \A v \in m.days \cup m.duration : v <= MaxInt
  /\ \A v \in m.limit : v % 2 = 0

\* The tokens of some kinds, in order.
OfKinds(memo, kinds) ==
  FlattenSeq([i \in DOMAIN memo |-> IF memo[i].kind \in kinds THEN <<memo[i]>> ELSE <<>>])

\* What people wrote into a memo, in order; markers that ParseMarker would read are not
\* theirs.
Words(memo) == OfKinds(memo, {"text", "head", "tail"})

NewLines(memo) == Len(OfKinds(memo, {"newline"}))

\* The last line of the memo is a marker.
EndsOnNewLine(memo) ==
  Len(memo) >= 2 /\ Matched(memo, Len(memo)) /\ memo[Len(memo) - 1] = NewLine

\* Every variable keeps its type: the operator never invents a monitor that Mackerel or
\* the CRD would not accept.
SyncTypeOK ==
  /\ flags \in Flags /\ running \in BOOLEAN
  /\ AcceptedSpec(spec)
  /\ alive \in BOOLEAN
  /\ IsPointer(wire) /\ \A m \in wire : AcceptedWire(m)
  /\ last \in Synced \cup {"edit", "OwnershipLost", "Refused", "Delete", "SkipDelete"}
  /\ keeper \in SUBSET ({defaultOwnerID} \cup {f.owner : f \in Flags})
  /\ edits \in 0..MaxEdits

\* Whatever the spec, the flags and the memo before, a write leaves nothing to do: what
\* the operator reads back through the provider's conversions, the marker's escapes and
\* the first-match rule is what it wanted to write, so there is no loop of updates.  Only
\* text that becomes a marker by the removal of another can stand in front of ours.
WriteSettles ==
  last \in Writes /\ alive =>
    Plan(Desired) = "Noop" \/ Joined(Deref(wire).memo)

\* The comparison has no blind spot but the one that Representable names: when Reconcile
\* decides to do nothing, a PUT would not change how the monitor works either, zero values,
\* defaults and header lists included.  (FractionUnseen shows the blind spot.)
NoBlindSpot ==
  alive /\ Plan(Desired) = "Noop" =>
    \A m \in wire : Representable(m) => InStep(m)

\* Adopting a monitor whose numbers a spec can ask for, and marking ours again after its
\* marker was lost, leaves the monitor working as it did: RestoreMarker writes all fields
\* but changes only the memo.  (Without it a
\* limit of 1.5 under a spec of 1 becomes 1: see the finding in the README.)
AdoptsOnlyEqual ==
  [][last' = "RestoreMarker" /\ last # "RestoreMarker" /\ (\A m \in wire : Representable(m)) =>
       {Effect(m) : m \in wire'} = {Effect(m) : m \in wire}]_vars

\* Writing the same headers in another order in the CR causes no write: neither the
\* comparison nor the hash depends on the order.
ReorderingIsQuiet ==
  [][/\ [spec' EXCEPT !.headers = {ToBag(l) : l \in @}] = [spec EXCEPT !.headers = {ToBag(l) : l \in @}]
     /\ wire' = wire /\ flags' = flags /\ alive'
     => Plan(Desired)' = Plan(Desired)]_vars

\* A write keeps what people wrote into the memo, in its order, and ends the memo with
\* our marker; the newline in front of it is added once, not by every update.
MemoKept ==
  [][last' \in Writes /\ wire' # wire =>
       LET new == Deref(wire').memo
           old == IF wire = {} THEN spec.memo ELSE Deref(wire).memo
       IN /\ \/ Words(new) = Words(old)
             \/ Joined(old)
          /\ Last(new).kind = "marker"
          /\ NewLines(new) <= NewLines(old) + 1
          /\ EndsOnNewLine(old) => NewLines(new) = NewLines(old)]_vars

\* Finalize recognises what Reconcile looked after: with policy sync the CR's monitor is
\* deleted with it if the operator, under the owner id it has now, has synchronised it once
\* and nobody else has touched the memo since, whatever edits and restarts with other flags
\* lie in between, and although the deletion path builds its desired state without Secrets
\* and with another hash length.  With upsert-only no monitor is deleted.
OwnedIsDeleted ==
  [][alive /\ ~alive' /\ wire # {} =>
       IF flags.policy = "sync"
         THEN ownerID \in keeper /\ ~Joined(Deref(wire).memo) => wire' = {}
         ELSE wire' = wire]_vars

------------------------------------------------------------------------------
(***************************************************************************)
(* What the repository's texts say of the operator and the code does not   *)
(* do: each is violated (see the findings in the README).                  *)
(***************************************************************************)

\* "a change made in the Mackerel web UI is reverted": after a Reconcile that is reported
\* as a success the monitor works as the CR asks.
UIChangesAreReverted ==
  last \in Synced /\ alive => \A m \in wire : InStep(m)

\* "`spec.memo` plus ownership marker must fit": the memo of a spec that the API server
\* accepts, plus the marker, is short enough for Mackerel, and no write is refused over it.
MemoFits == last # "Refused"

==============================================================================

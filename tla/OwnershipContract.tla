-------------------------- MODULE OwnershipContract --------------------------
(***************************************************************************)
(* What the operator promises about monitors, without saying how: who      *)
(* holds a finalizer, who claims which monitor, and in which order these   *)
(* change.  Names, fields, caches, retries and crashes do not occur.       *)
(***************************************************************************)
CONSTANTS
  CRs,     \* the ExternalMonitors
  Policy   \* "sync" or "upsert-only"

VARIABLES
  held,    \* CRs that cannot vanish without the operator (they have its finalizer)
  doomed,  \* those of them whose deletion was requested
  claim,   \* existing monitor -> the CR that claims it, Free or Theirs
  turn     \* changes exactly when the operator moves, so that its moves are told from others'

cvars == <<held, doomed, claim, turn>>

Free   == "free"
Theirs == "theirs"

Claims(r) == {i \in DOMAIN claim : claim[i] = r}

\* claim with monitor i added or changed, and without it.
With(i, who) == [j \in DOMAIN claim \cup {i} |-> IF j = i THEN who ELSE claim[j]]
Without(i)   == [j \in DOMAIN claim \ {i} |-> claim[j]]

\* The monitors that exist before or after the step.
Touched == DOMAIN claim \cup DOMAIN claim'

Init ==
  /\ held = {} /\ doomed = {}
  /\ \A i \in DOMAIN claim : claim[i] \in {Free, Theirs}
  /\ turn = "idle"

(***************************************************************************)
(* The operator.                                                           *)
(***************************************************************************)

\* It puts its finalizer on a CR.
Hold(r) == held' = held \cup {r} /\ UNCHANGED <<doomed, claim>>

\* A CR without a claim takes a new monitor or one that nobody claims.
Claim(i, r) ==
  /\ r \in held /\ Claims(r) = {}
  /\ i \in DOMAIN claim => claim[i] = Free
  /\ claim' = With(i, r)
  /\ UNCHANGED <<held, doomed>>

\* Only the monitor of a doomed CR is deleted, and only under policy sync.
Delete(i, r) ==
  /\ Policy = "sync"
  /\ r \in doomed /\ i \in Claims(r)
  /\ claim' = Without(i)
  /\ UNCHANGED <<held, doomed>>

\* A doomed CR is let go; under policy sync its monitor is gone by then.
Release(r) ==
  /\ r \in doomed
  /\ Policy = "sync" => Claims(r) = {}
  /\ held' = held \ {r} /\ doomed' = doomed \ {r}
  /\ UNCHANGED claim

\* It reads, refreshes a monitor it claims, writes a status, fails or restarts.
Think == UNCHANGED <<held, doomed, claim>>

Operator ==
  /\ turn' # turn
  /\ \/ \E r \in CRs : Hold(r) \/ Release(r)
     \/ \E i \in Touched, r \in CRs : Claim(i, r) \/ Delete(i, r)
     \/ Think

(***************************************************************************)
(* Users and other clients of Mackerel.                                    *)
(***************************************************************************)
Doom(r)        == r \in held /\ doomed' = doomed \cup {r} /\ UNCHANGED <<held, claim>>
Appear(i, who) == i \notin DOMAIN claim /\ claim' = With(i, who) /\ UNCHANGED <<held, doomed>>
Vanish(i)      == i \in DOMAIN claim /\ claim' = Without(i) /\ UNCHANGED <<held, doomed>>

Others ==
  /\ turn' = turn
  /\ \/ \E r \in CRs : Doom(r)
     \/ \E i \in Touched : Appear(i, Free) \/ Appear(i, Theirs) \/ Vanish(i)

Next == Operator \/ Others

Spec == Init /\ [][Next]_cvars

==============================================================================

---------------------------- MODULE MCReconciler -----------------------------
(***************************************************************************)
(* Constants for the runs of Reconciler.                                   *)
(***************************************************************************)
EXTENDS ReconcilerRefinement

\* Hashes: one that tells all desired states apart, and one so short that it tells
\* none apart (the hash length may be as small as 1).
InjectiveHash(d) ==
  d.name \o "," \o d.body \o "," \o d.headers \o "," \o d.memo \o "," \o d.resource
CollidingHash(d) == "h"

SpecOf(name, body, headers, memo) ==
  [name |-> name, body |-> body, headers |-> headers, memo |-> memo]

\* Specs that differ in the fields that are compared.
BodySpecs == {SpecOf("n", "b1", Unmanaged, ""), SpecOf("n", "b2", Unmanaged, "")}

\* One spec for everybody: two CRs that ask for the same monitor name.
SameSpec == {SpecOf("n", "b1", Unmanaged, "")}

\* Headers from a Secret, unmanaged ones, and a header that is neither (only where the
\* CRD's validation rule is not enforced).
HeaderSpecs == {SpecOf("n", "b1", h, "") : h \in {"s", Unmanaged, Broken}}

\* A header from a Secret, or another body and no headers.
FaultSpecs == {SpecOf("n", "b1", "s", ""), SpecOf("n", "b2", Unmanaged, "")}

\* Specs that differ in the memo only.
MemoSpecs == {SpecOf("n", "b1", Unmanaged, t) : t \in {"", "note"}}

HumanMonitor(name, body) ==
  [name |-> name, body |-> body, headers |-> DefaultHeaders,
   memo |-> [text |-> "note", marker |-> NoMarker]]
ForeignMonitor(name, body, r) ==
  [HumanMonitor(name, body) EXCEPT !.memo.marker = ForeignMarker(r)]

\* What Mackerel holds at first: nothing; nothing, a monitor somebody made by hand, which
\* matches the specs with body b1, or one of another operator, for a CR of the same name;
\* two monitors of one name.
NoMonitors  == {<<>>}
AnyOne      == {<<>>, <<HumanMonitor("n", "b1")>>, <<ForeignMonitor("n", "b1", "ns/a")>>}
AnyOneOrTwo == AnyOne \cup {<<HumanMonitor("n", "b1"), HumanMonitor("n", "b1")>>}

==============================================================================

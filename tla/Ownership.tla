------------------------------ MODULE Ownership ------------------------------
(***************************************************************************)
(* Ownership markers (internal/ownership/marker.go).  The operator keeps   *)
(* the only durable record of which Mackerel monitor it owns in the        *)
(* monitor's memo, as an HTML comment                                      *)
(*                                                                         *)
(*   <!-- heritage=mackerel-operator,resource=R,owner=O,hash=H -->         *)
(*                                                                         *)
(* A memo is abstracted to the text outside the marker, up to the newline  *)
(* that ApplyMarker puts between the two, and the first marker found in    *)
(* it.  A memo without a (well-formed) marker carries NoMarker, Go's zero  *)
(* Marker.                                                                 *)
(***************************************************************************)

\* type Marker and the shape of a memo.
Marker == [resource : STRING, owner : STRING, hash : STRING]
Memo   == [text : STRING, marker : Marker]

NoMarker == [resource |-> "", owner |-> "", hash |-> ""]

BuildMarker(resource, owner, hash) ==
  [resource |-> resource, owner |-> owner, hash |-> hash]

\* ParseMarker's two results: the marker, and whether there is one.
ParseMarker(memo) == memo.marker
HasMarker(memo)   == ParseMarker(memo) # NoMarker

\* RemoveMarker deletes the marker and leaves the text.
RemoveMarker(memo) == memo.text

\* ApplyMarker replaces whatever marker the memo had.
ApplyMarker(memo, marker) == [text |-> RemoveMarker(memo), marker |-> marker]

==============================================================================

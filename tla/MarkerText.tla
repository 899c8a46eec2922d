------------------------------ MODULE MarkerText ------------------------------
(***************************************************************************)
(* Markers as text in a memo (internal/ownership/marker.go).               *)
(*                                                                         *)
(* A memo is a sequence of tokens:                                         *)
(*   text        something a person wrote                                  *)
(*   newline                                                               *)
(*   marker      <!-- heritage=mackerel-operator,resource=..., ... -->     *)
(*   head, tail  the two parts of such a text, cut in the middle           *)
(* The owner in a marker is a sequence of bytes, as escaped.  A resource   *)
(* and a hash need no escapes and are whole values.                        *)
(***************************************************************************)
EXTENDS Integers, SequencesExt

Token(kind, resource, owner, hash) ==
  [kind |-> kind, resource |-> resource, owner |-> owner, hash |-> hash]

IsToken(t) == t = Token(t.kind, t.resource, t.owner, t.hash)

IsMemo(memo) ==
  /\ Len(memo) \in Nat /\ memo = [i \in 1..Len(memo) |-> memo[i]]
  /\ \A i \in 1..Len(memo) : IsToken(memo[i])

Text    == Token("text", "", <<>>, <<>>)
NewLine == Token("newline", "", <<>>, <<>>)

------------------------------------------------------------------------------
Bytes == 0..255

\* 'a'..'z', 'A'..'Z', '0'..'9', '-', '_', '.', '/'.
isMarkerValueSafe(b) ==
  b \in 97..122 \cup 65..90 \cup 48..57 \cup {45, 95, 46, 47}

Percent == 37

HexDigit(n) == IF n < 10 THEN 48 + n ELSE 55 + n

\* The digit's value; -1 if it is none.
HexValue(b) ==
  IF b \in 48..57 THEN b - 48
  ELSE IF b \in 65..70 THEN b - 55
  ELSE IF b \in 97..102 THEN b - 87
  ELSE -1

\* Mutant: only what separates the fields is escaped.
escapeSeparators(value) ==
  FlattenSeq([i \in DOMAIN value |->
    IF value[i] \in {32, 44} THEN <<Percent, HexDigit(value[i] \div 16), HexDigit(value[i] % 16)>>
                             ELSE <<value[i]>>])

escapeMarkerValue(value) ==
  FlattenSeq([i \in DOMAIN value |->
    IF isMarkerValueSafe(value[i])
      THEN <<value[i]>>
      ELSE <<Percent, HexDigit(value[i] \div 16), HexDigit(value[i] % 16)>>])

\* Where the scan of unescapeMarkerValue stops on its way: behind a plain byte or behind
\* an escape.  at[i]: it gets to position i.
ScanReaches(value) ==
  LET at[i \in 1..Len(value)] ==
        \/ i = 1
        \/ i > 1 /\ at[i - 1] /\ value[i - 1] # Percent
        \/ i > 3 /\ at[i - 3] /\ value[i - 3] = Percent
  IN at

\* unescapeMarkerValue's two results: whether it succeeds, and the value.
Unescapable(value) ==
  \A i \in DOMAIN value : ScanReaches(value)[i] /\ value[i] = Percent =>
    /\ i + 2 <= Len(value)
    /\ HexValue(value[i + 1]) >= 0 /\ HexValue(value[i + 2]) >= 0

unescapeMarkerValue(value) ==
  FlattenSeq([i \in DOMAIN value |->
    IF ~ScanReaches(value)[i] THEN <<>>
    ELSE IF value[i] # Percent THEN <<value[i]>>
    ELSE <<16 * HexValue(value[i + 1]) + HexValue(value[i + 2])>>])

------------------------------------------------------------------------------
\* The comma and RE2's \s: tab, newline, form feed, carriage return and space.
Separators == {44, 9, 10, 12, 13, 32}

\* What markerPattern demands of a value: at least one byte, and no separator.
ValueMatches(value) == value # <<>> /\ \A i \in DOMAIN value : value[i] \notin Separators

\* The token at position i of memo belongs to a match of markerPattern.
Matched(memo, i) ==
  /\ ValueMatches(memo[i].owner)
  /\ \/ memo[i].kind = "marker"
     \/ memo[i].kind = "head" /\ i < Len(memo) /\ memo[i + 1] = [memo[i] EXCEPT !.kind = "tail"]
     \/ memo[i].kind = "tail" /\ i > 1 /\ memo[i - 1] = [memo[i] EXCEPT !.kind = "head"]

\* BuildMarker, for a marker [resource, owner, hash].
BuildMarker(marker) ==
  Token("marker", marker.resource, escapeMarkerValue(marker.owner), marker.hash)

\* The position of the first match, as a set of at most one element: only this match counts,
\* and a value in it that cannot be unescaped makes it no marker at all.
FirstMatch(memo) ==
  {i \in DOMAIN memo : /\ Matched(memo, i)
                       /\ \A j \in 1..(i - 1) : ~Matched(memo, j)
                       /\ Unescapable(memo[i].owner)}

\* ParseMarker's results: the marker as a set of at most one element.
ParseMarker(memo) ==
  {[resource |-> memo[i].resource, owner |-> unescapeMarkerValue(memo[i].owner),
    hash |-> memo[i].hash] : i \in FirstMatch(memo)}

\* ReplaceAllString takes all matches out, in one pass.
RemoveMarker(memo) ==
  FlattenSeq([i \in DOMAIN memo |-> IF Matched(memo, i) THEN <<>> ELSE <<memo[i]>>])

\* Mutant: a newline is put before the marker in any case.
ApplyMarkerOnNewLine(memo, marker) ==
  LET base == RemoveMarker(memo)
  IN base \o (IF base = <<>> THEN <<>> ELSE <<NewLine>>) \o <<BuildMarker(marker)>>

ApplyMarker(memo, marker) ==
  LET base == RemoveMarker(memo)
      gap  == IF base = <<>> \/ Last(base) = NewLine THEN <<>> ELSE <<NewLine>>
  IN base \o gap \o <<BuildMarker(marker)>>

==============================================================================

---------------------------- MODULE MCMonitorSync -----------------------------
(***************************************************************************)
(* Constants for the runs of MonitorSync.                                  *)
(***************************************************************************)
EXTENDS MonitorSync

\* Owner ids: "me", and "p,%2C", which needs escapes and holds what looks like one.
Me       == <<109, 101>>
OddOwner == <<112, 44, 37, 50, 67>>

Flag(o, p, n) == [owner |-> o, policy |-> p, length |-> n, apiKey |-> TRUE]

\* Three ways to run the operator, the defaults but for the length, and two it refuses.
FlagSets == {Flag(Me, "sync", 12), Flag(Me, "sync", 7), Flag(OddOwner, "sync", 7),
             Flag(<<>>, "upsert-only", 64), Flag(Me, "sync", 65), [Flag(Me, "sync", 12) EXCEPT !.apiKey = FALSE]}
OnlyMe   == {Flag(Me, "sync", 7)}

H(n, v)      == [name |-> n, value |-> v]
FromValue(n) == [name |-> n, value |-> "v", secret |-> FALSE]
FromKey(n)   == [name |-> n, value |-> "v", secret |-> TRUE]

CacheControl == <<H(0, "no-cache")>>

BaseSpec ==
  [text |-> "t", method |-> "GET", interval |-> nil, code |-> nil, days |-> nil,
   duration |-> nil, limit |-> nil, flag |-> FALSE, attempts |-> 1, dualstack |-> "",
   headers |-> nil, memo |-> <<>>]

Specs == {BaseSpec,
          [BaseSpec EXCEPT !.headers = {<<FromKey(2), FromValue(1)>>}, !.memo = <<Text>>],
          [BaseSpec EXCEPT !.duration = {1}, !.limit = {1}]}

OnlyLimit == {[BaseSpec EXCEPT !.duration = {1}, !.limit = {1}]}

\* A monitor made by hand that equals the first spec, with a memo of its own.
ByHand ==
  [text |-> "t", method |-> "GET", interval |-> 0, code |-> nil, days |-> nil,
   duration |-> nil, limit |-> nil, flag |-> FALSE, attempts |-> 1, dualstack |-> nil,
   headers |-> CacheControl, memo |-> <<Text, NewLine>>]

\* People change limits, to whole milliseconds and to others.
LimitEdits  == [limit |-> {{2}, {3}}]

\* Values users write: for every field one that is refused by the CRD, where there is
\* one, and the boundary it allows.
UserEdits ==
  [text      |-> {"u"},
   method    |-> {"POST"},
   interval  |-> {{0}, {10}},
   code      |-> {{200}, {600}},
   days      |-> {{0}, {-1}},
   duration  |-> {{0}, {1}},
   limit     |-> {{0}, {1}},
   flag      |-> {TRUE},
   attempts  |-> {0, 10},
   dualstack |-> {"ipv4", "ipv6"},
   headers   |-> {nil, {<<>>}, {<<FromKey(2), FromValue(1)>>}, {<<FromValue(1), FromKey(2)>>}},
   memo      |-> {<<Text>>}]

UIEdits ==
  [text      |-> {"u"},
   method    |-> {"POST"},
   interval  |-> {10, 2 * MaxInt + 1},
   code      |-> {{200}},
   days      |-> {{0}, {MaxInt + 1}},
   duration  |-> {{1}},
   limit     |-> {{0}, {2}, {3}},
   flag      |-> {TRUE},
   attempts  |-> {10},
   dualstack |-> {nil, {"ipv4"}, {"ipv6"}},
   headers   |-> {<<>>, <<H(2, "v"), H(1, "v")>>, <<H(2, "v"), H(2, "v")>>}]

\* Markers in memos: of another operator, whole and cut in two, and one with an escape
\* that cannot be read.
Other(kind) == Token(kind, Resource, <<120>>, <<>>)
Unreadable  == Token("marker", Resource, <<37, 122>>, <<>>)

Wires == {{}, {ByHand}, {[ByHand EXCEPT !.memo = <<Other("head"), Unreadable, Other("tail")>>]}}

MemoPieces == {Text, NewLine, Other("marker"), Other("head"), Other("tail"), Unreadable}

\* Sizes for memos of at most 6 characters: room for two markers, but not for every text.
SmallSizes == [text |-> 1, newline |-> 1, marker |-> 2, head |-> 1, tail |-> 1]

\* The real sizes: a memo text of 1900 characters, and the marker of a CR with the longest
\* namespace (63) and name (253), the default owner and the default hash length:
\*   41 + 16 + 63 + 1 + 253 + 7 + 7 + 6 + 7 + 4.
RealSizes == [text |-> 1900, newline |-> 1, marker |-> 405, head |-> 1, tail |-> 1]

NoEdits  == [text |-> {}]
MemoOnly == [memo |-> {<<Text>>}]

==============================================================================

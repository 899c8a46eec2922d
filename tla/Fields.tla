------------------------------- MODULE Fields --------------------------------
(***************************************************************************)
(* A monitor field by field, on its way from a CR's spec to Mackerel and   *)
(* back: the CRD's validation, the defaults of internal/source, the        *)
(* conversions of internal/provider and the comparison of                  *)
(* internal/planner.                                                       *)
(*                                                                         *)
(* Fields that are treated alike are one field here:                       *)
(*   text      service, url, containsString, requestBody (copied)          *)
(*   method    the method, GET unless given                                *)
(*   interval  notificationInterval: in Mackerel a number, 0 if unset      *)
(*   code      expectedStatusCode: a pointer on both sides                 *)
(*   days      certificationExpiration*: *int against *uint64              *)
(*   duration  responseTimeDuration: *int against *uint64                  *)
(*   limit     responseTimeWarning, responseTimeCritical: *int, *float64   *)
(*   flag      isMute, followRedirect, skipCertificateVerification         *)
(*   attempts  maxCheckAttempts: an int, 1 unless given                    *)
(*   dualstack "" in the spec, and absent in Mackerel, mean ipv4           *)
(*   headers   a list of [name, value]; in a spec also whether the value   *)
(*             comes from a Secret                                         *)
(* A pointer is a set of at most one element, nil the empty set.  A        *)
(* float64 is counted in halves: fractions are all that matters of it.     *)
(* Header names are numbers, for their order.                              *)
(***************************************************************************)
EXTENDS Integers, SequencesExt

CONSTANTS
  MaxInt,         \* math.MaxInt
  DefaultHeaders  \* the headers Mackerel gives a monitor that is created without any

nil      == {}
Deref(p) == CHOOSE v \in p : TRUE
IsPointer(p) == \A u, v \in p : u = v
Opt(S)   == {nil} \cup {{v} : v \in S}

\* Go's int and uint64.
Ints  == (-MaxInt - 1)..MaxInt
Uints == 0..(2 * MaxInt + 1)

\* What the fields hold in a spec and in Mackerel, headers and memo apart.
SpecFields ==
  [text |-> STRING, method |-> STRING, interval |-> Opt(Ints), code |-> Opt(Ints),
   days |-> Opt(Ints), duration |-> Opt(Ints), limit |-> Opt(Ints), flag |-> BOOLEAN,
   attempts |-> Ints, dualstack |-> STRING]

WireFields ==
  [text |-> STRING, method |-> STRING, interval |-> Uints, code |-> Opt(Ints),
   days |-> Opt(Uints), duration |-> Opt(Uints), limit |-> Opt(Uints), flag |-> BOOLEAN,
   attempts |-> Uints, dualstack |-> Opt({"ipv4", "ipv6", "auto"})]

\* The header lists of a spec.
SpecHeaders == Seq([name : Int, value : STRING, secret : BOOLEAN])

HasType(x, fields) ==
  /\ x = [f \in DOMAIN fields \cup {"headers", "memo"} |-> x[f]]
  /\ \A f \in DOMAIN fields : x[f] \in fields[f]

------------------------------------------------------------------------------
(***************************************************************************)
(* api/v1alpha1: what the API server lets through.                         *)
(***************************************************************************)
ValidSpec(spec) ==
  /\ spec.method \in {"GET", "POST", "PUT", "DELETE"}
  /\ \A v \in spec.interval : v >= 10
  /\ \A v \in spec.code : v \in 100..599
  /\ \A v \in spec.duration : v >= 1
  /\ \A v \in spec.limit \cup spec.days : v >= 0
  /\ spec.limit # nil => spec.duration # nil
  /\ spec.attempts \in 1..10
  /\ spec.dualstack \in {"", "ipv4", "ipv6", "auto"}
  /\ \A list \in spec.headers : IsInjective([i \in DOMAIN list |-> list[i].name])

------------------------------------------------------------------------------
(***************************************************************************)
(* internal/provider: conversions.                                         *)
(***************************************************************************)
intPtrFromUint64(v) == IF v = 0 \/ v > MaxInt THEN nil ELSE {v}

\* Mutant: a pointer to 0 is read like an absent one.
intPtrFromUint64PtrOrZero(p) == {v \in p : v # 0 /\ v <= MaxInt}

intPtrFromUint64Ptr(p)  == {v \in p : v <= MaxInt}
intPtrFromFloat64(p)    == {v \div 2 : v \in p}
intFromUint64(v)        == IF v > MaxInt THEN 0 ELSE v

\* Mutant: unset is -1.
uint64FromIntPtrOrMinusOne(p) == IF p = nil THEN -1 ELSE Deref(p)

uint64FromIntPtr(p)     == IF p = nil THEN 0 ELSE Deref(p)
uint64PtrFromIntPtr(p)  == p
float64PtrFromIntPtr(p) == {2 * v : v \in p}

\* errNegativeIntValue: no payload can be made of a negative number.
Negative(desired) ==
  \E v \in desired.interval \cup desired.days \cup desired.duration \cup desired.limit
             \cup {desired.attempts} : v < 0

NormalizeDualstack(s) == IF s = "" THEN "ipv4" ELSE s

dualstackFromMackerel(p) == IF p = nil THEN "" ELSE Deref(p)

dualstackToMackerel(s) == {NormalizeDualstack(s)}

\* What the operator sees of Mackerel's monitor m.
actualExternalMonitorFromMackerel(m) ==
  [m EXCEPT !.interval  = intPtrFromUint64(@),
            !.days      = intPtrFromUint64Ptr(@),
            !.duration  = intPtrFromUint64Ptr(@),
            !.limit     = intPtrFromFloat64(@),
            !.attempts  = intFromUint64(@),
            !.dualstack = dualstackFromMackerel(@)]

\* The payload of a PUT or POST: base with every managed field replaced.  base matters
\* for the headers only: the fields above are all that such a monitor has.
mergeMackerelExternalMonitor(base, desired, memo) ==
  [text      |-> desired.text,
   method    |-> desired.method,
   interval  |-> uint64FromIntPtr(desired.interval),
   code      |-> desired.code,
   days      |-> uint64PtrFromIntPtr(desired.days),
   duration  |-> uint64PtrFromIntPtr(desired.duration),
   limit     |-> float64PtrFromIntPtr(desired.limit),
   flag      |-> desired.flag,
   attempts  |-> desired.attempts,
   dualstack |-> dualstackToMackerel(desired.dualstack),
   headers   |-> IF desired.headers = nil THEN base.headers ELSE Deref(desired.headers),
   memo      |-> memo]

\* Mackerel, as the code relies on it: a monitor created without headers gets the
\* default ones.
NoBase == [headers |-> DefaultHeaders]

------------------------------------------------------------------------------
(***************************************************************************)
(* internal/source: the desired state, but for hash, owner and resource.   *)
(***************************************************************************)

\* Mutant: headers stay in the order of the spec.
headersAsWritten(headers, resolves) ==
  {[i \in DOMAIN list |-> [name |-> list[i].name, value |-> list[i].value]] : list \in headers}

\* A caller that does not resolve headers (the deletion path) loses those whose value
\* comes from a Secret.
KeptHeaders(list, resolves) == {i \in DOMAIN list : resolves \/ ~list[i].secret}

\* Where a stable sort by name puts the i-th header of a list, among those kept.
Place(list, kept, i) ==
  Cardinality({j \in kept : \/ list[j].name < list[i].name
                            \/ list[j].name = list[i].name /\ j <= i})

Sorted(list, kept) ==
  LET at(k) == list[CHOOSE i \in kept : Place(list, kept, i) = k]
  IN [k \in 1..Cardinality(kept) |-> [name |-> at(k).name, value |-> at(k).value]]

sortedHeaders(headers, resolves) ==
  {Sorted(list, KeptHeaders(list, resolves)) : list \in headers}

FromExternalMonitor(spec, resolves) ==
  [spec EXCEPT !.method   = IF @ = "" THEN "GET" ELSE @,
               !.attempts = IF @ > 1 THEN @ ELSE 1,
               !.headers  = sortedHeaders(@, resolves)]

------------------------------------------------------------------------------
(***************************************************************************)
(* internal/planner: the comparison.                                       *)
(***************************************************************************)

\* Both sides are sorted by name and value and compared: equal as bags.
headersMatch(desired, actual) == ToBag(desired) = ToBag(actual)

headersInSync(desired, actual) == \A list \in desired : headersMatch(list, actual)

\* Mutant: nobody looks at the limits.
actualMatchesButLimits(desired, actual) ==
  /\ \A f \in {"text", "method", "interval", "code", "days", "duration", "flag", "attempts"} :
       desired[f] = actual[f]
  /\ NormalizeDualstack(desired.dualstack) = NormalizeDualstack(actual.dualstack)
  /\ headersInSync(desired.headers, actual.headers)

actualMatchesDesired(desired, actual) ==
  /\ \A f \in {"text", "method", "interval", "code", "days", "duration", "limit", "flag",
               "attempts"} :
       desired[f] = actual[f]
  /\ NormalizeDualstack(desired.dualstack) = NormalizeDualstack(actual.dualstack)
  /\ headersInSync(desired.headers, actual.headers)

==============================================================================

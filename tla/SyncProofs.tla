------------------------------ MODULE SyncProofs ------------------------------
(***************************************************************************)
(* The operator writes only what Mackerel accepts, and the comparison that *)
(* decides whether it writes sees every number that a spec can ask for:    *)
(* for every set of flags, specs and edits.                                *)
(***************************************************************************)
EXTENDS MonitorSync, MarkerProofs, FiniteSetTheorems

\* The fields of a monitor and of a spec.
Plain  == {"text", "method", "interval", "code", "days", "duration", "limit", "flag",
           "attempts", "dualstack"}
AllFields == Plain \cup {"headers", "memo"}

LEMMA FieldNames == DOMAIN SpecFields = Plain /\ DOMAIN WireFields = Plain
  BY DEF SpecFields, WireFields, Plain

------------------------------------------------------------------------------
(***************************************************************************)
(* Pointers.                                                               *)
(***************************************************************************)

LEMMA DerefSingleton ==
  ASSUME NEW v
  PROVE  Deref({v}) = v
  BY DEF Deref

LEMMA DerefMember ==
  ASSUME NEW p, p # nil
  PROVE  Deref(p) \in p
  BY DEF Deref, nil

\* A pointer is nil, or it points to something.
LEMMA OptCases ==
  ASSUME NEW S, NEW p \in Opt(S)
  PROVE  p = nil \/ \E v \in S : p = {v} /\ Deref(p) = v
  BY DerefSingleton DEF Opt

LEMMA OptIntro ==
  ASSUME NEW S
  PROVE  nil \in Opt(S) /\ \A v \in S : {v} \in Opt(S)
  BY DEF Opt

\* What fields of a monitor may hold, one by one.
LEMMA WireFieldsAre ==
  /\ WireFields["text"] = STRING /\ WireFields["method"] = STRING
  /\ WireFields["interval"] = Uints /\ WireFields["code"] = Opt(Ints)
  /\ WireFields["days"] = Opt(Uints) /\ WireFields["duration"] = Opt(Uints)
  /\ WireFields["limit"] = Opt(Uints) /\ WireFields["flag"] = BOOLEAN
  /\ WireFields["attempts"] = Uints
  /\ WireFields["dualstack"] = Opt({"ipv4", "ipv6", "auto"})
  BY DEF WireFields

LEMMA MaxIntOK == MaxInt \in Nat /\ MaxInt > 0 /\ MaxEdits \in Nat
<1>1. MaxInt \in Nat \ {0} /\ MaxEdits \in Nat
  BY SyncAssumption DEF SyncAssumption
<1>. QED
  BY <1>1

\* The ints that are not negative fit into a uint64, twice.
LEMMA IntsFit ==
  /\ 0 \in Uints
  /\ \A v \in Ints : v \in Int /\ (v < 0 \/ v >= 0)
  /\ \A v \in Ints : v >= 0 => v \in Uints /\ 2 * v \in Uints
<1>1. ASSUME NEW v \in Ints, v >= 0
      PROVE  v \in Uints /\ 2 * v \in Uints
  <2>1. v \in Int /\ v <= MaxInt
    BY MaxIntOK, <1>1 DEF Ints
  <2>2. 2 * v \in Int /\ 2 * v >= 0 /\ 2 * v <= 2 * MaxInt + 1 /\ v <= 2 * MaxInt + 1
    BY MaxIntOK, <1>1, <2>1
  <2>. QED
    BY MaxIntOK, <1>1, <2>1, <2>2 DEF Uints
<1>2. 0 \in Uints
  BY MaxIntOK DEF Uints
<1>3. \A v \in Ints : v \in Int /\ (v < 0 \/ v >= 0)
  BY MaxIntOK DEF Ints
<1>. QED
  BY <1>1, <1>2, <1>3

------------------------------------------------------------------------------
(***************************************************************************)
(* Types.                                                                  *)
(***************************************************************************)

\* The typed fields of a spec.
LEMMA SpecTyped ==
  ASSUME NEW s, HasType(s, SpecFields)
  PROVE  /\ DOMAIN s = AllFields /\ s = [f \in AllFields |-> s[f]]
         /\ s.text \in STRING /\ s.method \in STRING /\ s.interval \in Opt(Ints)
         /\ s.code \in Opt(Ints) /\ s.days \in Opt(Ints) /\ s.duration \in Opt(Ints)
         /\ s.limit \in Opt(Ints) /\ s.flag \in BOOLEAN /\ s.attempts \in Ints
         /\ s.dualstack \in STRING
<1>1. DOMAIN s = AllFields /\ s = [f \in AllFields |-> s[f]]
  BY FieldNames DEF HasType, AllFields
<1>2. \A f \in Plain : s[f] \in SpecFields[f]
  BY FieldNames DEF HasType
<1>. QED
  BY <1>1, <1>2 DEF Plain, SpecFields

\* The typed fields of a monitor in Mackerel.
LEMMA WireTyped ==
  ASSUME NEW m, HasType(m, WireFields)
  PROVE  /\ DOMAIN m = AllFields /\ m = [f \in AllFields |-> m[f]]
         /\ m.text \in STRING /\ m.method \in STRING /\ m.interval \in Uints
         /\ m.code \in Opt(Ints) /\ m.days \in Opt(Uints) /\ m.duration \in Opt(Uints)
         /\ m.limit \in Opt(Uints) /\ m.flag \in BOOLEAN /\ m.attempts \in Uints
         /\ m.dualstack \in Opt({"ipv4", "ipv6", "auto"})
<1>1. DOMAIN m = AllFields /\ m = [f \in AllFields |-> m[f]]
  BY FieldNames DEF HasType, AllFields
<1>2. \A f \in Plain : m[f] \in WireFields[f]
  BY FieldNames DEF HasType
<1>. QED
  BY <1>1, <1>2 DEF Plain, WireFields

\* An edit of one field keeps the type.
LEMMA EditTyped ==
  ASSUME NEW fields, NEW x, HasType(x, fields), NEW f \in DOMAIN fields \cup {"headers", "memo"}, NEW v,
         f \notin {"headers", "memo"} => v \in fields[f],
         DOMAIN fields \cap {"headers", "memo"} = {}
  PROVE  HasType([x EXCEPT ![f] = v], fields)
  BY DEF HasType

------------------------------------------------------------------------------
(***************************************************************************)
(* What Reconcile wants.                                                   *)
(***************************************************************************)

\* The desired state of an accepted spec.
LEMMA ContentTyped ==
  ASSUME NEW s, HasType(s, SpecFields), ValidSpec(s), NEW resolves
  PROVE  LET c == FromExternalMonitor(s, resolves) IN
         HasType(c, SpecFields) /\ c.attempts >= 1 /\ c.attempts \in Int
           /\ NormalizeDualstack(c.dualstack) \in {"ipv4", "ipv6", "auto"}
<1>. DEFINE c == FromExternalMonitor(s, resolves)
            c1 == [s EXCEPT !.method = IF @ = "" THEN "GET" ELSE @]
            c2 == [c1 EXCEPT !.attempts = IF @ > 1 THEN @ ELSE 1]
<1>1. c = [c2 EXCEPT !.headers = sortedHeaders(@, resolves)]
  BY DEF FromExternalMonitor
<1>2. HasType(c1, SpecFields) /\ c1.attempts = s.attempts /\ c1.dualstack = s.dualstack
  <2>1. (IF s.method = "" THEN "GET" ELSE s.method) \in SpecFields["method"]
    <3>1. s.method \in STRING /\ s.method # ""
      BY SpecTyped DEF ValidSpec
    <3>. QED
      BY <3>1 DEF SpecFields
  <2>2. HasType(c1, SpecFields)
    BY <2>1, EditTyped, FieldNames DEF Plain
  <2>. QED
    BY <2>2, SpecTyped DEF AllFields, Plain
<1>3. HasType(c2, SpecFields) /\ c2.attempts >= 1 /\ c2.attempts \in Int /\ c2.dualstack = s.dualstack
  <2>1. s.attempts \in 1..10
    BY DEF ValidSpec
  <2>2. c1.attempts = s.attempts /\ s.attempts \in SpecFields["attempts"]
    BY <1>2, SpecTyped DEF SpecFields
  <2>3. (IF c1.attempts > 1 THEN c1.attempts ELSE 1) = s.attempts
    BY <2>1, <2>2
  <2>4. c2 = [c1 EXCEPT !.attempts = s.attempts]
    BY <2>3
  <2>5. HasType(c2, SpecFields)
    BY <1>2, <2>2, <2>4, EditTyped, FieldNames DEF Plain
  <2>. QED
    <3>1. DOMAIN c1 = AllFields
      BY <1>2, SpecTyped
    <3>2. c2.attempts = s.attempts /\ c2.dualstack = c1.dualstack
      BY <2>4, <3>1 DEF AllFields, Plain
    <3>. HIDE DEF c1, c2
    <3>. QED
      BY <1>2, <2>1, <2>5, <3>2
<1>4. HasType(c, SpecFields)
  <2>1. "headers" \in DOMAIN SpecFields \cup {"headers", "memo"}
           /\ DOMAIN SpecFields \cap {"headers", "memo"} = {}
    BY FieldNames DEF Plain
  <2>. HIDE DEF c, c2
  <2>. PICK list : list = sortedHeaders(c2.headers, resolves)
    OBVIOUS
  <2>2. c = [c2 EXCEPT !.headers = list]
    BY <1>1
  <2>. QED
    BY <1>3, <2>1, <2>2, EditTyped
<1>5. c.attempts = c2.attempts /\ c.dualstack = c2.dualstack
  BY <1>1, <1>3, SpecTyped DEF AllFields, Plain
<1>6. NormalizeDualstack(s.dualstack) \in {"ipv4", "ipv6", "auto"}
  BY DEF ValidSpec, NormalizeDualstack
<1>. HIDE DEF c, c1, c2
<1>. QED
  BY <1>3, <1>4, <1>5, <1>6 DEF c

\* The fields that source takes over as they are, and the headers.
LEMMA ContentFields ==
  ASSUME NEW s, HasType(s, SpecFields), NEW resolves, NEW c, c = FromExternalMonitor(s, resolves)
  PROVE  /\ c.interval = s.interval /\ c.memo = s.memo
         /\ c.attempts = IF s.attempts > 1 THEN s.attempts ELSE 1
         /\ c.headers = sortedHeaders(s.headers, resolves)
<1>1. DOMAIN s = AllFields
  BY SpecTyped
<1>. QED
  BY <1>1 DEF FromExternalMonitor, AllFields, Plain

\* The fields of a payload.
LEMMA PayloadFields ==
  ASSUME NEW base, NEW d, NEW memo, NEW p, p = mergeMackerelExternalMonitor(base, d, memo)
  PROVE  /\ p = [f \in AllFields |-> p[f]]
         /\ p.text = d.text /\ p.method = d.method /\ p.interval = uint64FromIntPtr(d.interval)
         /\ p.code = d.code /\ p.days = uint64PtrFromIntPtr(d.days)
         /\ p.duration = uint64PtrFromIntPtr(d.duration)
         /\ p.limit = float64PtrFromIntPtr(d.limit) /\ p.flag = d.flag
         /\ p.attempts = d.attempts /\ p.dualstack = dualstackToMackerel(d.dualstack)
         /\ p.memo = memo
  BY DEF mergeMackerelExternalMonitor, AllFields, Plain

\* Headers that the spec does not manage stay.
LEMMA PayloadHeaders ==
  ASSUME NEW base, NEW d, NEW memo, NEW p, p = mergeMackerelExternalMonitor(base, d, memo)
  PROVE  p.headers = IF d.headers = nil THEN base.headers ELSE Deref(d.headers)
  BY DEF mergeMackerelExternalMonitor

\* A payload is something that Mackerel accepts, as far as types go.
LEMMA PayloadTyped ==
  ASSUME NEW d, HasType(d, SpecFields), ~Negative(d),
         NormalizeDualstack(d.dualstack) \in {"ipv4", "ipv6", "auto"}, NEW base, NEW memo
  PROVE  LET p == mergeMackerelExternalMonitor(base, d, memo) IN
         HasType(p, WireFields) /\ p.memo = memo
<1>1. \A v \in d.interval \cup d.days \cup d.duration \cup d.limit \cup {d.attempts} :
        v \in Ints => v \in Uints /\ 2 * v \in Uints
  BY IntsFit DEF Negative
<1>2. uint64FromIntPtr(d.interval) \in Uints
  <2>1. d.interval \in Opt(Ints)
    BY SpecTyped
  <2>2. CASE d.interval = nil
    BY <2>2, IntsFit DEF uint64FromIntPtr
  <2>3. ASSUME NEW v \in Ints, d.interval = {v}, Deref(d.interval) = v
        PROVE  uint64FromIntPtr(d.interval) \in Uints
    BY <1>1, <2>3 DEF uint64FromIntPtr, nil
  <2>. QED
    BY <2>1, <2>2, <2>3, OptCases
<1>3. ASSUME NEW q \in Opt(Ints), q \subseteq d.days \cup d.duration \cup d.limit
      PROVE  q \in Opt(Uints) /\ {2 * v : v \in q} \in Opt(Uints)
  <2>1. CASE q = nil
    BY <2>1, OptIntro DEF nil
  <2>2. ASSUME NEW v \in Ints, q = {v}
        PROVE  q \in Opt(Uints) /\ {2 * n : n \in q} \in Opt(Uints)
    <3>2. v \in Uints /\ 2 * v \in Uints
      BY <1>1, <1>3, <2>2
    <3>3. {2 * n : n \in q} = {2 * v}
      BY <2>2
    <3>. QED
      BY <2>2, <3>2, <3>3, OptIntro
  <2>. QED
    BY <2>1, <2>2, OptCases
<1>4. /\ d.days \in Opt(Uints) /\ d.duration \in Opt(Uints)
      /\ {2 * v : v \in d.limit} \in Opt(Uints)
  BY <1>3, SpecTyped
<1>5. d.attempts \in Uints
  BY <1>1, SpecTyped
<1>6. dualstackToMackerel(d.dualstack) \in Opt({"ipv4", "ipv6", "auto"})
  BY OptIntro DEF dualstackToMackerel
<1>. PICK p : p = mergeMackerelExternalMonitor(base, d, memo)
  OBVIOUS
<1>7. /\ p.text = d.text /\ p.method = d.method /\ p.interval = uint64FromIntPtr(d.interval)
      /\ p.code = d.code /\ p.days = d.days /\ p.duration = d.duration
      /\ p.limit = {2 * v : v \in d.limit} /\ p.flag = d.flag /\ p.attempts = d.attempts
      /\ p.dualstack = dualstackToMackerel(d.dualstack)
  BY PayloadFields DEF uint64PtrFromIntPtr, float64PtrFromIntPtr
<1>8. p = [f \in AllFields |-> p[f]] /\ p.memo = memo
  BY PayloadFields
<1>9. \A f \in Plain : p[f] \in WireFields[f]
  <2>1. /\ p.text \in STRING /\ p.method \in STRING /\ p.interval \in Uints
        /\ p.code \in Opt(Ints) /\ p.days \in Opt(Uints) /\ p.duration \in Opt(Uints)
        /\ p.limit \in Opt(Uints) /\ p.flag \in BOOLEAN /\ p.attempts \in Uints
        /\ p.dualstack \in Opt({"ipv4", "ipv6", "auto"})
    BY <1>2, <1>4, <1>5, <1>6, <1>7, SpecTyped
  <2>. QED
    BY <2>1, WireFieldsAre DEF Plain
<1>10. HasType(p, WireFields)
  BY <1>8, <1>9, FieldNames DEF HasType, AllFields
<1>. QED
  BY <1>8, <1>10

------------------------------------------------------------------------------
(***************************************************************************)
(* What Reconcile sees.                                                    *)
(***************************************************************************)

\* What Reconcile compares with the desired state.
LEMMA ActualFields ==
  ASSUME NEW m, HasType(m, WireFields), NEW a, a = actualExternalMonitorFromMackerel(m)
  PROVE  /\ a.text = m.text /\ a.method = m.method /\ a.interval = intPtrFromUint64(m.interval)
         /\ a.code = m.code /\ a.days = intPtrFromUint64Ptr(m.days)
         /\ a.duration = intPtrFromUint64Ptr(m.duration)
         /\ a.limit = intPtrFromFloat64(m.limit) /\ a.flag = m.flag
         /\ a.attempts = intFromUint64(m.attempts)
         /\ a.dualstack = dualstackFromMackerel(m.dualstack)
         /\ a.headers = m.headers
<1>1. DOMAIN m = AllFields
  BY WireTyped
<1>. QED
  BY <1>1 DEF actualExternalMonitorFromMackerel, AllFields, Plain

\* What matters of a monitor.
LEMMA EffectFields ==
  ASSUME NEW m, m = [f \in AllFields |-> m[f]], NEW e, e = Effect(m)
  PROVE  /\ e = [f \in AllFields |-> e[f]]
         /\ \A f \in AllFields \ {"dualstack", "headers", "memo"} : e[f] = m[f]
         /\ e.dualstack = IF m.dualstack = nil THEN {"ipv4"} ELSE m.dualstack
         /\ e.headers = ToBag(m.headers)
         /\ e.memo = <<>>
  BY DEF Effect, AllFields, Plain

\* Two monitors that agree in this act alike.
LEMMA EffectsEqual ==
  ASSUME NEW m, m = [f \in AllFields |-> m[f]], NEW n, n = [f \in AllFields |-> n[f]],
         \A f \in {"text", "method", "interval", "code", "days", "duration", "limit", "flag",
                  "attempts"} :
           m[f] = n[f],
         (IF m.dualstack = nil THEN {"ipv4"} ELSE m.dualstack)
           = (IF n.dualstack = nil THEN {"ipv4"} ELSE n.dualstack),
         ToBag(m.headers) = ToBag(n.headers)
  PROVE  Effect(m) = Effect(n)
<1>. PICK e : e = Effect(m)
  OBVIOUS
<1>. PICK g : g = Effect(n)
  OBVIOUS
<1>1. e = [f \in AllFields |-> e[f]] /\ g = [f \in AllFields |-> g[f]]
  BY EffectFields
<1>2. \A f \in AllFields \ {"dualstack", "headers", "memo"} : e[f] = g[f]
  <2>1. \A f \in AllFields \ {"dualstack", "headers", "memo"} : m[f] = n[f]
    BY DEF AllFields, Plain
  <2>. QED
    BY <2>1, EffectFields
<1>3. e.dualstack = g.dualstack /\ e.headers = g.headers /\ e.memo = g.memo
  BY EffectFields
<1>4. \A f \in AllFields : e[f] = g[f]
  BY <1>2, <1>3
<1>. QED
  BY <1>1, <1>4


\* The conversions lose nothing that an int can hold.
LEMMA ConversionsAgree ==
  /\ \A v \in Uints : v <= MaxInt => uint64FromIntPtr(intPtrFromUint64(v)) = v
  /\ \A p : (\A v \in p : v <= MaxInt) => intPtrFromUint64Ptr(p) = p
  /\ \A v \in Uints : intFromUint64(v) >= 1 => intFromUint64(v) = v
<1>1. ASSUME NEW v \in Uints, v <= MaxInt
      PROVE  uint64FromIntPtr(intPtrFromUint64(v)) = v
  <2>1. CASE v = 0
    <3>1. intPtrFromUint64(v) = nil
      BY <2>1 DEF intPtrFromUint64
    <3>. QED
      BY <2>1, <3>1 DEF uint64FromIntPtr
  <2>2. CASE v # 0
    <3>1. ~(v > MaxInt)
      BY MaxIntOK, <1>1 DEF Uints
    <3>2. intPtrFromUint64(v) = {v}
      BY <2>2, <3>1 DEF intPtrFromUint64
    <3>3. {v} # nil
      BY DEF nil
    <3>. QED
      BY <3>2, <3>3, DerefSingleton DEF uint64FromIntPtr
  <2>. QED
    BY <2>1, <2>2
<1>2. ASSUME NEW p, \A v \in p : v <= MaxInt
      PROVE  intPtrFromUint64Ptr(p) = p
  BY <1>2 DEF intPtrFromUint64Ptr
<1>3. ASSUME NEW v \in Uints, intFromUint64(v) >= 1
      PROVE  intFromUint64(v) = v
  BY <1>3 DEF intFromUint64
<1>. QED
  BY <1>1, <1>2, <1>3

\* A limit comes back as it was written.
LEMMA LimitComesBack ==
  ASSUME NEW q \in Opt(Ints)
  PROVE  intPtrFromFloat64(float64PtrFromIntPtr(q)) = q
<1>1. CASE q = nil
  BY <1>1 DEF intPtrFromFloat64, float64PtrFromIntPtr, nil
<1>2. ASSUME NEW v \in Ints, q = {v}
      PROVE  intPtrFromFloat64(float64PtrFromIntPtr(q)) = q
  <2>1. v \in Int
    BY IntsFit
  <2>2. (2 * v) \div 2 = v
    BY <2>1
  <2>3. float64PtrFromIntPtr(q) = {2 * v}
    BY <1>2 DEF float64PtrFromIntPtr
  <2>4. intPtrFromFloat64({2 * v}) = {(2 * v) \div 2}
    BY DEF intPtrFromFloat64
  <2>. QED
    BY <1>2, <2>2, <2>3, <2>4
<1>. QED
  BY <1>1, <1>2, OptCases

\* A limit in whole milliseconds is read as what it is, and written back.
LEMMA WholeLimit ==
  ASSUME NEW q \in Opt(Uints), \A v \in q : v % 2 = 0
  PROVE  float64PtrFromIntPtr(intPtrFromFloat64(q)) = q
<1>1. CASE q = nil
  BY <1>1 DEF intPtrFromFloat64, float64PtrFromIntPtr, nil
<1>2. ASSUME NEW v \in Uints, q = {v}
      PROVE  float64PtrFromIntPtr(intPtrFromFloat64(q)) = q
  <2>1. v \in Int /\ v % 2 = 0
    BY <1>2, MaxIntOK DEF Uints
  <2>2. 2 * (v \div 2) = v
    BY <2>1
  <2>. PICK h : h = v \div 2
    OBVIOUS
  <2>3. intPtrFromFloat64(q) = {h}
    BY <1>2 DEF intPtrFromFloat64
  <2>4. float64PtrFromIntPtr({h}) = {2 * h}
    BY DEF float64PtrFromIntPtr
  <2>. QED
    BY <1>2, <2>2, <2>3, <2>4
<1>. QED
  BY <1>1, <1>2, OptCases

\* The comparison has no blind spot there: if the desired state equals what is seen of a
\* monitor, the payload acts like the monitor.
LEMMA EqualActsAlike ==
  ASSUME NEW m, HasType(m, WireFields), Representable(m),
         NEW d, HasType(d, SpecFields), d.attempts >= 1,
         actualMatchesDesired(d, actualExternalMonitorFromMackerel(m)), NEW memo
  PROVE  Effect(mergeMackerelExternalMonitor(m, d, memo)) = Effect(m)
<1>. PICK a : a = actualExternalMonitorFromMackerel(m)
  OBVIOUS
<1>. PICK p : p = mergeMackerelExternalMonitor(m, d, memo)
  OBVIOUS
<1>1. /\ d.text = a.text /\ d.method = a.method /\ d.interval = a.interval /\ d.code = a.code
      /\ d.days = a.days /\ d.duration = a.duration /\ d.limit = a.limit /\ d.flag = a.flag
      /\ d.attempts = a.attempts
      /\ NormalizeDualstack(d.dualstack) = NormalizeDualstack(a.dualstack)
      /\ headersInSync(d.headers, a.headers)
  BY DEF actualMatchesDesired
<1>2. p.text = m.text /\ p.method = m.method /\ p.code = m.code /\ p.flag = m.flag
  BY <1>1, ActualFields, PayloadFields
<1>3. p.interval = m.interval
  <2>1. p.interval = uint64FromIntPtr(intPtrFromUint64(m.interval))
    BY <1>1, ActualFields, PayloadFields
  <2>2. m.interval \in Uints /\ m.interval <= MaxInt
    BY WireTyped DEF Representable
  <2>. QED
    BY <2>1, <2>2, ConversionsAgree
<1>4. p.days = m.days /\ p.duration = m.duration
  <2>1. /\ p.days = intPtrFromUint64Ptr(m.days)
        /\ p.duration = intPtrFromUint64Ptr(m.duration)
    BY <1>1, ActualFields, PayloadFields DEF uint64PtrFromIntPtr
  <2>2. (\A v \in m.days : v <= MaxInt) /\ (\A v \in m.duration : v <= MaxInt)
    BY DEF Representable
  <2>. QED
    BY <2>1, <2>2, ConversionsAgree
<1>5. p.attempts = m.attempts
  <2>1. p.attempts = intFromUint64(m.attempts) /\ intFromUint64(m.attempts) >= 1
    BY <1>1, ActualFields, PayloadFields
  <2>2. m.attempts \in Uints
    BY WireTyped
  <2>. QED
    BY <2>1, <2>2, ConversionsAgree
<1>6. p.limit = m.limit
  <2>1. p.limit = float64PtrFromIntPtr(intPtrFromFloat64(m.limit))
    BY <1>1, ActualFields, PayloadFields
  <2>2. m.limit \in Opt(Uints) /\ \A v \in m.limit : v % 2 = 0
    BY WireTyped DEF Representable
  <2>. QED
    BY <2>1, <2>2, WholeLimit
<1>7. (IF p.dualstack = nil THEN {"ipv4"} ELSE p.dualstack)
        = (IF m.dualstack = nil THEN {"ipv4"} ELSE m.dualstack)
  <2>1. p.dualstack = {NormalizeDualstack(dualstackFromMackerel(m.dualstack))}
    BY <1>1, ActualFields, PayloadFields DEF dualstackToMackerel
  <2>2. CASE m.dualstack = nil
    BY <2>1, <2>2 DEF dualstackFromMackerel, NormalizeDualstack, nil
  <2>3. ASSUME NEW v \in {"ipv4", "ipv6", "auto"}, m.dualstack = {v}, Deref(m.dualstack) = v
        PROVE  p.dualstack = m.dualstack
    BY <2>1, <2>3 DEF dualstackFromMackerel, NormalizeDualstack, nil
  <2>4. m.dualstack \in Opt({"ipv4", "ipv6", "auto"})
    BY WireTyped
  <2>5. CASE m.dualstack # nil
    BY <2>3, <2>4, <2>5, OptCases
  <2>. QED
    BY <2>2, <2>5, <2>1 DEF dualstackFromMackerel, NormalizeDualstack, nil
<1>8. ToBag(p.headers) = ToBag(m.headers)
  <2>1. p.headers = IF d.headers = nil THEN m.headers ELSE Deref(d.headers)
    BY PayloadHeaders
  <2>2. \A list \in d.headers : ToBag(list) = ToBag(m.headers)
    BY <1>1, ActualFields DEF headersInSync, headersMatch
  <2>. QED
    BY <2>1, <2>2, DerefMember
<1>9. m = [f \in AllFields |-> m[f]] /\ p = [f \in AllFields |-> p[f]]
  BY WireTyped, PayloadFields
<1>10. \A f \in {"text", "method", "interval", "code", "days", "duration", "limit", "flag",
                 "attempts"} :
         p[f] = m[f]
  BY <1>2, <1>3, <1>4, <1>5, <1>6
<1>. QED
  BY <1>7, <1>8, <1>9, <1>10, EffectsEqual


------------------------------------------------------------------------------
(***************************************************************************)
(* What Mackerel has.                                                      *)
(***************************************************************************)

\* Edits of a field are of its type.
LEMMA EditsTyped ==
  /\ \A f \in DOMAIN SpecEdits : \A v \in SpecEdits[f] :
       /\ f = "headers" => IsPointer(v) /\ v \subseteq SpecHeaders
       /\ f = "memo" => IsMemo(v)
       /\ f \notin {"headers", "memo"} => f \in Plain /\ v \in SpecFields[f]
  /\ \A f \in DOMAIN WireEdits : f # "headers" =>
       f \in Plain /\ WireEdits[f] \subseteq WireFields[f]
  /\ \A t \in Pieces : IsToken(t)
<1>1. ASSUME NEW f \in DOMAIN SpecEdits, NEW v \in SpecEdits[f]
      PROVE  /\ f = "headers" => IsPointer(v) /\ v \subseteq SpecHeaders
             /\ f = "memo" => IsMemo(v)
             /\ f \notin {"headers", "memo"} => f \in Plain /\ v \in SpecFields[f]
  BY SyncAssumption, FieldNames DEF SyncAssumption
<1>2. \A f \in DOMAIN WireEdits : f # "headers" =>
        f \in Plain /\ WireEdits[f] \subseteq WireFields[f]
  BY SyncAssumption, FieldNames DEF SyncAssumption
<1>3. \A t \in Pieces : IsToken(t)
  BY SyncAssumption DEF SyncAssumption
<1>. QED
  BY <1>1, <1>2, <1>3

\* The desired state of the CR as it is now.
LEMMA DesiredTyped ==
  ASSUME SyncTypeOK, NEW length, NEW resolves, NEW d, d = DesiredState(length, resolves).content
  PROVE  HasType(d, SpecFields) /\ d.attempts >= 1 /\ d.attempts \in Int
           /\ NormalizeDualstack(d.dualstack) \in {"ipv4", "ipv6", "auto"}
<1>1. HasType(spec, SpecFields) /\ ValidSpec(spec)
  BY DEF SyncTypeOK, AcceptedSpec
<1>2. d = FromExternalMonitor(spec, resolves)
  BY DEF DesiredState
<1>. QED
  BY <1>1, <1>2, ContentTyped

\* The memo that Reconcile wants.
FoundMemo == IF wire = {} THEN Desired.content.memo ELSE Deref(wire).memo
NewMemo   == ApplyMarker(FoundMemo, [resource |-> Desired.resource, owner |-> Desired.owner,
                                     hash |-> Desired.hash])

\* Rewriting a memo leaves a memo.
LEMMA RewrittenIsMemo ==
  ASSUME NEW memo, IsMemo(memo), NEW new \in Rewritten(memo)
  PROVE  IsMemo(new)
<1>. DEFINE S == {memo[i] : i \in 1..Len(memo)}
            T == S \cup Pieces
<1>1. memo \in Seq(S) /\ Len(memo) \in Nat /\ \A t \in T : IsToken(t)
  BY MemoIsSequence, EditsTyped
<1>2. S \subseteq T /\ Pieces \subseteq T
  OBVIOUS
<1>. HIDE DEF S, T
<1>3. memo \in Seq(T)
  BY <1>1, <1>2
<1>4. new \in Seq(T)
  <2>1. CASE new \in {InsertAt(memo, i, t) : i \in 1..(Len(memo) + 1), t \in Pieces}
    <3>1. PICK i \in 1..(Len(memo) + 1), t \in Pieces : new = InsertAt(memo, i, t)
      BY <2>1
    <3>2. SubSeq(memo, 1, i - 1) \in Seq(T) /\ SubSeq(memo, i, Len(memo)) \in Seq(T)
      BY <1>1, <1>3
    <3>3. <<t>> \in Seq(T)
      BY <1>2
    <3>. QED
      BY <3>1, <3>2, <3>3 DEF InsertAt
  <2>2. CASE new \in {RemoveAt(memo, i) : i \in 1..Len(memo)}
    <3>1. PICK i \in 1..Len(memo) : new = RemoveAt(memo, i)
      BY <2>2
    <3>2. SubSeq(memo, 1, i - 1) \in Seq(T) /\ SubSeq(memo, i + 1, Len(memo)) \in Seq(T)
      BY <1>1, <1>3
    <3>. QED
      BY <3>1, <3>2 DEF RemoveAt
  <2>. QED
    BY <2>1, <2>2 DEF Rewritten
<1>. QED
  BY <1>1, <1>4, SequenceIsMemo

\* The memo that Reconcile starts from is one, and so is the one that it wants.
LEMMA NewMemoTyped ==
  ASSUME SyncTypeOK
  PROVE  IsMemo(FoundMemo) /\ IsMemo(NewMemo)
<1>1. IsMemo(FoundMemo)
  <2>1. CASE wire = {}
    <3>1. Desired.content.memo = spec.memo
      BY ContentFields DEF Desired, DesiredState, SyncTypeOK, AcceptedSpec
    <3>. QED
      BY <2>1, <3>1 DEF FoundMemo, SyncTypeOK, AcceptedSpec
  <2>2. CASE wire # {}
    <3>1. Deref(wire) \in wire
      BY <2>2, DerefMember DEF nil
    <3>. QED
      BY <2>2, <3>1 DEF FoundMemo, SyncTypeOK, AcceptedWire
  <2>. QED
    BY <2>1, <2>2
<1>. QED
  BY <1>1, AppliedLayout DEF NewMemo

\* What one Reconcile does, in terms of the plan: it leaves the monitor alone, or writes
\* a payload that Mackerel accepts.
LEMMA SyncSteps ==
  ASSUME Sync
  PROVE  /\ UNCHANGED <<operator, spec, alive, edits>> /\ alive
         /\ keeper' = IF last' \in Synced THEN {ownerID} ELSE keeper
         /\ \/ last' \notin Writes /\ last' \in {Plan(Desired), "Refused"} /\ UNCHANGED wire
            \/ /\ last' = Plan(Desired) /\ last' \in Writes
               /\ ~Negative(Desired.content)
               /\ \E memo : /\ Fits(memo) /\ memo = NewMemo
                            /\ wire' = {mergeMackerelExternalMonitor(
                                          IF wire = {} THEN NoBase ELSE Deref(wire),
                                          Desired.content, memo)}
<1>. DEFINE base  == IF wire = {} THEN NoBase ELSE Deref(wire)
<1>1. /\ UNCHANGED <<operator, spec, alive, edits>> /\ alive
      /\ \/ Plan(Desired) \notin Writes /\ last' = Plan(Desired) /\ UNCHANGED wire
         \/ last' = "Refused" /\ UNCHANGED wire
         \/ /\ Plan(Desired) \in Writes /\ last' = Plan(Desired)
            /\ ~(Negative(Desired.content) \/ ~Fits(NewMemo))
            /\ wire' = {mergeMackerelExternalMonitor(base, Desired.content, NewMemo)}
  BY DEF Sync, Writes, NewMemo, FoundMemo
<1>4. keeper' = IF last' \in Synced THEN {ownerID} ELSE keeper
  <2>1. Desired.owner = ownerID
    BY DEF Desired, DesiredState
  <2>. QED
    BY <2>1 DEF Sync
<1>2. "Refused" \notin Writes
  BY DEF Writes
<1>. HIDE DEF base
<1>3. ASSUME ~(Negative(Desired.content) \/ ~Fits(NewMemo)),
             wire' = {mergeMackerelExternalMonitor(base, Desired.content, NewMemo)}
      PROVE  /\ ~Negative(Desired.content)
             /\ \E text : /\ Fits(text) /\ text = NewMemo
                          /\ wire' = {mergeMackerelExternalMonitor(base, Desired.content, text)}
  BY <1>3
<1>. QED
  BY <1>1, <1>2, <1>3, <1>4 DEF base


\* The first states.
LEMMA SyncInit == Init => SyncTypeOK
<1>. SUFFICES ASSUME Init PROVE SyncTypeOK
  OBVIOUS
<1>1. spec \in FirstSpecs /\ wire \in FirstWires
  BY DEF Init
<1>2. /\ AcceptedSpec(spec)
      /\ IsPointer(wire) /\ \A m \in wire : AcceptedWire(m)
  BY <1>1, SyncAssumption DEF SyncAssumption
<1>3. running \in BOOLEAN
  BY DEF Init, Accepted
<1>4. edits \in 0..MaxEdits
  BY MaxIntOK DEF Init
<1>5. keeper \in SUBSET ({defaultOwnerID} \cup {f.owner : f \in Flags})
  BY DEF Init
<1>. QED
  BY <1>2, <1>3, <1>4, <1>5 DEF Init, SyncTypeOK, Synced

\* Reconcile writes what Mackerel accepts.
LEMMA SyncKeeps ==
  ASSUME SyncTypeOK, Sync
  PROVE  SyncTypeOK'
<1>. PICK d : d = Desired.content
  OBVIOUS
<1>1. HasType(d, SpecFields) /\ NormalizeDualstack(d.dualstack) \in {"ipv4", "ipv6", "auto"}
  BY DesiredTyped DEF Desired
<1>2. Plan(Desired) \in {"Create", "RestoreMarker", "OwnershipLost", "Noop", "Update"}
  BY DEF Plan
<1>3. last' \in Synced \cup {"OwnershipLost", "Refused"}
  BY <1>2, SyncSteps DEF Synced, Writes
<1>4. IsPointer(wire') /\ \A m \in wire' : AcceptedWire(m)
  <2>1. CASE UNCHANGED wire
    BY <2>1 DEF SyncTypeOK
  <2>2. ASSUME NEW base, NEW memo, Fits(memo), memo = NewMemo, ~Negative(d),
               wire' = {mergeMackerelExternalMonitor(base, d, memo)}
        PROVE  IsPointer(wire') /\ \A m \in wire' : AcceptedWire(m)
    BY <1>1, <2>2, PayloadTyped, NewMemoTyped DEF AcceptedWire, IsPointer
  <2>. QED
    BY <2>1, <2>2, SyncSteps
<1>5. AcceptedSpec(spec)'
  BY SyncSteps DEF SyncTypeOK, AcceptedSpec
<1>6. keeper' \in SUBSET ({defaultOwnerID} \cup {f.owner : f \in Flags})
  BY SyncSteps DEF SyncTypeOK, ownerID
<1>. QED
  BY <1>3, <1>4, <1>5, <1>6, SyncSteps DEF SyncTypeOK, operator

\* People and users.
LEMMA EditsKeep ==
  ASSUME SyncTypeOK, EditSpec \/ EditWire \/ EditMemo \/ RemoveMonitor \/ Restart
  PROVE  SyncTypeOK'
<1>1. Edit
  BY DEF EditSpec, EditWire, EditMemo, RemoveMonitor, Restart
<1>2. /\ edits' \in 0..MaxEdits /\ last' = "edit" /\ alive' \in BOOLEAN
      /\ keeper' \in SUBSET ({defaultOwnerID} \cup {f.owner : f \in Flags})
  BY <1>1, MaxIntOK
     DEF Edit, SyncTypeOK, EditSpec, EditWire, EditMemo, RemoveMonitor, Restart
<1>3. CASE EditSpec
  <2>1. PICK f \in DOMAIN SpecEdits : \E v \in SpecEdits[f] :
          spec' = [spec EXCEPT ![f] = v] /\ ValidSpec(spec') /\ Size(spec'.memo) <= SpecLimit
    BY <1>3 DEF EditSpec
  <2>2. PICK v \in SpecEdits[f] :
          spec' = [spec EXCEPT ![f] = v] /\ ValidSpec(spec') /\ Size(spec'.memo) <= SpecLimit
    BY <2>1
  <2>3. /\ HasType(spec, SpecFields) /\ IsMemo(spec.memo)
        /\ IsPointer(spec.headers) /\ spec.headers \subseteq SpecHeaders
    BY DEF SyncTypeOK, AcceptedSpec
  <2>4. /\ f \in DOMAIN SpecFields \cup {"headers", "memo"}
        /\ f \notin {"headers", "memo"} => v \in SpecFields[f]
        /\ DOMAIN SpecFields \cap {"headers", "memo"} = {}
    BY EditsTyped, FieldNames DEF Plain
  <2>5. HasType(spec', SpecFields)
    BY <2>2, <2>3, <2>4, EditTyped
  <2>6. UNCHANGED <<flags, running, wire>>
    BY <1>3 DEF EditSpec, operator
  <2>7. /\ spec'.headers = IF f = "headers" THEN v ELSE spec.headers
        /\ spec'.memo = IF f = "memo" THEN v ELSE spec.memo
    BY <2>2, <2>3, SpecTyped DEF AllFields
  <2>8. /\ IsPointer(spec'.headers) /\ spec'.headers \subseteq SpecHeaders
        /\ IsMemo(spec'.memo)
    BY <2>3, <2>7, EditsTyped
  <2>9. AcceptedSpec(spec')
    BY <2>2, <2>5, <2>8 DEF AcceptedSpec
  <2>. QED
    BY <1>2, <2>6, <2>9 DEF SyncTypeOK
<1>4. ASSUME UNCHANGED <<spec, flags, running>>,
             \/ wire' = {}
             \/ \E m : HasType(m, WireFields) /\ IsMemo(m.memo) /\ Fits(m.memo) /\ wire' = {m}
      PROVE  SyncTypeOK'
  BY <1>2, <1>4 DEF SyncTypeOK, AcceptedSpec, AcceptedWire, IsPointer
<1>5. CASE EditWire
  <2>1. PICK m \in wire, f \in DOMAIN WireEdits : \E v \in WireEdits[f] :
          wire' = {[m EXCEPT ![f] = v]}
    BY <1>5 DEF EditWire
  <2>2. PICK v \in WireEdits[f] : wire' = {[m EXCEPT ![f] = v]}
    BY <2>1
  <2>3. HasType(m, WireFields) /\ IsMemo(m.memo) /\ Fits(m.memo)
    BY DEF SyncTypeOK, AcceptedWire
  <2>4. /\ f \in DOMAIN WireFields \cup {"headers", "memo"} /\ f # "memo"
        /\ f \notin {"headers", "memo"} => v \in WireFields[f]
        /\ DOMAIN WireFields \cap {"headers", "memo"} = {}
    BY EditsTyped, FieldNames DEF Plain
  <2>. PICK n : n = [m EXCEPT ![f] = v]
    OBVIOUS
  <2>5. HasType(n, WireFields)
    BY <2>3, <2>4, EditTyped
  <2>6. n.memo = m.memo
    BY <2>3, <2>4, WireTyped DEF AllFields
  <2>. QED
    BY <1>4, <1>5, <2>2, <2>3, <2>5, <2>6 DEF EditWire, operator
<1>6. CASE EditMemo
  <2>1. PICK m \in wire : \E memo \in Rewritten(m.memo) :
          Fits(memo) /\ wire' = {[m EXCEPT !.memo = memo]}
    BY <1>6 DEF EditMemo
  <2>2. PICK memo \in Rewritten(m.memo) : Fits(memo) /\ wire' = {[m EXCEPT !.memo = memo]}
    BY <2>1
  <2>3. HasType(m, WireFields) /\ IsMemo(memo)
    BY RewrittenIsMemo DEF SyncTypeOK, AcceptedWire
  <2>4. "memo" \in DOMAIN WireFields \cup {"headers", "memo"}
          /\ DOMAIN WireFields \cap {"headers", "memo"} = {}
    BY FieldNames DEF Plain
  <2>. PICK n : n = [m EXCEPT !.memo = memo]
    OBVIOUS
  <2>5. HasType(n, WireFields)
    BY <2>3, <2>4, EditTyped
  <2>6. n.memo = memo
    BY <2>3, WireTyped DEF AllFields
  <2>. QED
    BY <1>4, <1>6, <2>2, <2>3, <2>5, <2>6 DEF EditMemo, operator
<1>7. CASE RemoveMonitor
  BY <1>4, <1>7 DEF RemoveMonitor, operator
<1>8. CASE Restart
  BY <1>2, <1>8 DEF Restart, SyncTypeOK, Accepted, AcceptedSpec, AcceptedWire
<1>. QED
  BY <1>3, <1>5, <1>6, <1>7, <1>8

\* The operator never invents a monitor that Mackerel would not accept, and the edits
\* that the API server and Mackerel accept keep the types.
THEOREM SyncTypeCorrect == Spec => []SyncTypeOK
<1>1. ASSUME SyncTypeOK, [Next]_vars PROVE SyncTypeOK'
  <2>1. CASE Finalize
    <3>1. PlanDelete(DeletionDesired) \in {"Delete", "SkipDelete"}
      BY DEF PlanDelete
    <3>2. /\ UNCHANGED <<flags, running, spec, keeper, edits>> /\ alive' = FALSE
          /\ last' \in {"Delete", "SkipDelete"} /\ wire' \in {{}, wire}
      BY <2>1, <3>1 DEF Finalize, operator
    <3>. QED
      BY <1>1, <3>2 DEF SyncTypeOK, AcceptedSpec, AcceptedWire, IsPointer
  <2>2. CASE UNCHANGED vars
    BY <1>1, <2>2 DEF SyncTypeOK, AcceptedSpec, AcceptedWire, vars, operator
  <2>. QED
    BY <1>1, <2>1, <2>2, SyncKeeps, EditsKeep DEF Next
<1>. QED
  BY <1>1, SyncInit, PTL DEF Spec


------------------------------------------------------------------------------
(***************************************************************************)
(* The comparison.                                                         *)
(***************************************************************************)

\* The plan leaves a monitor as it is, or restores its marker, only if it equals the
\* desired state.
LEMMA PlanMeansEqual ==
  ASSUME NEW desired, Plan(desired) \in {"Noop", "RestoreMarker"}
  PROVE  wire # {} /\ actualMatchesDesired(desired.content,
                        actualExternalMonitorFromMackerel(Deref(wire)))
  BY DEF Plan

\* What Reconcile would write acts like what is there, whatever the memo.
LEMMA PlanActsAlike ==
  ASSUME SyncTypeOK, Plan(Desired) \in {"Noop", "RestoreMarker"},
         NEW m \in wire, Representable(m), NEW memo
  PROVE  /\ wire = {m} /\ Deref(wire) = m
         /\ Effect(mergeMackerelExternalMonitor(m, Desired.content, memo)) = Effect(m)
<1>. PICK d : d = Desired.content
  OBVIOUS
<1>1. wire = {m} /\ Deref(wire) = m
  BY DerefSingleton DEF SyncTypeOK, IsPointer
<1>2. actualMatchesDesired(d, actualExternalMonitorFromMackerel(m))
  BY <1>1, PlanMeansEqual
<1>3. HasType(m, WireFields)
  BY DEF SyncTypeOK, AcceptedWire
<1>4. HasType(d, SpecFields) /\ d.attempts >= 1
  BY DesiredTyped DEF Desired
<1>5. Effect(mergeMackerelExternalMonitor(m, d, memo)) = Effect(m)
  BY <1>2, <1>3, <1>4, EqualActsAlike
<1>. QED
  BY <1>1, <1>5

\* When Reconcile decides to do nothing, a PUT would not change how the monitor works,
\* for every spec and every monitor whose numbers a spec can ask for: no fraction of a
\* millisecond, nothing above MaxInt.
THEOREM ComparisonIsComplete == Spec => []NoBlindSpot
<1>1. SyncTypeOK => NoBlindSpot
  BY PlanActsAlike DEF NoBlindSpot, InStep
<1>. QED
  BY <1>1, SyncTypeCorrect, PTL

\* Adopting such a monitor, or marking it again, does not change how it works.
THEOREM AdoptionIsHarmless == Spec => AdoptsOnlyEqual
<1>. DEFINE Harmless ==
       last' = "RestoreMarker" /\ last # "RestoreMarker" /\ (\A m \in wire : Representable(m)) =>
         {Effect(m) : m \in wire'} = {Effect(m) : m \in wire}
<1>1. ASSUME SyncTypeOK, Next, last' = "RestoreMarker", \A m \in wire : Representable(m)
      PROVE  {Effect(m) : m \in wire'} = {Effect(m) : m \in wire}
  <2>1. Sync
    <3>1. ~(EditSpec \/ EditWire \/ EditMemo \/ RemoveMonitor \/ Restart)
      BY <1>1 DEF EditSpec, EditWire, EditMemo, RemoveMonitor, Restart, Edit
    <3>2. ~Finalize
      BY <1>1 DEF Finalize, PlanDelete
    <3>. QED
      BY <1>1, <3>1, <3>2 DEF Next
  <2>2. "RestoreMarker" \in Writes
    BY DEF Writes
  <2>3. Plan(Desired) = "RestoreMarker"
    BY <1>1, <2>1, <2>2, SyncSteps
  <2>4. PICK m \in wire : TRUE
    BY <2>3, PlanMeansEqual
  <2>5. wire = {m} /\ Deref(wire) = m /\ wire # {}
    BY <1>1, <2>3, <2>4, PlanActsAlike
  <2>6. PICK memo : wire' = {mergeMackerelExternalMonitor(m, Desired.content, memo)}
    BY <1>1, <2>1, <2>2, <2>5, SyncSteps
  <2>7. Effect(mergeMackerelExternalMonitor(m, Desired.content, memo)) = Effect(m)
    BY <1>1, <2>3, <2>4, PlanActsAlike
  <2>. PICK new : new = mergeMackerelExternalMonitor(m, Desired.content, memo)
    OBVIOUS
  <2>. QED
    BY <2>5, <2>6, <2>7
<1>2. SyncTypeOK /\ [Next]_vars => [Harmless]_vars
  BY <1>1
<1>. QED
  BY <1>2, SyncTypeCorrect, PTL DEF Spec, AdoptsOnlyEqual

------------------------------------------------------------------------------
(***************************************************************************)
(* What was written is read back.                                          *)
(***************************************************************************)

\* The hosts of the CRD's dualstack values.
LEMMA DualstackComesBack ==
  ASSUME NEW s, NormalizeDualstack(s) \in {"ipv4", "ipv6", "auto"}
  PROVE  NormalizeDualstack(dualstackFromMackerel(dualstackToMackerel(s))) = NormalizeDualstack(s)
<1>. PICK n : n = NormalizeDualstack(s)
  OBVIOUS
<1>1. dualstackToMackerel(s) = {n} /\ {n} # nil
  BY DEF dualstackToMackerel, nil
<1>2. dualstackFromMackerel({n}) = n
  BY <1>1, DerefSingleton DEF dualstackFromMackerel
<1>3. n # ""
  OBVIOUS
<1>4. NormalizeDualstack(n) = n
  BY <1>3 DEF NormalizeDualstack
<1>. QED
  BY <1>1, <1>2, <1>4

\* An interval that the CRD allows is not 0, which would read as none.
LEMMA IntervalComesBack ==
  ASSUME NEW q \in Opt(Ints), \A v \in q : v >= 10
  PROVE  intPtrFromUint64(uint64FromIntPtr(q)) = q
<1>1. CASE q = nil
  <2>1. uint64FromIntPtr(q) = 0
    BY <1>1 DEF uint64FromIntPtr
  <2>. QED
    BY <1>1, <2>1 DEF intPtrFromUint64
<1>2. ASSUME NEW v \in Ints, q = {v}, Deref(q) = v
      PROVE  intPtrFromUint64(uint64FromIntPtr(q)) = q
  <2>1. uint64FromIntPtr(q) = v
    BY <1>2 DEF uint64FromIntPtr, nil
  <2>2. v # 0 /\ ~(v > MaxInt)
    <3>1. v \in Int /\ v <= MaxInt /\ v >= 10
      BY <1>2, MaxIntOK DEF Ints
    <3>. QED
      BY <3>1, MaxIntOK
  <2>. QED
    BY <1>2, <2>1, <2>2 DEF intPtrFromUint64
<1>. QED
  BY <1>1, <1>2, OptCases

\* A desired state and what is seen of the payload made of it are equal.
LEMMA PayloadMatches ==
  ASSUME NEW d, HasType(d, SpecFields), ~Negative(d), d.attempts >= 1,
         NormalizeDualstack(d.dualstack) \in {"ipv4", "ipv6", "auto"},
         \A v \in d.interval : v >= 10, IsPointer(d.headers), NEW base, NEW memo
  PROVE  actualMatchesDesired(d, actualExternalMonitorFromMackerel(
                                   mergeMackerelExternalMonitor(base, d, memo)))
<1>. PICK p : p = mergeMackerelExternalMonitor(base, d, memo)
  OBVIOUS
<1>. PICK a : a = actualExternalMonitorFromMackerel(p)
  OBVIOUS
<1>1. HasType(p, WireFields)
  BY PayloadTyped
<1>2. a.text = d.text /\ a.method = d.method /\ a.code = d.code /\ a.flag = d.flag
  BY <1>1, ActualFields, PayloadFields
<1>3. a.interval = d.interval
  <2>1. a.interval = intPtrFromUint64(uint64FromIntPtr(d.interval))
    BY <1>1, ActualFields, PayloadFields
  <2>2. d.interval \in Opt(Ints)
    BY SpecTyped
  <2>. QED
    BY <2>1, <2>2, IntervalComesBack
<1>4. a.days = d.days /\ a.duration = d.duration
  <2>1. a.days = intPtrFromUint64Ptr(d.days) /\ a.duration = intPtrFromUint64Ptr(d.duration)
    BY <1>1, ActualFields, PayloadFields DEF uint64PtrFromIntPtr
  <2>2. ASSUME NEW q \in Opt(Ints) PROVE \A v \in q : v <= MaxInt
    <3>1. \A v \in Ints : v <= MaxInt
      BY MaxIntOK DEF Ints
    <3>. QED
      BY <3>1 DEF Opt, nil
  <2>3. d.days \in Opt(Ints) /\ d.duration \in Opt(Ints)
    BY SpecTyped
  <2>. QED
    BY <2>1, <2>2, <2>3, ConversionsAgree
<1>5. a.limit = d.limit
  <2>1. a.limit = intPtrFromFloat64(float64PtrFromIntPtr(d.limit)) /\ d.limit \in Opt(Ints)
    BY <1>1, ActualFields, PayloadFields, SpecTyped
  <2>. QED
    BY <2>1, LimitComesBack
<1>6. a.attempts = d.attempts
  <2>1. a.attempts = intFromUint64(d.attempts) /\ d.attempts \in Ints
    BY <1>1, ActualFields, PayloadFields, SpecTyped
  <2>2. ~(d.attempts > MaxInt)
    BY <2>1, MaxIntOK DEF Ints
  <2>. QED
    BY <2>1, <2>2 DEF intFromUint64
<1>7. NormalizeDualstack(d.dualstack) = NormalizeDualstack(a.dualstack)
  <2>1. a.dualstack = dualstackFromMackerel(dualstackToMackerel(d.dualstack))
    BY <1>1, ActualFields, PayloadFields
  <2>. QED
    BY <2>1, DualstackComesBack
<1>8. headersInSync(d.headers, a.headers)
  <2>1. ASSUME NEW list \in d.headers PROVE a.headers = list
    <3>1. d.headers # nil /\ Deref(d.headers) \in d.headers
      BY DerefMember DEF nil
    <3>2. a.headers = Deref(d.headers)
      BY <1>1, <3>1, ActualFields, PayloadHeaders
    <3>. QED
      BY <3>1, <3>2 DEF IsPointer
  <2>. QED
    BY <2>1 DEF headersInSync, headersMatch
<1>. QED
  BY <1>2, <1>3, <1>4, <1>5, <1>6, <1>7, <1>8 DEF actualMatchesDesired

\* The owner id of the operator.
LEMMA OwnerTyped ==
  ASSUME SyncTypeOK
  PROVE  ownerID \in Seq(Bytes) /\ ownerID # <<>>
<1>1. flags.owner \in Seq(Bytes)
  BY SyncAssumption DEF SyncAssumption, SyncTypeOK
<1>2. defaultOwnerID \in Seq(Bytes) /\ defaultOwnerID # <<>>
  BY DEF defaultOwnerID, Bytes
<1>. QED
  BY <1>1, <1>2 DEF ownerID

\* The rules of the CRD that the desired state keeps.
LEMMA ContentValid ==
  ASSUME NEW s, HasType(s, SpecFields), IsPointer(s.headers), \A v \in s.interval : v >= 10,
         NEW resolves, NEW c, c = FromExternalMonitor(s, resolves)
  PROVE  IsPointer(c.headers) /\ \A v \in c.interval : v >= 10
<1>1. IsPointer(sortedHeaders(s.headers, resolves))
  BY DEF sortedHeaders, IsPointer
<1>. PICK list : list = sortedHeaders(s.headers, resolves)
  OBVIOUS
<1>2. IsPointer(list)
  BY <1>1
<1>3. c.headers = list /\ c.interval = s.interval
  BY ContentFields
<1>. QED
  BY <1>2, <1>3

LEMMA DesiredValid ==
  ASSUME SyncTypeOK, NEW d, d = Desired.content
  PROVE  IsPointer(d.headers) /\ \A v \in d.interval : v >= 10
<1>1. /\ HasType(spec, SpecFields) /\ IsPointer(spec.headers)
      /\ \A v \in spec.interval : v >= 10
  BY DEF SyncTypeOK, AcceptedSpec, ValidSpec
<1>2. d = FromExternalMonitor(spec, TRUE)
  BY DEF Desired, DesiredState
<1>. QED
  BY <1>1, <1>2, ContentValid

------------------------------------------------------------------------------
(***************************************************************************)
(* After a write there is nothing left to do.                              *)
(***************************************************************************)

\* A monitor that equals the desired state and carries the marker of this CR, with the
\* hash of the desired state, needs nothing.
LEMMA MarkedMeansNoop ==
  ASSUME NEW m, wire' = {m}, NEW desired, desired = Desired',
         NEW marker, ParseMarker(m.memo) = {marker},
         marker.owner = desired.owner, marker.resource = desired.resource,
         marker.hash = desired.hash,
         actualMatchesDesired(desired.content, actualExternalMonitorFromMackerel(m))
  PROVE  Plan(Desired)' = "Noop"
<1>1. Deref(wire') = m /\ wire' # {}
  BY DerefSingleton
<1>2. ParseMarker(m.memo) # {} /\ Deref(ParseMarker(m.memo)) = marker
  BY DerefSingleton
<1>3. OwnedBy(m.memo, desired.owner, desired.resource)
  BY DEF OwnedBy
<1>. QED
  BY <1>1, <1>2, <1>3 DEF Plan

\* What Reconcile wants is for the operator's owner id and this CR.
LEMMA WishesFor == Desired.owner = ownerID /\ Desired.resource = Resource
  BY DEF Desired, DesiredState

\* What Reconcile wants does not depend on what it wrote.
LEMMA WishesStay ==
  ASSUME UNCHANGED <<spec, flags>>
  PROVE  Desired' = Desired /\ ownerID' = ownerID
  BY DEF Desired, DesiredState, ownerID

\* The plan depends on the spec, the flags and the monitor only.
LEMMA PlanStays ==
  ASSUME UNCHANGED <<spec, flags, wire>>
  PROVE  Plan(Desired)' = Plan(Desired)
<1>1. Desired' = Desired /\ ownerID' = ownerID
  BY WishesStay
<1>. QED
  BY <1>1 DEF Plan

\* After a write, the next Reconcile does nothing.
LEMMA WriteSettled ==
  ASSUME SyncTypeOK, SyncTypeOK', Sync, last' \in Writes
  PROVE  Plan(Desired)' = "Noop" \/ Joined(Deref(wire').memo)
<1>. PICK desired, d : desired = Desired /\ d = desired.content
  OBVIOUS
<1>. PICK base, memo : base = (IF wire = {} THEN NoBase ELSE Deref(wire)) /\ memo = NewMemo
  OBVIOUS
<1>. PICK m : m = mergeMackerelExternalMonitor(base, d, memo)
  OBVIOUS
<1>1. UNCHANGED <<spec, flags>> /\ ~Negative(d) /\ wire' = {m}
  BY SyncSteps DEF operator
<1>2. desired = Desired' /\ ownerID' = ownerID
  BY <1>1, WishesStay
<1>3. actualMatchesDesired(d, actualExternalMonitorFromMackerel(m))
  <2>1. /\ HasType(d, SpecFields) /\ d.attempts >= 1
        /\ NormalizeDualstack(d.dualstack) \in {"ipv4", "ipv6", "auto"}
    BY DesiredTyped DEF Desired
  <2>2. IsPointer(d.headers) /\ \A v \in d.interval : v >= 10
    BY DesiredValid
  <2>. QED
    BY <1>1, <2>1, <2>2, PayloadMatches
<1>. PICK owner, hash : owner = ownerID /\ hash = desired.hash
  OBVIOUS
<1>8. desired.owner = owner /\ desired.resource = Resource
  BY WishesFor
<1>. PICK marker : marker = [resource |-> Resource, owner |-> owner, hash |-> hash]
  OBVIOUS
<1>4. ParseMarker(memo) = {marker} \/ \E i \in 1..Len(memo) : memo[i].kind = "head" /\ Matched(memo, i)
  <2>1. IsMemo(FoundMemo) /\ owner \in Seq(Bytes) /\ owner # <<>>
    BY NewMemoTyped, OwnerTyped
  <2>2. memo = ApplyMarker(FoundMemo, [resource |-> Resource, owner |-> owner, hash |-> hash])
    BY <1>8 DEF NewMemo
  <2>. QED
    BY <2>1, <2>2, AppliedMarkerIsRead
<1>5. m.memo = memo /\ Deref(wire') = m
  <2>1. m.memo = memo
    BY PayloadFields
  <2>2. Deref({m}) = m
    BY DerefSingleton
  <2>. QED
    BY <1>1, <2>1, <2>2
<1>6. CASE ParseMarker(memo) = {marker}
  <2>1. /\ marker.owner = desired.owner /\ marker.resource = desired.resource
        /\ marker.hash = desired.hash
    BY <1>8
  <2>. QED
    BY <1>1, <1>2, <1>3, <1>5, <1>6, <2>1, MarkedMeansNoop
<1>7. CASE \E i \in 1..Len(memo) : memo[i].kind = "head" /\ Matched(memo, i)
  <2>1. IsMemo(memo)
    BY NewMemoTyped
  <2>2. DOMAIN memo = 1..Len(memo)
    BY <2>1 DEF IsMemo
  <2>. QED
    BY <1>5, <1>7, <2>2 DEF Joined
<1>. QED
  BY <1>4, <1>6, <1>7

\* The inductive invariant: after a Reconcile that is reported as a success, the plan is
\* to do nothing.
SettledInv ==
  SyncTypeOK /\ (last \in Synced /\ alive => Plan(Desired) = "Noop" \/ Joined(Deref(wire).memo))

LEMMA SettledInvariant == Spec => []SettledInv
<1>1. ASSUME SettledInv, SyncTypeOK', [Next]_vars PROVE SettledInv'
  <2>. SUFFICES ASSUME last' \in Synced, alive'
                PROVE  Plan(Desired)' = "Noop" \/ Joined(Deref(wire').memo)
    BY <1>1 DEF SettledInv
  <2>1. CASE Sync
    <3>1. CASE last' \in Writes
      BY <1>1, <2>1, <3>1, WriteSettled DEF SettledInv
    <3>2. CASE last' \notin Writes
      <4>1. last' = "Noop"
        BY <3>2 DEF Synced
      <4>2. Plan(Desired) = "Noop" /\ UNCHANGED <<spec, flags, wire>>
        BY <2>1, <3>2, <4>1, SyncSteps DEF operator
      <4>. QED
        BY <4>2, PlanStays
    <3>. QED
      BY <3>1, <3>2
  <2>2. CASE UNCHANGED vars
    <3>1. UNCHANGED <<spec, flags, wire, last, alive>>
      BY <2>2 DEF vars
    <3>2. Plan(Desired)' = Plan(Desired)
      BY <3>1, PlanStays
    <3>. QED
      BY <1>1, <3>1, <3>2 DEF SettledInv
  <2>3. ~Finalize
    BY DEF Finalize
  <2>4. ~(EditSpec \/ EditWire \/ EditMemo \/ RemoveMonitor \/ Restart)
    BY DEF EditSpec, EditWire, EditMemo, RemoveMonitor, Restart, Edit, Synced, Writes
  <2>. QED
    BY <1>1, <2>1, <2>2, <2>3, <2>4 DEF Next
<1>2. Init /\ SyncTypeOK => SettledInv
  BY DEF Init, SettledInv, Synced, Writes
<1>. QED
  BY <1>1, <1>2, SyncTypeCorrect, PTL DEF Spec

\* After a write there is nothing left to do: what the operator reads back, through the
\* conversions, the marker's escapes and the first-match rule, is what it wanted.
THEOREM WritesSettle == Spec => []WriteSettles
<1>1. SettledInv => WriteSettles
  BY DEF SettledInv, WriteSettles, Synced
<1>. QED
  BY <1>1, SettledInvariant, PTL

------------------------------------------------------------------------------
(***************************************************************************)
(* What was synchronised is recognised.                                    *)
(***************************************************************************)

\* The inductive invariant: the monitor carries the marker under the owner id that last
\* looked after it, as long as nobody has touched the memo.
KeeperInv ==
  \A o \in keeper : wire # {} /\ ~Joined(Deref(wire).memo) =>
                    OwnedBy(Deref(wire).memo, o, Resource)

\* Nothing to do means that the marker is there.
LEMMA NoopMeansOwned ==
  ASSUME Plan(Desired) = "Noop"
  PROVE  wire # {} /\ OwnedBy(Deref(wire).memo, ownerID, Resource)
<1>1. wire # {} /\ OwnedBy(Deref(wire).memo, Desired.owner, Desired.resource)
  BY DEF Plan
<1>. QED
  BY <1>1, WishesFor

\* An edit in Mackerel of another field leaves the memo.
LEMMA EditWireKeepsMemo ==
  ASSUME SyncTypeOK, EditWire
  PROVE  wire # {} /\ wire' # {} /\ Deref(wire').memo = Deref(wire).memo
<1>1. PICK m \in wire, f \in DOMAIN WireEdits : \E v \in WireEdits[f] :
        wire' = {[m EXCEPT ![f] = v]}
  BY DEF EditWire
<1>2. PICK v \in WireEdits[f] : wire' = {[m EXCEPT ![f] = v]}
  BY <1>1
<1>3. HasType(m, WireFields) /\ Deref(wire) = m
  BY DerefSingleton DEF SyncTypeOK, IsPointer, AcceptedWire
<1>4. f # "memo"
  BY EditsTyped DEF Plain
<1>. PICK n : n = [m EXCEPT ![f] = v]
  OBVIOUS
<1>5. n.memo = m.memo
  BY <1>3, <1>4, WireTyped DEF AllFields
<1>6. Deref(wire') = n
  BY <1>2, DerefSingleton
<1>. QED
  BY <1>2, <1>3, <1>5, <1>6

LEMMA KeeperInvariant == Spec => [](SettledInv /\ KeeperInv)
<1>1. ASSUME SettledInv, SettledInv', KeeperInv, [Next]_vars PROVE KeeperInv'
  <2>1. CASE UNCHANGED <<wire, keeper>>
    BY <1>1, <2>1 DEF KeeperInv
  <2>2. CASE keeper' = {} \/ wire' = {}
    BY <2>2 DEF KeeperInv
  <2>3. CASE Sync
    <3>1. CASE last' \notin Synced
      <4>1. UNCHANGED <<wire, keeper>>
        BY <2>3, <3>1, SyncSteps DEF Synced
      <4>. QED
        BY <2>1, <4>1
    <3>2. CASE last' \in Synced
      <4>1. keeper' = {ownerID} /\ alive' /\ ownerID' = ownerID
        BY <2>3, <3>2, SyncSteps, WishesStay DEF operator
      <4>2. (Plan(Desired) = "Noop" \/ Joined(Deref(wire).memo))'
        BY <1>1, <3>2, <4>1 DEF SettledInv
      <4>3. (wire # {} /\ ~Joined(Deref(wire).memo)
              => OwnedBy(Deref(wire).memo, ownerID, Resource))'
        BY <4>2, NoopMeansOwned, PTL
      <4>. QED
        BY <4>1, <4>3 DEF KeeperInv
    <3>. QED
      BY <3>1, <3>2
  <2>4. CASE EditWire
    <3>1. wire # {} /\ Deref(wire').memo = Deref(wire).memo
      BY <1>1, <2>4, EditWireKeepsMemo DEF SettledInv
    <3>2. keeper' = keeper
      BY <2>4 DEF EditWire
    <3>. QED
      BY <1>1, <3>1, <3>2 DEF KeeperInv
  <2>5. CASE Finalize
    BY <2>1, <2>2, <2>5 DEF Finalize
  <2>6. CASE EditSpec \/ Restart \/ UNCHANGED vars
    BY <2>1, <2>6 DEF EditSpec, Restart, vars
  <2>7. CASE EditMemo \/ RemoveMonitor
    BY <2>2, <2>7 DEF EditMemo, RemoveMonitor
  <2>. QED
    BY <1>1, <2>3, <2>4, <2>5, <2>6, <2>7 DEF Next
<1>2. Init => KeeperInv
  BY DEF Init, KeeperInv
<1>. QED
  BY <1>1, <1>2, SettledInvariant, PTL DEF Spec

\* With policy sync a CR takes the monitor with it that was synchronised under the owner id
\* of now, whatever edits of other fields and restarts lie in between; with upsert-only no
\* monitor is deleted.
THEOREM DeletionRecognisesOwn == Spec => OwnedIsDeleted
<1>. DEFINE Recognised ==
       alive /\ ~alive' /\ wire # {} =>
         IF flags.policy = "sync"
           THEN ownerID \in keeper /\ ~Joined(Deref(wire).memo) => wire' = {}
           ELSE wire' = wire
<1>1. ASSUME KeeperInv, Next PROVE Recognised
  <2>. SUFFICES ASSUME alive, ~alive', wire # {}
                PROVE  IF flags.policy = "sync"
                         THEN ownerID \in keeper /\ ~Joined(Deref(wire).memo) => wire' = {}
                         ELSE wire' = wire
    OBVIOUS
  <2>1. Finalize
    BY <1>1 DEF Next, Sync, EditSpec, EditWire, EditMemo, RemoveMonitor, Restart, Edit
  <2>2. wire' = IF PlanDelete(DeletionDesired) = "Delete" THEN {} ELSE wire
    BY <2>1 DEF Finalize
  <2>3. CASE flags.policy # "sync"
    BY <2>2, <2>3 DEF PlanDelete
  <2>4. ASSUME flags.policy = "sync", ownerID \in keeper, ~Joined(Deref(wire).memo)
        PROVE  wire' = {}
    <3>1. OwnedBy(Deref(wire).memo, ownerID, Resource)
      BY <1>1, <2>4 DEF KeeperInv
    <3>2. DeletionDesired.owner = ownerID /\ DeletionDesired.resource = Resource
      BY DEF DeletionDesired, DesiredState
    <3>3. PlanDelete(DeletionDesired) = "Delete"
      BY <2>4, <3>1, <3>2 DEF PlanDelete
    <3>. QED
      BY <2>2, <3>3
  <2>. QED
    BY <2>3, <2>4
<1>2. KeeperInv /\ [Next]_vars => [Recognised]_vars
  BY <1>1
<1>. QED
  BY <1>2, KeeperInvariant, PTL DEF Spec, OwnedIsDeleted

------------------------------------------------------------------------------
(***************************************************************************)
(* What a write leaves of a memo.                                          *)
(***************************************************************************)

\* A token as a list, if it is of these kinds.
Part(t, kinds) == IF t.kind \in kinds THEN <<t>> ELSE <<>>

LEMMA OfKindsType ==
  ASSUME NEW T, NEW memo \in Seq(T), NEW kinds
  PROVE  /\ [i \in 1..Len(memo) |-> Part(memo[i], kinds)] \in [1..Len(memo) -> Seq(T)]
         /\ OfKinds(memo, kinds) = FlattenSeq([i \in 1..Len(memo) |-> Part(memo[i], kinds)])
         /\ OfKinds(memo, kinds) \in Seq(T)
<1>. DEFINE parts == [i \in 1..Len(memo) |-> Part(memo[i], kinds)]
<1>1. Len(memo) \in Nat /\ DOMAIN memo = 1..Len(memo) /\ \A i \in 1..Len(memo) : memo[i] \in T
  OBVIOUS
<1>2. OfKinds(memo, kinds) = FlattenSeq(parts)
  BY <1>1 DEF OfKinds, Part
<1>3. \A i \in 1..Len(memo) : Part(memo[i], kinds) \in Seq(T)
  <2>1. ASSUME NEW t \in T PROVE <<t>> \in Seq(T) /\ <<>> \in Seq(T)
    OBVIOUS
  <2>. QED
    BY <1>1, <2>1 DEF Part
<1>4. parts \in [1..Len(memo) -> Seq(T)]
  BY <1>3
<1>. HIDE DEF parts
<1>5. FlattenSeq(parts) \in Seq(T)
  BY <1>1, <1>4, FlattenOffsets
<1>. QED
  BY <1>2, <1>4, <1>5 DEF parts

\* A memo with one more token.
LEMMA OfKindsAppend ==
  ASSUME NEW T, NEW memo \in Seq(T), NEW t \in T, NEW kinds
  PROVE  OfKinds(memo \o <<t>>, kinds) = OfKinds(memo, kinds) \o Part(t, kinds)
<1>1. PICK more, n : more = memo \o <<t>> /\ n = Len(memo)
  OBVIOUS
<1>2. /\ n \in Nat /\ more \in Seq(T) /\ Len(more) = n + 1
      /\ \A i \in 1..n : more[i] = memo[i]
      /\ more[n + 1] = t
  BY <1>1
<1>3. PICK a, b : /\ a = [i \in 1..n |-> Part(memo[i], kinds)]
                  /\ b = [i \in 1..(n + 1) |-> Part(more[i], kinds)]
  OBVIOUS
<1>4. a \in [1..n -> Seq(T)] /\ OfKinds(memo, kinds) = FlattenSeq(a)
  BY <1>1, <1>3, OfKindsType
<1>5. b \in [1..(n + 1) -> Seq(T)] /\ OfKinds(more, kinds) = FlattenSeq(b)
  <2>1. b = [i \in 1..Len(more) |-> Part(more[i], kinds)]
    BY <1>2, <1>3
  <2>2. b \in [1..Len(more) -> Seq(T)] /\ OfKinds(more, kinds) = FlattenSeq(b)
    BY <1>2, <2>1, OfKindsType
  <2>. QED
    BY <1>2, <2>2
<1>6. \A i \in 1..n : b[i] = a[i]
  BY <1>2, <1>3
<1>7. PICK q : q = Part(t, kinds)
  OBVIOUS
<1>8. b[n + 1] = q /\ q \in Seq(T)
  <2>1. n + 1 \in 1..(n + 1)
    BY <1>2
  <2>2. b[n + 1] = q
    BY <1>2, <1>3, <1>7, <2>1
  <2>. QED
    BY <1>5, <2>1, <2>2
<1>9. FlattenSeq(b) = FlattenSeq(a) \o q
  <2>1. n \in Nat
    BY <1>2
  <2>2. a \in [1..n -> Seq(T)]
    BY <1>4
  <2>3. b \in [1..(n + 1) -> Seq(T)]
    BY <1>5
  <2>4. FlattenSeq(b) = FlattenSeq(a) \o b[n + 1]
    BY ONLY <1>6, <2>1, <2>2, <2>3, FlattenAppend, ZenonT(60)
  <2>. QED
    BY <1>8, <2>4
<1>. QED
  BY <1>1, <1>4, <1>5, <1>7, <1>9

\* Removing markers keeps the tokens of kinds that no match has.
LEMMA RemovalKeeps ==
  ASSUME NEW memo, IsMemo(memo), NEW kinds,
         \A i \in 1..Len(memo) : Matched(memo, i) => memo[i].kind \notin kinds
  PROVE  OfKinds(RemoveMarker(memo), kinds) = OfKinds(memo, kinds)
<1>0. PICK n, T : n = Len(memo) /\ T = {memo[i] : i \in 1..Len(memo)}
  OBVIOUS
<1>1. memo \in Seq(T) /\ n \in Nat /\ DOMAIN memo = 1..n /\ \A i \in 1..n : memo[i] \in T
  BY <1>0, MemoIsSequence
<1>a. PICK a, b : /\ a = [i \in 1..n |-> IF Matched(memo, i) THEN <<>> ELSE <<memo[i]>>]
                 /\ b = [i \in 1..n |-> Part(memo[i], kinds)]
  OBVIOUS
<1>2. RemoveMarker(memo) = FlattenSeq(a)
  BY <1>1, <1>a DEF RemoveMarker
<1>3. OfKinds(memo, kinds) = FlattenSeq(b) /\ b \in [1..n -> Seq(T)]
  BY <1>0, <1>1, <1>a, OfKindsType
<1>4. \A i \in 1..n : /\ a[i] = (IF Matched(memo, i) THEN <<>> ELSE <<memo[i]>>)
                       /\ b[i] = Part(memo[i], kinds)
  BY <1>a
<1>5. a \in [1..n -> Seq(T)]
  <2>1. \A t \in T : <<t>> \in Seq(T) /\ <<>> \in Seq(T)
    OBVIOUS
  <2>2. DOMAIN a = 1..n /\ a = [i \in 1..n |-> a[i]]
    BY <1>a
  <2>. QED
    BY <1>1, <1>4, <2>1, <2>2
<1>6. OfKinds(<<>>, kinds) = <<>>
  <2>1. <<>> \in Seq(T) /\ Len(<<>>) = 0
    OBVIOUS
  <2>2. OfKinds(<<>>, kinds) = FlattenSeq([i \in 1..0 |-> Part(<<>>[i], kinds)])
    BY <2>1, OfKindsType
  <2>3. [i \in 1..0 |-> Part(<<>>[i], kinds)] = <<>>
    OBVIOUS
  <2>. QED
    BY <2>1, <2>2, <2>3 DEF FlattenSeq
<1>7. CASE n = 0
  <2>1. a = <<>> /\ b = <<>> /\ Len(<<>>) = 0
    BY <1>7, <1>a
  <2>2. FlattenSeq(<<>>) = <<>>
    BY <2>1 DEF FlattenSeq
  <2>. QED
    BY <1>2, <1>3, <1>6, <2>1, <2>2
<1>8. CASE n > 0
  <2>1. PICK f \in [1..n -> Seq(T)] : Joins(f, a, n) /\ FlattenSeq(a) = f[n]
    BY <1>1, <1>5, <1>8, FlattenJoins
  <2>2. PICK g \in [1..n -> Seq(T)] : Joins(g, b, n) /\ FlattenSeq(b) = g[n]
    BY <1>1, <1>3, <1>8, FlattenJoins
  <2>3. ASSUME NEW s \in Seq(T), NEW i \in 1..n
        PROVE  OfKinds(s \o a[i], kinds) = OfKinds(s, kinds) \o b[i]
    <3>1. OfKinds(s, kinds) \in Seq(T) /\ b[i] = Part(memo[i], kinds)
      BY <1>4, OfKindsType
    <3>2. CASE Matched(memo, i)
      <4>1. a[i] = <<>> /\ b[i] = <<>>
        BY <1>0, <1>4, <3>1, <3>2 DEF Part
      <4>2. s \o <<>> = s /\ OfKinds(s, kinds) \o <<>> = OfKinds(s, kinds)
        BY <3>1
      <4>. QED
        BY <4>1, <4>2
    <3>3. CASE ~Matched(memo, i)
      <4>1. PICK t, q, p : t = memo[i] /\ q = a[i] /\ p = b[i]
        OBVIOUS
      <4>2. q = <<t>> /\ t \in T /\ p = Part(t, kinds)
        BY <1>1, <1>4, <3>1, <3>3, <4>1
      <4>3. OfKinds(s \o <<t>>, kinds) = OfKinds(s, kinds) \o Part(t, kinds)
        BY <4>2, OfKindsAppend
      <4>4. OfKinds(s \o q, kinds) = OfKinds(s, kinds) \o p
        BY <4>2, <4>3
      <4>. QED
        BY <4>1, <4>4
    <3>. QED
      BY <3>2, <3>3
  <2>. DEFINE Good == {k \in 0..n : k > 0 => OfKinds(f[k], kinds) = g[k]}
  <2>4. 0 \in Good
    BY <1>1
  <2>5. ASSUME NEW k \in 0..(n - 1), k \in Good
        PROVE  k + 1 \in Good
    <3>1. CASE k = 0
      <4>1. f[1] = a[1] /\ g[1] = b[1] /\ 1 \in 1..n
        BY <1>1, <1>8, <2>1, <2>2 DEF Joins
      <4>2. OfKinds(<<>> \o a[1], kinds) = OfKinds(<<>>, kinds) \o b[1]
        <5>1. <<>> \in Seq(T)
          OBVIOUS
        <5>. QED
          BY <2>3, <4>1, <5>1
      <4>3. <<>> \o a[1] = a[1] /\ <<>> \o b[1] = b[1]
        <5>1. a[1] \in Seq(T) /\ b[1] \in Seq(T)
          BY <1>3, <1>5, <4>1
        <5>2. \A q \in Seq(T) : <<>> \o q = q
          OBVIOUS
        <5>. QED
          BY <5>1, <5>2
      <4>4. OfKinds(f[1], kinds) = g[1]
        BY <1>6, <4>1, <4>2, <4>3
      <4>. QED
        BY <1>1, <1>8, <3>1, <4>4
    <3>2. CASE k # 0
      <4>1. /\ k + 1 \in 2..n /\ (k + 1) - 1 = k /\ k + 1 \in 1..n /\ k + 1 \in 0..n
            /\ k > 0 /\ k \in 1..n
        BY <1>1, <3>2
      <4>2. f[k + 1] = f[k] \o a[k + 1] /\ g[k + 1] = g[k] \o b[k + 1]
        BY <2>1, <2>2, <4>1 DEF Joins
      <4>3. f[k] \in Seq(T)
        BY <4>1
      <4>4. OfKinds(f[k] \o a[k + 1], kinds) = OfKinds(f[k], kinds) \o b[k + 1]
        BY <2>3, <4>1, <4>3
      <4>. QED
        BY <2>5, <4>1, <4>2, <4>4
    <3>. QED
      BY <3>1, <3>2
  <2>. HIDE DEF Good
  <2>6. 0..n \subseteq Good
    BY <1>1, <2>4, <2>5, Climb
  <2>7. n \in Good
    BY <1>1, <2>6
  <2>. QED
    BY <1>2, <1>3, <1>8, <2>1, <2>2, <2>7 DEF Good
<1>. QED
  BY <1>1, <1>7, <1>8

\* If the last line is a marker, the newline before it is what remains at the end.
LEMMA RemovalEndsOnNewLine ==
  ASSUME NEW memo, IsMemo(memo), EndsOnNewLine(memo)
  PROVE  RemoveMarker(memo) # <<>> /\ Last(RemoveMarker(memo)) = NewLine
<1>0. PICK n, T : n = Len(memo) /\ T = {memo[i] : i \in 1..Len(memo)}
  OBVIOUS
<1>1. memo \in Seq(T) /\ n \in Nat /\ DOMAIN memo = 1..n /\ \A i \in 1..n : memo[i] \in T
  BY <1>0, MemoIsSequence
<1>2. n >= 2 /\ Matched(memo, n) /\ memo[n - 1] = NewLine
  BY <1>0 DEF EndsOnNewLine
<1>3. PICK a : a = [i \in 1..n |-> IF Matched(memo, i) THEN <<>> ELSE <<memo[i]>>]
  OBVIOUS
<1>4. RemoveMarker(memo) = FlattenSeq(a)
  BY <1>1, <1>3 DEF RemoveMarker
<1>5. a \in [1..n -> Seq(T)]
  <2>1. \A t \in T : <<t>> \in Seq(T) /\ <<>> \in Seq(T)
    OBVIOUS
  <2>2. DOMAIN a = 1..n /\ a = [i \in 1..n |-> a[i]]
    BY <1>3
  <2>3. \A i \in 1..n : a[i] = (IF Matched(memo, i) THEN <<>> ELSE <<memo[i]>>)
    BY <1>3
  <2>. QED
    BY <1>1, <2>1, <2>2, <2>3
<1>6. n \in 1..n /\ n - 1 \in 1..n /\ n \in 2..n /\ n > 0
  BY <1>1, <1>2
<1>7. ~Matched(memo, n - 1)
  <2>1. memo[n - 1].kind = "newline"
    BY <1>2, NewLineToken
  <2>. QED
    BY <2>1 DEF Matched
<1>8. a[n] = <<>> /\ a[n - 1] = <<NewLine>>
  BY <1>2, <1>3, <1>6, <1>7
<1>9. PICK f \in [1..n -> Seq(T)] : Joins(f, a, n) /\ FlattenSeq(a) = f[n]
  BY <1>1, <1>5, <1>6, FlattenJoins
<1>10. f[n] = f[n - 1]
  <2>1. f[n] = f[n - 1] \o a[n]
    BY <1>6, <1>9 DEF Joins
  <2>2. f[n - 1] \in Seq(T)
    BY <1>6, <1>9
  <2>3. \A q \in Seq(T) : q \o <<>> = q
    OBVIOUS
  <2>. QED
    BY <1>8, <2>1, <2>2, <2>3
<1>11. \E q \in Seq(T) : f[n - 1] = q \o <<NewLine>>
  <2>1. CASE n - 1 = 1
    <3>1. f[1] = a[1]
      BY <1>9 DEF Joins
    <3>2. <<>> \in Seq(T) /\ <<>> \o <<NewLine>> = <<NewLine>>
      OBVIOUS
    <3>. QED
      BY <1>8, <2>1, <3>1, <3>2
  <2>2. CASE n - 1 # 1
    <3>1. n - 1 \in 2..n /\ (n - 1) - 1 \in 1..n
      BY <1>1, <1>2, <2>2
    <3>2. f[n - 1] = f[(n - 1) - 1] \o a[n - 1] /\ f[(n - 1) - 1] \in Seq(T)
      BY <1>9, <3>1 DEF Joins
    <3>. QED
      BY <1>8, <3>2
  <2>. QED
    BY <2>1, <2>2
<1>12. PICK q \in Seq(T) : RemoveMarker(memo) = q \o <<NewLine>>
  BY <1>4, <1>9, <1>10, <1>11
<1>13. PICK base : base = q \o <<NewLine>>
  OBVIOUS
<1>14. NewLine \in T
  BY <1>1, <1>2, <1>6
<1>15. Len(base) = Len(q) + 1 /\ base[Len(q) + 1] = NewLine /\ Len(q) \in Nat
  BY <1>13, <1>14
<1>16. base # <<>> /\ Last(base) = NewLine
  BY <1>15 DEF Last
<1>. QED
  BY <1>12, <1>13, <1>16

\* What ApplyMarker keeps, and the newline that it may add.
LEMMA ApplyKeeps ==
  ASSUME NEW memo, IsMemo(memo), NEW marker, NEW new, new = ApplyMarker(memo, marker),
         NEW kinds, "marker" \notin kinds,
         \A i \in 1..Len(memo) : Matched(memo, i) => memo[i].kind \notin kinds
  PROVE  \/ OfKinds(new, kinds) = OfKinds(memo, kinds)
         \/ /\ OfKinds(new, kinds) = OfKinds(memo, kinds) \o Part(NewLine, kinds)
            /\ ~EndsOnNewLine(memo)
<1>1. PICK base, gap, token :
        /\ base = RemoveMarker(memo) /\ token = BuildMarker(marker)
        /\ gap = IF base = <<>> \/ Last(base) = NewLine THEN <<>> ELSE <<NewLine>>
  OBVIOUS
<1>2. new = (base \o gap) \o <<token>>
  BY <1>1 DEF ApplyMarker
<1>3. PICK S : S = {memo[i] : i \in {i \in 1..Len(memo) : ~Matched(memo, i)}}
  OBVIOUS
<1>4. base \in Seq(S)
  BY <1>1, <1>3, RemovedAreMatched
<1>5. PICK T : T = S \cup {NewLine, token}
  OBVIOUS
<1>6. base \in Seq(T) /\ NewLine \in T /\ token \in T
  <2>1. S \subseteq T
    BY <1>5
  <2>. QED
    BY <1>4, <1>5, <2>1
<1>7. token.kind = "marker"
  BY <1>1 DEF BuildMarker, Token
<1>8. Part(token, kinds) = <<>>
  BY <1>7 DEF Part
<1>9. OfKinds(base, kinds) = OfKinds(memo, kinds)
  BY <1>1, RemovalKeeps
<1>10. ASSUME NEW s \in Seq(T)
       PROVE  OfKinds(s \o <<token>>, kinds) = OfKinds(s, kinds)
  <2>1. OfKinds(s \o <<token>>, kinds) = OfKinds(s, kinds) \o Part(token, kinds)
    BY <1>6, OfKindsAppend
  <2>2. OfKinds(s, kinds) \in Seq(T)
    BY OfKindsType
  <2>3. \A q \in Seq(T) : q \o <<>> = q
    OBVIOUS
  <2>. QED
    BY <1>8, <2>1, <2>2, <2>3
<1>11. CASE gap = <<>>
  <2>1. base \o gap = base
    BY <1>6, <1>11
  <2>. QED
    BY <1>2, <1>6, <1>9, <1>10, <2>1
<1>12. CASE gap = <<NewLine>>
  <2>1. ~(base = <<>> \/ Last(base) = NewLine)
    BY <1>1, <1>12
  <2>2. ~EndsOnNewLine(memo)
    BY <1>1, <2>1, RemovalEndsOnNewLine
  <2>3. base \o <<NewLine>> \in Seq(T)
    BY <1>6
  <2>4. OfKinds(base \o <<NewLine>>, kinds) = OfKinds(base, kinds) \o Part(NewLine, kinds)
    BY <1>6, OfKindsAppend
  <2>5. OfKinds(new, kinds) = OfKinds(base \o <<NewLine>>, kinds)
    BY <1>2, <1>10, <1>12, <2>3
  <2>. QED
    BY <1>9, <2>2, <2>4, <2>5
<1>13. gap = <<>> \/ gap = <<NewLine>>
  BY <1>1
<1>. QED
  BY <1>11, <1>12, <1>13

\* Words stay, the marker comes last, and a newline is added at most once.
LEMMA AppliedText ==
  ASSUME NEW memo, IsMemo(memo), NEW marker, NEW new, new = ApplyMarker(memo, marker)
  PROVE  /\ Words(new) = Words(memo) \/ Joined(memo)
         /\ Last(new).kind = "marker"
         /\ NewLines(new) <= NewLines(memo) + 1
         /\ EndsOnNewLine(memo) => NewLines(new) = NewLines(memo)
<1>1. Len(memo) \in Nat /\ DOMAIN memo = 1..Len(memo) /\ \A i \in 1..Len(memo) : IsToken(memo[i])
  BY MemoIsSequence
<1>2. Last(new).kind = "marker"
  <2>1. new[Len(new)] = BuildMarker(marker)
    BY AppliedLayout
  <2>2. BuildMarker(marker).kind = "marker"
    BY DEF BuildMarker, Token
  <2>. QED
    BY <2>1, <2>2 DEF Last
<1>3. ASSUME ~Joined(memo) PROVE Words(new) = Words(memo)
  <2>1. PICK kinds : kinds = {"text", "head", "tail"}
    OBVIOUS
  <2>2. ASSUME NEW i \in 1..Len(memo), Matched(memo, i)
        PROVE  memo[i].kind \notin kinds
    <3>1. memo[i].kind # "head"
      BY <1>1, <1>3, <2>2 DEF Joined
    <3>2. memo[i].kind # "tail"
      <4>1. SUFFICES ASSUME memo[i].kind = "tail" PROVE FALSE
        OBVIOUS
      <4>2. i > 1 /\ memo[i - 1].kind = "head" /\ Matched(memo, i - 1)
        BY <1>1, <2>2, <4>1, TailNeedsHead
      <4>3. i - 1 \in DOMAIN memo
        BY <1>1, <4>2
      <4>. QED
        BY <1>3, <4>2, <4>3 DEF Joined
    <3>3. memo[i].kind # "text"
      BY <2>2 DEF Matched
    <3>. QED
      BY <2>1, <3>1, <3>2, <3>3
  <2>3. "marker" \notin kinds /\ "newline" \notin kinds
    BY <2>1
  <2>4. Part(NewLine, kinds) = <<>>
    BY <2>3, NewLineToken DEF Part
  <2>5. \/ OfKinds(new, kinds) = OfKinds(memo, kinds)
        \/ OfKinds(new, kinds) = OfKinds(memo, kinds) \o Part(NewLine, kinds)
    BY <2>2, <2>3, ApplyKeeps
  <2>6. OfKinds(memo, kinds) \o <<>> = OfKinds(memo, kinds)
    <3>1. PICK T : memo \in Seq(T)
      BY MemoIsSequence
    <3>2. OfKinds(memo, kinds) \in Seq(T)
      BY <3>1, OfKindsType
    <3>. QED
      BY <3>2
  <2>. QED
    BY <2>1, <2>4, <2>5, <2>6 DEF Words
<1>4. /\ NewLines(new) <= NewLines(memo) + 1
      /\ EndsOnNewLine(memo) => NewLines(new) = NewLines(memo)
  <2>1. PICK kinds : kinds = {"newline"}
    OBVIOUS
  <2>2. ASSUME NEW i \in 1..Len(memo), Matched(memo, i)
        PROVE  memo[i].kind \notin kinds
    BY <2>1, <2>2 DEF Matched
  <2>3. PICK T : memo \in Seq(T)
    BY MemoIsSequence
  <2>4. PICK q : q = OfKinds(memo, kinds)
    OBVIOUS
  <2>5. q \in Seq(T) /\ Len(q) \in Nat
    <3>1. OfKinds(memo, kinds) \in Seq(T)
      BY <2>3, OfKindsType
    <3>2. \A r \in Seq(T) : Len(r) \in Nat
      OBVIOUS
    <3>. QED
      BY <2>4, <3>1, <3>2
  <2>6. Part(NewLine, kinds) = <<NewLine>>
    BY <2>1, NewLineToken DEF Part
  <2>7. Len(q \o <<NewLine>>) = Len(q) + 1
    <3>1. PICK U : U = T \cup {NewLine}
      OBVIOUS
    <3>2. q \in Seq(U) /\ <<NewLine>> \in Seq(U) /\ Len(<<NewLine>>) = 1
      BY <2>5, <3>1
    <3>. QED
      BY <3>2, Concatenation
  <2>8. "marker" \notin kinds
    BY <2>1
  <2>9. \/ OfKinds(new, kinds) = q
        \/ OfKinds(new, kinds) = q \o <<NewLine>> /\ ~EndsOnNewLine(memo)
    BY <2>2, <2>4, <2>6, <2>8, ApplyKeeps
  <2>10. NewLines(memo) = Len(q) /\ NewLines(new) = Len(OfKinds(new, kinds))
    BY <2>1, <2>4 DEF NewLines
  <2>. QED
    BY <2>5, <2>7, <2>9, <2>10
<1>. QED
  BY <1>2, <1>3, <1>4

\* A write keeps what people wrote into the memo, ends it with the marker, and does not
\* add a newline with every update.
THEOREM WritesKeepTheMemo == Spec => MemoKept
<1>. DEFINE Kept ==
       last' \in Writes /\ wire' # wire =>
         LET new == Deref(wire').memo
             old == IF wire = {} THEN spec.memo ELSE Deref(wire).memo
         IN /\ \/ Words(new) = Words(old)
               \/ Joined(old)
            /\ Last(new).kind = "marker"
            /\ NewLines(new) <= NewLines(old) + 1
            /\ EndsOnNewLine(old) => NewLines(new) = NewLines(old)
<1>1. ASSUME SyncTypeOK, Next, last' \in Writes, wire' # wire
      PROVE  Kept
  <2>1. Sync
    <3>1. ~(EditSpec \/ EditWire \/ EditMemo \/ RemoveMonitor \/ Restart)
      BY <1>1 DEF EditSpec, EditWire, EditMemo, RemoveMonitor, Restart, Edit, Writes
    <3>2. ~Finalize
      BY <1>1 DEF Finalize, PlanDelete, Writes
    <3>. QED
      BY <1>1, <3>1, <3>2 DEF Next
  <2>2. PICK new, base, d : new = NewMemo /\ wire' = {mergeMackerelExternalMonitor(base, d, new)}
    BY <1>1, <2>1, SyncSteps
  <2>3. Deref(wire').memo = new
    <3>1. PICK m : m = mergeMackerelExternalMonitor(base, d, new)
      OBVIOUS
    <3>2. m.memo = new
      BY <3>1, PayloadFields
    <3>3. Deref({m}) = m
      BY DerefSingleton
    <3>. QED
      BY <2>2, <3>1, <3>2, <3>3
  <2>4. PICK old : old = IF wire = {} THEN spec.memo ELSE Deref(wire).memo
    OBVIOUS
  <2>5. old = FoundMemo
    <3>1. Desired.content.memo = spec.memo
      BY <1>1, ContentFields DEF Desired, DesiredState, SyncTypeOK, AcceptedSpec
    <3>. QED
      BY <2>4, <3>1 DEF FoundMemo
  <2>6. IsMemo(old) /\ \E marker : new = ApplyMarker(old, marker)
    BY <1>1, <2>2, <2>5, NewMemoTyped DEF NewMemo
  <2>7. /\ Words(new) = Words(old) \/ Joined(old)
        /\ Last(new).kind = "marker"
        /\ NewLines(new) <= NewLines(old) + 1
        /\ EndsOnNewLine(old) => NewLines(new) = NewLines(old)
    BY <2>6, AppliedText
  <2>. QED
    BY <2>3, <2>4, <2>7
<1>2. SyncTypeOK /\ [Next]_vars => [Kept]_vars
  BY <1>1
<1>. QED
  BY <1>2, SyncTypeCorrect, PTL DEF Spec, MemoKept


------------------------------------------------------------------------------
(***************************************************************************)
(* The order of headers.  A stable sort gives every header a place of its  *)
(* own; with names that differ, the place depends on the headers alone.    *)
(***************************************************************************)

\* A list of n headers, each with a name of its own.
NamesDiffer(list, n) ==
  /\ n \in Nat /\ DOMAIN list = 1..n
  /\ \A i \in 1..n : list[i].name \in Int
  /\ \A i, j \in 1..n : list[i].name = list[j].name => i = j

\* The headers whose name is not greater than that of the i-th.
UpTo(list, n, i) == {j \in 1..n : list[j].name <= list[i].name}

LEMMA PlaceCounts ==
  ASSUME NEW list, NEW n, NamesDiffer(list, n), NEW i \in 1..n
  PROVE  /\ Place(list, 1..n, i) = Cardinality(UpTo(list, n, i))
         /\ IsFiniteSet(UpTo(list, n, i))
         /\ Place(list, 1..n, i) \in 1..n
<1>1. UpTo(list, n, i) = {j \in 1..n : \/ list[j].name < list[i].name
                                       \/ list[j].name = list[i].name /\ j <= i}
  <2>1. ASSUME NEW j \in 1..n
        PROVE  list[j].name <= list[i].name <=>
                 \/ list[j].name < list[i].name
                 \/ list[j].name = list[i].name /\ j <= i
    <3>. PICK a, b : a = list[j].name /\ b = list[i].name
      OBVIOUS
    <3>1. a \in Int /\ b \in Int /\ (a = b => j = i) /\ j \in Int /\ i \in Int
      BY DEF NamesDiffer
    <3>2. j <= j
      BY <3>1
    <3>. QED
      BY <3>1, <3>2
  <2>. QED
    BY <2>1 DEF UpTo
<1>2. n \in Nat /\ IsFiniteSet(1..n) /\ Cardinality(1..n) = n
  <2>1. n \in Nat /\ 1 \in Int /\ n \in Int
    BY DEF NamesDiffer
  <2>2. Cardinality(1..n) = IF 1 > n THEN 0 ELSE n - 1 + 1
    BY <2>1, FS_Interval
  <2>. QED
    BY <2>1, <2>2, FS_Interval
<1>3. UpTo(list, n, i) \in SUBSET (1..n) /\ i \in UpTo(list, n, i)
  BY DEF UpTo, NamesDiffer
<1>4. /\ IsFiniteSet(UpTo(list, n, i))
      /\ Cardinality(UpTo(list, n, i)) <= n
      /\ Cardinality(UpTo(list, n, i)) \in Nat
      /\ Cardinality(UpTo(list, n, i)) # 0
  <2>1. IsFiniteSet(UpTo(list, n, i)) /\ Cardinality(UpTo(list, n, i)) <= n
    BY <1>2, <1>3, FS_Subset
  <2>2. Cardinality(UpTo(list, n, i)) \in Nat
    BY <2>1, FS_CardinalityType
  <2>3. Cardinality(UpTo(list, n, i)) # 0
    BY <1>3, <2>1, FS_EmptySet
  <2>. QED
    BY <2>1, <2>2, <2>3
<1>5. Place(list, 1..n, i) = Cardinality(UpTo(list, n, i))
  BY <1>1 DEF Place
<1>. QED
  BY <1>2, <1>4, <1>5

\* No two headers have the same place.
LEMMA PlacesDiffer ==
  ASSUME NEW list, NEW n, NamesDiffer(list, n), NEW i \in 1..n, NEW j \in 1..n,
         Place(list, 1..n, i) = Place(list, 1..n, j)
  PROVE  i = j
<1>. PICK a, b : a = list[i].name /\ b = list[j].name
  OBVIOUS
<1>1. a \in Int /\ b \in Int /\ (a = b => i = j)
  BY DEF NamesDiffer
<1>2. ASSUME NEW k \in 1..n, NEW l \in 1..n, list[k].name < list[l].name
      PROVE  Place(list, 1..n, k) # Place(list, 1..n, l)
  <2>1. UpTo(list, n, k) \in SUBSET UpTo(list, n, l)
    BY <1>2 DEF UpTo, NamesDiffer
  <2>2. l \in UpTo(list, n, l) /\ l \notin UpTo(list, n, k)
    BY <1>2 DEF UpTo, NamesDiffer
  <2>. QED
    BY <2>1, <2>2, PlaceCounts, FS_Subset
<1>3. a = b \/ a < b \/ b < a
  BY <1>1
<1>. QED
  BY <1>1, <1>2, <1>3

\* Every place is taken.
LEMMA PlacesTaken ==
  ASSUME NEW list, NEW n, NamesDiffer(list, n), NEW k \in 1..n
  PROVE  \E i \in 1..n : Place(list, 1..n, i) = k
<1>. DEFINE place == [i \in 1..n |-> Place(list, 1..n, i)]
<1>1. place \in [1..n -> 1..n]
  BY PlaceCounts
<1>2. ASSUME NEW i \in 1..n, NEW j \in 1..n, place[i] = place[j]
      PROVE  i = j
  BY <1>2, PlacesDiffer
<1>3. place \in Injection(1..n, 1..n)
  BY <1>1, <1>2 DEF Injection, IsInjective
<1>4. IsFiniteSet(1..n)
  BY FS_Interval DEF NamesDiffer
<1>5. place \in Surjection(1..n, 1..n)
  BY <1>3, <1>4, FS_Injection
<1>. QED
  BY <1>5 DEF Surjection

\* The same headers in another order.
LEMMA SamePlaces ==
  ASSUME NEW list, NEW n, NamesDiffer(list, n), NEW other, NEW m, NamesDiffer(other, m),
         Range(list) = Range(other), NEW i \in 1..n, NEW j \in 1..m, list[i] = other[j]
  PROVE  Place(list, 1..n, i) = Place(other, 1..m, j)
<1>. DEFINE S == UpTo(list, n, i)
            T == UpTo(other, m, j)
            f == [k \in S |-> CHOOSE l \in T : other[l] = list[k]]
<1>1. ASSUME NEW k \in S
      PROVE  \E l \in T : other[l] = list[k]
  <2>1. k \in 1..n /\ list[k].name <= list[i].name
    BY DEF UpTo
  <2>2. list[k] \in Range(other)
    BY <2>1 DEF Range, NamesDiffer
  <2>3. PICK l \in 1..m : other[l] = list[k]
    BY <2>2 DEF Range, NamesDiffer
  <2>. QED
    BY <2>1, <2>3 DEF UpTo
<1>2. \A k \in S : f[k] \in T /\ other[f[k]] = list[k]
  BY <1>1
<1>3. f \in [S -> T]
  BY <1>2
<1>. HIDE DEF f
<1>4. ASSUME NEW k \in S, NEW l \in S, f[k] = f[l]
      PROVE  k = l
  <2>1. list[k] = list[l]
    BY <1>2, <1>4
  <2>. QED
    BY <2>1 DEF UpTo, NamesDiffer
<1>5. ASSUME NEW l \in T
      PROVE  \E k \in S : f[k] = l
  <2>1. l \in 1..m /\ other[l].name <= other[j].name
    BY DEF UpTo
  <2>2. other[l] \in Range(list)
    BY <2>1 DEF Range, NamesDiffer
  <2>3. PICK k \in 1..n : list[k] = other[l]
    BY <2>2 DEF Range, NamesDiffer
  <2>4. k \in S
    BY <2>1, <2>3 DEF UpTo
  <2>5. f[k] \in 1..m /\ other[f[k]] = other[l]
    BY <1>2, <2>3, <2>4 DEF UpTo
  <2>. QED
    BY <2>1, <2>4, <2>5 DEF NamesDiffer
<1>6. f \in Bijection(S, T)
  BY <1>3, <1>4, <1>5 DEF Bijection, Injection, Surjection, IsInjective
<1>7. IsFiniteSet(S)
  BY PlaceCounts
<1>8. Cardinality(S) = Cardinality(T)
  BY <1>6, <1>7, FS_Bijection DEF ExistsBijection
<1>. QED
  BY <1>8, PlaceCounts


\* One list is as long as the other.
LEMMA SameLength ==
  ASSUME NEW list, NEW n, NamesDiffer(list, n), NEW other, NEW m, NamesDiffer(other, m),
         Range(list) = Range(other)
  PROVE  n = m
<1>1. ASSUME NEW l, NEW k, NamesDiffer(l, k)
      PROVE  Cardinality(Range(l)) = k
  <2>. DEFINE f == [i \in 1..k |-> l[i]]
  <2>1. f \in Bijection(1..k, Range(l))
    <3>1. f \in [1..k -> Range(l)]
      BY <1>1 DEF NamesDiffer, Range
    <3>2. \A i, j \in 1..k : f[i] = f[j] => i = j
      BY <1>1 DEF NamesDiffer
    <3>3. \A t \in Range(l) : \E i \in 1..k : f[i] = t
      BY <1>1 DEF NamesDiffer, Range
    <3>. HIDE DEF f
    <3>. QED
      BY <3>1, <3>2, <3>3 DEF Bijection, Injection, Surjection, IsInjective
  <2>2. k \in Nat
    BY <1>1 DEF NamesDiffer
  <2>. QED
    BY <2>1, <2>2, FS_CountingElements DEF ExistsBijection
<1>. QED
  BY <1>1

\* The header at a place, and the one that the sort puts there.
LEMMA AtPlace ==
  ASSUME NEW list, NEW n, NamesDiffer(list, n), NEW i \in 1..n
  PROVE  (CHOOSE j \in 1..n : Place(list, 1..n, j) = Place(list, 1..n, i)) = i
<1>. PICK k : k = Place(list, 1..n, i)
  OBVIOUS
<1>. PICK c : c = CHOOSE j \in 1..n : Place(list, 1..n, j) = k
  OBVIOUS
<1>1. c \in 1..n /\ Place(list, 1..n, c) = k
  OBVIOUS
<1>2. c = i
  BY <1>1, PlacesDiffer
<1>. QED
  BY <1>2

\* The order of the list does not matter to what becomes of it.
LEMMA SortedAlike ==
  ASSUME NEW list, NEW n, NamesDiffer(list, n), NEW other, NEW m, NamesDiffer(other, m),
         Range(list) = Range(other)
  PROVE  Sorted(list, 1..n) = Sorted(other, 1..m)
<1>1. n = m /\ n \in Nat /\ Cardinality(1..n) = n
  <2>1. n \in Nat
    BY DEF NamesDiffer
  <2>2. Cardinality(1..n) = IF 1 > n THEN 0 ELSE n - 1 + 1
    BY <2>1, FS_Interval
  <2>. QED
    BY <2>1, <2>2, SameLength
<1>2. ASSUME NEW k \in 1..n
      PROVE  list[CHOOSE i \in 1..n : Place(list, 1..n, i) = k]
               = other[CHOOSE i \in 1..n : Place(other, 1..n, i) = k]
  <2>1. PICK i \in 1..n : Place(list, 1..n, i) = k
    BY PlacesTaken
  <2>2. PICK j \in 1..n : list[i] = other[j]
    <3>1. list[i] \in Range(other)
      BY DEF NamesDiffer, Range
    <3>. QED
      BY <1>1, <3>1 DEF NamesDiffer, Range
  <2>3. Place(other, 1..n, j) = k
    BY <1>1, <2>1, <2>2, SamePlaces
  <2>4. (CHOOSE l \in 1..n : Place(list, 1..n, l) = k) = i
    BY <2>1, AtPlace
  <2>5. (CHOOSE l \in 1..n : Place(other, 1..n, l) = k) = j
    BY <1>1, <2>3, AtPlace
  <2>. QED
    BY <2>2, <2>4, <2>5
<1>. QED
  BY <1>1, <1>2 DEF Sorted

\* An accepted list keeps its headers' names apart.
LEMMA AcceptedNames ==
  ASSUME NEW list \in SpecHeaders, IsInjective([i \in DOMAIN list |-> list[i].name])
  PROVE  NamesDiffer(list, Len(list)) /\ KeptHeaders(list, TRUE) = 1..Len(list)
<1>1. Len(list) \in Nat /\ DOMAIN list = 1..Len(list)
        /\ \A i \in 1..Len(list) : list[i].name \in Int
  <2>1. PICK H : H = [name : Int, value : STRING, secret : BOOLEAN]
    OBVIOUS
  <2>2. list \in Seq(H) /\ \A h \in H : h.name \in Int
    BY <2>1 DEF SpecHeaders
  <2>3. Len(list) \in Nat /\ DOMAIN list = 1..Len(list) /\ \A i \in 1..Len(list) : list[i] \in H
    BY <2>2
  <2>. QED
    BY <2>2, <2>3
<1>. PICK n : n = Len(list)
  OBVIOUS
<1>2. n \in Nat /\ DOMAIN list = 1..n /\ \A i \in 1..n : list[i].name \in Int
  BY <1>1
<1>3. \A i, j \in 1..n : list[i].name = list[j].name => i = j
  BY <1>2 DEF IsInjective
<1>4. KeptHeaders(list, TRUE) = 1..n
  BY <1>2 DEF KeptHeaders
<1>. QED
  BY <1>2, <1>3, <1>4 DEF NamesDiffer


\* The headers of two accepted specs, equal but for their order, are sorted alike.
LEMMA SortedHeadersAlike ==
  ASSUME NEW p, IsPointer(p), p \subseteq SpecHeaders, NEW q, IsPointer(q), q \subseteq SpecHeaders,
         \A list \in p \cup q : IsInjective([i \in DOMAIN list |-> list[i].name]),
         {ToBag(list) : list \in p} = {ToBag(list) : list \in q}
  PROVE  sortedHeaders(p, TRUE) = sortedHeaders(q, TRUE)
<1>1. ASSUME NEW list \in p, NEW other \in q
      PROVE  Sorted(list, KeptHeaders(list, TRUE)) = Sorted(other, KeptHeaders(other, TRUE))
  <2>1. ToBag(list) = ToBag(other)
    BY DEF IsPointer
  <2>2. Range(list) = Range(other)
    <3>1. DOMAIN ToBag(list) = Range(list) /\ DOMAIN ToBag(other) = Range(other)
      BY DEF ToBag
    <3>. QED
      BY <2>1, <3>1
  <2>3. IsInjective([i \in DOMAIN list |-> list[i].name])
          /\ IsInjective([i \in DOMAIN other |-> other[i].name])
    OBVIOUS
  <2>4. NamesDiffer(list, Len(list)) /\ KeptHeaders(list, TRUE) = 1..Len(list)
    BY <2>3, AcceptedNames
  <2>5. NamesDiffer(other, Len(other)) /\ KeptHeaders(other, TRUE) = 1..Len(other)
    BY <2>3, AcceptedNames
  <2>6. Sorted(list, 1..Len(list)) = Sorted(other, 1..Len(other))
    BY <2>2, <2>4, <2>5, SortedAlike
  <2>. QED
    BY <2>4, <2>5, <2>6
<1>2. p = {} <=> q = {}
  OBVIOUS
<1>. QED
  BY <1>1, <1>2 DEF sortedHeaders

\* A spec is its fields.
LEMMA SameButHeaders ==
  ASSUME NEW s, HasType(s, SpecFields), NEW t, HasType(t, SpecFields), NEW b, NEW c,
         [s EXCEPT !.headers = b] = [t EXCEPT !.headers = c]
  PROVE  b = c /\ \A h : [s EXCEPT !.headers = h] = [t EXCEPT !.headers = h]
<1>1. /\ DOMAIN s = AllFields /\ s = [f \in AllFields |-> s[f]]
      /\ DOMAIN t = AllFields /\ t = [f \in AllFields |-> t[f]]
  BY SpecTyped
<1>2. \A f \in AllFields \ {"headers"} : s[f] = t[f]
  BY <1>1
<1>3. b = c
  BY <1>1 DEF AllFields
<1>. QED
  BY <1>1, <1>2, <1>3


\* So the desired content is the same, too.
LEMMA ContentAlike ==
  ASSUME NEW s, AcceptedSpec(s), NEW t, AcceptedSpec(t),
         [s EXCEPT !.headers = {ToBag(l) : l \in @}] = [t EXCEPT !.headers = {ToBag(l) : l \in @}]
  PROVE  FromExternalMonitor(s, TRUE) = FromExternalMonitor(t, TRUE)
<1>1. HasType(s, SpecFields) /\ HasType(t, SpecFields)
  BY DEF AcceptedSpec
<1>2. PICK p, q, b, c : /\ p = s.headers /\ q = t.headers
                        /\ b = {ToBag(l) : l \in p} /\ c = {ToBag(l) : l \in q}
  OBVIOUS
<1>3. [s EXCEPT !.headers = b] = [t EXCEPT !.headers = c]
  BY <1>2
<1>4. b = c /\ \A h : [s EXCEPT !.headers = h] = [t EXCEPT !.headers = h]
  BY <1>1, <1>3, SameButHeaders
<1>5. sortedHeaders(p, TRUE) = sortedHeaders(q, TRUE)
  <2>1. IsPointer(p) /\ p \subseteq SpecHeaders /\ IsPointer(q) /\ q \subseteq SpecHeaders
    BY <1>2 DEF AcceptedSpec
  <2>2. \A list \in p \cup q : IsInjective([i \in DOMAIN list |-> list[i].name])
    BY <1>2 DEF AcceptedSpec, ValidSpec
  <2>3. {ToBag(l) : l \in p} = {ToBag(l) : l \in q}
    BY <1>2, <1>4
  <2>. QED
    BY <2>1, <2>2, <2>3, SortedHeadersAlike
<1>6. PICK list : list = sortedHeaders(p, TRUE) /\ list = sortedHeaders(q, TRUE)
  BY <1>5
<1>7. ASSUME NEW x, HasType(x, SpecFields), x.headers = p \/ x.headers = q,
             NEW y, y = [x EXCEPT !.headers = list]
      PROVE  FromExternalMonitor(x, TRUE)
               = [y EXCEPT !.method = IF @ = "" THEN "GET" ELSE @,
                           !.attempts = IF @ > 1 THEN @ ELSE 1]
  <2>1. DOMAIN x = AllFields /\ x = [f \in AllFields |-> x[f]]
    BY <1>7, SpecTyped
  <2>2. sortedHeaders(x.headers, TRUE) = list
    BY <1>6, <1>7
  <2>3. FromExternalMonitor(x, TRUE)
          = [x EXCEPT !.method = IF @ = "" THEN "GET" ELSE @,
                      !.attempts = IF @ > 1 THEN @ ELSE 1, !.headers = list]
    BY <2>1, <2>2 DEF FromExternalMonitor, AllFields, Plain
  <2>. QED
    BY <1>7, <2>1, <2>3 DEF AllFields, Plain
<1>8. PICK y : y = [s EXCEPT !.headers = list] /\ y = [t EXCEPT !.headers = list]
  BY <1>4
<1>9. HasType(s, SpecFields) /\ s.headers = p /\ HasType(t, SpecFields) /\ t.headers = q
  BY <1>1, <1>2
<1>10. PICK z : z = [y EXCEPT !.method = IF @ = "" THEN "GET" ELSE @,
                              !.attempts = IF @ > 1 THEN @ ELSE 1]
  OBVIOUS
<1>11. FromExternalMonitor(s, TRUE) = z
  BY <1>7, <1>8, <1>9, <1>10
<1>12. FromExternalMonitor(t, TRUE) = z
  BY <1>7, <1>8, <1>9, <1>10
<1>. QED
  BY <1>11, <1>12

\* Headers in another order cause no write.
THEOREM OrderDoesNotMatter == Spec => ReorderingIsQuiet
<1>1. ASSUME SyncTypeOK, SyncTypeOK', wire' = wire, flags' = flags,
             [spec' EXCEPT !.headers = {ToBag(l) : l \in @}]
               = [spec EXCEPT !.headers = {ToBag(l) : l \in @}]
      PROVE  Plan(Desired)' = Plan(Desired)
  <2>1. FromExternalMonitor(spec', TRUE) = FromExternalMonitor(spec, TRUE)
    BY <1>1, ContentAlike DEF SyncTypeOK
  <2>2. Desired' = Desired
    BY <1>1, <2>1 DEF Desired, DesiredState, ownerID
  <2>. QED
    BY <1>1, <2>2 DEF Plan
<1>2. SyncTypeOK /\ SyncTypeOK' /\ [Next]_vars =>
        [[spec' EXCEPT !.headers = {ToBag(l) : l \in @}] = [spec EXCEPT !.headers = {ToBag(l) : l \in @}]
         /\ wire' = wire /\ flags' = flags /\ alive'
         => Plan(Desired)' = Plan(Desired)]_vars
  BY <1>1
<1>. QED
  BY <1>2, SyncTypeCorrect, PTL DEF Spec, ReorderingIsQuiet

==============================================================================

----------------------------- MODULE HeadersProofs -----------------------------
(***************************************************************************)
(* The headers of a monitor are complete and of one version per Secret,    *)
(* for every number of Secrets, keys, headers and rotations.               *)
(***************************************************************************)
EXTENDS Headers, TLAPS

\* The inductive invariant: what Mackerel has was all resolved by one call, and what the
\* call under way has resolved so far can go on to be.
HeadersInv == HeadersTypeOK /\ ResolvedSoFar /\ OneVersionPerSecret /\ NoPartialHeaders

------------------------------------------------------------------------------
\* A worker at rest.
LEMMA IdleOK ==
  /\ Idle \in Locals /\ Idle.values = <<>> /\ Idle.next = 1 /\ Idle.headers = <<>>
  /\ Unread \in ReadOK /\ Idle.read = [s \in Secrets |-> Unread]
  BY DEF Idle, Locals, ReadOK, Unread

\* The fields of a worker.
LEMMA LocalsOK ==
  ASSUME NEW key \in CRs \cup {""}, NEW headers \in Specs \cup {<<>>}, NEW next \in Nat \ {0},
         NEW read \in [Secrets -> ReadOK], NEW values \in Seq(ValuesOK)
  PROVE  [key |-> key, headers |-> headers, next |-> next, read |-> read, values |-> values]
           \in Locals
  BY DEF Locals

\* The versions of the specs that a CR goes through.
LEMMA VersionsOK ==
  ASSUME SpecsOK, NEW r \in CRs
  PROVE  /\ specs[r] \in Seq(Specs) /\ Len(specs[r]) \in Nat /\ Len(specs[r]) > 0
         /\ Cached(r) \in Specs /\ Api(r) \in Specs
  BY DEF SpecsOK, Cached, Api

\* A header of a spec.
LEMMA HeaderOK ==
  ASSUME NEW spec \in Specs
  PROVE  /\ Len(spec) \in Nat /\ DOMAIN spec = 1..Len(spec)
         /\ \A i \in 1..Len(spec) : /\ spec[i].secret \in Secrets \cup {Literal}
                                    /\ spec[i].key \in Keys \cup {""}
<1>. DEFINE Header == [name : STRING, secret : Secrets \cup {Literal}, key : Keys \cup {""}]
<1>1. spec \in Seq(Header)
  BY HeadersAssumption DEF HeadersAssumption
<1>2. Len(spec) \in Nat /\ DOMAIN spec = 1..Len(spec) /\ \A i \in 1..Len(spec) : spec[i] \in Header
  <2>. HIDE DEF Header
  <2>. QED
    BY <1>1
<1>. QED
  BY <1>2

\* A value tells where it comes from.
LEMMA ValueFields ==
  \A h, v : ValueOf(h, v).secret = h.secret /\ ValueOf(h, v).key = h.key /\ ValueOf(h, v).ver = v
  BY DEF ValueOf

\* The rest of a list of versions.
LEMMA TailOK ==
  ASSUME NEW S, NEW s \in Seq(S), Len(s) > 1
  PROVE  Tail(s) \in Seq(S) /\ Tail(s) # <<>>
<1>1. Len(s) \in Nat /\ Len(Tail(s)) = Len(s) - 1 /\ Tail(s) \in Seq(S)
  OBVIOUS
<1>2. Len(Tail(s)) # 0
  BY <1>1
<1>3. Len(<<>>) = 0
  OBVIOUS
<1>. QED
  BY <1>1, <1>2, <1>3

\* What a write of the worker puts into Mackerel.
LEMMA WrittenHeaders ==
  ASSUME HeadersTypeOK, ResolvedSoFar, pc = "resolve", w.next > Len(w.headers)
  PROVE  LET m == HeaderMap(w.headers, w.values) IN
         /\ DOMAIN m = {w.headers[i].name : i \in DOMAIN w.headers}
         /\ \A n \in DOMAIN m : \E i \in DOMAIN w.headers :
              w.headers[i].name = n /\ m[n] = ValueOf(w.headers[i], ReadVersion(w.headers[i]))
<1>. DEFINE m == HeaderMap(w.headers, w.values)
<1>1. w.headers \in Specs /\ w \in Locals
  BY DEF HeadersTypeOK, WorkerOK
<1>2. Len(w.headers) \in Nat /\ DOMAIN w.headers = 1..Len(w.headers)
  BY <1>1, HeaderOK
<1>3. Len(w.values) = Len(w.headers)
  <2>1. w.next \in Nat /\ Len(w.values) = w.next - 1 /\ w.next <= Len(w.headers) + 1
    BY <1>1 DEF HeadersTypeOK, WorkerOK, Locals
  <2>. QED
    BY <1>2, <2>1
<1>4. \A i \in DOMAIN w.headers :
        w.values[i] = ValueOf(w.headers[i], ReadVersion(w.headers[i]))
  BY <1>2, <1>3 DEF ResolvedSoFar
<1>5. DOMAIN m = {w.headers[i].name : i \in DOMAIN w.headers}
  BY DEF HeaderMap
<1>6. ASSUME NEW n \in DOMAIN m
      PROVE  \E i \in DOMAIN w.headers :
               w.headers[i].name = n /\ m[n] = ValueOf(w.headers[i], ReadVersion(w.headers[i]))
  <2>. DEFINE i == CHOOSE i \in DOMAIN w.headers : w.headers[i].name = n
  <2>1. i \in DOMAIN w.headers /\ w.headers[i].name = n
    BY <1>5
  <2>2. m[n] = w.values[i]
    BY <1>5 DEF HeaderMap
  <2>. QED
    BY <1>4, <2>1, <2>2
<1>. QED
  BY <1>5, <1>6

------------------------------------------------------------------------------
(***************************************************************************)
(* The worker.                                                             *)
(***************************************************************************)

\* A worker at rest has resolved nothing.
LEMMA RestsWorker ==
  ASSUME pc' = "idle", w' = Idle
  PROVE  WorkerOK' /\ ResolvedSoFar'
<1>1. Len(w'.values) = 0 /\ w'.next = 1 /\ Len(w'.headers) = 0
  BY IdleOK
<1>2. WorkerOK'
  BY <1>1, IdleOK DEF WorkerOK
<1>3. ResolvedSoFar'
  BY <1>1 DEF ResolvedSoFar
<1>. QED
  BY <1>2, <1>3

\* Reconcile returns: the CR gets a reason, and comes back later.
LEMMA ReturnsWorker ==
  ASSUME HeadersTypeOK, pc = "resolve", NEW reason \in Reasons, Return(reason)
  PROVE  /\ WorkerOK' /\ ResolvedSoFar'
         /\ backoff' \subseteq CRs /\ resync' \subseteq CRs
         /\ status' \in [CRs -> Reasons \cup {""}]
<1>1. WorkerOK' /\ ResolvedSoFar'
  BY RestsWorker DEF Return
<1>2. w.key \in CRs
  BY DEF HeadersTypeOK, WorkerOK
<1>3. backoff' \subseteq CRs /\ resync' \subseteq CRs
  BY <1>2 DEF HeadersTypeOK, QueueOK, Return
<1>4. status' \in [CRs -> Reasons \cup {""}]
  BY <1>2 DEF HeadersTypeOK, LiveOK, Return
<1>. QED
  BY <1>1, <1>3, <1>4

\* The fault budget.
LEMMA FaultOK ==
  ASSUME BudgetOK, UNCHANGED edits, Fault \/ UNCHANGED faults
  PROVE  BudgetOK'
<1>1. MaxEdits \in Nat /\ MaxFaults \in Nat
  BY HeadersAssumption DEF HeadersAssumption
<1>. QED
  BY <1>1 DEF BudgetOK, Fault

\* Properties of what Mackerel has depend on it alone.
LEMMA SameLive ==
  ASSUME UNCHANGED live, OneVersionPerSecret, NoPartialHeaders
  PROVE  OneVersionPerSecret' /\ NoPartialHeaders'
  BY DEF OneVersionPerSecret, NoPartialHeaders

\* The worker takes a CR from the queue.
LEMMA FetchKeeps ==
  ASSUME HeadersInv, NEW r \in CRs, Fetch(r)
  PROVE  HeadersInv'
<1>0. /\ UNCHANGED <<specs, secret, exists, events, backoff, resync, live, status, edits, faults>>
      /\ queue' = queue \ {r} /\ pc' = "resolve"
      /\ w' = [Idle EXCEPT !.key = r, !.headers = Cached(r)]
  BY DEF Fetch, kube
<1>1. Cached(r) \in Specs /\ Len(Cached(r)) \in Nat
  BY VersionsOK, HeaderOK DEF HeadersInv, HeadersTypeOK
<1>2. /\ w'.key = r /\ w'.headers = Cached(r) /\ w'.next = 1 /\ w'.values = <<>>
      /\ w' \in Locals /\ Len(w'.values) = 0
  BY <1>0, <1>1, IdleOK DEF Locals
<1>3. WorkerOK'
  BY <1>0, <1>1, <1>2 DEF WorkerOK
<1>4. ResolvedSoFar'
  BY <1>2 DEF ResolvedSoFar
<1>. QED
  BY <1>0, <1>3, <1>4, SameLive
  DEF HeadersInv, HeadersTypeOK, SpecsOK, SecretsOK, QueueOK, LiveOK, BudgetOK

\* Append puts one element at the end.
LEMMA AppendOne ==
  ASSUME NEW S, NEW old \in Seq(S), NEW x \in S, NEW n, n = Len(old) + 1
  PROVE  /\ Append(old, x) \in Seq(S) /\ Len(Append(old, x)) = n
         /\ Append(old, x)[n] = x
         /\ \A i \in 1..(n - 1) : Append(old, x)[i] = old[i]
  OBVIOUS

\* One more header has its value; its Secret was read now or before.
LEMMA ResolvesOne ==
  ASSUME HeadersInv, pc = "resolve", w.next <= Len(w.headers), UNCHANGED pc,
         w' = [key |-> w.key, headers |-> w.headers, next |-> w.next + 1, read |-> w'.read,
               values |-> w'.values],
         w'.read \in [Secrets -> ReadOK],
         \A s \in Secrets : w.read[s] # Unread => w'.read[s] = w.read[s],
         LET h == w.headers[w.next] IN
           /\ w'.values = Append(w.values, ValueOf(h,
                             IF h.secret = Literal THEN 0 ELSE w'.read[h.secret].ver))
           /\ h.secret # Literal => w'.read[h.secret] # Unread
  PROVE  WorkerOK' /\ ResolvedSoFar'
<1>. PICK read : read = w'.read
  OBVIOUS
<1>. PICK h : h = w.headers[w.next]
  OBVIOUS
<1>. PICK ver : ver = IF h.secret = Literal THEN 0 ELSE read[h.secret].ver
  OBVIOUS
<1>. DEFINE n == w.next
<1>0. /\ w \in Locals /\ w.headers \in Specs /\ w.key \in CRs
      /\ Len(w.headers) \in Nat /\ n \in Nat /\ n > 0 /\ Len(w.values) = n - 1
      /\ w.values \in Seq(ValuesOK)
      /\ n <= Len(w.headers) /\ n \in 1..Len(w.headers)
  <2>1. w \in Locals /\ w.headers \in Specs /\ w.key \in CRs /\ Len(w.values) = n - 1
    BY DEF HeadersInv, HeadersTypeOK, WorkerOK
  <2>2. n \in Nat \ {0} /\ w.values \in Seq(ValuesOK)
    BY <2>1 DEF Locals
  <2>3. Len(w.headers) \in Nat
    BY <2>1, HeaderOK
  <2>. QED
    BY <2>1, <2>2, <2>3
<1>1. /\ h.secret \in Secrets \cup {Literal} /\ h.key \in Keys \cup {""}
      /\ \A i \in 1..n : w.headers[i].secret \in Secrets \cup {Literal}
  <2>1. \A i \in 1..n : i \in 1..Len(w.headers)
    BY <1>0
  <2>. QED
    BY <1>0, <2>1, HeaderOK
<1>2. ValueOf(h, ver) \in ValuesOK
  <2>1. CASE h.secret = Literal
    BY <1>1, <2>1 DEF ValueOf, ValuesOK
  <2>2. CASE h.secret # Literal
    <3>1. read[h.secret] \in SecretOK
      BY <1>1, <2>2 DEF ReadOK
    <3>2. ver \in Nat
      BY <2>2, <3>1 DEF SecretOK
    <3>. QED
      BY <1>1, <3>2 DEF ValueOf, ValuesOK
  <2>. QED
    BY <2>1, <2>2
<1>3. /\ w'.key = w.key /\ w'.headers = w.headers /\ w'.next = n + 1 /\ w'.read = read
      /\ w'.values = Append(w.values, ValueOf(h, ver))
  <2>1. w'.values = Append(w.values, ValueOf(h, ver))
    OBVIOUS
  <2>2. w'.key = w.key /\ w'.headers = w.headers /\ w'.next = n + 1
    OBVIOUS
  <2>. QED
    BY <2>1, <2>2
<1>4. /\ w'.values \in Seq(ValuesOK) /\ Len(w'.values) = n
      /\ w'.values[n] = ValueOf(h, ver)
      /\ \A i \in 1..(n - 1) : w'.values[i] = w.values[i]
  <2>. PICK x : x = ValueOf(h, ver)
    OBVIOUS
  <2>. PICK old : old = w.values
    OBVIOUS
  <2>. PICK m : m = n
    OBVIOUS
  <2>1. x \in ValuesOK
    BY <1>2
  <2>2. old \in Seq(ValuesOK) /\ m = Len(old) + 1
    BY <1>0
  <2>3. /\ Append(old, x) \in Seq(ValuesOK) /\ Len(Append(old, x)) = m
        /\ Append(old, x)[m] = x
        /\ \A i \in 1..(m - 1) : Append(old, x)[i] = old[i]
    BY ONLY <2>1, <2>2, AppendOne
  <2>. QED
    BY <1>3, <2>3
<1>5. WorkerOK'
  <2>1. w' \in Locals
    <3>1. w.next + 1 \in Nat \ {0}
      BY <1>0
    <3>. PICK values \in Seq(ValuesOK) : values = w'.values
      BY <1>4
    <3>2. w' = [key |-> w.key, headers |-> w.headers, next |-> w.next + 1, read |-> read,
                values |-> values]
      OBVIOUS
    <3>3. read \in [Secrets -> ReadOK] /\ w.key \in CRs
      BY <1>0
    <3>4. [key |-> w.key, headers |-> w.headers, next |-> w.next + 1, read |-> read,
           values |-> values] \in Locals
      BY <1>0, <3>1, <3>3, LocalsOK
    <3>. QED
      BY <3>2, <3>4, Zenon
  <2>2. w'.next = n + 1 /\ n + 1 <= Len(w.headers) + 1 /\ (n + 1) - 1 = n
    BY <1>0, <1>3
  <2>. QED
    BY <1>0, <1>3, <1>4, <2>1, <2>2 DEF WorkerOK
<1>6. ASSUME NEW i \in 1..n
      PROVE  LET g == w.headers[i] IN
             /\ w'.values[i] = ValueOf(g, IF g.secret = Literal THEN 0 ELSE read[g.secret].ver)
             /\ g.secret # Literal => read[g.secret] # Unread
  <2>1. CASE i = n
    BY <1>4, <2>1
  <2>2. CASE i # n
    <3>1. i \in 1..(n - 1) /\ i \in 1..Len(w.values)
      BY <1>0, <2>2
    <3>. DEFINE g == w.headers[i]
    <3>2. w.values[i] = ValueOf(g, ReadVersion(g)) /\ (g.secret # Literal => w.read[g.secret] # Unread)
      BY <3>1 DEF HeadersInv, ResolvedSoFar
    <3>3. g.secret # Literal => read[g.secret] = w.read[g.secret]
      BY <1>1, <3>2
    <3>. QED
      BY <1>4, <3>1, <3>2, <3>3 DEF ReadVersion
  <2>. QED
    BY <2>1, <2>2
<1>7. ResolvedSoFar'
  BY <1>3, <1>4, <1>6 DEF ResolvedSoFar, ReadVersion
<1>. QED
  BY <1>5, <1>7

\* One round of the loop.
LEMMA ResolveHeaderKeeps ==
  ASSUME HeadersInv, ResolveHeader
  PROVE  HeadersInv'
<1>. DEFINE isRead(h) == h.secret # Literal /\ w.read[h.secret] # Unread
            from(h)   == IF isRead(h) THEN w.read[h.secret] ELSE secret[h.secret]
<1>. PICK h : h = w.headers[w.next]
  OBVIOUS
<1>0. /\ pc = "resolve" /\ w.next <= Len(w.headers)
      /\ UNCHANGED <<specs, secret, exists, events, queue, live, edits>>
      /\ Fault \/ UNCHANGED faults
  BY DEF ResolveHeader, kube
<1>1. /\ w \in Locals /\ w.headers \in Specs /\ w.read \in [Secrets -> ReadOK]
      /\ h.secret \in Secrets \cup {Literal}
  <2>1. w \in Locals /\ w.headers \in Specs
    BY <1>0 DEF HeadersInv, HeadersTypeOK, WorkerOK
  <2>2. w.next \in Nat \ {0} /\ w.read \in [Secrets -> ReadOK]
    BY <2>1 DEF Locals
  <2>3. Len(w.headers) \in Nat
    BY <2>1, HeaderOK
  <2>4. w.next \in 1..Len(w.headers)
    BY <1>0, <2>2, <2>3
  <2>. QED
    BY <2>1, <2>2, <2>4, HeaderOK
<1>2. CASE \E reason \in Reasons : Return(reason)
  BY <1>0, <1>2, ReturnsWorker, SameLive, FaultOK
  DEF HeadersInv, HeadersTypeOK, SpecsOK, SecretsOK, QueueOK, LiveOK
<1>3. ASSUME WorkerOK', ResolvedSoFar', UNCHANGED <<status, backoff, resync>>
      PROVE  HeadersInv'
  BY <1>0, <1>3, SameLive, FaultOK DEF HeadersInv, HeadersTypeOK, SpecsOK, SecretsOK, QueueOK, LiveOK
<1>4. CASE /\ h.secret = Literal
           /\ w' = [w EXCEPT !.next = @ + 1, !.values = Append(@, ValueOf(h, 0))]
           /\ UNCHANGED <<pc, status, backoff, resync>>
  <2>1. w' = [key |-> w.key, headers |-> w.headers, next |-> w.next + 1, read |-> w.read,
              values |-> Append(w.values, ValueOf(h, 0))]
    BY <1>1, <1>4 DEF Locals
  <2>2. w'.read = w.read /\ w'.values = Append(w.values, ValueOf(h, 0))
    BY <2>1
  <2>3. w' = [key |-> w.key, headers |-> w.headers, next |-> w.next + 1, read |-> w'.read,
              values |-> w'.values]
    BY <2>1, <2>2
  <2>4. WorkerOK' /\ ResolvedSoFar'
    BY <1>0, <1>1, <1>4, <2>2, <2>3, ResolvesOne
  <2>. QED
    BY <1>3, <1>4, <2>4
<1>5. CASE /\ h.secret # Literal
           /\ w' = [w EXCEPT !.next = @ + 1, !.read[h.secret] = from(h),
                             !.values = Append(@, ValueOf(h, from(h).ver))]
           /\ UNCHANGED <<pc, status, backoff, resync>>
  <2>. PICK f : f = from(h)
    OBVIOUS
  <2>. PICK read : read = [w.read EXCEPT ![h.secret] = f]
    OBVIOUS
  <2>1. f \in SecretOK /\ f # Unread /\ f.ver \in Nat
    <3>1. h.secret \in Secrets /\ w.read[h.secret] \in ReadOK /\ secret[h.secret] \in SecretOK
      BY <1>1, <1>5 DEF HeadersInv, HeadersTypeOK, SecretsOK
    <3>2. f \in SecretOK
      BY <1>5, <3>1 DEF ReadOK
    <3>. QED
      BY <3>2 DEF SecretOK, Unread
  <2>2. /\ read \in [Secrets -> ReadOK] /\ read[h.secret] = f
        /\ \A s \in Secrets : w.read[s] # Unread => read[s] = w.read[s]
    BY <1>1, <1>5, <2>1 DEF ReadOK
  <2>3. w' = [key |-> w.key, headers |-> w.headers, next |-> w.next + 1, read |-> read,
              values |-> Append(w.values, ValueOf(h, f.ver))]
    BY <1>1, <1>5 DEF Locals
  <2>4. w'.read = read /\ w'.values = Append(w.values, ValueOf(h, f.ver))
    BY <2>3
  <2>5. w' = [key |-> w.key, headers |-> w.headers, next |-> w.next + 1, read |-> w'.read,
              values |-> w'.values]
    BY <2>3, <2>4
  <2>6. WorkerOK' /\ ResolvedSoFar'
    BY <1>0, <1>5, <2>1, <2>2, <2>4, <2>5, ResolvesOne
  <2>. QED
    BY <1>3, <1>5, <2>6
<1>. QED
  BY <1>2, <1>4, <1>5 DEF ResolveHeader, Reasons

\* The write shows in Mackerel what this call resolved, or nothing new.
LEMMA WriteKeeps ==
  ASSUME HeadersInv, Write
  PROVE  HeadersInv'
<1>. PICK r : r = w.key
  OBVIOUS
<1>. PICK m : m = HeaderMap(w.headers, w.values)
  OBVIOUS
<1>0. /\ pc = "resolve" /\ w.next > Len(w.headers) /\ r \in CRs /\ w.headers \in Specs
      /\ live' \in {live, [live EXCEPT ![r] = {m}]}
      /\ UNCHANGED <<specs, secret, exists, events, queue, edits>>
      /\ Fault \/ UNCHANGED faults
      /\ Return("Synced") \/ Return("ProviderError")
  BY DEF Write, kube, HeadersInv, HeadersTypeOK, WorkerOK
<1>1. /\ WorkerOK' /\ ResolvedSoFar'
      /\ backoff' \subseteq CRs /\ resync' \subseteq CRs
      /\ status' \in [CRs -> Reasons \cup {""}]
  BY <1>0, ReturnsWorker DEF Reasons, HeadersInv
<1>2. DOMAIN live = CRs /\ \A q \in CRs : \A a, b \in live[q] : a = b
  BY DEF HeadersInv, HeadersTypeOK, LiveOK
<1>3. /\ DOMAIN live' = CRs
      /\ \A q \in CRs : \A a \in live'[q] : a \in live[q] \/ a = m
      /\ \A q \in CRs : live'[q] = live[q] \/ live'[q] = {m}
  BY <1>0, <1>2
<1>4. /\ DOMAIN m = {w.headers[i].name : i \in DOMAIN w.headers}
      /\ \A n \in DOMAIN m : \E i \in DOMAIN w.headers :
           w.headers[i].name = n /\ m[n] = ValueOf(w.headers[i], ReadVersion(w.headers[i]))
  BY <1>0, WrittenHeaders DEF HeadersInv
<1>5. \A n, k \in DOMAIN m :
        m[n].secret = m[k].secret /\ m[n].secret # Literal => m[n].ver = m[k].ver
  BY <1>4, ValueFields DEF ReadVersion
<1>6. OneVersionPerSecret'
  BY <1>3, <1>5 DEF HeadersInv, OneVersionPerSecret
<1>7. \A n \in DOMAIN m : \E i \in DOMAIN w.headers :
        /\ w.headers[i].name = n
        /\ m[n].secret = w.headers[i].secret /\ m[n].key = w.headers[i].key
  BY <1>4, ValueFields
<1>8. NoPartialHeaders'
  <2>. DEFINE Whole(a) == \E spec \in Specs :
                /\ DOMAIN a = {spec[i].name : i \in DOMAIN spec}
                /\ \A n \in DOMAIN a : \E i \in DOMAIN spec :
                     /\ spec[i].name = n
                     /\ a[n].secret = spec[i].secret /\ a[n].key = spec[i].key
  <2>1. Whole(m)
    BY <1>0, <1>4, <1>7
  <2>2. \A q \in CRs : \A a \in live[q] : Whole(a)
    BY DEF HeadersInv, NoPartialHeaders
  <2>. HIDE DEF Whole
  <2>3. \A q \in CRs : \A a \in live'[q] : Whole(a)
    BY <1>3, <2>1, <2>2
  <2>. QED
    BY <2>3 DEF Whole, NoPartialHeaders
<1>9. LiveOK'
  BY <1>1, <1>2, <1>3 DEF LiveOK
<1>. QED
  BY <1>0, <1>1, <1>6, <1>8, <1>9, FaultOK DEF HeadersInv, HeadersTypeOK, SpecsOK, SecretsOK, QueueOK

------------------------------------------------------------------------------
(***************************************************************************)
(* Everybody else.                                                         *)
(***************************************************************************)

\* Others leave the worker and Mackerel alone.
LEMMA OthersKeep ==
  ASSUME HeadersInv, UNCHANGED <<pc, w, live, status>>, SpecsOK', SecretsOK', QueueOK', BudgetOK'
  PROVE  HeadersInv'
<1>1. WorkerOK' /\ ResolvedSoFar' /\ LiveOK'
  BY DEF HeadersInv, HeadersTypeOK, WorkerOK, LiveOK, ResolvedSoFar, ReadVersion
<1>. QED
  BY <1>1, SameLive DEF HeadersInv, HeadersTypeOK

\* Events and timers.
LEMMA WakeKeeps ==
  ASSUME HeadersInv,
         \/ \E s \in Secrets : DeliverSecret(s)
         \/ \E r \in CRs : DeliverSpec(r) \/ BackoffEnds(r) \/ Resync(r)
  PROVE  HeadersInv'
<1>1. CASE \/ \E s \in Secrets : DeliverSecret(s)
           \/ \E r \in CRs : BackoffEnds(r) \/ Resync(r)
  BY <1>1, OthersKeep
  DEF HeadersInv, HeadersTypeOK, SpecsOK, SecretsOK, QueueOK, BudgetOK, DeliverSecret, BackoffEnds,
      Resync, kube, externalMonitorsForSecret
<1>2. ASSUME NEW r \in CRs, DeliverSpec(r) PROVE HeadersInv'
  <2>1. Tail(specs[r]) \in Seq(Specs) /\ Tail(specs[r]) # <<>>
    BY <1>2, VersionsOK, TailOK DEF HeadersInv, HeadersTypeOK, DeliverSpec
  <2>2. SpecsOK'
    BY <1>2, <2>1 DEF HeadersInv, HeadersTypeOK, SpecsOK, DeliverSpec
  <2>. QED
    BY <1>2, <2>2, OthersKeep
    DEF HeadersInv, HeadersTypeOK, SecretsOK, QueueOK, BudgetOK, DeliverSpec
<1>. QED
  BY <1>1, <1>2

\* Users.
LEMMA UsersKeep ==
  ASSUME HeadersInv,
         \/ \E s \in Secrets : ApplySecret(s) \/ DeleteSecret(s)
         \/ \E r \in CRs : EditHeaders(r)
  PROVE  HeadersInv'
<1>0. UNCHANGED <<queue, backoff, resync, pc, w, live, status, faults>> /\ Edit
  BY DEF ApplySecret, DeleteSecret, EditHeaders, Edit
<1>1. QueueOK' /\ BudgetOK'
  <2>1. MaxEdits \in Nat
    BY HeadersAssumption DEF HeadersAssumption
  <2>. QED
    BY <1>0, <2>1 DEF HeadersInv, HeadersTypeOK, QueueOK, BudgetOK, Edit
<1>2. ASSUME NEW s \in Secrets, ApplySecret(s) PROVE HeadersInv'
  <2>1. PICK keys \in SUBSET Keys :
          secret' = [secret EXCEPT ![s] = [ver |-> @.ver + 1, keys |-> keys]]
    BY <1>2 DEF ApplySecret
  <2>2. [ver |-> secret[s].ver + 1, keys |-> keys] \in SecretOK
    <3>1. secret[s].ver \in Nat
      BY DEF HeadersInv, HeadersTypeOK, SecretsOK, SecretOK
    <3>2. secret[s].ver + 1 \in Nat \ {0}
      BY <3>1
    <3>. QED
      BY <3>2 DEF SecretOK
  <2>3. SecretsOK'
    BY <1>2, <2>1, <2>2 DEF HeadersInv, HeadersTypeOK, SecretsOK, ApplySecret
  <2>4. SpecsOK'
    BY <1>2 DEF HeadersInv, HeadersTypeOK, SpecsOK, ApplySecret
  <2>. QED
    BY <1>0, <1>1, <2>3, <2>4, OthersKeep
<1>3. ASSUME NEW s \in Secrets, DeleteSecret(s) PROVE HeadersInv'
  BY <1>0, <1>1, <1>3, OthersKeep DEF HeadersInv, HeadersTypeOK, SpecsOK, SecretsOK, DeleteSecret
<1>4. ASSUME NEW r \in CRs, EditHeaders(r) PROVE HeadersInv'
  <2>1. PICK spec \in Specs : specs' = [specs EXCEPT ![r] = Append(@, spec)]
    BY <1>4 DEF EditHeaders
  <2>2. Append(specs[r], spec) \in Seq(Specs) /\ Append(specs[r], spec) # <<>>
    BY VersionsOK DEF HeadersInv, HeadersTypeOK
  <2>3. SpecsOK' /\ SecretsOK'
    BY <1>4, <2>1, <2>2 DEF HeadersInv, HeadersTypeOK, SpecsOK, SecretsOK, EditHeaders
  <2>. QED
    BY <1>0, <1>1, <2>3, OthersKeep
<1>. QED
  BY <1>2, <1>3, <1>4

------------------------------------------------------------------------------
\* At first nothing is resolved and nothing is in Mackerel.
LEMMA HeadersInit == Init => HeadersInv
<1>. SUFFICES ASSUME Init PROVE HeadersInv
  OBVIOUS
<1>1. SpecsOK
  <2>1. \A spec \in Specs : <<spec>> \in Seq(Specs) /\ <<spec>> # <<>>
    OBVIOUS
  <2>. QED
    BY <2>1 DEF Init, SpecsOK
<1>2. SecretsOK
  <2>1. [ver |-> 1, keys |-> Keys] \in SecretOK
    BY DEF SecretOK
  <2>. QED
    BY <2>1 DEF Init, SecretsOK
<1>3. WorkerOK /\ ResolvedSoFar
  <2>1. pc = "idle" /\ w = Idle /\ Len(w.values) = 0 /\ w.next = 1 /\ Len(w.headers) = 0
    BY IdleOK DEF Init
  <2>. QED
    BY <2>1, IdleOK DEF WorkerOK, ResolvedSoFar
<1>4. QueueOK /\ LiveOK /\ OneVersionPerSecret /\ NoPartialHeaders
  BY DEF Init, QueueOK, LiveOK, OneVersionPerSecret, NoPartialHeaders
<1>5. BudgetOK
  <2>1. MaxEdits \in Nat /\ MaxFaults \in Nat
    BY HeadersAssumption DEF HeadersAssumption
  <2>2. edits = 0 /\ faults = 0
    BY DEF Init
  <2>. QED
    BY <2>1, <2>2 DEF BudgetOK
<1>. QED
  BY <1>1, <1>2, <1>3, <1>4, <1>5 DEF HeadersInv, HeadersTypeOK

\* Every step preserves the invariant.
LEMMA HeadersNext == HeadersInv /\ [Next]_vars => HeadersInv'
<1>. SUFFICES ASSUME HeadersInv, [Next]_vars PROVE HeadersInv'
  OBVIOUS
<1>1. CASE UNCHANGED vars
  BY <1>1, OthersKeep DEF vars, HeadersInv, HeadersTypeOK, SpecsOK, SecretsOK, QueueOK, BudgetOK
<1>. QED
  BY <1>1, FetchKeeps, ResolveHeaderKeeps, WriteKeeps, WakeKeeps, UsersKeep DEF Next, Work

\* The worker resolves one header after the other from one version per Secret, and Mackerel
\* has nothing else, in every behaviour: whatever rotates, vanishes or comes back meanwhile.
THEOREM HeadersInvariant == Spec => []HeadersInv
  BY HeadersInit, HeadersNext, PTL DEF Spec

\* The types of the state, and one monitor per CR.
THEOREM HeadersTypeCorrect == Spec => []HeadersTypeOK
<1>1. HeadersInv => HeadersTypeOK
  BY DEF HeadersInv
<1>. QED
  BY <1>1, HeadersInvariant, PTL

\* Each value resolved so far is its header's own, from the version that this call read.
THEOREM ValuesAreTheirHeaders == Spec => []ResolvedSoFar
<1>1. HeadersInv => ResolvedSoFar
  BY DEF HeadersInv
<1>. QED
  BY <1>1, HeadersInvariant, PTL

\* Mackerel never has values of one Secret from before and after a rotation together.
THEOREM OneVersion == Spec => []OneVersionPerSecret
<1>1. HeadersInv => OneVersionPerSecret
  BY DEF HeadersInv
<1>. QED
  BY <1>1, HeadersInvariant, PTL

\* Mackerel never has some of the headers of a spec without the others.
THEOREM HeadersAreComplete == Spec => []NoPartialHeaders
<1>1. HeadersInv => NoPartialHeaders
  BY DEF HeadersInv
<1>. QED
  BY <1>1, HeadersInvariant, PTL

==============================================================================

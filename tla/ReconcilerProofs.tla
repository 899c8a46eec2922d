--------------------------- MODULE ReconcilerProofs ---------------------------
(***************************************************************************)
(* Theorems about Reconciler, for every set of CRs, specs and Secrets,     *)
(* every hash function and every bound.                                    *)
(***************************************************************************)
EXTENDS Reconciler, TLAPS

------------------------------------------------------------------------------
(***************************************************************************)
(* Types of the building blocks.                                           *)
(***************************************************************************)

\* What the worker holds between two calls of Reconcile is well typed.
LEMMA IdleWorkerType ==
  /\ IdleWorker \in Locals
  /\ Absent \in Object /\ NilMonitor \in ActualOK /\ NoDesired \in Desired
<1>0. "" \in STRING
  BY LiteralsAssumption DEF LiteralsAssumption
<1>1. Absent \in Object
  BY <1>0 DEF Absent, Object, NewStatus, StatusOK, NoCond
<1>2. NilMonitor \in ActualOK
  BY <1>0 DEF NilMonitor, ActualOK, Memo, Marker, NoMarker
<1>3. NoDesired \in Desired
  BY <1>0 DEF NoDesired, Desired
<1>4. 0 \in 0..(RetrySteps - 1)
  BY OptionsAssumption DEF OptionsAssumption
<1>5. NoHeaders \in HeaderLists
  BY DataAssumption DEF DataAssumption
<1>. QED
  BY <1>0, <1>1, <1>2, <1>3, <1>4, <1>5 DEF IdleWorker, Locals, NoMark

\* What a spec may say about headers.
LEMMA SpecHeadersType ==
  ASSUME NEW s \in Specs \cup {NoSpec}
  PROVE  s.headers \in HeaderLists \cup Secrets \cup {Unmanaged, Broken}
<1>1. CASE s \in Specs
  BY <1>1, SpecsAssumption DEF SpecsAssumption
<1>2. CASE s = NoSpec
  BY <1>2 DEF NoSpec
<1>. QED
  BY <1>1, <1>2

\* The desired state of a CR is well typed once its headers are resolved.
LEMMA DesiredType ==
  ASSUME NEW r \in CRs, NEW s \in Specs \cup {NoSpec}, NEW h \in HeaderLists \cup {Unmanaged}
  PROVE  FromExternalMonitor(r, s, h) \in Desired
<1>1. FromExternalMonitor(r, s, h).hash \in STRING
  BY HashAssumption DEF HashAssumption
<1>2. s.name \in STRING /\ s.body \in STRING /\ s.memo \in STRING
  <2>1. CASE s \in Specs
    BY <2>1, SpecsAssumption, DataAssumption, LiteralsAssumption
    DEF SpecsAssumption, DataAssumption, LiteralsAssumption
  <2>2. CASE s = NoSpec
    BY <2>2, LiteralsAssumption DEF LiteralsAssumption, NoSpec
  <2>. QED
    BY <2>1, <2>2
<1>3. r \in STRING /\ Owner \in STRING
  BY NamesAssumption DEF NamesAssumption
<1>. QED
  BY <1>1, <1>2, <1>3 DEF FromExternalMonitor, Desired

\* What a GET or a list of Mackerel returns is well typed.
LEMMA ActualType ==
  ASSUME TypeOK, NEW i \in DOMAIN store
  PROVE  Actual(i) \in ActualOK
<1>1. i \in Nat /\ store[i] \in Monitor
  BY DEF TypeOK, StoreOK
<1>. QED
  BY <1>1, DataAssumption DEF DataAssumption, Actual, ActualOK, Monitor

\* There is always a cached and a current version of a CR.
LEMMA VersionsType ==
  ASSUME TypeOK, NEW r \in CRs
  PROVE  /\ objs[r] \in Seq(Object) /\ Len(objs[r]) \in Nat /\ Len(objs[r]) > 0
         /\ Api(r) \in Object /\ Cache(r) \in Object
  BY DEF TypeOK, ObjsOK, Api, Cache

\* The worker is busy with a CR.
LEMMA BusyType ==
  ASSUME TypeOK, pc # "idle"
  PROVE  w \in Locals /\ w.key \in CRs /\ w.cr \in Object /\ w.desired \in Desired
  BY DEF TypeOK, WorkerOK, Locals

\* Going on, returning and reporting keep the worker and the timer well typed.
LEMMA GoOnType ==
  ASSUME TypeOK, NEW next \in Calls, NEW locals \in Locals, locals.key # "",
         GoOn(next, locals)
  PROVE  WorkerOK' /\ timer' \subseteq CRs
  BY DEF GoOn, TypeOK, QueueOK, WorkerOK, Calls

\* See GoOnType.
LEMMA ReturnType ==
  ASSUME TypeOK, pc # "idle", NEW q \in BOOLEAN, Return(q)
  PROVE  WorkerOK' /\ timer' \subseteq CRs
<1>1. w' = IdleWorker /\ pc' = "idle" /\ IdleWorker.key = ""
  BY DEF Return, IdleWorker
<1>2. timer' \subseteq CRs
  BY BusyType DEF Return, TypeOK, QueueOK
<1>. QED
  BY <1>1, <1>2, IdleWorkerType DEF WorkerOK

\* See GoOnType.
LEMMA ReportType ==
  ASSUME TypeOK, pc # "idle",
         NEW reason \in STRING, NEW id \in Nat, NEW applied \in BOOLEAN,
         Report(reason, id, applied)
  PROVE  WorkerOK' /\ timer' \subseteq CRs
<1>. DEFINE l == [w EXCEPT !.actual = NilMonitor, !.base = NoHeaders, !.fresh = FALSE,
                           !.mark = [reason |-> reason, id |-> id, applied |-> applied]]
<1>1. NoHeaders \in HeaderLists
  BY DataAssumption DEF DataAssumption
<1>2. l \in Locals /\ l.key = w.key
  BY <1>1, BusyType, IdleWorkerType DEF Locals
<1>3. l.key # "" /\ "status" \in Calls
  BY <1>2, BusyType, NamesAssumption DEF NamesAssumption, Calls
<1>4. GoOn("status", l)
  BY DEF Report
<1>. HIDE DEF l
<1>. QED
  BY <1>2, <1>3, <1>4, GoOnType

\* The errors Reconcile reports.
LEMMA ReportErrorType ==
  ASSUME TypeOK, pc # "idle",
         NEW reason \in {"OwnershipLost", "ProviderError", "SecretError", "SecretNotFound",
                         "InvalidSpec"},
         Report(reason, 0, FALSE)
  PROVE  WorkerOK' /\ timer' \subseteq CRs
<1>1. reason \in STRING
  BY LiteralsAssumption DEF LiteralsAssumption
<1>. QED
  BY <1>1, ReportType

\* See GoOnType.
LEMMA FindActualFailsType ==
  ASSUME TypeOK, pc # "idle", FindActualFails
  PROVE  WorkerOK' /\ timer' \subseteq CRs
  BY ReturnType, ReportErrorType DEF FindActualFails

\* Locals the worker goes on with.
LEMMA LocalsType ==
  ASSUME TypeOK, pc # "idle"
  PROVE  /\ w.key # ""
         /\ \A a \in ActualOK :
              [w EXCEPT !.actual = a] \in Locals /\ [w EXCEPT !.actual = a].key = w.key
         /\ \A h \in HeaderLists :
              [w EXCEPT !.base = h] \in Locals /\ [w EXCEPT !.base = h].key = w.key
         /\ [w EXCEPT !.desired = NoDesired] \in Locals
         /\ [w EXCEPT !.desired = NoDesired].key = w.key
  BY BusyType, IdleWorkerType, NamesAssumption DEF NamesAssumption, Locals

\* Whatever the planner decides, the worker goes on well typed.
LEMMA DecideType ==
  ASSUME TypeOK, pc # "idle", NEW a \in ActualOK, Decide(a)
  PROVE  WorkerOK' /\ timer' \subseteq CRs
<1>. /\ "delete" \in Calls /\ "removeFinalizer" \in Calls
     /\ "create" \in Calls /\ "getCurrent" \in Calls
  BY DEF Calls
<1>1. CASE \/ GoOn("delete", [w EXCEPT !.actual = a])
           \/ GoOn("getCurrent", [w EXCEPT !.actual = a])
  BY <1>1, LocalsType, GoOnType
<1>2. CASE GoOn("removeFinalizer", [w EXCEPT !.desired = NoDesired])
  BY <1>2, LocalsType, GoOnType
<1>3. CASE GoOn("create", w)
  BY <1>3, LocalsType, BusyType, GoOnType
<1>4. CASE Report("Synced", a.id, FALSE)
  <2>1. "Synced" \in STRING /\ a.id \in Nat
    BY LiteralsAssumption DEF LiteralsAssumption, ActualOK
  <2>. QED
    BY <1>4, <2>1, ReportType
<1>5. CASE Report("OwnershipLost", 0, FALSE)
  BY <1>5, ReportErrorType
<1>. QED
  BY <1>1, <1>2, <1>3, <1>4, <1>5 DEF Decide

\* findActual's first call is one of the calls.
LEMMA FindActualType == \A cr : FindActual(cr) \in {"get", "list"}
  BY DEF FindActual

\* What the worker writes to Mackerel is a monitor.
LEMMA MergeType ==
  ASSUME TypeOK, pc # "idle", NEW h \in HeaderLists, NEW m \in Memo
  PROVE  Merge(h, m) \in Monitor
<1>1. w.desired \in Desired
  BY BusyType
<1>2. BuildMarker(w.desired.resource, w.desired.owner, w.desired.hash) \in Marker
  BY <1>1 DEF Desired, BuildMarker, Marker
<1>3. ApplyMarker(m, BuildMarker(w.desired.resource, w.desired.owner, w.desired.hash)) \in Memo
  BY <1>2 DEF ApplyMarker, RemoveMarker, Memo
<1>. QED
  BY <1>1, <1>3 DEF Merge, Monitor, Desired

\* The API server's versions of a CR stay a non-empty sequence of objects.
LEMMA AppendType ==
  ASSUME TypeOK, NEW r \in CRs, NEW o \in Object,
         objs' \in {objs, [objs EXCEPT ![r] = Append(@, o)],
                    [objs EXCEPT ![r] = Versions(r, o)]}
  PROVE  ObjsOK'
<1>1. Append(objs[r], o) \in Seq(Object) /\ Len(Append(objs[r], o)) > 0
  BY VersionsType
<1>2. Versions(r, o) \in Seq(Object) /\ Len(Versions(r, o)) > 0
  BY <1>1, VersionsType DEF Versions
<1>. QED
  BY <1>1, <1>2 DEF TypeOK, ObjsOK

\* A failing call uses up one of the faults.
LEMMA FaultType ==
  ASSUME BudgetOK, Fault \/ UNCHANGED budget
  PROVE  BudgetOK'
  BY OptionsAssumption DEF OptionsAssumption, BudgetOK, Fault, budget

------------------------------------------------------------------------------
(***************************************************************************)
(* Type correctness.                                                       *)
(***************************************************************************)
\* The initial states are well typed.
LEMMA TypeInit == Init => TypeOK
<1>. SUFFICES ASSUME Init PROVE TypeOK
  OBVIOUS
<1>1. ObjsOK
  <2>1. \A s \in Specs : NewCR(s) \in Object
    BY LiteralsAssumption
    DEF LiteralsAssumption, NewCR, Object, NewStatus, StatusOK, NoCond
  <2>2. ASSUME NEW r \in CRs
        PROVE  objs[r] \in Seq(Object) /\ Len(objs[r]) > 0
    <3>1. PICK o \in Object : objs[r] = <<o>>
      BY <2>1, IdleWorkerType DEF Init
    <3>. QED
      BY <3>1
  <2>3. objs = [r \in CRs |-> objs[r]]
    BY DEF Init
  <2>. QED
    BY <2>2, <2>3 DEF ObjsOK
<1>2. SecretsOK
  BY DEF Init, SecretsOK
<1>3. StoreOK
  <2>1. store \in Seq(Monitor)
    BY StoresAssumption DEF StoresAssumption, Init
  <2>. QED
    BY <2>1 DEF StoreOK, Init
<1>4. QueueOK
  BY DEF Init, QueueOK
<1>5. WorkerOK
  BY IdleWorkerType DEF Init, WorkerOK, IdleWorker
<1>6. BudgetOK
  BY OptionsAssumption DEF OptionsAssumption, Init, BudgetOK
<1>. QED
  BY <1>1, <1>2, <1>3, <1>4, <1>5, <1>6 DEF TypeOK

\* Taking a CR from the queue, and every remote call, keep every variable well typed.
LEMMA TypeFetch ==
  ASSUME TypeOK, NEW r \in CRs, Fetch(r)
  PROVE  TypeOK'
<1>. DEFINE cr     == Cache(r)
            locals == [IdleWorker EXCEPT !.key = r, !.cr = cr, !.fresh = Len(objs[r]) = 1]
            doomed == [locals EXCEPT !.finalizing = TRUE,
                                     !.desired = DeletionDesired(r, cr.spec)]
<1>1. locals \in Locals /\ locals.key = r /\ r # ""
  BY VersionsType, IdleWorkerType, NamesAssumption DEF NamesAssumption, Locals
<1>2. UNCHANGED <<objs, secret, secretEvents, store, nextID, edits, faults, crashes>>
  BY DEF Fetch, kube, mackerel, budget
<1>3. WorkerOK' /\ timer' \subseteq CRs
  <2>1. CASE ~cr.exists /\ UNCHANGED <<timer, pc, w>>
    BY <2>1 DEF TypeOK, WorkerOK, QueueOK
  <2>2. CASE GoOn("resolveHeaders", locals)
    BY <1>1, <2>2, GoOnType DEF Calls
  <2>3. CASE GoOn("removeFinalizer", [locals EXCEPT !.finalizing = TRUE])
    <3>1. /\ [locals EXCEPT !.finalizing = TRUE] \in Locals
          /\ [locals EXCEPT !.finalizing = TRUE].key = r
      BY <1>1 DEF Locals
    <3>. HIDE DEF locals
    <3>. QED
      BY <1>1, <2>3, <3>1, GoOnType DEF Calls
  <2>4. CASE cr.exists /\ cr.spec.headers # Broken /\ GoOn(FindActual(cr), doomed)
    <3>1. /\ cr.spec \in Specs \cup {NoSpec}
          /\ cr.spec.headers \in HeaderLists \cup Secrets \cup {Unmanaged, Broken}
      <4>1. cr.spec \in Specs \cup {NoSpec}
        BY VersionsType DEF Object
      <4>. QED
        BY <4>1, SpecHeadersType
    <3>2. (IF cr.spec.headers \in Secrets THEN NoHeaders ELSE cr.spec.headers)
             \in HeaderLists \cup {Unmanaged}
      BY <2>4, <3>1, DataAssumption DEF DataAssumption
    <3>3. DeletionDesired(r, cr.spec) \in Desired
      BY <3>1, <3>2, DesiredType DEF DeletionDesired
    <3>4. doomed \in Locals /\ doomed.key = r
      BY <1>1, <3>3 DEF Locals
    <3>5. FindActual(cr) \in Calls
      BY FindActualType DEF Calls
    <3>. HIDE DEF doomed, cr
    <3>. QED
      BY <1>1, <2>4, <3>4, <3>5, GoOnType
  <2>. QED
    BY <2>1, <2>2, <2>3, <2>4 DEF Fetch
<1>4. queue' \subseteq CRs
  BY DEF Fetch, TypeOK, QueueOK
<1>. QED
  BY <1>2, <1>3, <1>4
  DEF TypeOK, ObjsOK, SecretsOK, StoreOK, QueueOK, BudgetOK

\* Building the desired state of a CR that is not being deleted.
LEMMA TypeResolveHeaders == TypeOK /\ ResolveHeaders => TypeOK'
<1>. SUFFICES ASSUME TypeOK, ResolveHeaders PROVE TypeOK'
  OBVIOUS
<1>. DEFINE h      == w.cr.spec.headers
            values == IF h \in Secrets THEN secret[h] ELSE h
            next   == IF w.cr.finalizer THEN FindActual(w.cr) ELSE "addFinalizer"
            locals == [w EXCEPT !.desired = FromExternalMonitor(w.key, w.cr.spec, values),
                                !.fresh = @ /\ ~w.cr.finalizer]
<1>0. pc # "idle"
  BY DEF ResolveHeaders
<1>1. UNCHANGED <<objs, secret, secretEvents, store, nextID, queue>>
  BY DEF ResolveHeaders, kube, mackerel
<1>2. BudgetOK'
  BY FaultType DEF ResolveHeaders, TypeOK
<1>3. WorkerOK' /\ timer' \subseteq CRs
  <2>1. CASE \/ Report("SecretError", 0, FALSE) \/ Report("SecretNotFound", 0, FALSE)
             \/ Report("InvalidSpec", 0, FALSE)
    BY <1>0, <2>1, ReportErrorType
  <2>2. CASE values \notin {Missing, Broken} /\ GoOn(next, locals)
    <3>1. /\ w.cr.spec \in Specs \cup {NoSpec}
          /\ h \in HeaderLists \cup Secrets \cup {Unmanaged, Broken}
      <4>1. w.cr.spec \in Specs \cup {NoSpec}
        BY <1>0, BusyType DEF Object
      <4>. QED
        BY <4>1, SpecHeadersType
    <3>2. values \in HeaderLists \cup {Unmanaged}
      BY <2>2, <3>1 DEF TypeOK, SecretsOK
    <3>3. FromExternalMonitor(w.key, w.cr.spec, values) \in Desired
      BY <1>0, <3>1, <3>2, BusyType, DesiredType
    <3>4. locals \in Locals /\ locals.key = w.key
      BY <1>0, <3>3, BusyType DEF Locals, Object
    <3>5. next \in Calls
      BY FindActualType DEF Calls
    <3>. HIDE DEF locals, next
    <3>. QED
      BY <1>0, <2>2, <3>4, <3>5, LocalsType, GoOnType
  <2>. QED
    BY <2>1, <2>2 DEF ResolveHeaders
<1>. QED
  BY <1>1, <1>2, <1>3 DEF TypeOK, ObjsOK, SecretsOK, StoreOK, QueueOK

\* A lost optimistic lock either moves on to another attempt or gives up.
LEMMA ConflictType ==
  ASSUME TypeOK, pc # "idle", NEW next \in Calls, Conflict(next)
  PROVE  WorkerOK' /\ timer' \subseteq CRs
<1>1. CASE w.tries + 1 < RetrySteps /\ GoOn(next, [w EXCEPT !.tries = @ + 1])
  <2>1. w.tries \in 0..(RetrySteps - 1) /\ RetrySteps \in Nat
    BY BusyType, OptionsAssumption DEF OptionsAssumption, Locals
  <2>2. w.tries + 1 \in 0..(RetrySteps - 1)
    BY <1>1, <2>1
  <2>3. [w EXCEPT !.tries = @ + 1] \in Locals /\ [w EXCEPT !.tries = @ + 1].key = w.key
    BY <2>2, BusyType DEF Locals
  <2>. QED
    BY <1>1, <2>3, LocalsType, GoOnType
<1>2. CASE Return(TRUE)
  BY <1>2, ReturnType
<1>. QED
  BY <1>1, <1>2 DEF Conflict

\* The finalizer patches.
LEMMA TypeAddFinalizer == TypeOK /\ AddFinalizer => TypeOK'
<1>. SUFFICES ASSUME TypeOK, AddFinalizer PROVE TypeOK'
  OBVIOUS
<1>. DEFINE patched == [Api(w.key) EXCEPT !.finalizer = TRUE]
            locals  == [w EXCEPT !.cr = patched, !.fresh = FALSE, !.tries = 0]
<1>0. pc # "idle" /\ w.key \in CRs
  BY BusyType DEF AddFinalizer
<1>1. UNCHANGED <<secret, secretEvents, store, nextID, queue>>
  BY DEF AddFinalizer, mackerel
<1>2. BudgetOK'
  BY FaultType DEF AddFinalizer, TypeOK
<1>3. patched \in Object
  BY <1>0, VersionsType DEF Object
<1>4. ObjsOK'
  <2>1. objs' \in {objs, [objs EXCEPT ![w.key] = Versions(w.key, patched)]}
    BY DEF AddFinalizer
  <2>. HIDE DEF patched
  <2>. QED
    BY <1>0, <1>3, <2>1, AppendType
<1>5. WorkerOK' /\ timer' \subseteq CRs
  <2>1. CASE GoOn(FindActual(patched), locals)
    <3>1. 0 \in 0..(RetrySteps - 1)
      BY OptionsAssumption DEF OptionsAssumption
    <3>2. locals \in Locals /\ locals.key = w.key
      BY <1>0, <1>3, <3>1, BusyType DEF Locals
    <3>3. FindActual(patched) \in Calls
      BY FindActualType DEF Calls
    <3>. HIDE DEF locals, patched
    <3>. QED
      BY <1>0, <2>1, <3>2, <3>3, LocalsType, GoOnType
  <2>2. CASE Conflict("rereadToAdd")
    BY <1>0, <2>2, ConflictType DEF Calls
  <2>3. CASE Return(TRUE)
    BY <1>0, <2>3, ReturnType
  <2>. QED
    BY <2>1, <2>2, <2>3 DEF AddFinalizer
<1>. QED
  BY <1>1, <1>2, <1>4, <1>5 DEF TypeOK, SecretsOK, StoreOK, QueueOK

\* See TypeAddFinalizer.
LEMMA TypeRemoveFinalizer == TypeOK /\ RemoveFinalizer => TypeOK'
<1>. SUFFICES ASSUME TypeOK, RemoveFinalizer PROVE TypeOK'
  OBVIOUS
<1>. DEFINE patched == IF Api(w.key).deleting THEN Absent
                       ELSE [Api(w.key) EXCEPT !.finalizer = FALSE]
<1>0. pc # "idle" /\ w.key \in CRs
  BY BusyType DEF RemoveFinalizer
<1>1. UNCHANGED <<secret, secretEvents, store, nextID, queue>>
  BY DEF RemoveFinalizer, mackerel
<1>2. BudgetOK'
  BY FaultType DEF RemoveFinalizer, TypeOK
<1>3. patched \in Object
  BY <1>0, VersionsType, IdleWorkerType DEF Object
<1>4. ObjsOK'
  <2>1. objs' \in {objs, [objs EXCEPT ![w.key] = Versions(w.key, patched)]}
    BY DEF RemoveFinalizer
  <2>. HIDE DEF patched
  <2>. QED
    BY <1>0, <1>3, <2>1, AppendType
<1>5. WorkerOK' /\ timer' \subseteq CRs
  <2>1. CASE Return(FALSE) \/ Return(TRUE)
    BY <1>0, <2>1, ReturnType
  <2>2. CASE Conflict("rereadToRemove")
    BY <1>0, <2>2, ConflictType DEF Calls
  <2>. QED
    BY <2>1, <2>2 DEF RemoveFinalizer
<1>. QED
  BY <1>1, <1>2, <1>4, <1>5 DEF TypeOK, SecretsOK, StoreOK, QueueOK

\* Reading the CR again, and reading Mackerel.
LEMMA TypeReads ==
  ASSUME TypeOK, Reread \/ GetMonitor \/ ListMonitors \/ GetCurrent
  PROVE  TypeOK'
<1>0. pc # "idle" /\ w.key \in CRs
  BY BusyType DEF Reread, GetMonitor, ListMonitors, GetCurrent
<1>1. UNCHANGED <<objs, secret, secretEvents, store, nextID, queue>>
  BY DEF Reread, GetMonitor, ListMonitors, GetCurrent, kube, mackerel
<1>2. BudgetOK'
  BY FaultType DEF Reread, GetMonitor, ListMonitors, GetCurrent, TypeOK
<1>3. WorkerOK' /\ timer' \subseteq CRs
  <2>1. CASE Reread
    <3>. DEFINE next   == IF pc = "rereadToAdd" THEN "addFinalizer" ELSE "removeFinalizer"
                locals == [w EXCEPT !.cr = Api(w.key), !.fresh = TRUE]
    <3>1. CASE GoOn(next, locals)
      <4>1. locals \in Locals /\ locals.key = w.key
        BY <1>0, BusyType, VersionsType DEF Locals
      <4>2. next \in Calls
        BY DEF Calls
      <4>. HIDE DEF locals, next
      <4>. QED
        BY <1>0, <3>1, <4>1, <4>2, LocalsType, GoOnType
    <3>2. CASE Return(pc = "rereadToAdd") \/ Return(TRUE)
      BY <1>0, <3>2, ReturnType
    <3>. QED
      BY <2>1, <3>1, <3>2 DEF Reread
  <2>2. CASE GetMonitor
    <3>1. CASE w.cr.status.monitorID \in DOMAIN store /\ Decide(Actual(w.cr.status.monitorID))
      BY <1>0, <3>1, ActualType, DecideType
    <3>2. CASE GoOn("list", w)
      BY <1>0, <3>2, LocalsType, BusyType, GoOnType DEF Calls
    <3>3. CASE FindActualFails
      BY <1>0, <3>3, FindActualFailsType
    <3>. QED
      BY <2>2, <3>1, <3>2, <3>3 DEF GetMonitor
  <2>3. CASE ListMonitors
    <3>1. CASE \E i \in DOMAIN store : Decide(Actual(i))
      BY <1>0, <3>1, ActualType, DecideType
    <3>2. CASE Decide(NilMonitor)
      BY <1>0, <3>2, IdleWorkerType, DecideType
    <3>3. CASE FindActualFails
      BY <1>0, <3>3, FindActualFailsType
    <3>. QED
      BY <2>3, <3>1, <3>2, <3>3 DEF ListMonitors, NameMatches
  <2>4. CASE GetCurrent
    <3>1. CASE /\ w.actual.id \in DOMAIN store
               /\ GoOn("put", [w EXCEPT !.base = store[w.actual.id].headers])
      <4>1. store[w.actual.id].headers \in HeaderLists
        BY <3>1 DEF TypeOK, StoreOK, Monitor
      <4>. QED
        BY <1>0, <3>1, <4>1, LocalsType, GoOnType DEF Calls
    <3>2. CASE Report("ProviderError", 0, FALSE)
      BY <1>0, <3>2, ReportErrorType
    <3>. QED
      BY <2>4, <3>1, <3>2 DEF GetCurrent
  <2>. QED
    BY <2>1, <2>2, <2>3, <2>4
<1>. QED
  BY <1>1, <1>2, <1>3 DEF TypeOK, ObjsOK, SecretsOK, StoreOK, QueueOK

\* A new monitor takes the next id.
LEMMA AddToStoreType ==
  ASSUME TypeOK, NEW m \in Monitor,
         store' = [i \in DOMAIN store \cup {nextID} |-> IF i = nextID THEN m ELSE store[i]],
         nextID' = nextID + 1
  PROVE  StoreOK'
<1>1. \A i \in DOMAIN store' : i \in Nat /\ i > 0 /\ i < nextID'
  BY DEF TypeOK, StoreOK
<1>2. \A i \in DOMAIN store' : store'[i] \in Monitor
  BY DEF TypeOK, StoreOK
<1>3. nextID' \in Nat /\ nextID' > 0
  BY DEF TypeOK, StoreOK
<1>4. store' = [i \in DOMAIN store' |-> store'[i]]
  OBVIOUS
<1>. QED
  BY <1>1, <1>2, <1>3, <1>4 DEF StoreOK

\* A change to a monitor, or its removal, keeps the others.
LEMMA ChangeStoreType ==
  ASSUME TypeOK, NEW m \in Monitor, NEW id,
         \/ store' = [store EXCEPT ![id] = m]
         \/ store' = [i \in DOMAIN store \ {id} |-> store[i]]
         \/ store' = store,
         nextID' = nextID
  PROVE  StoreOK'
  BY DEF TypeOK, StoreOK

\* The writes to Mackerel.
LEMMA TypeWrites ==
  ASSUME TypeOK, CreateMonitor \/ PutMonitor \/ DeleteMonitor
  PROVE  TypeOK'
<1>0. pc # "idle" /\ w.key \in CRs
  BY BusyType DEF CreateMonitor, PutMonitor, DeleteMonitor
<1>1. UNCHANGED <<objs, secret, secretEvents, queue>>
  BY DEF CreateMonitor, PutMonitor, DeleteMonitor, kube
<1>2. BudgetOK'
  BY FaultType DEF CreateMonitor, PutMonitor, DeleteMonitor, TypeOK
<1>3. StoreOK'
  <2>1. CASE CreateMonitor
    <3>1. SpecMemo(w.desired) \in Memo
      BY <1>0, BusyType, LiteralsAssumption
      DEF LiteralsAssumption, SpecMemo, Memo, Marker, NoMarker, Desired
    <3>2. Merge(DefaultHeaders, SpecMemo(w.desired)) \in Monitor
      BY <1>0, <3>1, MergeType, DataAssumption DEF DataAssumption
    <3>3. CASE UNCHANGED mackerel
      BY <3>3 DEF mackerel, TypeOK, StoreOK
    <3>. QED
      BY <2>1, <3>2, <3>3, AddToStoreType DEF CreateMonitor
  <2>2. CASE PutMonitor
    <3>1. w.base \in HeaderLists /\ w.actual.memo \in Memo
      BY <1>0, BusyType DEF Locals, ActualOK
    <3>2. Merge(w.base, w.actual.memo) \in Monitor
      BY <1>0, <3>1, MergeType
    <3>. QED
      BY <2>2, <3>2, ChangeStoreType DEF PutMonitor
  <2>3. CASE DeleteMonitor
    <3>1. PICK m : m \in Monitor
      <4>1. [name |-> "", body |-> "", headers |-> NoHeaders, memo |-> NilMonitor.memo] \in Monitor
        BY IdleWorkerType, LiteralsAssumption, DataAssumption
        DEF LiteralsAssumption, DataAssumption, Monitor, ActualOK
      <4>. QED
        BY <4>1
    <3>. QED
      BY <2>3, <3>1, ChangeStoreType DEF DeleteMonitor
  <2>. QED
    BY <2>1, <2>2, <2>3
<1>4. WorkerOK' /\ timer' \subseteq CRs
  <2>1. CASE CreateMonitor
    <3>1. "Synced" \in STRING /\ nextID \in Nat
      BY LiteralsAssumption DEF LiteralsAssumption, TypeOK, StoreOK
    <3>. QED
      BY <1>0, <2>1, <3>1, ReportType, ReportErrorType DEF CreateMonitor
  <2>2. CASE PutMonitor
    <3>1. "Synced" \in STRING /\ w.actual.id \in Nat
      BY <1>0, BusyType, LiteralsAssumption DEF LiteralsAssumption, Locals, ActualOK
    <3>. QED
      BY <1>0, <2>2, <3>1, ReportType, ReportErrorType DEF PutMonitor
  <2>3. CASE DeleteMonitor
    <3>. DEFINE locals == [w EXCEPT !.actual = NilMonitor, !.desired = NoDesired]
    <3>1. CASE GoOn("removeFinalizer", locals)
      <4>1. locals \in Locals /\ locals.key = w.key
        BY <1>0, BusyType, IdleWorkerType DEF Locals
      <4>. HIDE DEF locals
      <4>. QED
        BY <1>0, <3>1, <4>1, LocalsType, GoOnType DEF Calls
    <3>2. CASE Return(TRUE)
      BY <1>0, <3>2, ReturnType
    <3>. QED
      BY <2>3, <3>1, <3>2 DEF DeleteMonitor
  <2>. QED
    BY <2>1, <2>2, <2>3
<1>. QED
  BY <1>1, <1>2, <1>3, <1>4 DEF TypeOK, ObjsOK, SecretsOK, QueueOK

\* The merge patch of the status mixes two statuses field by field.
LEMMA MergedStatusType ==
  ASSUME NEW before \in StatusOK, NEW after \in StatusOK, NEW live \in StatusOK
  PROVE  [f \in DOMAIN live |-> IF after[f] # before[f] THEN after[f] ELSE live[f]]
            \in StatusOK
<1>. DEFINE m == [f \in DOMAIN live |-> IF after[f] # before[f] THEN after[f] ELSE live[f]]
            fields == {"monitorID", "observedGeneration", "lastAppliedHash", "cond"}
<1>1. DOMAIN live = fields
  BY DEF StatusOK
<1>2. /\ m.monitorID \in Nat /\ m.observedGeneration \in Nat
      /\ m.lastAppliedHash \in STRING /\ m.cond \in [reason : STRING, gen : Nat]
  BY <1>1 DEF StatusOK
<1>3. m = [monitorID |-> m.monitorID, observedGeneration |-> m.observedGeneration,
           lastAppliedHash |-> m.lastAppliedHash, cond |-> m.cond]
  BY <1>1
<1>. HIDE DEF m
<1>. QED
  BY <1>2, <1>3 DEF StatusOK

\* The status the worker computes.
LEMMA MarkedType ==
  ASSUME TypeOK, pc # "idle"
  PROVE  Marked(w.cr.status) \in StatusOK /\ w.cr.status \in StatusOK
  BY BusyType DEF Marked, Object, StatusOK, Locals, Desired

\* The status patch.
LEMMA TypePatchStatus == TypeOK /\ PatchStatus => TypeOK'
<1>. SUFFICES ASSUME TypeOK, PatchStatus PROVE TypeOK'
  OBVIOUS
<1>. DEFINE before == w.cr.status
            after  == Marked(before)
            live   == Api(w.key)
            merged == [live EXCEPT !.status =
                         [f \in DOMAIN live.status |->
                            IF after[f] # before[f] THEN after[f] ELSE live.status[f]]]
<1>0. pc # "idle" /\ w.key \in CRs
  BY BusyType DEF PatchStatus
<1>1. UNCHANGED <<secret, secretEvents, store, nextID, queue>>
  BY DEF PatchStatus, mackerel
<1>2. BudgetOK'
  BY FaultType DEF PatchStatus, TypeOK
<1>3. merged \in Object
  <2>1. live \in Object /\ live.status \in StatusOK
    BY <1>0, VersionsType DEF Object
  <2>2. before \in StatusOK /\ after \in StatusOK
    BY <1>0, MarkedType
  <2>3. [f \in DOMAIN live.status |->
           IF after[f] # before[f] THEN after[f] ELSE live.status[f]] \in StatusOK
    BY <2>1, <2>2, MergedStatusType
  <2>. QED
    BY <2>1, <2>3 DEF Object
<1>4. ObjsOK'
  <2>1. objs' \in {objs, [objs EXCEPT ![w.key] = Append(@, merged)],
                   [objs EXCEPT ![w.key] = Versions(w.key, merged)]}
    BY DEF PatchStatus
  <2>. HIDE DEF merged
  <2>. QED
    BY <1>0, <1>3, <2>1, AppendType
<1>5. WorkerOK' /\ timer' \subseteq CRs
  <2>1. Return(w.mark.reason # "InvalidSpec") \/ Return(TRUE)
    BY DEF PatchStatus
  <2>. QED
    BY <1>0, <2>1, ReturnType
<1>. QED
  BY <1>1, <1>2, <1>4, <1>5 DEF TypeOK, SecretsOK, StoreOK, QueueOK

\* What wakes the worker up, and the crash.
LEMMA TypeWake ==
  ASSUME TypeOK,
         \/ \E r \in CRs : DeliverWatch(r) \/ TimerFires(r)
         \/ \E s \in Secrets : DeliverSecret(s)
         \/ Crash
  PROVE  TypeOK'
<1>1. ASSUME NEW r \in CRs, DeliverWatch(r) PROVE TypeOK'
  <2>1. UNCHANGED <<secret, secretEvents, store, nextID, timer, pc, w, edits, faults, crashes>>
    BY <1>1 DEF DeliverWatch, mackerel, worker, budget
  <2>2. Tail(objs[r]) \in Seq(Object) /\ Len(Tail(objs[r])) > 0
    BY <1>1, VersionsType DEF DeliverWatch
  <2>3. ObjsOK'
    BY <1>1, <2>2 DEF DeliverWatch, TypeOK, ObjsOK
  <2>4. queue' \subseteq CRs
    BY <1>1 DEF DeliverWatch, TypeOK, QueueOK
  <2>. QED
    BY <2>1, <2>3, <2>4 DEF TypeOK, SecretsOK, StoreOK, QueueOK, WorkerOK, BudgetOK
<1>2. ASSUME NEW r \in CRs, TimerFires(r) PROVE TypeOK'
  <2>1. /\ UNCHANGED <<objs, secret, secretEvents, store, nextID, pc, w, edits, faults, crashes>>
        /\ timer' \subseteq CRs /\ queue' \subseteq CRs
    BY <1>2 DEF TimerFires, kube, mackerel, worker, budget, TypeOK, QueueOK
  <2>. QED
    BY <2>1 DEF TypeOK, ObjsOK, SecretsOK, StoreOK, QueueOK, WorkerOK, BudgetOK
<1>3. ASSUME NEW s \in Secrets, DeliverSecret(s) PROVE TypeOK'
  <2>1. /\ UNCHANGED <<objs, secret, store, nextID, timer, pc, w, edits, faults, crashes>>
        /\ secretEvents' \subseteq Secrets /\ queue' \subseteq CRs
    BY <1>3 DEF DeliverSecret, mackerel, worker, budget, TypeOK, QueueOK, SecretsOK
  <2>. QED
    BY <2>1 DEF TypeOK, ObjsOK, SecretsOK, StoreOK, QueueOK, WorkerOK, BudgetOK
<1>4. ASSUME Crash PROVE TypeOK'
  <2>1. /\ UNCHANGED <<secret, store, nextID, edits, faults>>
        /\ crashes' = crashes + 1 /\ crashes < MaxCrashes
        /\ secretEvents' = {} /\ timer' = {} /\ queue' \subseteq CRs
    BY <1>4 DEF Crash, mackerel
  <2>2. ObjsOK'
    <3>1. ASSUME NEW r \in CRs PROVE <<Api(r)>> \in Seq(Object) /\ Len(<<Api(r)>>) > 0
      BY VersionsType
    <3>. QED
      BY <1>4, <3>1 DEF Crash, ObjsOK
  <2>3. WorkerOK'
    BY <1>4, IdleWorkerType DEF Crash, WorkerOK, IdleWorker
  <2>4. BudgetOK'
    BY <2>1, OptionsAssumption DEF OptionsAssumption, TypeOK, BudgetOK
  <2>. QED
    BY <2>1, <2>2, <2>3, <2>4 DEF TypeOK, SecretsOK, StoreOK, QueueOK
<1>. QED
  BY <1>1, <1>2, <1>3, <1>4

\* Users, people in the Mackerel UI and other operators.
LEMMA EditType ==
  ASSUME BudgetOK, Edit
  PROVE  BudgetOK'
  BY OptionsAssumption DEF OptionsAssumption, BudgetOK, Edit

\* See EditType.
LEMMA UserWritesType ==
  ASSUME TypeOK, NEW r \in CRs, NEW o \in Object, UserWrites(r, o)
  PROVE  TypeOK'
<1>1. UNCHANGED <<secret, secretEvents, store, nextID, queue, timer, pc>>
  BY DEF UserWrites, mackerel, work
<1>2. ObjsOK'
  BY AppendType DEF UserWrites
<1>3. WorkerOK'
  BY DEF UserWrites, TypeOK, WorkerOK, Locals
<1>4. BudgetOK'
  BY EditType DEF UserWrites, TypeOK
<1>. QED
  BY <1>1, <1>2, <1>3, <1>4 DEF TypeOK, SecretsOK, StoreOK, QueueOK

\* A change to Mackerel by somebody else touches nothing of the operator's.
LEMMA OutsideType ==
  ASSUME TypeOK, Edit, StoreOK', UNCHANGED <<kube, work, worker>>
  PROVE  TypeOK'
  BY EditType DEF TypeOK, ObjsOK, SecretsOK, QueueOK, WorkerOK, kube, work, worker

\* Markers of other operators, and of nobody, are markers.
LEMMA ForeignMarkerType ==
  /\ NoMarker \in Marker /\ NoMarker.owner # Owner
  /\ \A r \in CRs : ForeignMarker(r) \in Marker /\ ForeignMarker(r).owner # Owner
  BY NamesAssumption, LiteralsAssumption
  DEF NamesAssumption, LiteralsAssumption, NoMarker, Marker, ForeignMarker, BuildMarker

\* What a user's change makes of a CR is a CR.
LEMMA EditedObjectType ==
  ASSUME NEW o \in Object, NEW s \in Specs
  PROVE  [o EXCEPT !.spec = s, !.gen = @ + 1] \in Object
<1>1. o.gen + 1 \in Nat
  BY DEF Object
<1>. QED
  BY <1>1 DEF Object

\* See EditedObjectType.
LEMMA DeletedObjectType ==
  ASSUME NEW o \in Object
  PROVE  [o EXCEPT !.deleting = TRUE, !.gen = @ + 1] \in Object
<1>1. o.gen + 1 \in Nat
  BY DEF Object
<1>. QED
  BY <1>1 DEF Object

\* Users and other clients of Mackerel keep the types.
LEMMA TypeEnvironment == TypeOK /\ Environment => TypeOK'
<1>. SUFFICES ASSUME TypeOK, Environment PROVE TypeOK'
  OBVIOUS
<1>1. ASSUME NEW r \in CRs, CreateCR(r) \/ EditSpec(r) \/ DeleteCR(r) PROVE TypeOK'
  <2>1. \A s \in Specs : NewCR(s) \in Object
    BY LiteralsAssumption
    DEF LiteralsAssumption, NewCR, Object, NewStatus, StatusOK, NoCond
  <2>2. \A s \in Specs : [Api(r) EXCEPT !.spec = s, !.gen = @ + 1] \in Object
    BY VersionsType, EditedObjectType
  <2>3. (IF Api(r).finalizer THEN [Api(r) EXCEPT !.deleting = TRUE, !.gen = @ + 1]
                             ELSE Absent) \in Object
    BY VersionsType, DeletedObjectType, IdleWorkerType
  <2>4. PICK o \in Object : UserWrites(r, o)
    BY <1>1, <2>1, <2>2, <2>3 DEF CreateCR, EditSpec, DeleteCR
  <2>. QED
    BY <2>4, UserWritesType
<1>2. ASSUME NEW s \in Secrets, SetSecret(s) PROVE TypeOK'
  <2>1. SecretsOK'
    BY <1>2 DEF SetSecret, TypeOK, SecretsOK
  <2>. QED
    BY <1>2, <2>1, EditType
    DEF SetSecret, TypeOK, ObjsOK, StoreOK, QueueOK, WorkerOK, mackerel, work, worker
<1>3. ASSUME NEW i \in DOMAIN store, EditMonitor(i) PROVE TypeOK'
  <2>0. store[i] \in Monitor
    BY DEF TypeOK, StoreOK
  <2>1. PICK m \in Monitor : SetMonitor(i, m)
    <3>1. \A b \in Bodies : [store[i] EXCEPT !.body = b] \in Monitor
      BY <2>0, DataAssumption DEF DataAssumption, Monitor
    <3>2. \A n \in Names : [store[i] EXCEPT !.name = n] \in Monitor
      BY <2>0, DataAssumption DEF DataAssumption, Monitor
    <3>3. \A h \in HeaderLists : [store[i] EXCEPT !.headers = h] \in Monitor
      BY <2>0 DEF Monitor
    <3>4. \A t \in Texts : [store[i] EXCEPT !.memo.text = t] \in Monitor
      BY <2>0, DataAssumption DEF DataAssumption, Monitor, Memo
    <3>5. \A k \in Marker : [store[i] EXCEPT !.memo.marker = k] \in Monitor
      BY <2>0 DEF Monitor, Memo
    <3>. QED
      BY <1>3, <3>1, <3>2, <3>3, <3>4, <3>5, ForeignMarkerType DEF EditMonitor
  <2>2. StoreOK'
    BY <2>1, ChangeStoreType DEF SetMonitor
  <2>. QED
    BY <2>1, <2>2, OutsideType DEF SetMonitor
<1>4. ASSUME NEW i \in DOMAIN store, RemoveMonitor(i) PROVE TypeOK'
  <2>0. store[i] \in Monitor
    BY DEF TypeOK, StoreOK
  <2>1. /\ store' = [j \in DOMAIN store \ {i} |-> store[j]]
        /\ nextID' = nextID
        /\ Edit
        /\ UNCHANGED <<kube, work, worker>>
    BY <1>4 DEF RemoveMonitor
  <2>2. StoreOK'
    BY <2>0, <2>1, ChangeStoreType
  <2>. QED
    BY <2>1, <2>2, OutsideType
<1>5. ASSUME AddMonitor PROVE TypeOK'
  <2>1. PICK k \in Marker : NewMonitor(k)
    BY <1>5, ForeignMarkerType DEF AddMonitor
  <2>2. \A n \in Names, b \in Bodies, t \in Texts :
          [name |-> n, body |-> b, headers |-> DefaultHeaders,
           memo |-> [text |-> t, marker |-> k]] \in Monitor
    BY DataAssumption DEF DataAssumption, Monitor, Memo
  <2>3. StoreOK'
    BY <2>1, <2>2, AddToStoreType DEF NewMonitor
  <2>. QED
    BY <2>1, <2>3, OutsideType DEF NewMonitor
<1>. QED
  BY <1>1, <1>2, <1>3, <1>4, <1>5 DEF Environment

\* Every step keeps the types.
LEMMA TypeNext == TypeOK /\ [Next]_vars => TypeOK'
<1>. SUFFICES ASSUME TypeOK, [Next]_vars PROVE TypeOK'
  OBVIOUS
<1>1. CASE \E r \in CRs : Fetch(r)
  BY <1>1, TypeFetch
<1>2. CASE Work
  BY <1>2, TypeResolveHeaders, TypeAddFinalizer, TypeRemoveFinalizer, TypeReads, TypeWrites,
     TypePatchStatus DEF Work
<1>3. CASE \/ \E r \in CRs : DeliverWatch(r) \/ TimerFires(r)
           \/ \E s \in Secrets : DeliverSecret(s)
           \/ Crash
  BY <1>3, TypeWake
<1>4. CASE Environment
  BY <1>4, TypeEnvironment
<1>5. CASE UNCHANGED vars
  BY <1>5 DEF vars, TypeOK, ObjsOK, SecretsOK, StoreOK, QueueOK, WorkerOK, BudgetOK
<1>. QED
  BY <1>1, <1>2, <1>3, <1>4, <1>5 DEF Next

\* Type correctness: in every behaviour of the specification every variable keeps its
\* type, the worker's locals through every call of Reconcile included.
THEOREM TypeCorrect == Spec => []TypeOK
  BY TypeInit, TypeNext, PTL DEF Spec

==============================================================================

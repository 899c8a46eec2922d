------------------------------- MODULE Headers -------------------------------
(***************************************************************************)
(* Headers whose values come from several keys of several Secrets          *)
(* (internal/controller/headers.go): how Reconcile resolves them one by    *)
(* one while Secrets rotate, and how a Secret's event finds the CRs that   *)
(* use it.                                                                 *)
(*                                                                         *)
(* Everything about the monitor but its headers is left out; ownership,    *)
(* finalizers and deletion are Reconciler's subject.  The resync timer may *)
(* fire but nothing here relies on it: the Secret watch is on.             *)
(***************************************************************************)
EXTENDS Naturals, Sequences

CONSTANTS
  CRs,
  Secrets,
  Keys,       \* keys in Secrets
  Specs,      \* spec.headers: lists of [name, secret, key]; secret = Literal: a plain value
  MaxEdits,   \* bound: changes of specs and Secrets
  MaxFaults   \* bound: failing remote calls

Literal == "literal"

ASSUME HeadersAssumption ==
  /\ Literal \notin Secrets
  /\ Specs \subseteq Seq([name : STRING, secret : Secrets \cup {Literal}, key : Keys \cup {""}])
  /\ MaxEdits \in Nat /\ MaxFaults \in Nat

VARIABLES
  specs,    \* specs[r]: the versions of the CR's headers from the cached to the newest
  secret,   \* secret[s]: [ver, keys]; its value for key k is new in every version
  exists,   \* the Secrets that are there
  events,   \* Secrets with an undelivered watch event
  queue, backoff, resync,  \* CRs in the work queue, and those that come back later
  pc, w,    \* the worker
  live,     \* live[r]: Mackerel's headers of r's monitor, {} if it is not created
  status,   \* status[r]: the reason of the CR's condition
  edits, faults

vars == <<specs, secret, exists, events, queue, backoff, resync, pc, w, live, status,
          edits, faults>>

kube == <<specs, secret, exists, events>>

Cached(r) == specs[r][1]
Api(r)    == specs[r][Len(specs[r])]

\* The value that header h has if its Secret is at version ver.
ValueOf(h, ver) == [secret |-> h.secret, key |-> h.key, ver |-> ver]

Unread == [ver |-> 0, keys |-> {}]
Idle   == [key |-> "", headers |-> <<>>, next |-> 1, read |-> [s \in Secrets |-> Unread],
           values |-> <<>>]

Init ==
  /\ specs \in [CRs -> {<<spec>> : spec \in Specs}]
  /\ secret = [s \in Secrets |-> [ver |-> 1, keys |-> Keys]]
  /\ exists = Secrets
  /\ events = {}
  /\ queue = CRs /\ backoff = {} /\ resync = {}
  /\ pc = "idle" /\ w = Idle
  /\ live = [r \in CRs |-> {}]
  /\ status = [r \in CRs |-> ""]
  /\ edits = 0 /\ faults = 0

------------------------------------------------------------------------------
(***************************************************************************)
(* Reconcile.                                                              *)
(***************************************************************************)

Fetch(r) ==
  /\ pc = "idle" /\ r \in queue
  /\ queue' = queue \ {r}
  /\ pc' = "resolve"
  /\ w' = [Idle EXCEPT !.key = r, !.headers = Cached(r)]
  /\ UNCHANGED <<kube, backoff, resync, live, status, edits, faults>>

\* Reconcile ends with this reason in the status.
Return(reason) ==
  /\ pc' = "idle" /\ w' = Idle
  /\ status' = [status EXCEPT ![w.key] = reason]
  /\ IF reason \in {"Synced", "SecretNotFound"}
       THEN resync' = resync \cup {w.key} /\ UNCHANGED backoff
       ELSE backoff' = backoff \cup {w.key} /\ UNCHANGED resync

Fault == faults < MaxFaults /\ faults' = faults + 1

\* Mutant: every header reads its Secret anew.
ResolveHeaderRereading ==
  /\ pc = "resolve" /\ w.next <= Len(w.headers)
  /\ LET h == w.headers[w.next]
         from == IF h.secret = Literal THEN Unread ELSE secret[h.secret]
     IN IF h.secret # Literal /\ (h.secret \notin exists \/ h.key \notin from.keys)
          THEN Return("SecretNotFound")
          ELSE /\ w' = [w EXCEPT !.next = @ + 1, !.values = Append(@, ValueOf(h, from.ver))]
               /\ UNCHANGED <<pc, status, backoff, resync>>
  /\ UNCHANGED <<kube, queue, live, edits, faults>>

\* Mutant: a header whose Secret lacks the key is left out.
ResolveHeaderSkipping ==
  /\ pc = "resolve" /\ w.next <= Len(w.headers)
  /\ LET h    == w.headers[w.next]
         from == IF h.secret = Literal THEN Unread ELSE secret[h.secret]
     IN w' = IF h.secret # Literal /\ h.key \notin from.keys
               THEN [w EXCEPT !.headers = SelectSeq(@, LAMBDA g : g # h)]
               ELSE [w EXCEPT !.next = @ + 1, !.values = Append(@, ValueOf(h, from.ver))]
  /\ UNCHANGED <<kube, queue, backoff, resync, pc, live, status, edits, faults>>

\* One round of resolveHeaderValues' loop.  A Secret that this call has read before is
\* not read again.
ResolveHeader ==
  /\ pc = "resolve" /\ w.next <= Len(w.headers)
  /\ LET h      == w.headers[w.next]
         isRead == h.secret # Literal /\ w.read[h.secret] # Unread
         from   == IF isRead THEN w.read[h.secret] ELSE secret[h.secret]
     IN \/ /\ h.secret = Literal
           /\ w' = [w EXCEPT !.next = @ + 1, !.values = Append(@, ValueOf(h, 0))]
           /\ UNCHANGED <<pc, status, backoff, resync, faults>>
        \/ /\ h.secret # Literal /\ ~isRead
           /\ Fault /\ Return("SecretError")
        \/ /\ h.secret # Literal
           /\ (~isRead /\ h.secret \notin exists) \/ h.key \notin from.keys
           /\ Return("SecretNotFound") /\ UNCHANGED faults
        \/ /\ h.secret # Literal
           /\ isRead \/ h.secret \in exists
           /\ h.key \in from.keys
           /\ w' = [w EXCEPT !.next = @ + 1, !.read[h.secret] = from,
                             !.values = Append(@, ValueOf(h, from.ver))]
           /\ UNCHANGED <<pc, status, backoff, resync, faults>>
  /\ UNCHANGED <<kube, queue, live, edits>>

\* Name -> value, for the headers and values of a list.
HeaderMap(headers, values) ==
  [n \in {headers[i].name : i \in DOMAIN headers} |->
     values[CHOOSE i \in DOMAIN headers : headers[i].name = n]]

\* All headers are resolved: the monitor is created or updated if it differs.  The write
\* may fail, with or without effect.
Write ==
  /\ pc = "resolve" /\ w.next > Len(w.headers)
  /\ LET written == [live EXCEPT ![w.key] = {HeaderMap(w.headers, w.values)}]
     IN \/ live' = written /\ Return("Synced") /\ UNCHANGED faults
        \/ live' \in {live, written} /\ Fault /\ Return("ProviderError")
  /\ UNCHANGED <<kube, queue, edits>>

------------------------------------------------------------------------------
(***************************************************************************)
(* Watches and timers.                                                     *)
(***************************************************************************)

\* Mutant: only the first header's Secret is indexed.
FirstSecretName(headers) ==
  {headers[i].secret : i \in {i \in DOMAIN headers : i = 1}} \ {Literal}

secretNamesForExternalMonitor(headers) ==
  {headers[i].secret : i \in DOMAIN headers} \ {Literal}

\* Mutant: the event queues its own object.
SecretItself(s) == {s}

\* externalMonitorsForSecret asks the index, which the cache keeps.
externalMonitorsForSecret(s) == {r \in CRs : s \in secretNamesForExternalMonitor(Cached(r))}

DeliverSecret(s) ==
  /\ s \in events
  /\ events' = events \ {s}
  /\ queue' = queue \cup externalMonitorsForSecret(s)
  /\ UNCHANGED <<specs, secret, exists, backoff, resync, pc, w, live, status, edits, faults>>

DeliverSpec(r) ==
  /\ Len(specs[r]) > 1
  /\ specs' = [specs EXCEPT ![r] = Tail(@)]
  /\ queue' = queue \cup {r}
  /\ UNCHANGED <<secret, exists, events, backoff, resync, pc, w, live, status, edits, faults>>

BackoffEnds(r) ==
  /\ r \in backoff
  /\ backoff' = backoff \ {r}
  /\ queue' = queue \cup {r}
  /\ UNCHANGED <<kube, resync, pc, w, live, status, edits, faults>>

Resync(r) ==
  /\ r \in resync
  /\ resync' = resync \ {r}
  /\ queue' = queue \cup {r}
  /\ UNCHANGED <<kube, backoff, pc, w, live, status, edits, faults>>

(***************************************************************************)
(* Users.                                                                  *)
(***************************************************************************)
Edit ==
  /\ edits < MaxEdits
  /\ edits' = edits + 1
  /\ UNCHANGED <<queue, backoff, resync, pc, w, live, status, faults>>

EditHeaders(r) ==
  /\ Edit
  /\ \E spec \in Specs \ {Api(r)} : specs' = [specs EXCEPT ![r] = Append(@, spec)]
  /\ UNCHANGED <<secret, exists, events>>

\* A Secret is created, rotated, or changed in the keys it has.
ApplySecret(s) ==
  /\ Edit
  /\ \E keys \in SUBSET Keys : secret' = [secret EXCEPT ![s] = [ver |-> @.ver + 1, keys |-> keys]]
  /\ exists' = exists \cup {s}
  /\ events' = events \cup {s}
  /\ UNCHANGED specs

DeleteSecret(s) ==
  /\ Edit
  /\ s \in exists
  /\ exists' = exists \ {s}
  /\ events' = events \cup {s}
  /\ UNCHANGED <<specs, secret>>

Work == (\E r \in CRs : Fetch(r)) \/ ResolveHeader \/ Write

Next ==
  \/ Work
  \/ \E s \in Secrets : DeliverSecret(s) \/ ApplySecret(s) \/ DeleteSecret(s)
  \/ \E r \in CRs : DeliverSpec(r) \/ BackoffEnds(r) \/ Resync(r) \/ EditHeaders(r)

\* A Reconcile goes on, the queue serves every CR, watches deliver and a back-off ends.
\* The resync timer is left out.
Fairness ==
  /\ WF_vars(ResolveHeader \/ Write)
  /\ \A r \in CRs : SF_vars(Fetch(r)) /\ WF_vars(DeliverSpec(r)) /\ WF_vars(BackoffEnds(r))
  /\ \A s \in Secrets : WF_vars(DeliverSecret(s))

Spec == Init /\ [][Next]_vars /\ Fairness

------------------------------------------------------------------------------
(***************************************************************************)
(* Properties.                                                             *)
(***************************************************************************)

\* A Secret as the API server returns it, and one as the worker may have it.
SecretOK == [ver : Nat \ {0}, keys : SUBSET Keys]
ReadOK   == SecretOK \cup {Unread}
ValuesOK == [secret : Secrets \cup {Literal}, key : Keys \cup {""}, ver : Nat]
Locals   == [key : CRs \cup {""}, headers : Specs \cup {<<>>}, next : Nat \ {0},
             read : [Secrets -> ReadOK], values : Seq(ValuesOK)]
Reasons  == {"Synced", "SecretNotFound", "SecretError", "ProviderError"}

SpecsOK == specs \in [CRs -> Seq(Specs)] /\ \A r \in CRs : specs[r] # <<>>

SecretsOK ==
  /\ secret \in [Secrets -> SecretOK]
  /\ exists \subseteq Secrets /\ events \subseteq Secrets

QueueOK == queue \subseteq CRs /\ backoff \subseteq CRs /\ resync \subseteq CRs

WorkerOK ==
  /\ pc \in {"idle", "resolve"}
  /\ w \in Locals
  /\ pc = "resolve" => w.key \in CRs /\ w.headers \in Specs
  /\ Len(w.values) = w.next - 1 /\ w.next <= Len(w.headers) + 1

LiveOK ==
  /\ DOMAIN live = CRs
  /\ \A r \in CRs : \A m, n \in live[r] : m = n
  /\ status \in [CRs -> Reasons \cup {""}]

BudgetOK == edits \in 0..MaxEdits /\ faults \in 0..MaxFaults

\* Every variable keeps its type; the worker has a CR exactly while it resolves headers of
\* one of its specs, and has as many values as headers passed; a CR has one monitor at most.
HeadersTypeOK == SpecsOK /\ SecretsOK /\ QueueOK /\ WorkerOK /\ LiveOK /\ BudgetOK

\* The version from which the worker takes the value of header h.
ReadVersion(h) == IF h.secret = Literal THEN 0 ELSE w.read[h.secret].ver

\* At every point of the resolution, each value so far is that of its own header, from the
\* one version of the Secret that this call of Reconcile has read.
ResolvedSoFar ==
  \A i \in 1..Len(w.values) : LET h == w.headers[i] IN
    /\ w.values[i] = ValueOf(h, ReadVersion(h))
    /\ h.secret # Literal => w.read[h.secret] # Unread

\* Headers of one monitor that come from one Secret always come from one version of it,
\* though the Secret may be rotated while they are resolved: Mackerel never sends an old
\* user name with a new password.
OneVersionPerSecret ==
  \A r \in CRs : \A headers \in live[r] : \A n, k \in DOMAIN headers :
    headers[n].secret = headers[k].secret /\ headers[n].secret # Literal =>
      headers[n].ver = headers[k].ver

\* A monitor has all headers of one list that a CR may ask for, each with the value of its
\* own reference: a missing Secret or key, at any point of the resolution, blocks the write
\* instead of leaving a header out or shifting the values that follow it.
NoPartialHeaders ==
  \A r \in CRs : \A headers \in live[r] : \E spec \in Specs :
    /\ DOMAIN headers = {spec[i].name : i \in DOMAIN spec}
    /\ \A n \in DOMAIN headers : \E i \in DOMAIN spec :
         /\ spec[i].name = n
         /\ headers[n].secret = spec[i].secret /\ headers[n].key = spec[i].key

\* Whether r's newest headers can be resolved, and to what.
Resolvable(r) ==
  \A i \in DOMAIN Api(r) : LET h == Api(r)[i] IN
    h.secret # Literal => h.secret \in exists /\ h.key \in secret[h.secret].keys

Current(r) ==
  HeaderMap(Api(r), [i \in DOMAIN Api(r) |->
    ValueOf(Api(r)[i], IF Api(r)[i].secret = Literal THEN 0 ELSE secret[Api(r)[i].secret].ver)])

\* Whatever Secrets and specs do, and in whatever order their events arrive, once they
\* rest every CR has the newest value of every header in Mackerel, or says that a Secret
\* is missing; the Secret watch alone brings this about, without the resync timer.
RotationArrives ==
  \A r \in CRs : <>[](IF Resolvable(r)
                        THEN live[r] = {Current(r)} /\ status[r] = "Synced"
                        ELSE status[r] = "SecretNotFound")

==============================================================================

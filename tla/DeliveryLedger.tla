--------------------------- MODULE DeliveryLedger ---------------------------
(***************************************************************************)
(* The delivery service: the PostgreSQL ledger (delivery_operations,       *)
(* delivery_work, delivery_attempts) and everything that acts on it.       *)
(*                                                                         *)
(*   - a request (POST /deliver or POST /webhooks/events) looks the        *)
(*     operation up, checks the object store for a receipt older than the  *)
(*     ledger, registers the operation and then works on it a few times;   *)
(*   - a reconciler (one background task per replica) works on any due row;*)
(*   - an operator redrives dead letters.                                  *)
(*                                                                         *)
(* Requests and reconcilers are both executors: they lease a row of work,  *)
(* call the destination and report the outcome, and the report counts only *)
(* while the lease is theirs and unexpired.  Every transaction is a single *)
(* step; between two of them anyone else may step, a lease may expire and  *)
(* an executor may die.  A call is a message on the wire that lands at any *)
(* later time or never, whatever became of its sender.                     *)
(*                                                                         *)
(* A destination's URL, payload and headers are one thing here: the        *)
(* request whose registration won, which is what freezes the envelope.     *)
(***************************************************************************)
EXTENDS Naturals, Sequences, FiniteSets

CONSTANTS
    Ops,           \* operation identities (tenant_id, operation_id)
    Requests,      \* submissions; a caller's retry is another element
    Reconcilers,   \* background tasks, one per replica of the service
    Destinations,  \* delivery providers
    Receipt,       \* the '__receipt__' row of an operation
    NoRequest,     \* no row in delivery_operations
    OpOf,          \* the operation identity a request resolves to
    Fingerprint,   \* the fingerprint of (request, providers, target URL)
    DestsOf,       \* the providers a request names
    LegacyOps,     \* operations delivered before the ledger: receipt, no row
    MaxAttempts,   \* DELIVERY_DURABLE_MAX_ATTEMPTS
    MaxRedrives    \* bound of the model: redrives per operation

ASSUME ConstantsAssumption ==
    /\ Requests \cap Reconcilers = {}
    /\ NoRequest \notin Requests
    /\ Receipt \notin Destinations
    /\ OpOf \in [Requests -> Ops]
    /\ DestsOf \in [Requests -> SUBSET Destinations]
    /\ IsFiniteSet(Destinations)
    /\ \A r, s \in Requests :   \* the fingerprint covers the providers
         Fingerprint[r] = Fingerprint[s] => DestsOf[r] = DestsOf[s]
    /\ LegacyOps \subseteq Ops
    /\ MaxAttempts \in Nat \ {0}
    /\ MaxRedrives \in Nat

VARIABLES
    oper,      \* delivery_operations: the request each operation was registered by
    work,      \* delivery_work: one row per destination and one for the receipt
    attempts,  \* delivery_attempts: the outcomes of each row's attempts, in order
    redrives,  \* redrives so far, per operation (delivery_operator_audit)
    phase,     \* what each executor is doing
    held,      \* the lease each executor works under
    client,    \* where each request's handler is
    turns,     \* rounds of work the request's handler has left
    wire,      \* calls sent and not arrived
    landed     \* calls that arrived: what the destinations have received

ledger  == <<oper, work, attempts, redrives>>
handler == <<client, turns>>
network == <<wire, landed>>
vars    == <<oper, work, attempts, redrives, phase, held, client, turns, wire, landed>>

Executors == Requests \cup Reconcilers
Work      == Ops \X (Destinations \cup {Receipt})

-----------------------------------------------------------------------------
(* Types *)

Outcomes == {"started", "acknowledged", "unknown", "pending", "dead_letter"}

\* `token` is the number of the attempt the lease_token was issued for: a
\* token is fresh for each attempt of a row, and 0 stands for NULL.  `due` is
\* next_attempt_at <= NOW(), `live` is lease_until > NOW().
Row == [state  : {"absent", "pending", "leased", "acknowledged", "dead_letter"},
        budget : Nat, due : BOOLEAN, token : Nat, live : BOOLEAN]

Lease   == [work : Work, token : Nat \ {0}]
NoLease == [work |-> NoRequest, token |-> 0]

\* `env` is the envelope sent, named by the request it was built from; `lists`
\* the destinations whose results a receipt lists.
Message == [work : Work, token : Nat \ {0}, env : Requests \cup {NoRequest},
            lists : SUBSET Destinations]

Working  == {"new", "unseen", "clear", "serving"}
Answered == {"ok", "accepted", "legacy_conflict", "key_conflict", "error"}

\* Type invariant: rows, attempts, leases, handlers and messages have their shape.
TypeOK ==
    /\ oper \in [Ops -> Requests \cup {NoRequest}]
    /\ work \in [Work -> Row]
    /\ attempts \in [Work -> Seq(Outcomes)]
    /\ redrives \in [Ops -> Nat]
    /\ phase \in [Executors -> {"idle", "claimed", "calling", "failing"}]
    /\ held \in [Executors -> Lease \cup {NoLease}]
    /\ client \in [Requests -> Working \cup Answered]
    /\ turns \in [Requests -> Nat]
    /\ wire \subseteq Message
    /\ landed \subseteq Message

-----------------------------------------------------------------------------
(* Reading the ledger *)

Absent == [state |-> "absent", budget |-> 0, due |-> FALSE, token |-> 0, live |-> FALSE]
Fresh  == [Absent EXCEPT !.state = "pending", !.due = TRUE]

\* The rows of an operation registered by request r.
RowsFor(r)  == {<<OpOf[r], d>> : d \in DestsOf[r] \cup {Receipt}}
RowsOf(o)   == {w \in Work : w[1] = o /\ work[w].state # "absent"}
Peers(w)    == {v \in RowsOf(w[1]) : v[2] # Receipt}

Acknowledged(rows) == \A w \in rows : work[w].state = "acknowledged"

\* What a reader of the operation sees.
OpState(o) ==
    IF \E w \in RowsOf(o) : work[w].state = "dead_letter" THEN "dead_letter"
    ELSE IF Acknowledged(RowsOf(o)) THEN "success" ELSE "pending"

\* A receipt object is in one of the two receipt buckets.
ReceiptStored(o) == o \in LegacyOps \/ \E m \in landed : m.work = <<o, Receipt>>

\* Mutant: an abandoned lease is never taken over.
ClaimablePendingOnly(w) ==
    /\ work[w].state = "pending"
    /\ work[w].due
    /\ w[2] = Receipt => Acknowledged(Peers(w))

Claimable(w) ==
    /\ work[w].state \in {"pending", "leased"}
    /\ work[w].due
    /\ ~ work[w].live
    /\ w[2] = Receipt => Acknowledged(Peers(w))

\* Mutant: one attempt more than the budget.
OutOfBudgetLate(w) == work[w].budget > MaxAttempts

OutOfBudget(w) == work[w].budget >= MaxAttempts

\* Mutants: the report is checked against the row's state only, or not against
\* the clock.
FencedByState(e) == work[held[e].work].state = "leased"
FencedByToken(e) == work[held[e].work].state = "leased" /\ work[held[e].work].token = held[e].token

\* The report of executor e still counts.
Fenced(e) ==
    LET row == work[held[e].work]
    IN  row.state = "leased" /\ row.token = held[e].token /\ row.live

Delivered(e) == \E m \in landed : m.work = held[e].work /\ m.token = held[e].token

-----------------------------------------------------------------------------
Init ==
    /\ oper = [o \in Ops |-> NoRequest]
    /\ work = [w \in Work |-> Absent]
    /\ attempts = [w \in Work |-> <<>>]
    /\ redrives = [o \in Ops |-> 0]
    /\ phase = [e \in Executors |-> "idle"]
    /\ held = [e \in Executors |-> NoLease]
    /\ client = [r \in Requests |-> "new"]
    /\ turns = [r \in Requests |-> 0]
    /\ wire = {}
    /\ landed = {}

-----------------------------------------------------------------------------
(* A request's handler *)

\* The first read of the ledger decides whether the legacy check is made.
Lookup(r) ==
    /\ client[r] = "new"
    /\ client' = [client EXCEPT ![r] =
                    IF oper[OpOf[r]] = NoRequest THEN "unseen" ELSE "clear"]
    /\ UNCHANGED <<ledger, phase, held, turns, network>>

\* A stored receipt is taken for one that predates the ledger.
CheckLegacy(r) ==
    /\ client[r] = "unseen"
    /\ client' = [client EXCEPT ![r] =
                    IF ReceiptStored(OpOf[r]) THEN "legacy_conflict" ELSE "clear"]
    /\ UNCHANGED <<ledger, phase, held, turns, network>>

\* INSERT ... ON CONFLICT DO NOTHING with the rows of work, in one transaction.
Register(r) ==
    /\ client[r] = "clear"
    /\ oper[OpOf[r]] = NoRequest
    /\ oper' = [oper EXCEPT ![OpOf[r]] = r]
    /\ work' = [w \in Work |-> IF w \in RowsFor(r) THEN Fresh ELSE work[w]]
    /\ client' = [client EXCEPT ![r] = "serving"]
    /\ turns' = [turns EXCEPT ![r] = Cardinality(DestsOf[r]) + 1]
    /\ UNCHANGED <<attempts, redrives, phase, held, network>>

\* Mutant: the conflicting insert replaces the row.
ReplayReplaces(r) ==
    /\ client[r] = "clear"
    /\ oper[OpOf[r]] # NoRequest
    /\ oper' = [oper EXCEPT ![OpOf[r]] = r]
    /\ client' = [client EXCEPT ![r] = "serving"]
    /\ turns' = [turns EXCEPT ![r] = Cardinality(DestsOf[r]) + 1]
    /\ UNCHANGED <<work, attempts, redrives, phase, held, network>>

\* The operation exists: the same envelope is a replay, another is a conflict.
Replay(r) ==
    /\ client[r] = "clear"
    /\ oper[OpOf[r]] # NoRequest
    /\ IF Fingerprint[oper[OpOf[r]]] = Fingerprint[r]
       THEN /\ client' = [client EXCEPT ![r] = "serving"]
            /\ turns' = [turns EXCEPT ![r] = Cardinality(DestsOf[r]) + 1]
       ELSE /\ client' = [client EXCEPT ![r] = "key_conflict"]
            /\ UNCHANGED turns
    /\ UNCHANGED <<ledger, phase, held, network>>

\* claim() finds nothing: no row is claimable, or SKIP LOCKED passed one by.
NothingDue(r) ==
    /\ client[r] = "serving"
    /\ phase[r] = "idle"
    /\ turns[r] > 0
    /\ turns' = [turns EXCEPT ![r] = 0]
    /\ UNCHANGED <<ledger, phase, held, client, network>>

\* 200 when the whole operation is acknowledged, 202 otherwise.
Answer(r) ==
    /\ client[r] = "serving"
    /\ phase[r] = "idle"
    /\ turns[r] = 0
    /\ client' = [client EXCEPT ![r] =
                    IF OpState(OpOf[r]) = "success" THEN "ok" ELSE "accepted"]
    /\ UNCHANGED <<ledger, phase, held, turns, network>>

-----------------------------------------------------------------------------
(* Executors: a request's handler in its loop, or a reconciler *)

\* Mutant: the request's loop is not counted.
MayClaimForever(e, w) ==
    phase[e] = "idle" /\ (e \in Requests => client[e] = "serving" /\ w[1] = OpOf[e])

MayClaim(e, w) ==
    /\ phase[e] = "idle"
    /\ e \in Requests => /\ client[e] = "serving"
                         /\ turns[e] > 0
                         /\ w[1] = OpOf[e]

\* Mutant: the abandoned attempt is left open.
SupersededOpen(w) == attempts[w]

\* An expired lease is taken over: its attempt ends with an unknown outcome.
Superseded(w) ==
    LET t == work[w].token
    IN  IF t # 0 /\ attempts[w][t] = "started"
        THEN [attempts[w] EXCEPT ![t] = "unknown"] ELSE attempts[w]

Claim(e, w) ==
    /\ MayClaim(e, w)
    /\ Claimable(w)
    /\ ~ OutOfBudget(w)
    /\ attempts' = [attempts EXCEPT ![w] = Append(Superseded(w), "started")]
    /\ work' = [work EXCEPT ![w] = [state |-> "leased", budget |-> work[w].budget + 1,
                                    due |-> TRUE, token |-> Len(attempts[w]) + 1,
                                    live |-> TRUE]]
    /\ phase' = [phase EXCEPT ![e] = "claimed"]
    /\ held' = [held EXCEPT ![e] = [work |-> w, token |-> Len(attempts[w]) + 1]]
    /\ turns' = IF e \in Requests THEN [turns EXCEPT ![e] = @ - 1] ELSE turns
    /\ UNCHANGED <<oper, redrives, client, network>>

\* No budget left after abandoned attempts: claim() dead-letters the row and
\* returns nothing, which ends the request's loop.
Exhaust(e, w) ==
    /\ MayClaim(e, w)
    /\ Claimable(w)
    /\ OutOfBudget(w)
    /\ attempts' = [attempts EXCEPT ![w] = Superseded(w)]
    /\ work' = [work EXCEPT ![w] = [work[w] EXCEPT !.state = "dead_letter", !.token = 0,
                                                   !.live = FALSE]]
    /\ turns' = IF e \in Requests THEN [turns EXCEPT ![e] = 0] ELSE turns
    /\ UNCHANGED <<oper, redrives, phase, held, client, network>>

\* Read the operation again and call the destination with what was read.
Send(e) ==
    /\ phase[e] = "claimed"
    /\ LET w == held[e].work
           m == [work  |-> w, token |-> held[e].token, env |-> oper[w[1]],
                 lists |-> IF w[2] = Receipt
                           THEN {v[2] : v \in {p \in Peers(w) : work[p].state = "acknowledged"}}
                           ELSE {}]
       IN  wire' = wire \cup {m}
    /\ phase' = [phase EXCEPT ![e] = "calling"]
    /\ UNCHANGED <<ledger, held, handler, landed>>

\* The row and the attempt move together, or not at all when the fence fails.
Report(e, row, outcome) ==
    LET w == held[e].work
    IN  IF Fenced(e)
        THEN /\ work' = [work EXCEPT ![w] = row]
             /\ attempts' = [attempts EXCEPT ![w][held[e].token] = outcome]
        ELSE UNCHANGED <<work, attempts>>

Release(e) ==
    /\ phase' = [phase EXCEPT ![e] = "idle"]
    /\ held' = [held EXCEPT ![e] = NoLease]

AcknowledgedRow(w) ==
    [work[w] EXCEPT !.state = "acknowledged", !.token = 0, !.live = FALSE]

FailedState(w, permanent) ==
    IF permanent \/ OutOfBudget(w) THEN "dead_letter" ELSE "pending"

FailedRow(w, permanent) ==
    [work[w] EXCEPT !.state = FailedState(w, permanent), !.token = 0, !.live = FALSE,
                    !.due = FALSE]

\* Mutant: acknowledged when sent, before the destination answers.
AcknowledgeOnSend(e) ==
    /\ phase[e] = "calling"
    /\ Report(e, AcknowledgedRow(held[e].work), "acknowledged")
    /\ Release(e)
    /\ UNCHANGED <<oper, redrives, handler, network>>

\* The destination answered with success.
Acknowledge(e) ==
    /\ phase[e] = "calling"
    /\ Delivered(e)
    /\ Report(e, AcknowledgedRow(held[e].work), "acknowledged")
    /\ Release(e)
    /\ UNCHANGED <<oper, redrives, handler, network>>

\* The database connection fails during acknowledge(): the commit took effect
\* or it did not, and the handler goes on to report a failure.
AcknowledgeError(e) ==
    /\ phase[e] = "calling"
    /\ Delivered(e)
    /\ \/ Report(e, AcknowledgedRow(held[e].work), "acknowledged")
       \/ UNCHANGED <<work, attempts>>
    /\ phase' = [phase EXCEPT ![e] = "failing"]
    /\ UNCHANGED <<oper, redrives, held, handler, network>>

\* A timeout, a refusal or an exception; a 4xx or an invalid value is permanent.
Fail(e, permanent) ==
    /\ phase[e] \in {"calling", "failing"}
    /\ phase[e] = "failing" => ~ permanent
    /\ Report(e, FailedRow(held[e].work, permanent), FailedState(held[e].work, permanent))
    /\ Release(e)
    /\ UNCHANGED <<oper, redrives, handler, network>>

\* The process dies, or the ledger cannot be read or written: the executor
\* forgets its work and the lease stays behind.
CrashReconciler(e) ==
    /\ phase[e] # "idle"
    /\ Release(e)
    /\ UNCHANGED <<ledger, handler, network>>

CrashRequest(r) ==
    /\ client[r] \in Working
    /\ client' = [client EXCEPT ![r] = "error"]
    /\ Release(r)
    /\ UNCHANGED <<ledger, turns, network>>

-----------------------------------------------------------------------------
(* The operator, time and the network *)

\* Mutant: every row of the operation is reset.
RedriveAll(o) ==
    /\ redrives[o] < MaxRedrives
    /\ \E w \in RowsOf(o) : work[w].state = "dead_letter"
    /\ work' = [w \in Work |->
                  IF w \in RowsOf(o) THEN [Fresh EXCEPT !.token = work[w].token] ELSE work[w]]
    /\ redrives' = [redrives EXCEPT ![o] = @ + 1]
    /\ UNCHANGED <<oper, attempts, phase, held, handler, network>>

Redrive(o) ==
    /\ redrives[o] < MaxRedrives
    /\ \E w \in RowsOf(o) : work[w].state = "dead_letter"
    /\ work' = [w \in Work |->
                  IF w[1] = o /\ work[w].state = "dead_letter"
                  THEN [work[w] EXCEPT !.state = "pending", !.budget = 0, !.due = TRUE]
                  ELSE work[w]]
    /\ redrives' = [redrives EXCEPT ![o] = @ + 1]
    /\ UNCHANGED <<oper, attempts, phase, held, handler, network>>

LeaseExpires(w) ==
    /\ work[w].live
    /\ work' = [work EXCEPT ![w].live = FALSE]
    /\ UNCHANGED <<oper, attempts, redrives, phase, held, handler, network>>

ComesDue(w) ==
    /\ work[w].state = "pending"
    /\ ~ work[w].due
    /\ work' = [work EXCEPT ![w].due = TRUE]
    /\ UNCHANGED <<oper, attempts, redrives, phase, held, handler, network>>

\* The call reaches the destination, the sender being alive or not.
Land(m) ==
    /\ wire' = wire \ {m}
    /\ landed' = landed \cup {m}
    /\ UNCHANGED <<ledger, phase, held, handler>>

-----------------------------------------------------------------------------
RequestStep(r) ==
    Lookup(r) \/ CheckLegacy(r) \/ Register(r) \/ Replay(r) \/ NothingDue(r) \/ Answer(r)

ExecutorStep(e) ==
    \/ \E w \in Work : Claim(e, w) \/ Exhaust(e, w)
    \/ Send(e)
    \/ Acknowledge(e)
    \/ AcknowledgeError(e)
    \/ \E permanent \in BOOLEAN : Fail(e, permanent)

Time(w) == LeaseExpires(w) \/ ComesDue(w)

Next ==
    \/ \E r \in Requests : RequestStep(r) \/ CrashRequest(r)
    \/ \E e \in Executors : ExecutorStep(e)
    \/ \E e \in Reconcilers : CrashReconciler(e)
    \/ \E o \in Ops : Redrive(o)
    \/ \E w \in Work : Time(w)
    \/ \E m \in wire : Land(m)

Spec == Init /\ [][Next]_vars

\* A reconciler is restarted with its process and ticks for ever, and time
\* passes.  Callers, destinations, the network and operators promise nothing.
FairSpec ==
    /\ Spec
    /\ \A e \in Reconcilers : WF_vars(ExecutorStep(e))
    /\ \A w \in Work : WF_vars(LeaseExpires(w)) /\ WF_vars(ComesDue(w))

-----------------------------------------------------------------------------
(* Safety *)

\* The ledger's two tables agree: a row is leased exactly under the newest
\* attempt, that attempt is the only one left 'started', and no outcome is
\* lost when a lease expires, is taken over or is exhausted.
LeaseMatchesAttempts ==
    \A w \in Work :
      /\ work[w].state = "leased" => work[w].token = Len(attempts[w])
      /\ \A i \in DOMAIN attempts[w] :
           attempts[w][i] = "started" <=> (work[w].state = "leased" /\ work[w].token = i)

\* A row is acknowledged by exactly one attempt, the last one made, and only a
\* call of that attempt that arrived can have acknowledged it: no late answer,
\* takeover or redrive adds a second acknowledgement or loses the first.
AcknowledgedOnce ==
    \A w \in Work :
      /\ work[w].state = "acknowledged" <=>
           \E i \in DOMAIN attempts[w] : attempts[w][i] = "acknowledged"
      /\ \A i \in DOMAIN attempts[w] :
           attempts[w][i] = "acknowledged" =>
             /\ i = Len(attempts[w])
             /\ \E m \in landed : m.work = w /\ m.token = i

\* Whoever sends, and however often a request is replayed or reworded under
\* the same key, everything sent for an operation carries the envelope frozen
\* by its registration; an operation that was delivered before the ledger
\* existed gets none.
FrozenEnvelope ==
    /\ \A m \in wire \cup landed : m.env = oper[m.work[1]]
    /\ \A o \in LegacyOps : oper[o] = NoRequest

\* Every claim spends budget, crashes included: a destination is called at
\* most MaxAttempts times between two redrives.
AttemptsBounded ==
    \A w \in Work : Len(attempts[w]) <= MaxAttempts * (redrives[w[1]] + 1)

-----------------------------------------------------------------------------
(* Action properties *)

\* No step changes an acknowledged row, an envelope or an attempt that has
\* an outcome: not a stale worker's, not a redrive's.
HistoryIsImmutable ==
    [][ /\ \A o \in Ops : oper[o] # NoRequest => oper'[o] = oper[o]
        /\ \A w \in Work :
             /\ work[w].state = "acknowledged" => work'[w] = work[w]
             /\ \A i \in DOMAIN attempts[w] :
                  /\ i \in DOMAIN attempts'[w]
                  /\ attempts[w][i] # "started" => attempts'[w][i] = attempts[w][i] ]_vars

\* A worker whose lease expired or was taken over changes nothing when it
\* reports, whatever it reports.
StaleWorkerIsHarmless ==
    [][ \A e \in Executors :
          LET row == work[held[e].work]
          IN  (/\ phase[e] \in {"calling", "failing"} /\ phase'[e] # phase[e]
               /\ row.token # held[e].token \/ ~ row.live)
                => UNCHANGED <<work, attempts>> ]_vars

-----------------------------------------------------------------------------
(* What the service promises its callers: see DeliveryPromise. *)

Received(o) == {m.work[2] : m \in {l \in landed : l.work[1] = o}}

Promise == INSTANCE DeliveryPromise WITH
    envelope <- oper,
    status   <- [o \in Ops |-> IF oper[o] = NoRequest THEN "absent" ELSE OpState(o)],
    received <- [o \in Ops |-> Received(o)]

\* The ledger, its executors and their crashes implement the promise.
ImplementsPromise == Promise!Spec

-----------------------------------------------------------------------------
(* Liveness *)

\* A registered operation is settled, again after every redrive, without any
\* caller coming back: all of it acknowledged or some of it dead-lettered.
Settles ==
    \A o \in Ops : oper[o] # NoRequest ~> OpState(o) \in {"success", "dead_letter"}

=============================================================================

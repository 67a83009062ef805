------------------------ MODULE DeliveryPromiseProofs ------------------------
(***************************************************************************)
(* What the ledger keeps over time, for the constants of                    *)
(* DeliveryLedgerProofs and from its invariant: envelopes, budgets and       *)
(* outcomes; and that it implements DeliveryPromise: every step of a         *)
(* handler, a reconciler, an operator or the network is a step of the        *)
(* promise or is not seen by it.                                           *)
(***************************************************************************)
EXTENDS DeliveryLedgerProofs

-----------------------------------------------------------------------------
(* Envelopes *)

\* What is on its way carries the registered envelope, and whoever may send is
\* at work for a registered operation; a request for an operation older than
\* the ledger does not come past the receipts.
Frozen ==
    /\ \A m \in wire \cup landed : m.env = oper[m.work[1]] /\ m.env # NoRequest
    /\ \A e \in Executors : phase[e] # "idle" => oper[held[e].work[1]] # NoRequest
    /\ \A o \in LegacyOps : oper[o] = NoRequest
    /\ \A r \in Requests :
         OpOf[r] \in LegacyOps => client[r] \in {"new", "unseen", "legacy_conflict", "error"}

\* A step that registers nothing, sends nothing and engages nobody.
LEMMA FrozenKept ==
    ASSUME TypeOK, Frozen, oper' = oper, wire' \cup landed' \subseteq wire \cup landed,
           \A e \in Executors : phase'[e] # "idle" => phase[e] # "idle" /\ held'[e] = held[e],
           \A r \in Requests : client'[r] \in {client[r], "error"}
    PROVE  Frozen'
<1>1. \A m \in wire' \cup landed' : m.env = oper'[m.work[1]] /\ m.env # NoRequest
  BY DEF Frozen
<1>2. \A e \in Executors : phase'[e] # "idle" => oper'[held'[e].work[1]] # NoRequest
  BY DEF Frozen
<1>3. \A r \in Requests :
        OpOf[r] \in LegacyOps => client'[r] \in {"new", "unseen", "legacy_conflict", "error"}
  BY DEF Frozen
<1> QED BY <1>1, <1>2, <1>3 DEF Frozen

\* No step sends under another envelope, or for an operation of old.
LEMMA FrozenStep ==
    ASSUME LedgerInv, Frozen, [Next]_vars PROVE Frozen'
<1> USE ExecutorsType DEF LedgerInv
<1>1. ASSUME NEW r \in Requests, Lookup(r) \/ CheckLegacy(r)
      PROVE  Frozen'
  <2>1. UNCHANGED <<oper, phase, held, wire, landed>>
    BY <1>1 DEF Lookup, CheckLegacy, ledger, network
  <2>2. ASSUME NEW s \in Requests, OpOf[s] \in LegacyOps
        PROVE  client'[s] \in {"new", "unseen", "legacy_conflict", "error"}
    <3>1. CASE s = r
      BY <1>1, <2>2, <3>1 DEF Lookup, CheckLegacy, Frozen, ReceiptStored, TypeOK
    <3>2. CASE s # r
      BY <1>1, <2>2, <3>2 DEF Lookup, CheckLegacy, Frozen, TypeOK
    <3> QED BY <3>1, <3>2
  <2> QED BY <2>1, <2>2 DEF Frozen
<1>2. ASSUME NEW r \in Requests, Register(r)
      PROVE  Frozen'
  <2>1. OpOf[r] \in Ops \ LegacyOps /\ oper[OpOf[r]] = NoRequest
    BY <1>2, ConstantsAssumption DEF Register, Frozen
  <2>2. /\ oper' = [oper EXCEPT ![OpOf[r]] = r]
        /\ client' = [client EXCEPT ![r] = "serving"]
        /\ UNCHANGED <<phase, held, wire, landed>>
    BY <1>2 DEF Register, network
  <2>3. ASSUME NEW o, oper[o] # NoRequest
        PROVE  oper'[o] = oper[o]
    BY <2>1, <2>2, <2>3 DEF TypeOK
  <2>4. \A m \in wire' \cup landed' : m.env = oper'[m.work[1]] /\ m.env # NoRequest
    BY <2>2, <2>3 DEF Frozen
  <2>5. \A e \in Executors : phase'[e] # "idle" => oper'[held'[e].work[1]] # NoRequest
    BY <2>2, <2>3 DEF Frozen
  <2>6. \A o \in LegacyOps : oper'[o] = NoRequest
    BY <2>1, <2>2 DEF Frozen
  <2>7. ASSUME NEW s \in Requests, OpOf[s] \in LegacyOps
        PROVE  client'[s] \in {"new", "unseen", "legacy_conflict", "error"}
    BY <2>1, <2>2, <2>7 DEF Frozen, TypeOK
  <2> QED BY <2>4, <2>5, <2>6, <2>7 DEF Frozen
<1>3. ASSUME NEW r \in Requests, Replay(r) \/ NothingDue(r) \/ Answer(r)
      PROVE  Frozen'
  <2>1. UNCHANGED <<oper, phase, held, wire, landed>>
    BY <1>3 DEF Replay, NothingDue, Answer, ledger, network
  <2>2. OpOf[r] \notin LegacyOps \/ client' = client
    BY <1>3 DEF Replay, NothingDue, Answer, Frozen
  <2>3. ASSUME NEW s \in Requests, s # r
        PROVE  client'[s] = client[s]
    BY <1>3, <2>3 DEF Replay, NothingDue, Answer, TypeOK
  <2> QED BY <2>1, <2>2, <2>3 DEF Frozen
<1>4. ASSUME NEW e \in Executors, NEW w \in Work, Claim(e, w)
      PROVE  Frozen'
  <2>1. oper[w[1]] # NoRequest
    BY <1>4 DEF Claim, Claimable, LogInv
  <2>2. /\ UNCHANGED <<oper, client, wire, landed>>
        /\ held' = [held EXCEPT ![e] = [work |-> w, token |-> Len(attempts[w]) + 1]]
        /\ phase' = [phase EXCEPT ![e] = "claimed"]
    BY <1>4 DEF Claim, network
  <2>3. ASSUME NEW f \in Executors, phase'[f] # "idle"
        PROVE  oper'[held'[f].work[1]] # NoRequest
    BY <2>1, <2>2, <2>3 DEF Frozen, TypeOK
  <2> QED BY <2>2, <2>3 DEF Frozen
<1>5. ASSUME NEW e \in Executors, NEW w \in Work, Exhaust(e, w)
      PROVE  Frozen'
  BY <1>5, FrozenKept DEF Exhaust, network
<1>6. ASSUME NEW e \in Executors, Send(e)
      PROVE  Frozen'
  <2>1. oper[held[e].work[1]] # NoRequest
    BY <1>6 DEF Send, Frozen
  <2>2. /\ UNCHANGED <<oper, client, held, landed>>
        /\ phase' = [phase EXCEPT ![e] = "calling"]
    BY <1>6 DEF Send, ledger, handler
  <2>3. PICK l : wire' = wire \cup
          {[work |-> held[e].work, token |-> held[e].token,
            env |-> oper[held[e].work[1]], lists |-> l]}
    BY <1>6, Zenon DEF Send
  <2>4. \A m \in wire' \cup landed' : m.env = oper'[m.work[1]] /\ m.env # NoRequest
    BY <2>1, <2>2, <2>3 DEF Frozen
  <2>5. \A f \in Executors : phase'[f] # "idle" => phase[f] # "idle"
    BY <1>6, <2>2 DEF Send, TypeOK
  <2> QED BY <2>2, <2>4, <2>5 DEF Frozen
<1>7. ASSUME NEW e \in Executors, Acknowledge(e) \/ AcknowledgeError(e)
      PROVE  Frozen'
  <2>1. UNCHANGED <<oper, client, wire, landed>>
    BY <1>7 DEF Acknowledge, AcknowledgeError, handler, network
  <2>2. \A f \in Executors : phase'[f] # "idle" => phase[f] # "idle" /\ held'[f] = held[f]
    BY <1>7 DEF Acknowledge, AcknowledgeError, Release, TypeOK
  <2> QED BY <2>1, <2>2, FrozenKept
<1>8. ASSUME NEW e \in Executors, NEW permanent \in BOOLEAN, Fail(e, permanent)
      PROVE  Frozen'
  <2>1. UNCHANGED <<oper, client, wire, landed>>
    BY <1>8 DEF Fail, handler, network
  <2>2. \A f \in Executors : phase'[f] # "idle" => phase[f] # "idle" /\ held'[f] = held[f]
    BY <1>8 DEF Fail, Release, TypeOK
  <2> QED BY <2>1, <2>2, FrozenKept
<1>9. ASSUME NEW e \in Executors, CrashReconciler(e) \/ (e \in Requests /\ CrashRequest(e))
      PROVE  Frozen'
  <2>1. UNCHANGED <<oper, wire, landed>>
    BY <1>9 DEF CrashReconciler, CrashRequest, ledger, network
  <2>2. \A f \in Executors : phase'[f] # "idle" => phase[f] # "idle" /\ held'[f] = held[f]
    BY <1>9 DEF CrashReconciler, CrashRequest, Release, TypeOK
  <2>3. \A r \in Requests : client'[r] \in {client[r], "error"}
    BY <1>9 DEF CrashReconciler, CrashRequest, handler, TypeOK
  <2> QED BY <2>1, <2>2, <2>3, FrozenKept
<1>10. ASSUME NEW o \in Ops, Redrive(o)
       PROVE  Frozen'
  BY <1>10, FrozenKept DEF Redrive, handler, network
<1>11. ASSUME NEW w \in Work, LeaseExpires(w) \/ ComesDue(w)
       PROVE  Frozen'
  BY <1>11, FrozenKept DEF LeaseExpires, ComesDue, handler, network
<1>12. ASSUME NEW m \in wire, Land(m)
       PROVE  Frozen'
  BY <1>12, FrozenKept DEF Land, ledger, handler
<1>13. CASE UNCHANGED vars
  BY <1>13, FrozenKept DEF vars
<1> QED
  BY <1>1, <1>2, <1>3, <1>4, <1>5, <1>6, <1>7, <1>8, <1>9, <1>10, <1>11, <1>12, <1>13
  DEF Next, RequestStep, ExecutorStep, Time

\* repository.py:56-70, main.py:190-199: whatever is sent for an operation, by
\* whichever executor and however late, carries the envelope of the request
\* that registered it, and for an operation older than the ledger nothing is
\* registered.
THEOREM FrozenEnvelopeHolds == Spec => []FrozenEnvelope
<1>1. Init => Frozen
  BY ConstantsAssumption DEF Init, Frozen
<1>2. LedgerInv /\ Frozen /\ [Next]_vars => Frozen'
  BY FrozenStep
<1>3. Frozen => FrozenEnvelope
  BY DEF Frozen, FrozenEnvelope
<1> QED BY <1>1, <1>2, <1>3, LedgerInvariant, PTL DEF Spec

-----------------------------------------------------------------------------
(* Rows *)

\* The history that is left, and nothing that had an outcome changes.
Extends(log, old) ==
    /\ Len(old) <= Len(log)
    /\ \A i \in 1..Len(old) : old[i] # "started" => log[i] = old[i]

\* One row that is not settled moves: its attempts are extended, and another
\* attempt costs budget.
RowMoves(w, row, log) ==
    /\ work[w].state \in {"pending", "leased"} /\ row.state # "absent"
    /\ work' = [work EXCEPT ![w] = row]
    /\ attempts' = [attempts EXCEPT ![w] = log]
    /\ UNCHANGED <<oper, redrives>>
    /\ Extends(log, attempts[w])
    /\ \/ row.budget = work[w].budget /\ Len(log) = Len(attempts[w])
       \/ /\ row.budget = work[w].budget + 1 /\ Len(log) = Len(attempts[w]) + 1
          /\ ~ OutOfBudget(w)

\* A report counts for the newest attempt or not at all.
LEMMA ReportMoves ==
    ASSUME LedgerInv, NEW e \in Executors, held[e] \in Lease, NEW row \in Row,
           row.budget = work[held[e].work].budget, row.state # "absent",
           NEW outcome \in Outcomes,
           Report(e, row, outcome), UNCHANGED <<oper, redrives>>
    PROVE  \/ UNCHANGED ledger
           \/ \E w \in Work, log \in Seq(Outcomes) : RowMoves(w, row, log)
<1> DEFINE w == held[e].work
           s == attempts[w]
           log == [s EXCEPT ![Len(s)] = outcome]
<1>1. w \in Work /\ s \in Seq(Outcomes) /\ RowLog(work[w], s)
  BY DEF Lease, LedgerInv, TypeOK, LogInv
<1>2. CASE Fenced(e)
  <2>1. work[w].state = "leased" /\ held[e].token = Len(s) /\ s[Len(s)] = "started"
    BY <1>1, <1>2 DEF Fenced, RowLog
  <2>2. work' = [work EXCEPT ![w] = row]
    BY <1>2 DEF Report
  <2>3. attempts' = [attempts EXCEPT ![w][held[e].token] = outcome]
    BY <1>2, Zenon DEF Report
  <2>4. attempts' = [attempts EXCEPT ![w] = log]
    BY <2>1, <2>3
  <2>5. log \in Seq(Outcomes) /\ Len(log) = Len(s)
    BY <1>1, ReplaceEntry
  <2>6. Extends(log, s)
    <3>1. DOMAIN s = 1..Len(s) /\ Len(s) \in Nat
      BY <1>1
    <3>2. Len(s) = Len(log)
      BY <2>5
    <3>3. s[Len(s)] = "started"
      BY <2>1
    <3> HIDE DEF s
    <3>4. \A i \in 1..Len(s) : i # Len(s) => log[i] = s[i]
      BY <3>1
    <3> HIDE DEF log
    <3>5. \A i \in 1..Len(s) : s[i] # "started" => log[i] = s[i]
      BY <3>3, <3>4
    <3>6. Len(s) <= Len(log)
      BY <3>1, <3>2
    <3> QED BY <3>5, <3>6 DEF Extends
  <2>7. RowMoves(w, row, log)
    BY <2>1, <2>2, <2>4, <2>5, <2>6 DEF RowMoves
  <2> HIDE DEF w, log
  <2> QED BY <1>1, <2>5, <2>7
<1>3. CASE ~ Fenced(e)
  BY <1>3 DEF Report, ledger
<1> QED BY <1>2, <1>3

\* What a step may do to the ledger.
LEMMA LedgerMoves ==
    ASSUME LedgerInv, [Next]_vars
    PROVE  \/ UNCHANGED ledger
           \/ \E r \in Requests : Register(r)
           \/ \E w \in Work, row \in Row, log \in Seq(Outcomes) : RowMoves(w, row, log)
           \/ \E o \in Ops : Redrive(o)
<1> DEFINE Moves ==
      \/ UNCHANGED ledger
      \/ \E r \in Requests : Register(r)
      \/ \E w \in Work, row \in Row, log \in Seq(Outcomes) : RowMoves(w, row, log)
      \/ \E o \in Ops : Redrive(o)
<1> USE ExecutorsType DEF LedgerInv
<1>1. ASSUME NEW e \in Executors, NEW w \in Work, Claim(e, w)
      PROVE  Moves
  <2> DEFINE log == Append(Superseded(w), "started")
             row == [state |-> "leased", budget |-> work[w].budget + 1, due |-> TRUE,
                     token |-> Len(attempts[w]) + 1, live |-> TRUE]
  <2>1. /\ work[w].state \in {"pending", "leased"} /\ ~ OutOfBudget(w)
        /\ RowLog(work[w], attempts[w]) /\ attempts[w] \in Seq(Outcomes)
    BY <1>1 DEF Claim, Claimable, LogInv, TypeOK
  <2>2. /\ Superseded(w) \in Seq(Outcomes) /\ Len(Superseded(w)) = Len(attempts[w])
        /\ \A i \in 1..Len(attempts[w]) :
             attempts[w][i] # "started" => Superseded(w)[i] = attempts[w][i]
    BY <2>1, SupersededType, SupersededLog
  <2>3. /\ log \in Seq(Outcomes) /\ Len(log) = Len(attempts[w]) + 1
        /\ Extends(log, attempts[w])
    BY <2>1, <2>2 DEF Extends, Outcomes
  <2>4. row \in Row /\ row.budget = work[w].budget + 1 /\ row.state # "absent"
    BY <2>1 DEF TypeOK, Row
  <2>5. work' = [work EXCEPT ![w] = row] /\ attempts' = [attempts EXCEPT ![w] = log]
    BY <1>1, Zenon DEF Claim
  <2>6. UNCHANGED <<oper, redrives>>
    BY <1>1 DEF Claim
  <2> HIDE DEF row, log
  <2>7. RowMoves(w, row, log)
    BY <2>1, <2>3, <2>4, <2>5, <2>6 DEF RowMoves
  <2> QED BY <2>3, <2>4, <2>7
<1>2. ASSUME NEW e \in Executors, NEW w \in Work, Exhaust(e, w)
      PROVE  Moves
  <2> DEFINE row == [work[w] EXCEPT !.state = "dead_letter", !.token = 0, !.live = FALSE]
             log == Superseded(w)
  <2>1. /\ work[w].state \in {"pending", "leased"}
        /\ RowLog(work[w], attempts[w]) /\ attempts[w] \in Seq(Outcomes)
    BY <1>2 DEF Exhaust, Claimable, LogInv, TypeOK
  <2>2. log \in Seq(Outcomes) /\ Len(log) = Len(attempts[w]) /\ Extends(log, attempts[w])
    BY <2>1, SupersededType, SupersededLog DEF Extends
  <2>3. row \in Row /\ row.budget = work[w].budget /\ row.state # "absent"
    BY DEF TypeOK, Row
  <2>4. work' = [work EXCEPT ![w] = row] /\ attempts' = [attempts EXCEPT ![w] = log]
    BY <1>2, Zenon DEF Exhaust
  <2>5. UNCHANGED <<oper, redrives>>
    BY <1>2 DEF Exhaust
  <2> HIDE DEF row, log
  <2>6. RowMoves(w, row, log)
    BY <2>1, <2>2, <2>3, <2>4, <2>5 DEF RowMoves
  <2> QED BY <2>2, <2>3, <2>6
<1>3. ASSUME NEW e \in Executors, Acknowledge(e) \/ AcknowledgeError(e)
      PROVE  Moves
  <2> DEFINE row == AcknowledgedRow(held[e].work)
  <2>1. held[e] \in Lease /\ UNCHANGED <<oper, redrives>>
    BY <1>3 DEF Acknowledge, AcknowledgeError, HeldWhenBusy, network
  <2>2. row \in Row /\ row.budget = work[held[e].work].budget /\ row.state # "absent"
    <3>1. held[e].work \in Work /\ work[held[e].work] \in Row
      BY <2>1 DEF Lease, TypeOK
    <3>2. row \in Row
      BY <3>1, RowTypes
    <3> QED BY <3>1, <3>2 DEF AcknowledgedRow, Row
  <2>3. Report(e, row, "acknowledged") \/ UNCHANGED <<work, attempts>>
    BY <1>3 DEF Acknowledge, AcknowledgeError
  <2>4. "acknowledged" \in Outcomes
    BY DEF Outcomes
  <2> HIDE DEF row
  <2>5. CASE Report(e, row, "acknowledged")
    BY <2>1, <2>2, <2>4, <2>5, ReportMoves
  <2>6. CASE UNCHANGED <<work, attempts>>
    BY <2>1, <2>6 DEF ledger
  <2> QED BY <2>3, <2>5, <2>6
<1>4. ASSUME NEW e \in Executors, NEW permanent \in BOOLEAN, Fail(e, permanent)
      PROVE  Moves
  <2> DEFINE row == FailedRow(held[e].work, permanent)
             outcome == FailedState(held[e].work, permanent)
  <2>1. held[e] \in Lease /\ UNCHANGED <<oper, redrives>>
    BY <1>4 DEF Fail, HeldWhenBusy
  <2>2. /\ row \in Row /\ row.budget = work[held[e].work].budget /\ row.state # "absent"
        /\ outcome \in Outcomes
    <3>1. held[e].work \in Work /\ work[held[e].work] \in Row
      BY <2>1 DEF Lease, TypeOK
    <3>2. row \in Row /\ outcome \in Outcomes
      BY <3>1, RowTypes
    <3> QED BY <3>1, <3>2 DEF FailedRow, FailedState, Row
  <2>3. Report(e, row, outcome)
    BY <1>4 DEF Fail
  <2> HIDE DEF row, outcome
  <2> QED BY <2>1, <2>2, <2>3, ReportMoves
<1>5. ASSUME NEW w \in Work, LeaseExpires(w) \/ ComesDue(w)
      PROVE  Moves
  <2>1. work[w] \in Row /\ attempts[w] \in Seq(Outcomes) /\ RowLog(work[w], attempts[w])
    BY DEF TypeOK, LogInv
  <2>2. work[w].state \in {"pending", "leased"}
    BY <1>5, <2>1 DEF LeaseExpires, ComesDue, RowLog, Row
  <2>3. PICK row \in Row :
          /\ work' = [work EXCEPT ![w] = row]
          /\ row.budget = work[w].budget /\ row.state = work[w].state
    <3>1. CASE LeaseExpires(w)
      <4> DEFINE row == [work[w] EXCEPT !.live = FALSE]
      <4>1. work' = [work EXCEPT ![w] = row]
        BY <3>1 DEF LeaseExpires
      <4>2. row \in Row /\ row.budget = work[w].budget /\ row.state = work[w].state
        BY <2>1 DEF Row
      <4> HIDE DEF row
      <4> QED BY <4>1, <4>2
    <3>2. CASE ComesDue(w)
      <4> DEFINE row == [work[w] EXCEPT !.due = TRUE]
      <4>1. work' = [work EXCEPT ![w] = row]
        BY <3>2 DEF ComesDue
      <4>2. row \in Row /\ row.budget = work[w].budget /\ row.state = work[w].state
        BY <2>1 DEF Row
      <4> HIDE DEF row
      <4> QED BY <4>1, <4>2
    <3> QED BY <1>5, <3>1, <3>2
  <2>4. attempts' = [attempts EXCEPT ![w] = attempts[w]] /\ UNCHANGED <<oper, redrives>>
    BY <1>5 DEF LeaseExpires, ComesDue, TypeOK
  <2>5. Extends(attempts[w], attempts[w])
    BY <2>1 DEF Extends
  <2>6. RowMoves(w, row, attempts[w])
    BY <2>2, <2>3, <2>4, <2>5 DEF RowMoves
  <2> QED BY <2>1, <2>6
<1>6. ASSUME NEW r \in Requests,
             Lookup(r) \/ CheckLegacy(r) \/ Replay(r) \/ NothingDue(r) \/ Answer(r)
      PROVE  UNCHANGED ledger
  BY <1>6 DEF Lookup, CheckLegacy, Replay, NothingDue, Answer, ledger
<1>7. ASSUME NEW e \in Executors, Send(e) \/ CrashReconciler(e) \/ CrashRequest(e)
      PROVE  UNCHANGED ledger
  BY <1>7 DEF Send, CrashReconciler, CrashRequest, ledger
<1>8. ASSUME NEW m \in wire, Land(m)
      PROVE  UNCHANGED ledger
  BY <1>8 DEF Land
<1>9. CASE UNCHANGED vars
  BY <1>9 DEF vars, ledger
<1> QED
  BY <1>1, <1>2, <1>3, <1>4, <1>5, <1>6, <1>7, <1>8, <1>9
  DEF Next, RequestStep, ExecutorStep, Time

-----------------------------------------------------------------------------
(* Budgets *)

\* What the budgets that were reset paid for.
Spent(w) == MaxAttempts * redrives[w[1]]

\* A row's attempts are paid for by its budget, or by one that was reset.
PaidRow(w) ==
    /\ work[w].budget <= MaxAttempts
    /\ Len(attempts[w]) <= Spent(w) + work[w].budget

Paid == \A w \in Work : PaidRow(w)

LEMMA SpentType ==
    ASSUME TypeOK, NEW w \in Work
    PROVE  /\ w[1] \in Ops /\ redrives[w[1]] \in Nat /\ Spent(w) \in Nat
           /\ work[w].budget \in Nat /\ Len(attempts[w]) \in Nat /\ MaxAttempts \in Nat
  BY ConstantsAssumption DEF TypeOK, Work, Row, Spent

\* Every step pays for the attempt it adds.
LEMMA PaidStep ==
    ASSUME LedgerInv, Paid, [Next]_vars PROVE Paid'
<1> USE DEF LedgerInv
<1>1. CASE UNCHANGED ledger
  BY <1>1 DEF ledger, Paid, PaidRow, Spent
<1>2. ASSUME NEW r \in Requests, Register(r), NEW w \in Work
      PROVE  PaidRow(w)'
  <2>1. /\ oper[OpOf[r]] = NoRequest /\ UNCHANGED <<attempts, redrives>>
        /\ work' = [v \in Work |-> IF v \in RowsFor(r) THEN Fresh ELSE work[v]]
    BY <1>2 DEF Register
  <2>2. Spent(w)' = Spent(w) /\ attempts'[w] = attempts[w]
    BY <2>1 DEF Spent
  <2>3. CASE w \in RowsFor(r)
    <3>1. w[1] = OpOf[r]
      BY <2>3 DEF RowsFor
    <3>2. Len(attempts[w]) = 0
      BY <2>1, <3>1 DEF LogInv, RowLog
    <3>3. work'[w].budget = 0
      BY <2>1, <2>3 DEF Fresh, Absent
    <3> QED BY <2>2, <3>2, <3>3, SpentType DEF PaidRow
  <2>4. CASE w \notin RowsFor(r)
    BY <2>1, <2>2, <2>4 DEF Paid, PaidRow
  <2> QED BY <2>3, <2>4
<1>3. ASSUME NEW w \in Work, NEW row \in Row, NEW log \in Seq(Outcomes), RowMoves(w, row, log),
             NEW v \in Work
      PROVE  PaidRow(v)'
  <2>1. /\ work'[w] = row /\ attempts'[w] = log /\ redrives' = redrives
        /\ v # w => work'[v] = work[v] /\ attempts'[v] = attempts[v]
    BY <1>3 DEF RowMoves, TypeOK
  <2>2. Spent(v)' = Spent(v)
    BY <2>1 DEF Spent
  <2>3. CASE v = w
    <3>1. /\ work[w].budget <= MaxAttempts /\ Len(attempts[w]) <= Spent(w) + work[w].budget
          /\ \/ row.budget = work[w].budget /\ Len(log) = Len(attempts[w])
             \/ /\ row.budget = work[w].budget + 1 /\ Len(log) = Len(attempts[w]) + 1
                /\ ~ (work[w].budget >= MaxAttempts)
      BY <1>3 DEF RowMoves, OutOfBudget, Paid, PaidRow
    <3>2. row.budget <= MaxAttempts /\ Len(log) <= Spent(w) + row.budget
      BY <3>1, SpentType
    <3> QED BY <2>1, <2>2, <2>3, <3>2 DEF PaidRow
  <2>4. CASE v # w
    BY <2>1, <2>2, <2>4 DEF Paid, PaidRow
  <2> QED BY <2>3, <2>4
<1>4. ASSUME NEW o \in Ops, Redrive(o), NEW w \in Work
      PROVE  PaidRow(w)'
  <2>1. /\ redrives' = [redrives EXCEPT ![o] = redrives[o] + 1] /\ attempts' = attempts
        /\ work' = [v \in Work |->
                      IF v[1] = o /\ work[v].state = "dead_letter"
                      THEN [work[v] EXCEPT !.state = "pending", !.budget = 0, !.due = TRUE]
                      ELSE work[v]]
    BY <1>4, Zenon DEF Redrive
  <2>2. PaidRow(w) /\ work[w] \in Row
    BY DEF Paid, TypeOK
  <2>3. CASE w[1] = o
    <3>1. redrives'[w[1]] = redrives[w[1]] + 1
      BY <2>1, <2>3 DEF TypeOK
    <3>2. Spent(w)' = Spent(w) + MaxAttempts
      BY <3>1, SpentType DEF Spent
    <3>3. work'[w].budget = 0 \/ work'[w].budget = work[w].budget
      BY <2>1, <2>2 DEF Row
    <3>4. attempts'[w] = attempts[w]
      BY <2>1
    <3> QED BY <2>2, <3>2, <3>3, <3>4, SpentType DEF PaidRow
  <2>4. CASE w[1] # o
    <3>1. work'[w] = work[w] /\ attempts'[w] = attempts[w] /\ redrives'[w[1]] = redrives[w[1]]
      BY <2>1, <2>4, SpentType DEF TypeOK
    <3> QED BY <2>2, <3>1 DEF PaidRow, Spent
  <2> QED BY <2>3, <2>4
<1> QED BY <1>1, <1>2, <1>3, <1>4, LedgerMoves DEF Paid

\* repository.py:104, 132, 148: crashes and lost answers included, a destination
\* is called at most MaxAttempts times between two redrives.
THEOREM AttemptsBoundedHolds == Spec => []AttemptsBounded
<1>1. Init => Paid
  <2> SUFFICES ASSUME Init, NEW w \in Work
               PROVE  PaidRow(w)
    BY DEF Paid
  <2>1. w[1] \in Ops
    BY DEF Work
  <2>2. work[w].budget = 0 /\ Len(attempts[w]) = 0 /\ redrives[w[1]] = 0
    BY <2>1 DEF Init, Absent
  <2> QED BY <2>2, ConstantsAssumption DEF PaidRow, Spent
<1>2. LedgerInv /\ Paid /\ [Next]_vars => Paid'
  BY PaidStep
<1>3. LedgerInv /\ Paid => AttemptsBounded
  <2> SUFFICES ASSUME LedgerInv, Paid, NEW w \in Work
               PROVE  Len(attempts[w]) <= MaxAttempts * (redrives[w[1]] + 1)
    BY DEF AttemptsBounded
  <2>1. MaxAttempts * (redrives[w[1]] + 1) = Spent(w) + MaxAttempts
    BY SpentType DEF LedgerInv, Spent
  <2> QED BY <2>1, SpentType DEF Paid, PaidRow, LedgerInv
<1> QED BY <1>1, <1>2, <1>3, LedgerInvariant, PTL DEF Spec

-----------------------------------------------------------------------------
(* History *)

\* A settled row, and an outcome, stay; an envelope stays.
Kept(w) ==
    /\ work[w].state = "acknowledged" => work'[w] = work[w]
    /\ \A i \in DOMAIN attempts[w] :
         /\ i \in DOMAIN attempts'[w]
         /\ attempts[w][i] # "started" => attempts'[w][i] = attempts[w][i]

RegisteredStays == \A o \in Ops : oper[o] # NoRequest => oper'[o] = oper[o]

LEMMA KeptStep ==
    ASSUME LedgerInv, [Next]_vars PROVE RegisteredStays /\ \A w \in Work : Kept(w)
<1> USE DEF LedgerInv
<1>1. CASE UNCHANGED ledger
  BY <1>1 DEF ledger, RegisteredStays, Kept
<1>2. ASSUME NEW r \in Requests, Register(r)
      PROVE  RegisteredStays /\ \A w \in Work : Kept(w)
  <2>1. /\ oper[OpOf[r]] = NoRequest /\ attempts' = attempts
        /\ oper' = [oper EXCEPT ![OpOf[r]] = r]
        /\ work' = [w \in Work |-> IF w \in RowsFor(r) THEN Fresh ELSE work[w]]
    BY <1>2 DEF Register
  <2>2. RegisteredStays
    BY <2>1 DEF TypeOK, RegisteredStays
  <2>3. ASSUME NEW w \in Work, work[w].state = "acknowledged"
        PROVE  work'[w] = work[w]
    <3>1. oper[w[1]] # NoRequest
      BY <2>3 DEF LogInv
    <3>2. w \notin RowsFor(r)
      BY <2>1, <3>1 DEF RowsFor
    <3> QED BY <2>1, <3>2
  <2> QED BY <2>1, <2>2, <2>3 DEF Kept
<1>3. ASSUME NEW w \in Work, NEW row \in Row, NEW log \in Seq(Outcomes), RowMoves(w, row, log)
      PROVE  RegisteredStays /\ \A v \in Work : Kept(v)
  <2>1. /\ attempts'[w] = log /\ oper' = oper
        /\ work[w].state # "acknowledged" /\ Extends(log, attempts[w])
    BY <1>3 DEF RowMoves, TypeOK
  <2>2. \A v \in Work : v # w => work'[v] = work[v] /\ attempts'[v] = attempts[v]
    BY <1>3 DEF RowMoves, TypeOK
  <2>3. attempts[w] \in Seq(Outcomes)
    BY DEF TypeOK
  <2>4. /\ DOMAIN attempts[w] = 1..Len(attempts[w]) /\ DOMAIN log = 1..Len(log)
        /\ Len(log) \in Nat /\ Len(attempts[w]) \in Nat
    BY <2>3
  <2>5. Kept(w)
    BY <2>1, <2>4 DEF Extends, Kept
  <2> QED BY <2>1, <2>2, <2>5 DEF Kept, RegisteredStays
<1>4. ASSUME NEW o \in Ops, Redrive(o)
      PROVE  RegisteredStays /\ \A w \in Work : Kept(w)
  BY <1>4 DEF Redrive, RegisteredStays, Kept
<1> QED BY <1>1, <1>2, <1>3, <1>4, LedgerMoves

\* repository.py:56-70, 100-108, 118-141, 143-153: an envelope, an acknowledged
\* row and an attempt with an outcome are never changed again, by a takeover, a
\* late report or a redrive either.
THEOREM HistoryIsImmutableHolds == Spec => HistoryIsImmutable
<1>1. LedgerInv /\ [Next]_vars => RegisteredStays /\ \A w \in Work : Kept(w)
  BY KeptStep
<1>2. LedgerInv /\ [Next]_vars =>
        [ /\ \A o \in Ops : oper[o] # NoRequest => oper'[o] = oper[o]
          /\ \A w \in Work :
               /\ work[w].state = "acknowledged" => work'[w] = work[w]
               /\ \A i \in DOMAIN attempts[w] :
                    /\ i \in DOMAIN attempts'[w]
                    /\ attempts[w][i] # "started" => attempts'[w][i] = attempts[w][i] ]_vars
  BY <1>1 DEF RegisteredStays, Kept
<1> QED BY <1>2, LedgerInvariant, PTL DEF Spec, HistoryIsImmutable

-----------------------------------------------------------------------------
(* Stale workers *)

\* Executor e ends a call, or reports on it, under a lease that is not its own
\* any more.
StaleReport(e) ==
    LET row == work[held[e].work]
    IN  /\ phase[e] \in {"calling", "failing"} /\ phase'[e] # phase[e]
        /\ row.token # held[e].token \/ ~ row.live

LEMMA StaleStep ==
    ASSUME LedgerInv, [Next]_vars, NEW e \in Executors, StaleReport(e)
    PROVE  UNCHANGED <<work, attempts>>
<1> USE ExecutorsType DEF LedgerInv
<1>1. /\ phase[e] \in {"calling", "failing"} /\ phase'[e] # phase[e]
      /\ ~ Fenced(e)
  BY DEF StaleReport, Fenced
<1>2. ASSUME NEW r \in Requests,
             \/ Lookup(r) \/ CheckLegacy(r) \/ Register(r) \/ Replay(r) \/ NothingDue(r) \/ Answer(r)
      PROVE  FALSE
  BY <1>1, <1>2 DEF Lookup, CheckLegacy, Register, Replay, NothingDue, Answer
<1>3. ASSUME NEW f \in Executors, NEW w \in Work, Claim(f, w) \/ Exhaust(f, w)
      PROVE  FALSE
  BY <1>1, <1>3 DEF Claim, Exhaust, MayClaim, TypeOK
<1>4. ASSUME NEW f \in Executors, Send(f)
      PROVE  FALSE
  BY <1>1, <1>4 DEF Send, TypeOK
<1>5. ASSUME NEW f \in Executors, Acknowledge(f) \/ AcknowledgeError(f)
      PROVE  UNCHANGED <<work, attempts>>
  <2>1. f = e
    BY <1>1, <1>5 DEF Acknowledge, AcknowledgeError, Release, TypeOK
  <2> QED BY <1>1, <1>5, <2>1 DEF Acknowledge, AcknowledgeError, Report
<1>6. ASSUME NEW f \in Executors, NEW permanent \in BOOLEAN, Fail(f, permanent)
      PROVE  UNCHANGED <<work, attempts>>
  <2>1. f = e
    BY <1>1, <1>6 DEF Fail, Release, TypeOK
  <2> QED BY <1>1, <1>6, <2>1 DEF Fail, Report
<1>7. ASSUME NEW f \in Executors, CrashReconciler(f) \/ CrashRequest(f)
      PROVE  UNCHANGED <<work, attempts>>
  BY <1>7 DEF CrashReconciler, CrashRequest, ledger
<1>8. ASSUME NEW o \in Ops, Redrive(o)
      PROVE  FALSE
  BY <1>1, <1>8 DEF Redrive
<1>9. ASSUME NEW w \in Work, LeaseExpires(w) \/ ComesDue(w)
      PROVE  FALSE
  BY <1>1, <1>9 DEF LeaseExpires, ComesDue
<1>10. ASSUME NEW m \in wire, Land(m)
       PROVE  FALSE
  BY <1>1, <1>10 DEF Land
<1>11. CASE UNCHANGED vars
  BY <1>11 DEF vars
<1> QED
  BY <1>2, <1>3, <1>4, <1>5, <1>6, <1>7, <1>8, <1>9, <1>10, <1>11
  DEF Next, RequestStep, ExecutorStep, Time

\* repository.py:120-137: whatever a worker reports of a call whose lease has
\* expired or was taken over, the ledger stays as it is.
THEOREM StaleWorkerIsHarmlessHolds == Spec => StaleWorkerIsHarmless
<1>1. LedgerInv /\ [Next]_vars =>
        [ \A e \in Executors :
            LET row == work[held[e].work]
            IN  (/\ phase[e] \in {"calling", "failing"} /\ phase'[e] # phase[e]
                 /\ row.token # held[e].token \/ ~ row.live)
                  => UNCHANGED <<work, attempts>> ]_vars
  BY StaleStep DEF StaleReport
<1> QED BY <1>1, LedgerInvariant, PTL DEF Spec, StaleWorkerIsHarmless

-----------------------------------------------------------------------------
(* The invariant of the refinement *)

\* A registered operation has the rows of its request, for good.
RowsRegistered ==
    \A o \in Ops :
      oper[o] # NoRequest => OpOf[oper[o]] = o /\ RowsOf(o) = RowsFor(oper[o])

\* A call for w may arrive: the receipt's only behind all the others.
Deliverable(w) ==
    \/ w[2] \in DestsOf[oper[w[1]]]
    \/ w[2] = Receipt /\ DestsOf[oper[w[1]]] \subseteq Received(w[1])

Orderly ==
    /\ \A e \in Executors : phase[e] # "idle" => Deliverable(held[e].work)
    /\ \A m \in wire : Deliverable(m.work)

PromiseInv == LedgerInv /\ Frozen /\ RowsRegistered /\ Orderly

\* The rows of the ledger decide what a reader is told.
LEMMA SameRows ==
    ASSUME NEW o \in Ops, \A w \in Work : w[1] = o => work'[w].state = work[w].state
    PROVE  RowsOf(o)' = RowsOf(o) /\ OpState(o)' = OpState(o)
<1>1. RowsOf(o)' = RowsOf(o)
  BY DEF RowsOf
<1>2. \A w \in RowsOf(o) : work'[w].state = work[w].state
  BY DEF RowsOf
<1>3. (\E w \in RowsOf(o)' : work'[w].state = "dead_letter")
        <=> (\E w \in RowsOf(o) : work[w].state = "dead_letter")
  BY <1>1, <1>2
<1>4. (\A w \in RowsOf(o)' : work'[w].state = "acknowledged")
        <=> (\A w \in RowsOf(o) : work[w].state = "acknowledged")
  BY <1>1, <1>2
<1> QED BY <1>1, <1>3, <1>4 DEF OpState, Acknowledged

\* The rows of a registered operation, by name.
LEMMA RowsNamed ==
    ASSUME TypeOK, RowsRegistered, NEW o \in Ops, oper[o] # NoRequest
    PROVE  /\ oper[o] \in Requests /\ DestsOf[oper[o]] \subseteq Destinations
           /\ \A d \in DestsOf[oper[o]] \cup {Receipt} :
                <<o, d>> \in RowsOf(o) /\ <<o, d>> \in Work /\ work[<<o, d>>].state # "absent"
           /\ \A w \in RowsOf(o) : w[2] \in DestsOf[oper[o]] \cup {Receipt} /\ w = <<o, w[2]>>
<1>1. oper[o] \in Requests /\ DestsOf[oper[o]] \subseteq Destinations
  BY ConstantsAssumption DEF TypeOK
<1>2. OpOf[oper[o]] = o /\ RowsOf(o) = RowsFor(oper[o])
  BY DEF RowsRegistered
<1>3. \A d \in DestsOf[oper[o]] \cup {Receipt} : <<o, d>> \in RowsOf(o)
  BY <1>2 DEF RowsFor
<1>4. \A w \in RowsOf(o) : w \in Work /\ work[w].state # "absent"
  BY DEF RowsOf
<1>5. \A w \in RowsOf(o) : w[2] \in DestsOf[oper[o]] \cup {Receipt} /\ w = <<o, w[2]>>
  BY <1>2 DEF RowsFor
<1> QED BY <1>1, <1>3, <1>4, <1>5

\* Registrations, moves and redrives leave every operation with its rows.
LEMMA RowsStep ==
    ASSUME LedgerInv, RowsRegistered, [Next]_vars PROVE RowsRegistered'
<1> USE DEF LedgerInv
<1>1. CASE UNCHANGED ledger
  BY <1>1 DEF ledger, RowsRegistered, RowsOf
<1>2. ASSUME NEW r \in Requests, Register(r), NEW o \in Ops, oper'[o] # NoRequest
      PROVE  OpOf[oper'[o]] = o /\ RowsOf(o)' = RowsFor(oper'[o])
  <2>1. /\ oper[OpOf[r]] = NoRequest /\ OpOf[r] \in Ops
        /\ oper' = [oper EXCEPT ![OpOf[r]] = r]
        /\ work' = [w \in Work |-> IF w \in RowsFor(r) THEN Fresh ELSE work[w]]
    BY <1>2, ConstantsAssumption DEF Register
  <2>2. CASE o = OpOf[r]
    <3>1. oper'[o] = r
      BY <2>1, <2>2 DEF TypeOK
    <3>2. \A w \in Work : w[1] = o => work[w].state = "absent"
      BY <2>1, <2>2 DEF LogInv
    <3>3. RowsFor(r) \subseteq Work
      BY <2>1, ConstantsAssumption DEF RowsFor, Work
    <3>4. \A w \in RowsFor(r) : w[1] = o
      BY <2>2 DEF RowsFor
    <3>5. Fresh.state = "pending"
      BY DEF Fresh, Absent
    <3>6. RowsOf(o)' = RowsFor(r)
      BY <2>1, <3>2, <3>3, <3>4, <3>5 DEF RowsOf
    <3> QED BY <2>2, <3>1, <3>6
  <2>3. CASE o # OpOf[r]
    <3>1. oper'[o] = oper[o]
      BY <2>1, <2>3 DEF TypeOK
    <3>2. \A w \in Work : w[1] = o => work'[w] = work[w]
      BY <2>1, <2>3 DEF RowsFor
    <3> QED BY <1>2, <3>1, <3>2, SameRows DEF RowsRegistered
  <2> QED BY <2>2, <2>3
<1>3. ASSUME NEW w \in Work, NEW row \in Row, NEW log \in Seq(Outcomes), RowMoves(w, row, log)
      PROVE  RowsRegistered'
  <2>1. \A v \in Work : work'[v].state # "absent" <=> work[v].state # "absent"
    BY <1>3 DEF RowMoves, TypeOK
  <2>2. oper' = oper /\ \A o \in Ops : RowsOf(o)' = RowsOf(o)
    BY <1>3, <2>1 DEF RowMoves, RowsOf
  <2> QED BY <2>2 DEF RowsRegistered
<1>4. ASSUME NEW p \in Ops, Redrive(p)
      PROVE  RowsRegistered'
  <2>1. \A v \in Work : work'[v].state # "absent" <=> work[v].state # "absent"
    BY <1>4 DEF Redrive, TypeOK, Row
  <2>2. oper' = oper /\ \A o \in Ops : RowsOf(o)' = RowsOf(o)
    BY <1>4, <2>1 DEF Redrive, RowsOf
  <2> QED BY <2>2 DEF RowsRegistered
<1> QED BY <1>1, <1>2, <1>3, <1>4, LedgerMoves DEF RowsRegistered

\* What may arrive may still arrive later.
LEMMA DeliverableStays ==
    ASSUME NEW w, oper'[w[1]] = oper[w[1]], landed \subseteq landed', Deliverable(w)
    PROVE  Deliverable(w)'
  BY DEF Deliverable, Received

\* A step after which nobody else is at work and nothing new is under way.
LEMMA OrderlyKept ==
    ASSUME Frozen, Orderly, RegisteredStays, TypeOK, landed \subseteq landed', wire' \subseteq wire,
           \A e \in Executors : phase'[e] # "idle" => phase[e] # "idle" /\ held'[e] = held[e],
           \A e \in Executors : phase[e] # "idle" => held[e].work[1] \in Ops
    PROVE  Orderly'
<1>1. ASSUME NEW e \in Executors, phase'[e] # "idle"
      PROVE  Deliverable(held[e].work)'
  <2>1. held'[e] = held[e] /\ Deliverable(held[e].work) /\ held[e].work[1] \in Ops
    BY <1>1 DEF Orderly
  <2>2. oper'[held[e].work[1]] = oper[held[e].work[1]]
    BY <1>1, <2>1 DEF Frozen, RegisteredStays
  <2> QED BY <2>1, <2>2 DEF Deliverable, Received
<1>2. ASSUME NEW m \in wire'
      PROVE  Deliverable(m.work)'
  <2>1. m \in wire /\ Deliverable(m.work) /\ m.work[1] \in Ops
    BY <1>2 DEF Orderly, TypeOK, Message, Work
  <2>2. oper'[m.work[1]] = oper[m.work[1]]
    BY <2>1 DEF Frozen, RegisteredStays
  <2> QED BY <2>1, <2>2, DeliverableStays
<1> QED BY <1>1, <1>2 DEF Orderly

\* A call for a row that may be claimed may arrive.
LEMMA ClaimDeliverable ==
    ASSUME LedgerInv, RowsRegistered, NEW w \in Work, Claimable(w)
    PROVE  Deliverable(w) /\ oper[w[1]] # NoRequest
<1> DEFINE o == w[1]
<1>1. o \in Ops /\ oper[o] # NoRequest /\ w \in RowsOf(o)
  BY DEF LedgerInv, LogInv, Claimable, Work, RowsOf
<1>2. w[2] \in DestsOf[oper[o]] \cup {Receipt}
  BY <1>1, RowsNamed DEF LedgerInv
<1>3. ASSUME w[2] = Receipt, NEW d \in DestsOf[oper[o]]
      PROVE  d \in Received(o)
  <2>1. <<o, d>> \in RowsOf(o) /\ <<o, d>> \in Work /\ d # Receipt
    BY <1>1, RowsNamed, ConstantsAssumption DEF LedgerInv
  <2>2. work[<<o, d>>].state = "acknowledged"
    BY <1>3, <2>1 DEF Claimable, Acknowledged, Peers
  <2>3. PICK m \in landed : m.work = <<o, d>>
    BY <2>1, <2>2 DEF LedgerInv, LogInv, Arrived
  <2> QED BY <2>3 DEF Received
<1> QED BY <1>1, <1>2, <1>3 DEF Deliverable

\* No call is made before it may arrive.
LEMMA OrderlyStep ==
    ASSUME PromiseInv, [Next]_vars PROVE Orderly'
<1> USE ExecutorsType DEF LedgerInv, PromiseInv
<1>0. /\ RegisteredStays
      /\ \A e \in Executors : phase[e] # "idle" => held[e].work[1] \in Ops
  BY KeptStep DEF HeldWhenBusy, Lease, Work
<1>1. ASSUME NEW e \in Executors, NEW w \in Work, Claim(e, w)
      PROVE  Orderly'
  <2>1. /\ UNCHANGED <<oper, wire, landed>>
        /\ held' = [held EXCEPT ![e] = [work |-> w, token |-> Len(attempts[w]) + 1]]
        /\ phase' = [phase EXCEPT ![e] = "claimed"]
    BY <1>1 DEF Claim, network
  <2>2. Deliverable(w)
    BY <1>1, ClaimDeliverable DEF Claim
  <2>3. held'[e].work = w
    BY <2>1 DEF TypeOK
  <2>4. ASSUME NEW f \in Executors, phase'[f] # "idle"
        PROVE  Deliverable(held[f].work)'
    <3>1. CASE f = e
      BY <2>1, <2>2, <2>3, <3>1 DEF Deliverable, Received
    <3>2. CASE f # e
      BY <2>1, <2>4, <3>2 DEF Deliverable, Received, Orderly, TypeOK
    <3> QED BY <3>1, <3>2
  <2>5. \A m \in wire' : Deliverable(m.work)'
    BY <2>1 DEF Deliverable, Received, Orderly
  <2> QED BY <2>4, <2>5 DEF Orderly
<1>2. ASSUME NEW e \in Executors, Send(e)
      PROVE  Orderly'
  <2>1. /\ UNCHANGED <<oper, held, landed>>
        /\ phase[e] # "idle" /\ phase' = [phase EXCEPT ![e] = "calling"]
    BY <1>2 DEF Send, ledger
  <2>2. PICK l : wire' = wire \cup
          {[work |-> held[e].work, token |-> held[e].token,
            env |-> oper[held[e].work[1]], lists |-> l]}
    BY <1>2, Zenon DEF Send
  <2>3. \A m \in wire' : Deliverable(m.work)
    BY <2>1, <2>2 DEF Orderly
  <2>4. \A m \in wire' : Deliverable(m.work)'
    BY <2>1, <2>3 DEF Deliverable, Received
  <2>5. ASSUME NEW f \in Executors, phase'[f] # "idle"
        PROVE  Deliverable(held[f].work)'
    <3>1. phase[f] # "idle"
      BY <2>1, <2>5 DEF TypeOK
    <3> QED BY <2>1, <3>1 DEF Deliverable, Received, Orderly
  <2> QED BY <2>4, <2>5 DEF Orderly
<1>3. ASSUME NEW r \in Requests, RequestStep(r)
      PROVE  Orderly'
  <2>1. UNCHANGED <<phase, held, wire, landed>>
    BY <1>3 DEF RequestStep, Lookup, CheckLegacy, Register, Replay, NothingDue, Answer, network
  <2> QED BY <1>0, <2>1, OrderlyKept
<1>4. ASSUME NEW e \in Executors, NEW w \in Work, Exhaust(e, w)
      PROVE  Orderly'
  BY <1>0, <1>4, OrderlyKept DEF Exhaust, network
<1>5. ASSUME NEW e \in Executors, Acknowledge(e) \/ AcknowledgeError(e)
      PROVE  Orderly'
  <2>1. UNCHANGED <<wire, landed>>
    BY <1>5 DEF Acknowledge, AcknowledgeError, network
  <2>2. \A f \in Executors : phase'[f] # "idle" => phase[f] # "idle" /\ held'[f] = held[f]
    BY <1>5 DEF Acknowledge, AcknowledgeError, Release, TypeOK
  <2> QED BY <1>0, <2>1, <2>2, OrderlyKept
<1>6. ASSUME NEW e \in Executors, NEW permanent \in BOOLEAN, Fail(e, permanent)
      PROVE  Orderly'
  <2>1. UNCHANGED <<wire, landed>>
    BY <1>6 DEF Fail, network
  <2>2. \A f \in Executors : phase'[f] # "idle" => phase[f] # "idle" /\ held'[f] = held[f]
    BY <1>6 DEF Fail, Release, TypeOK
  <2> QED BY <1>0, <2>1, <2>2, OrderlyKept
<1>7. ASSUME NEW e \in Executors, CrashReconciler(e) \/ (e \in Requests /\ CrashRequest(e))
      PROVE  Orderly'
  <2>1. UNCHANGED <<wire, landed>>
    BY <1>7 DEF CrashReconciler, CrashRequest, network
  <2>2. \A f \in Executors : phase'[f] # "idle" => phase[f] # "idle" /\ held'[f] = held[f]
    BY <1>7 DEF CrashReconciler, CrashRequest, Release, TypeOK
  <2> QED BY <1>0, <2>1, <2>2, OrderlyKept
<1>8. ASSUME NEW o \in Ops, Redrive(o)
      PROVE  Orderly'
  BY <1>0, <1>8, OrderlyKept DEF Redrive, network
<1>9. ASSUME NEW w \in Work, LeaseExpires(w) \/ ComesDue(w)
      PROVE  Orderly'
  BY <1>0, <1>9, OrderlyKept DEF LeaseExpires, ComesDue, network
<1>10. ASSUME NEW m \in wire, Land(m)
       PROVE  Orderly'
  BY <1>0, <1>10, OrderlyKept DEF Land
<1>11. CASE UNCHANGED vars
  BY <1>0, <1>11, OrderlyKept DEF vars
<1> QED
  BY <1>1, <1>2, <1>3, <1>4, <1>5, <1>6, <1>7, <1>8, <1>9, <1>10, <1>11
  DEF Next, ExecutorStep, Time

LEMMA PromiseInvStep == PromiseInv /\ [Next]_vars => PromiseInv'
  BY TypeStep, LogStep, FrozenStep, RowsStep, OrderlyStep DEF PromiseInv, LedgerInv

-----------------------------------------------------------------------------
(* The refinement *)

\* What a reader of operation o is told.
Status(o) == IF oper[o] = NoRequest THEN "absent" ELSE OpState(o)

LEMMA SameStatus ==
    ASSUME NEW o \in Ops, oper'[o] = oper[o],
           \A w \in Work : w[1] = o => work'[w].state = work[w].state
    PROVE  Status(o)' = Status(o)
  BY SameRows DEF Status

\* The variables of the promise, operation by operation.
LEMMA PromiseMove ==
    ASSUME TypeOK, NEW o \in Ops, NEW to, oper' = oper, landed' = landed, Status(o)' = to,
           \A p \in Ops : p # o => Status(p)' = Status(p)
    PROVE  /\ Promise!Move(o, Status(o), to)
           /\ Status(o) = to => UNCHANGED Promise!vars
<1> DEFINE status == [p \in Ops |-> Status(p)]
<1>1. status[o] = Status(o)
  OBVIOUS
<1>2. [p \in Ops |-> Status(p)'] = [status EXCEPT ![o] = to]
  OBVIOUS
<1>3. [p \in Ops |-> Received(p)'] = [p \in Ops |-> Received(p)]
  BY DEF Received
<1>4. Promise!Move(o, Status(o), to)
  BY <1>1, <1>2, <1>3 DEF Promise!Move, Status
<1>5. ASSUME Status(o) = to
      PROVE  UNCHANGED Promise!vars
  <2>1. [p \in Ops |-> Status(p)'] = status
    BY <1>5
  <2> QED BY <1>3, <2>1 DEF Promise!vars, Status
<1> QED BY <1>4, <1>5

LEMMA AcceptStep ==
    ASSUME PromiseInv, NEW r \in Requests, Register(r), PromiseInv', UNCHANGED landed
    PROVE  Promise!Accept(r)
<1> DEFINE o == OpOf[r]
<1>1. /\ o \in Ops /\ oper[o] = NoRequest /\ oper' = [oper EXCEPT ![o] = r] /\ r # NoRequest
      /\ work' = [w \in Work |-> IF w \in RowsFor(r) THEN Fresh ELSE work[w]]
  BY ConstantsAssumption DEF Register
<1>2. oper'[o] = r
  BY <1>1 DEF PromiseInv, LedgerInv, TypeOK
<1>3. RowsOf(o)' = RowsFor(r)
  BY <1>1, <1>2 DEF PromiseInv, RowsRegistered
<1>4. RowsFor(r) \subseteq Work
  BY <1>1, ConstantsAssumption DEF RowsFor, Work
<1>5. \A w \in RowsFor(r) : work'[w].state = "pending"
  BY <1>1, <1>4 DEF Fresh, Absent
<1>6. <<o, Receipt>> \in RowsFor(r)
  BY DEF RowsFor
<1>7. Status(o)' = "pending"
  BY <1>1, <1>2, <1>3, <1>5, <1>6 DEF Status, OpState, Acknowledged
<1>8. ASSUME NEW p \in Ops, p # o
      PROVE  Status(p)' = Status(p)
  <2>1. oper'[p] = oper[p]
    BY <1>1, <1>8
  <2>2. \A w \in Work : w[1] = p => work'[w].state = work[w].state
    BY <1>1, <1>8 DEF RowsFor
  <2> QED BY <2>1, <2>2, SameStatus
<1>9. [p \in Ops |-> Status(p)'] = [[p \in Ops |-> Status(p)] EXCEPT ![o] = "pending"]
  BY <1>1, <1>7, <1>8
<1>10. [p \in Ops |-> Status(p)][o] = "absent"
  BY <1>1 DEF Status
<1>11. [p \in Ops |-> Received(p)'] = [p \in Ops |-> Received(p)]
  BY DEF Received
<1> QED BY <1>1, <1>9, <1>10, <1>11 DEF Promise!Accept, Status

\* A row that moves settles its operation, or not yet.
LEMMA MoveStep ==
    ASSUME PromiseInv, PromiseInv', NEW w \in Work, NEW row \in Row, NEW log \in Seq(Outcomes),
           RowMoves(w, row, log), UNCHANGED landed
    PROVE  Promise!Succeed(w[1]) \/ Promise!GiveUp(w[1]) \/ UNCHANGED Promise!vars
<1> DEFINE o == w[1]
<1>1. /\ o \in Ops /\ oper[o] # NoRequest /\ oper' = oper
      /\ w \in RowsOf(o) /\ work[w].state \in {"pending", "leased"}
  BY DEF RowMoves, PromiseInv, LedgerInv, LogInv, Work, RowsOf
<1>2. \A v \in Work : v # w => work'[v] = work[v]
  BY DEF RowMoves, PromiseInv, LedgerInv, TypeOK
<1>3. ASSUME NEW p \in Ops, p # o
      PROVE  Status(p)' = Status(p)
  BY <1>1, <1>2, <1>3, SameStatus
<1>4. Status(o) \in {"dead_letter", "pending"}
  BY <1>1 DEF Status, OpState, Acknowledged
<1>5. CASE Status(o) = "dead_letter"
  <2>1. PICK v \in RowsOf(o) : work[v].state = "dead_letter"
    BY <1>1, <1>5 DEF Status, OpState
  <2>2. v # w /\ v \in Work /\ work'[v].state = "dead_letter" /\ v[1] = o
    BY <1>1, <1>2, <2>1 DEF RowsOf
  <2>3. v \in RowsOf(o)'
    BY <2>2 DEF RowsOf
  <2>4. Status(o)' = "dead_letter"
    BY <1>1, <2>2, <2>3 DEF Status, OpState
  <2> QED BY <1>1, <1>3, <1>5, <2>4, PromiseMove DEF PromiseInv, LedgerInv
<1>6. CASE Status(o) = "pending"
  <2>1. Status(o)' \in {"pending", "dead_letter", "success"}
    BY <1>1 DEF Status, OpState
  <2>2. CASE Status(o)' = "pending"
    BY <1>1, <1>3, <1>6, <2>2, PromiseMove DEF PromiseInv, LedgerInv
  <2>3. CASE Status(o)' = "dead_letter"
    <3>1. Promise!Move(o, "pending", "dead_letter")
      BY <1>1, <1>3, <1>6, <2>3, PromiseMove DEF PromiseInv, LedgerInv
    <3> QED BY <3>1 DEF Promise!GiveUp
  <2>4. CASE Status(o)' = "success"
    <3>1. Promise!Move(o, "pending", "success")
      BY <1>1, <1>3, <1>6, <2>4, PromiseMove DEF PromiseInv, LedgerInv
    <3>2. \A v \in RowsOf(o)' : work'[v].state = "acknowledged"
      BY <1>1, <2>4 DEF Status, OpState, Acknowledged
    <3>3. ASSUME NEW d \in DestsOf[oper[o]] \cup {Receipt}
          PROVE  d \in Received(o)
      <4>1. <<o, d>> \in Work /\ work[<<o, d>>].state # "absent"
        BY <1>1, RowsNamed DEF PromiseInv, LedgerInv
      <4>2. work'[<<o, d>>].state # "absent"
        BY <4>1, <1>2 DEF RowMoves, PromiseInv, LedgerInv, TypeOK
      <4>3. <<o, d>> \in RowsOf(o)'
        BY <4>1, <4>2 DEF RowsOf
      <4>4. work'[<<o, d>>].state = "acknowledged"
        BY <3>2, <4>3
      <4>5. \E m \in landed : m.work = <<o, d>>
        BY <4>1, <4>4 DEF PromiseInv, LedgerInv, LogInv, Arrived
      <4> QED BY <4>5 DEF Received
    <3>4. DestsOf[oper[o]] \cup {Receipt} \subseteq [p \in Ops |-> Received(p)][o]
      BY <1>1, <3>3
    <3>5. [p \in Ops |-> Status(p)][o] # "absent"
      BY <1>1, <1>6
    <3> QED BY <3>1, <3>4, <3>5 DEF Promise!Succeed, Status
  <2> QED BY <2>1, <2>2, <2>3, <2>4
<1> QED BY <1>4, <1>5, <1>6

LEMMA RedriveStep ==
    ASSUME PromiseInv, NEW o \in Ops, Redrive(o)
    PROVE  Promise!Redrive(o)
<1>1. /\ oper' = oper /\ landed' = landed
      /\ work' = [w \in Work |->
                    IF w[1] = o /\ work[w].state = "dead_letter"
                    THEN [work[w] EXCEPT !.state = "pending", !.budget = 0, !.due = TRUE]
                    ELSE work[w]]
  BY DEF Redrive, network
<1>2. PICK w \in RowsOf(o) : work[w].state = "dead_letter"
  BY DEF Redrive
<1>3. w \in Work /\ w[1] = o /\ oper[o] # NoRequest
  BY <1>2 DEF RowsOf, PromiseInv, LedgerInv, LogInv
<1>4. Status(o) = "dead_letter"
  BY <1>2, <1>3 DEF Status, OpState
<1>5. ASSUME NEW v \in Work
      PROVE  /\ v[1] # o => work'[v] = work[v]
             /\ v[1] = o /\ work[v].state = "dead_letter" => work'[v].state = "pending"
             /\ v[1] = o => work'[v].state # "dead_letter"
  <2>1. work[v] \in Row
    BY DEF PromiseInv, LedgerInv, TypeOK
  <2> QED BY <1>1, <2>1 DEF Row
<1>6. w \in RowsOf(o)' /\ work'[w].state = "pending"
  BY <1>2, <1>3, <1>5 DEF RowsOf
<1>7. \A v \in RowsOf(o)' : work'[v].state # "dead_letter"
  BY <1>5 DEF RowsOf
<1>8. Status(o)' = "pending"
  BY <1>1, <1>3, <1>6, <1>7 DEF Status, OpState, Acknowledged
<1>9. ASSUME NEW p \in Ops, p # o
      PROVE  Status(p)' = Status(p)
  BY <1>1, <1>5, <1>9, SameStatus
<1>10. Promise!Move(o, "dead_letter", "pending")
  BY <1>1, <1>4, <1>8, <1>9, PromiseMove DEF PromiseInv, LedgerInv
<1> QED BY <1>10 DEF Promise!Redrive

LEMMA ReceiveStep ==
    ASSUME PromiseInv, NEW m \in wire, Land(m)
    PROVE  /\ m.work[1] \in Ops /\ m.work[2] \in Destinations \cup {Receipt}
           /\ Promise!Receive(m.work[1], m.work[2])
<1> DEFINE o == m.work[1]
           d == m.work[2]
<1>1. o \in Ops /\ d \in Destinations \cup {Receipt}
  BY DEF PromiseInv, LedgerInv, TypeOK, Message, Work
<1>2. /\ landed' = landed \cup {m} /\ oper' = oper /\ work' = work
  BY DEF Land, ledger
<1>3. oper[o] # NoRequest /\ Deliverable(m.work)
  BY DEF PromiseInv, Frozen, Orderly
<1>4. ASSUME NEW p \in Ops
      PROVE  Status(p)' = Status(p)
  BY <1>2, SameStatus
<1>5. [p \in Ops |-> Status(p)'] = [p \in Ops |-> Status(p)]
  BY <1>4
<1>6. ASSUME NEW p \in Ops
      PROVE  Received(p)' = IF p = o THEN Received(p) \cup {d} ELSE Received(p)
  BY <1>2 DEF Received
<1>7. [p \in Ops |-> Received(p)'] =
        [[p \in Ops |-> Received(p)] EXCEPT ![o] = Received(o) \cup {d}]
  BY <1>1, <1>6
<1>8. [p \in Ops |-> Status(p)][o] # "absent"
  BY <1>1, <1>3 DEF Status, OpState
<1>9. \/ d \in DestsOf[oper[o]]
      \/ d = Receipt /\ DestsOf[oper[o]] \subseteq [p \in Ops |-> Received(p)][o]
  BY <1>1, <1>3 DEF Deliverable
<1>10. [p \in Ops |-> Received(p)][o] = Received(o)
  BY <1>1
<1> QED BY <1>1, <1>2, <1>5, <1>7, <1>8, <1>9, <1>10 DEF Promise!Receive, Status

\* Calls arrive, or the ledger moves, never both.
LEMMA LandsOrNot ==
    ASSUME [Next]_vars PROVE (\E m \in wire : Land(m)) \/ UNCHANGED landed
<1>1. ASSUME NEW r \in Requests, RequestStep(r) \/ CrashRequest(r)
      PROVE  UNCHANGED landed
  BY <1>1 DEF RequestStep, Lookup, CheckLegacy, Register, Replay, NothingDue, Answer,
              CrashRequest, network
<1>2. ASSUME NEW e \in Executors, ExecutorStep(e) \/ CrashReconciler(e)
      PROVE  UNCHANGED landed
  BY <1>2 DEF ExecutorStep, Claim, Exhaust, Send, Acknowledge, AcknowledgeError, Fail,
              CrashReconciler, network
<1>3. ASSUME NEW o \in Ops, Redrive(o)
      PROVE  UNCHANGED landed
  BY <1>3 DEF Redrive, network
<1>4. ASSUME NEW w \in Work, Time(w)
      PROVE  UNCHANGED landed
  BY <1>4 DEF Time, LeaseExpires, ComesDue, network
<1> QED BY <1>1, <1>2, <1>3, <1>4, ExecutorsType DEF Next, vars

\* A step of the ledger is a step of the promise, or is not seen.
LEMMA PromiseStep == PromiseInv /\ [Next]_vars => [Promise!Next]_(Promise!vars)
<1> SUFFICES ASSUME PromiseInv, [Next]_vars
             PROVE  Promise!Next \/ UNCHANGED Promise!vars
  OBVIOUS
<1>0. PromiseInv'
  BY PromiseInvStep
<1>1. ASSUME NEW m \in wire, Land(m)
      PROVE  Promise!Next
  BY <1>1, ReceiveStep DEF Promise!Next
<1>2. ASSUME UNCHANGED landed, UNCHANGED ledger
      PROVE  UNCHANGED Promise!vars
  <2>1. \A o \in Ops : Status(o)' = Status(o) /\ Received(o)' = Received(o)
    BY <1>2, SameStatus DEF ledger, Received
  <2>2. /\ [o \in Ops |-> Status(o)'] = [o \in Ops |-> Status(o)]
        /\ [o \in Ops |-> Received(o)'] = [o \in Ops |-> Received(o)]
    BY <2>1
  <2> QED BY <1>2, <2>2 DEF Promise!vars, Status, ledger
<1>3. ASSUME UNCHANGED landed, NEW r \in Requests, Register(r)
      PROVE  Promise!Next
  BY <1>0, <1>3, AcceptStep DEF Promise!Next
<1>4. ASSUME UNCHANGED landed, NEW w \in Work, NEW row \in Row, NEW log \in Seq(Outcomes),
             RowMoves(w, row, log)
      PROVE  Promise!Next \/ UNCHANGED Promise!vars
  <2>1. w[1] \in Ops
    BY DEF Work
  <2> QED BY <1>0, <1>4, <2>1, MoveStep DEF Promise!Next
<1>5. ASSUME NEW o \in Ops, Redrive(o)
      PROVE  Promise!Next
  BY <1>5, RedriveStep DEF Promise!Next
<1> QED BY <1>1, <1>2, <1>3, <1>4, <1>5, LandsOrNot, LedgerMoves DEF PromiseInv

\* repository.py:56-153, main.py:165-270: leases, takeovers, crashes, late
\* calls and lost commits included, callers see of the ledger what
\* DeliveryPromise says: a success has reached every destination and has its
\* receipt, the receipt comes last, and nothing settled is unsettled but by a
\* redrive.
THEOREM LedgerImplementsPromise == Spec => ImplementsPromise
<1>1. Init => PromiseInv /\ Promise!Init
  <2> SUFFICES ASSUME Init PROVE PromiseInv /\ Promise!Init
    OBVIOUS
  <2>1. LedgerInv
    BY InitialLedger
  <2>2. Frozen
    BY ConstantsAssumption DEF Init, Frozen
  <2>3. RowsRegistered /\ Orderly
    BY DEF Init, RowsRegistered, Orderly
  <2>4. \A o \in Ops : Status(o) = "absent" /\ Received(o) = {}
    BY DEF Init, Status, Received
  <2>5. /\ [o \in Ops |-> Status(o)] = [o \in Ops |-> "absent"]
        /\ [o \in Ops |-> Received(o)] = [o \in Ops |-> {}]
    BY <2>4
  <2>6. Promise!Init
    BY <2>5 DEF Init, Promise!Init, Status
  <2> QED BY <2>1, <2>2, <2>3, <2>6 DEF PromiseInv
<1> QED
  BY <1>1, PromiseInvStep, PromiseStep, PTL DEF Spec, ImplementsPromise, Promise!Spec
=============================================================================

------------------------ MODULE DeliveryLedgerProofs ------------------------
(***************************************************************************)
(* Proofs about DeliveryLedger, for any operations, requests, replicas,    *)
(* destinations, attempt budget and redrive bound.                         *)
(***************************************************************************)
EXTENDS DeliveryLedger, SequenceTheorems, FiniteSetTheorems, TLAPS

-----------------------------------------------------------------------------
(* Sequences *)

\* Overwriting an entry keeps a sequence a sequence of the same length.
LEMMA ReplaceEntry ==
    ASSUME NEW S, NEW s \in Seq(S), NEW i, NEW x \in S
    PROVE  /\ [s EXCEPT ![i] = x] \in Seq(S)
           /\ Len([s EXCEPT ![i] = x]) = Len(s)
<1> DEFINE t == [s EXCEPT ![i] = x]
<1>1. s \in [1..Len(s) -> S] /\ Len(s) \in Nat
  OBVIOUS
<1>2. t \in [1..Len(s) -> S]
  BY <1>1
<1>3. t \in Seq(S)
  BY <1>1, <1>2, SeqDef
<1>4. DOMAIN t = 1..Len(s)
  BY <1>2
<1>5. Len(t) = Len(s)
  BY <1>1, <1>3, <1>4, LenProperties
<1> QED BY <1>3, <1>5

-----------------------------------------------------------------------------
(* Type correctness *)

\* The history that a takeover or an exhausted budget leaves is one of outcomes.
LEMMA SupersededType ==
    ASSUME TypeOK, NEW w \in Work
    PROVE  /\ Superseded(w) \in Seq(Outcomes)
           /\ Len(Superseded(w)) = Len(attempts[w])
<1>1. attempts[w] \in Seq(Outcomes)
  BY DEF TypeOK
<1>2. "unknown" \in Outcomes
  BY DEF Outcomes
<1>3. CASE Superseded(w) = attempts[w]
  BY <1>1, <1>3
<1>4. CASE Superseded(w) = [attempts[w] EXCEPT ![work[w].token] = "unknown"]
  <2> DEFINE s == attempts[w]
             t == work[w].token
  <2>1. s \in Seq(Outcomes) /\ Superseded(w) = [s EXCEPT ![t] = "unknown"]
    BY <1>1, <1>4
  <2> HIDE DEF s, t
  <2>2. /\ [s EXCEPT ![t] = "unknown"] \in Seq(Outcomes)
        /\ Len([s EXCEPT ![t] = "unknown"]) = Len(s)
    BY <1>2, <2>1, ReplaceEntry
  <2>3. Superseded(w) \in Seq(Outcomes) /\ Len(Superseded(w)) = Len(s)
    BY <2>1, <2>2, Zenon
  <2> QED BY <2>3 DEF s
<1>5. \/ Superseded(w) = attempts[w]
      \/ Superseded(w) = [attempts[w] EXCEPT ![work[w].token] = "unknown"]
  BY Zenon DEF Superseded
<1> QED BY <1>3, <1>4, <1>5

\* A report leaves rows and histories well typed.
LEMMA ReportType ==
    ASSUME TypeOK, NEW e \in Executors, held[e] \in Lease,
           NEW row \in Row, NEW outcome \in Outcomes, Report(e, row, outcome)
    PROVE  work' \in [Work -> Row] /\ attempts' \in [Work -> Seq(Outcomes)]
<1> DEFINE w == held[e].work
<1>1. w \in Work /\ attempts[w] \in Seq(Outcomes)
  BY DEF TypeOK, Lease
<1>2. CASE Fenced(e)
  <2>1. work' = [work EXCEPT ![w] = row]
    BY <1>2 DEF Report
  <2>2. attempts' = [attempts EXCEPT ![w] = [attempts[w] EXCEPT ![held[e].token] = outcome]]
    BY <1>1, <1>2 DEF Report, TypeOK
  <2>3. [attempts[w] EXCEPT ![held[e].token] = outcome] \in Seq(Outcomes)
    BY <1>1, ReplaceEntry
  <2> QED BY <1>1, <2>1, <2>2, <2>3 DEF TypeOK
<1>3. CASE ~ Fenced(e)
  BY <1>3 DEF Report, TypeOK
<1> QED BY <1>2, <1>3

\* Only an executor at work holds a lease.
HeldWhenBusy == \A e \in Executors : phase[e] # "idle" => held[e] \in Lease

\* A request's loop has a number of rounds.
LEMMA RoundsType ==
    ASSUME NEW r \in Requests PROVE Cardinality(DestsOf[r]) + 1 \in Nat
<1>1. DestsOf[r] \subseteq Destinations
  BY ConstantsAssumption
<1>2. IsFiniteSet(DestsOf[r])
  BY <1>1, ConstantsAssumption, FS_Subset
<1> QED BY <1>2, FS_CardinalityType

LEMMA RowTypes ==
    ASSUME TypeOK, NEW w \in Work
    PROVE  /\ work[w] \in Row
           /\ Fresh \in Row
           /\ AcknowledgedRow(w) \in Row
           /\ \A permanent \in BOOLEAN : /\ FailedRow(w, permanent) \in Row
                                         /\ FailedState(w, permanent) \in Outcomes
  BY DEF TypeOK, Row, Fresh, Absent, AcknowledgedRow, FailedRow, FailedState, Outcomes

LEMMA ExecutorsType == Requests \subseteq Executors /\ Reconcilers \subseteq Executors
  BY DEF Executors

\* Every step of the service keeps the types.
LEMMA TypeStep ==
    ASSUME TypeOK, HeldWhenBusy, [Next]_vars
    PROVE  TypeOK' /\ HeldWhenBusy'
<1> USE ExecutorsType
<1>1. ASSUME NEW r \in Requests, Lookup(r)
      PROVE  TypeOK' /\ HeldWhenBusy'
  BY <1>1 DEF Lookup, TypeOK, HeldWhenBusy, ledger, network, Working, Answered
<1>2. ASSUME NEW r \in Requests, CheckLegacy(r)
      PROVE  TypeOK' /\ HeldWhenBusy'
  BY <1>2 DEF CheckLegacy, TypeOK, HeldWhenBusy, ledger, network, Working, Answered
<1>3. ASSUME NEW r \in Requests, Register(r)
      PROVE  TypeOK' /\ HeldWhenBusy'
  <2>1. OpOf[r] \in Ops
    BY ConstantsAssumption
  <2>2. oper' \in [Ops -> Requests \cup {NoRequest}]
    BY <1>3, <2>1 DEF Register, TypeOK
  <2>3. work' \in [Work -> Row]
    BY <1>3 DEF Register, TypeOK, Row, Fresh, Absent
  <2>4. turns' \in [Requests -> Nat]
    BY <1>3, RoundsType DEF Register, TypeOK
  <2>5. client' \in [Requests -> Working \cup Answered]
    BY <1>3 DEF Register, TypeOK, Working
  <2> QED BY <1>3, <2>2, <2>3, <2>4, <2>5 DEF Register, TypeOK, HeldWhenBusy, network
<1>4. ASSUME NEW r \in Requests, Replay(r)
      PROVE  TypeOK' /\ HeldWhenBusy'
  <2>1. turns' \in [Requests -> Nat]
    BY <1>4, RoundsType DEF Replay, TypeOK
  <2>2. client' \in [Requests -> Working \cup Answered]
    BY <1>4 DEF Replay, TypeOK, Working, Answered
  <2> QED BY <1>4, <2>1, <2>2 DEF Replay, TypeOK, HeldWhenBusy, ledger, network
<1>5. ASSUME NEW r \in Requests, NothingDue(r) \/ Answer(r)
      PROVE  TypeOK' /\ HeldWhenBusy'
  <2>1. CASE NothingDue(r)
    BY <2>1 DEF NothingDue, TypeOK, HeldWhenBusy, ledger, network
  <2>2. CASE Answer(r)
    BY <2>2 DEF Answer, TypeOK, HeldWhenBusy, ledger, network, Answered
  <2> QED BY <1>5, <2>1, <2>2
<1>6. ASSUME NEW e \in Executors, NEW w \in Work, Claim(e, w)
      PROVE  TypeOK' /\ HeldWhenBusy'
  <2> DEFINE n == Len(attempts[w]) + 1
  <2>1. attempts[w] \in Seq(Outcomes)
    BY DEF TypeOK
  <2>2. n \in Nat \ {0}
    BY <2>1
  <2>3. Append(Superseded(w), "started") \in Seq(Outcomes)
    BY SupersededType DEF Outcomes
  <2>4. attempts' \in [Work -> Seq(Outcomes)]
    BY <1>6, <2>3 DEF Claim, TypeOK
  <2>5. work' \in [Work -> Row]
    BY <1>6, <2>2 DEF Claim, TypeOK, Row
  <2>6. held' = [held EXCEPT ![e] = [work |-> w, token |-> n]]
    BY <1>6 DEF Claim
  <2>7. [work |-> w, token |-> n] \in Lease
    BY <2>2 DEF Lease
  <2>8. phase' = [phase EXCEPT ![e] = "claimed"]
    BY <1>6 DEF Claim
  <2>9. turns' \in [Requests -> Nat]
    BY <1>6 DEF Claim, MayClaim, TypeOK
  <2>10. held' \in [Executors -> Lease \cup {NoLease}]
    BY <2>6, <2>7 DEF TypeOK
  <2>11. phase' \in [Executors -> {"idle", "claimed", "calling", "failing"}]
    BY <2>8 DEF TypeOK
  <2>12. TypeOK'
    BY <1>6, <2>4, <2>5, <2>9, <2>10, <2>11 DEF Claim, TypeOK, network
  <2>13. HeldWhenBusy'
    BY <2>6, <2>7, <2>8 DEF HeldWhenBusy, TypeOK
  <2> QED BY <2>12, <2>13
<1>7. ASSUME NEW e \in Executors, NEW w \in Work, Exhaust(e, w)
      PROVE  TypeOK' /\ HeldWhenBusy'
  <2>1. attempts' \in [Work -> Seq(Outcomes)]
    BY <1>7, SupersededType DEF Exhaust, TypeOK
  <2>2. work' \in [Work -> Row]
    BY <1>7 DEF Exhaust, TypeOK, Row
  <2> QED BY <1>7, <2>1, <2>2 DEF Exhaust, TypeOK, HeldWhenBusy, network
<1>8. ASSUME NEW e \in Executors, Send(e)
      PROVE  TypeOK' /\ HeldWhenBusy'
  <2> DEFINE w == held[e].work
             acked == {v[2] : v \in {p \in Peers(w) : work[p].state = "acknowledged"}}
             m == [work |-> w, token |-> held[e].token, env |-> oper[w[1]],
                   lists |-> IF w[2] = Receipt THEN acked ELSE {}]
  <2>1. held[e] \in Lease
    BY <1>8 DEF Send, HeldWhenBusy
  <2>2. w \in Work /\ held[e].token \in Nat \ {0}
    BY <2>1 DEF Lease
  <2>3. oper[w[1]] \in Requests \cup {NoRequest}
    BY <2>2 DEF Work, TypeOK
  <2>4. acked \subseteq Destinations
    BY DEF Peers, RowsOf, Work
  <2>5. m \in Message
    <3>1. m.lists \in SUBSET Destinations
      BY <2>4
    <3> HIDE DEF acked
    <3> QED BY <2>2, <2>3, <3>1 DEF Message
  <2>6. wire' = wire \cup {m}
    BY <1>8 DEF Send
  <2> QED BY <1>8, <2>5, <2>6 DEF Send, TypeOK, HeldWhenBusy, ledger, handler
<1>9. ASSUME NEW e \in Executors, Acknowledge(e)
      PROVE  TypeOK' /\ HeldWhenBusy'
  <2>1. held[e] \in Lease
    BY <1>9 DEF Acknowledge, HeldWhenBusy
  <2>2. AcknowledgedRow(held[e].work) \in Row
    BY <2>1, RowTypes DEF Lease
  <2>3. work' \in [Work -> Row] /\ attempts' \in [Work -> Seq(Outcomes)]
    BY <1>9, <2>1, <2>2, ReportType DEF Acknowledge, Outcomes
  <2> QED BY <1>9, <2>3 DEF Acknowledge, Release, TypeOK, HeldWhenBusy, handler, network
<1>10. ASSUME NEW e \in Executors, AcknowledgeError(e)
       PROVE  TypeOK' /\ HeldWhenBusy'
  <2>1. held[e] \in Lease
    BY <1>10 DEF AcknowledgeError, HeldWhenBusy
  <2>2. AcknowledgedRow(held[e].work) \in Row
    BY <2>1, RowTypes DEF Lease
  <2>3. work' \in [Work -> Row] /\ attempts' \in [Work -> Seq(Outcomes)]
    <3>1. CASE Report(e, AcknowledgedRow(held[e].work), "acknowledged")
      BY <2>1, <2>2, <3>1, ReportType DEF Outcomes
    <3>2. CASE UNCHANGED <<work, attempts>>
      BY <3>2 DEF TypeOK
    <3> QED BY <1>10, <3>1, <3>2 DEF AcknowledgeError
  <2> QED BY <1>10, <2>3 DEF AcknowledgeError, TypeOK, HeldWhenBusy, handler, network
<1>11. ASSUME NEW e \in Executors, NEW permanent \in BOOLEAN, Fail(e, permanent)
       PROVE  TypeOK' /\ HeldWhenBusy'
  <2>1. held[e] \in Lease
    BY <1>11 DEF Fail, HeldWhenBusy
  <2>2. /\ FailedRow(held[e].work, permanent) \in Row
        /\ FailedState(held[e].work, permanent) \in Outcomes
    BY <2>1, RowTypes DEF Lease
  <2>3. work' \in [Work -> Row] /\ attempts' \in [Work -> Seq(Outcomes)]
    BY <1>11, <2>1, <2>2, ReportType DEF Fail
  <2> QED BY <1>11, <2>3 DEF Fail, Release, TypeOK, HeldWhenBusy, handler, network
<1>12. ASSUME NEW e \in Executors, CrashReconciler(e)
       PROVE  TypeOK' /\ HeldWhenBusy'
  BY <1>12 DEF CrashReconciler, Release, TypeOK, HeldWhenBusy, ledger, handler, network
<1>13. ASSUME NEW r \in Requests, CrashRequest(r)
       PROVE  TypeOK' /\ HeldWhenBusy'
  BY <1>13 DEF CrashRequest, Release, TypeOK, HeldWhenBusy, ledger, network, Answered
<1>14. ASSUME NEW o \in Ops, Redrive(o)
       PROVE  TypeOK' /\ HeldWhenBusy'
  <2>1. ASSUME NEW w \in Work PROVE work'[w] \in Row
    <3> DEFINE again == [work[w] EXCEPT !.state = "pending", !.budget = 0, !.due = TRUE]
    <3>1. work[w] \in Row
      BY DEF TypeOK
    <3>2. again \in Row
      BY <3>1 DEF Row
    <3>3. work'[w] = again \/ work'[w] = work[w]
      BY <1>14 DEF Redrive
    <3> QED BY <3>1, <3>2, <3>3
  <2>2. work' \in [Work -> Row]
    BY <1>14, <2>1 DEF Redrive
  <2>3. redrives' \in [Ops -> Nat]
    <3>1. redrives' = [redrives EXCEPT ![o] = redrives[o] + 1]
      BY <1>14, Zenon DEF Redrive
    <3> QED BY <3>1 DEF TypeOK
  <2>4. UNCHANGED <<oper, attempts, phase, held, client, turns, wire, landed>>
    BY <1>14 DEF Redrive, handler, network
  <2> QED BY <2>2, <2>3, <2>4 DEF TypeOK, HeldWhenBusy
<1>15. ASSUME NEW w \in Work, LeaseExpires(w) \/ ComesDue(w)
       PROVE  TypeOK' /\ HeldWhenBusy'
  <2>1. work[w] \in Row
    BY DEF TypeOK
  <2>2. [work[w] EXCEPT !.live = FALSE] \in Row /\ [work[w] EXCEPT !.due = TRUE] \in Row
    BY <2>1 DEF Row
  <2>3. \/ work' = [work EXCEPT ![w] = [work[w] EXCEPT !.live = FALSE]]
        \/ work' = [work EXCEPT ![w] = [work[w] EXCEPT !.due = TRUE]]
    BY <1>15 DEF LeaseExpires, ComesDue, TypeOK
  <2>4. work' \in [Work -> Row]
    <3>1. CASE work' = [work EXCEPT ![w] = [work[w] EXCEPT !.live = FALSE]]
      BY <2>2, <3>1 DEF TypeOK
    <3>2. CASE work' = [work EXCEPT ![w] = [work[w] EXCEPT !.due = TRUE]]
      BY <2>2, <3>2 DEF TypeOK
    <3> QED BY <2>3, <3>1, <3>2
  <2> QED
    BY <1>15, <2>4 DEF LeaseExpires, ComesDue, TypeOK, HeldWhenBusy, handler, network
<1>16. ASSUME NEW m \in wire, Land(m)
       PROVE  TypeOK' /\ HeldWhenBusy'
  BY <1>16 DEF Land, TypeOK, HeldWhenBusy, ledger, handler
<1>17. CASE UNCHANGED vars
  BY <1>17 DEF vars, TypeOK, HeldWhenBusy
<1> QED
  BY <1>1, <1>2, <1>3, <1>4, <1>5, <1>6, <1>7, <1>8, <1>9, <1>10, <1>11, <1>12,
     <1>13, <1>14, <1>15, <1>16, <1>17
  DEF Next, RequestStep, ExecutorStep, Time

\* The types, and the lease of every busy executor, hold in every behaviour.
THEOREM TypeCorrect == Spec => [](TypeOK /\ HeldWhenBusy)
<1>1. Init => TypeOK /\ HeldWhenBusy
  BY DEF Init, TypeOK, HeldWhenBusy, Row, Absent, Working
<1>2. (TypeOK /\ HeldWhenBusy) /\ [Next]_vars => (TypeOK /\ HeldWhenBusy)'
  BY TypeStep
<1> QED BY <1>1, <1>2, PTL DEF Spec

-----------------------------------------------------------------------------
(* Leases and acknowledgements *)

\* What a row and its attempts have to do with one another.  This is the
\* strengthening of LeaseMatchesAttempts and AcknowledgedOnce that every step
\* keeps: it adds that a row without a lease has neither token nor expiry,
\* and that an operation's rows exist, with attempts, only once registered.
RowLog(row, log) ==
    /\ row.state = "leased" => row.token = Len(log) /\ Len(log) # 0
    /\ row.state # "leased" => row.token = 0 /\ row.live = FALSE
    /\ \A i \in 1..Len(log) : log[i] = "started" => row.state = "leased" /\ row.token = i
    /\ row.state = "leased" => log[Len(log)] = "started"
    /\ \A i \in 1..Len(log) :
         log[i] = "acknowledged" => row.state = "acknowledged" /\ i = Len(log)
    /\ row.state = "acknowledged" => Len(log) # 0 /\ log[Len(log)] = "acknowledged"
    /\ row.state = "absent" => Len(log) = 0

Arrived(w) == \E m \in landed : m.work = w /\ m.token = Len(attempts[w])

LogInv ==
    \A w \in Work :
      /\ RowLog(work[w], attempts[w])
      /\ oper[w[1]] = NoRequest => work[w].state = "absent"
      /\ work[w].state = "acknowledged" => Arrived(w)

LedgerInv == TypeOK /\ HeldWhenBusy /\ LogInv

\* Taking a row over closes its open attempt and leaves the others alone.
LEMMA SupersededLog ==
    ASSUME TypeOK, NEW w \in Work, RowLog(work[w], attempts[w])
    PROVE  \A i \in 1..Len(attempts[w]) :
             /\ Superseded(w)[i] # "started"
             /\ attempts[w][i] # "started" => Superseded(w)[i] = attempts[w][i]
             /\ Superseded(w)[i] = "acknowledged" => attempts[w][i] = "acknowledged"
<1> DEFINE s == attempts[w]
           t == work[w].token
<1>1. s \in Seq(Outcomes) /\ Len(s) \in Nat /\ DOMAIN s = 1..Len(s)
  BY DEF TypeOK
<1>2. CASE t # 0 /\ s[t] = "started"
  <2>1. Superseded(w) = [s EXCEPT ![t] = "unknown"]
    BY <1>2 DEF Superseded
  <2>2. \A i \in 1..Len(s) : i # t => s[i] # "started"
    BY DEF RowLog
  <2> HIDE DEF s, t
  <2>3. \A i \in 1..Len(s) :
          Superseded(w)[i] = IF i = t THEN "unknown" ELSE s[i]
    BY <1>1, <2>1
  <2>4. \A i \in 1..Len(s) : /\ Superseded(w)[i] # "started"
                             /\ s[i] # "started" => Superseded(w)[i] = s[i]
                             /\ Superseded(w)[i] = "acknowledged" => s[i] = "acknowledged"
    BY <1>2, <2>2, <2>3
  <2> QED BY <2>4 DEF s
<1>3. CASE ~ (t # 0 /\ s[t] = "started")
  <2>1. Superseded(w) = s
    BY <1>3 DEF Superseded
  <2>2. \A i \in 1..Len(s) : s[i] # "started"
    BY <1>1, <1>3 DEF RowLog
  <2> QED BY <2>1, <2>2
<1> QED BY <1>2, <1>3

\* A new lease over the attempts that remain is again a lease under the newest.
LEMMA ClaimLog ==
    ASSUME TypeOK, NEW w \in Work, RowLog(work[w], attempts[w]),
           work[w].state \in {"pending", "leased"},
           NEW row, row.state = "leased", row.token = Len(attempts[w]) + 1
    PROVE  RowLog(row, Append(Superseded(w), "started"))
<1> DEFINE s == Superseded(w)
           n == Len(attempts[w])
<1>1. s \in Seq(Outcomes) /\ Len(s) = n /\ n \in Nat
  BY SupersededType DEF TypeOK
<1>2. \A i \in 1..n : s[i] # "started" /\ s[i] # "acknowledged"
  BY SupersededLog DEF RowLog
<1>3. row.token = n + 1
  OBVIOUS
<1> HIDE DEF s, n
<1>4. /\ Len(Append(s, "started")) = n + 1
      /\ Append(s, "started")[n + 1] = "started"
      /\ \A i \in 1..n : Append(s, "started")[i] = s[i]
  BY <1>1
<1>5. \A i \in 1..(n + 1) : i = n + 1 \/ i \in 1..n
  BY <1>1
<1>6. RowLog(row, Append(s, "started"))
  BY <1>1, <1>2, <1>3, <1>4, <1>5 DEF RowLog
<1> QED BY <1>6 DEF s

\* A row whose budget is spent keeps its attempts, all of them closed.
LEMMA ExhaustLog ==
    ASSUME TypeOK, NEW w \in Work, RowLog(work[w], attempts[w]),
           work[w].state \in {"pending", "leased"},
           NEW row, row.state = "dead_letter", row.token = 0, row.live = FALSE
    PROVE  RowLog(row, Superseded(w))
<1> DEFINE s == Superseded(w)
           n == Len(attempts[w])
<1>1. s \in Seq(Outcomes) /\ Len(s) = n /\ n \in Nat
  BY SupersededType DEF TypeOK
<1>2. \A i \in 1..n : s[i] # "started" /\ s[i] # "acknowledged"
  BY SupersededLog DEF RowLog
<1> HIDE DEF s, n
<1>3. RowLog(row, s)
  BY <1>1, <1>2 DEF RowLog
<1> QED BY <1>3 DEF s

\* A report closes the newest attempt with its own outcome.
LEMMA ReportLog ==
    ASSUME TypeOK, NEW w \in Work, RowLog(work[w], attempts[w]), work[w].state = "leased",
           NEW row, NEW outcome \in Outcomes, row.state = outcome,
           outcome \in {"acknowledged", "pending", "dead_letter"},
           row.token = 0, row.live = FALSE
    PROVE  RowLog(row, [attempts[w] EXCEPT ![Len(attempts[w])] = outcome])
<1> DEFINE s == attempts[w]
           n == Len(s)
           u == [s EXCEPT ![n] = outcome]
<1>1. s \in Seq(Outcomes) /\ n \in Nat /\ n # 0 /\ DOMAIN s = 1..n
  BY DEF TypeOK, RowLog
<1>2. \A i \in 1..n : s[i] # "acknowledged" /\ (s[i] = "started" => i = n)
  BY DEF RowLog
<1>3. Len(u) = n
  BY <1>1, ReplaceEntry
<1>4. u[n] = outcome /\ \A i \in 1..n : i # n => u[i] = s[i]
  BY <1>1
<1> HIDE DEF s, n, u
<1>5. RowLog(row, u)
  BY <1>1, <1>2, <1>3, <1>4 DEF RowLog
<1> QED BY <1>5 DEF u, n, s

\* A step that changes one row and its attempts, and keeps them in accord.
LEMMA OneRow ==
    ASSUME TypeOK, LogInv, NEW w \in Work, NEW row \in Row, NEW log \in Seq(Outcomes),
           work' = [work EXCEPT ![w] = row], attempts' = [attempts EXCEPT ![w] = log],
           oper' = oper, landed \subseteq landed',
           work[w].state # "absent", RowLog(row, log),
           row.state = "acknowledged" => \E m \in landed : m.work = w /\ m.token = Len(log)
    PROVE  LogInv'
<1>1. oper[w[1]] # NoRequest
  BY DEF LogInv
<1>2. work'[w] = row /\ attempts'[w] = log
  BY DEF TypeOK
<1>3. ASSUME NEW v \in Work, v # w
      PROVE  work'[v] = work[v] /\ attempts'[v] = attempts[v]
  BY <1>3 DEF TypeOK
<1>4. ASSUME NEW v \in Work
      PROVE  RowLog(work'[v], attempts'[v])
  BY <1>2, <1>3, <1>4 DEF LogInv
<1>5. ASSUME NEW v \in Work, oper'[v[1]] = NoRequest
      PROVE  work'[v].state = "absent"
  BY <1>1, <1>3, <1>5 DEF LogInv
<1>6. ASSUME NEW v \in Work, work'[v].state = "acknowledged"
      PROVE  \E m \in landed' : m.work = v /\ m.token = Len(attempts'[v])
  <2>1. CASE v = w
    BY <1>2, <1>6, <2>1
  <2>2. CASE v # w
    BY <1>3, <1>6, <2>2 DEF LogInv, Arrived
  <2> QED BY <2>1, <2>2
<1> QED BY <1>4, <1>5, <1>6 DEF LogInv, Arrived

\* A step that leaves the ledger alone; calls may arrive.
LEMMA NoRow ==
    ASSUME LogInv, UNCHANGED <<oper, work, attempts>>, landed \subseteq landed'
    PROVE  LogInv'
  BY DEF LogInv, Arrived

\* A report by a lease holder, counted or not, keeps the accord.
LEMMA ReportStep ==
    ASSUME TypeOK, LogInv, NEW e \in Executors, held[e] \in Lease,
           NEW row \in Row, NEW outcome \in Outcomes,
           row.state = outcome, outcome \in {"acknowledged", "pending", "dead_letter"},
           Fenced(e) => row.token = 0 /\ row.live = FALSE,
           outcome = "acknowledged" => Delivered(e),
           Report(e, row, outcome), UNCHANGED <<oper, landed>>
    PROVE  LogInv'
<1> DEFINE w == held[e].work
           t == held[e].token
           log == [attempts[w] EXCEPT ![Len(attempts[w])] = outcome]
<1>1. w \in Work /\ attempts[w] \in Seq(Outcomes) /\ RowLog(work[w], attempts[w])
  BY DEF Lease, TypeOK, LogInv
<1>2. CASE Fenced(e)
  <2>1. work[w].state = "leased" /\ work[w].token = t /\ t = Len(attempts[w])
    BY <1>1, <1>2 DEF Fenced, RowLog
  <2>2. work' = [work EXCEPT ![w] = row]
    BY <1>2 DEF Report
  <2>3. attempts' = [attempts EXCEPT ![w][t] = outcome]
    BY <1>2, Zenon DEF Report
  <2>4. attempts' = [attempts EXCEPT ![w] = log]
    BY <2>1, <2>3
  <2>5. log \in Seq(Outcomes) /\ Len(log) = Len(attempts[w])
    BY <1>1, ReplaceEntry
  <2>6. RowLog(row, log)
    BY <1>1, <1>2, <2>1, ReportLog
  <2>7. row.state = "acknowledged" => \E m \in landed : m.work = w /\ m.token = Len(log)
    BY <2>1, <2>5 DEF Delivered
  <2> HIDE DEF log
  <2> QED BY <1>1, <2>1, <2>2, <2>4, <2>5, <2>6, <2>7, OneRow
<1>3. CASE ~ Fenced(e)
  BY <1>3, NoRow DEF Report
<1> QED BY <1>2, <1>3

\* Every step of the service keeps rows, attempts and arrivals in accord.
LEMMA LogStep ==
    ASSUME LedgerInv, [Next]_vars PROVE LogInv'
<1> USE ExecutorsType DEF LedgerInv
<1>1. ASSUME NEW r \in Requests, Register(r)
      PROVE  LogInv'
  <2>1. OpOf[r] \in Ops /\ oper[OpOf[r]] = NoRequest
    BY <1>1, ConstantsAssumption DEF Register
  <2>2. /\ oper' = [oper EXCEPT ![OpOf[r]] = r]
        /\ work' = [w \in Work |-> IF w \in RowsFor(r) THEN Fresh ELSE work[w]]
        /\ attempts' = attempts /\ landed' = landed
    BY <1>1 DEF Register, network
  <2>3. ASSUME NEW w \in RowsFor(r)
        PROVE  w[1] = OpOf[r]
    BY DEF RowsFor
  <2>4. ASSUME NEW w \in Work
        PROVE  /\ RowLog(work'[w], attempts'[w])
               /\ oper'[w[1]] = NoRequest => work'[w].state = "absent"
               /\ work'[w].state = "acknowledged" => work[w].state = "acknowledged"
    <3>1. CASE w \in RowsFor(r)
      <4>1. work'[w] = Fresh
        BY <2>2, <3>1
      <4>2. attempts[w] \in Seq(Outcomes) /\ Len(attempts[w]) = 0
        BY <2>1, <2>3, <3>1 DEF LogInv, RowLog, TypeOK
      <4>3. RowLog(Fresh, attempts[w])
        BY <4>2 DEF RowLog, Fresh, Absent
      <4>4. oper'[w[1]] = r /\ r # NoRequest
        BY <2>1, <2>2, <2>3, <3>1, ConstantsAssumption DEF TypeOK
      <4> QED BY <2>2, <4>1, <4>3, <4>4 DEF Fresh, Absent
    <3>2. CASE w \notin RowsFor(r)
      <4>1. work'[w] = work[w]
        BY <2>2, <3>2
      <4>2. oper'[w[1]] = NoRequest => oper[w[1]] = NoRequest
        BY <2>1, <2>2 DEF TypeOK
      <4> QED BY <2>2, <4>1, <4>2 DEF LogInv
    <3> QED BY <3>1, <3>2
  <2> QED BY <2>2, <2>4 DEF LogInv, Arrived
<1>2. ASSUME NEW r \in Requests,
             Lookup(r) \/ CheckLegacy(r) \/ Replay(r) \/ NothingDue(r) \/ Answer(r)
      PROVE  LogInv'
  BY <1>2, NoRow DEF Lookup, CheckLegacy, Replay, NothingDue, Answer, ledger, network
<1>3. ASSUME NEW e \in Executors, NEW w \in Work, Claim(e, w)
      PROVE  LogInv'
  <2> DEFINE log == Append(Superseded(w), "started")
             row == [state |-> "leased", budget |-> work[w].budget + 1, due |-> TRUE,
                     token |-> Len(attempts[w]) + 1, live |-> TRUE]
  <2>1. work[w].state \in {"pending", "leased"} /\ RowLog(work[w], attempts[w])
    BY <1>3 DEF Claim, Claimable, LogInv
  <2>2. RowLog(row, log)
    BY <2>1, ClaimLog
  <2>3. log \in Seq(Outcomes)
    BY SupersededType DEF Outcomes
  <2>4. row \in Row
    BY DEF TypeOK, Row
  <2>5. work' = [work EXCEPT ![w] = row] /\ attempts' = [attempts EXCEPT ![w] = log]
    BY <1>3, Zenon DEF Claim
  <2>6. oper' = oper /\ landed' = landed
    BY <1>3 DEF Claim, network
  <2>7. row.state = "leased"
    OBVIOUS
  <2> HIDE DEF row, log
  <2> QED BY <2>1, <2>2, <2>3, <2>4, <2>5, <2>6, <2>7, OneRow
<1>4. ASSUME NEW e \in Executors, NEW w \in Work, Exhaust(e, w)
      PROVE  LogInv'
  <2> DEFINE row == [work[w] EXCEPT !.state = "dead_letter", !.token = 0, !.live = FALSE]
             log == Superseded(w)
  <2>1. work[w].state \in {"pending", "leased"} /\ RowLog(work[w], attempts[w])
    BY <1>4 DEF Exhaust, Claimable, LogInv
  <2>2. row \in Row /\ row.state = "dead_letter" /\ row.token = 0 /\ row.live = FALSE
    BY DEF TypeOK, Row
  <2>3. work' = [work EXCEPT ![w] = row] /\ attempts' = [attempts EXCEPT ![w] = log]
    BY <1>4, Zenon DEF Exhaust
  <2>4. oper' = oper /\ landed' = landed
    BY <1>4 DEF Exhaust, network
  <2>5. log \in Seq(Outcomes)
    BY SupersededType
  <2> HIDE DEF row
  <2>6. RowLog(row, log)
    BY <2>1, <2>2, ExhaustLog
  <2> HIDE DEF log
  <2> QED BY <2>1, <2>2, <2>3, <2>4, <2>5, <2>6, OneRow
<1>5. ASSUME NEW e \in Executors, Send(e)
      PROVE  LogInv'
  BY <1>5, NoRow DEF Send, ledger
<1>6. ASSUME NEW e \in Executors, held[e] \in Lease, Delivered(e),
             Report(e, AcknowledgedRow(held[e].work), "acknowledged"),
             UNCHANGED <<oper, landed>>
      PROVE  LogInv'
  <2> DEFINE row == AcknowledgedRow(held[e].work)
  <2>1. held[e].work \in Work
    BY <1>6 DEF Lease
  <2>2. row \in Row /\ row.state = "acknowledged" /\ row.token = 0 /\ row.live = FALSE
    <3>1. work[held[e].work] \in Row
      BY <2>1 DEF TypeOK
    <3>2. row \in Row
      BY <2>1, RowTypes
    <3> QED BY <3>1, <3>2 DEF AcknowledgedRow, Row
  <2>3. Report(e, row, "acknowledged") /\ "acknowledged" \in Outcomes
    BY <1>6 DEF Outcomes
  <2> HIDE DEF row
  <2> QED BY <1>6, <2>2, <2>3, ReportStep
<1>7. ASSUME NEW e \in Executors, Acknowledge(e) \/ AcknowledgeError(e)
      PROVE  LogInv'
  <2>1. held[e] \in Lease /\ Delivered(e) /\ UNCHANGED <<oper, landed>>
    BY <1>7 DEF Acknowledge, AcknowledgeError, HeldWhenBusy, network
  <2>2. \/ Report(e, AcknowledgedRow(held[e].work), "acknowledged")
        \/ UNCHANGED <<work, attempts>>
    BY <1>7 DEF Acknowledge, AcknowledgeError
  <2> QED BY <1>6, <2>1, <2>2, NoRow
<1>8. ASSUME NEW e \in Executors, NEW permanent \in BOOLEAN, Fail(e, permanent)
      PROVE  LogInv'
  <2> DEFINE row == FailedRow(held[e].work, permanent)
             outcome == FailedState(held[e].work, permanent)
  <2>1. held[e] \in Lease /\ held[e].work \in Work
    BY <1>8 DEF Fail, HeldWhenBusy, Lease
  <2>2. /\ row \in Row /\ row.state = outcome /\ row.token = 0 /\ row.live = FALSE
        /\ outcome \in {"pending", "dead_letter"} /\ outcome \in Outcomes
    <3>1. work[held[e].work] \in Row
      BY <2>1 DEF TypeOK
    <3>2. outcome \in {"pending", "dead_letter"}
      BY DEF FailedState
    <3>3. row \in Row
      BY <2>1, RowTypes
    <3>4. row.state = outcome /\ row.token = 0 /\ row.live = FALSE
      BY <3>1 DEF FailedRow, Row
    <3> QED BY <3>2, <3>3, <3>4 DEF Outcomes
  <2>3. Report(e, row, outcome) /\ UNCHANGED <<oper, landed>>
    BY <1>8 DEF Fail, network
  <2> HIDE DEF row, outcome
  <2> QED BY <2>1, <2>2, <2>3, ReportStep
<1>9. ASSUME NEW e \in Executors, CrashReconciler(e) \/ (e \in Requests /\ CrashRequest(e))
      PROVE  LogInv'
  BY <1>9, NoRow DEF CrashReconciler, CrashRequest, ledger, network
<1>10. ASSUME NEW o \in Ops, Redrive(o)
       PROVE  LogInv'
  <2>1. /\ UNCHANGED <<oper, attempts, landed>>
        /\ work' = [w \in Work |->
                      IF w[1] = o /\ work[w].state = "dead_letter"
                      THEN [work[w] EXCEPT !.state = "pending", !.budget = 0, !.due = TRUE]
                      ELSE work[w]]
    BY <1>10 DEF Redrive, network
  <2>2. ASSUME NEW w \in Work
        PROVE  /\ RowLog(work'[w], attempts[w])
               /\ work'[w].state \in {"absent", "acknowledged"} => work'[w] = work[w]
               /\ work[w].state = "absent" => work'[w] = work[w]
    <3>1. RowLog(work[w], attempts[w]) /\ work[w] \in Row
      BY DEF LogInv, TypeOK
    <3>2. CASE work'[w] = work[w]
      BY <3>1, <3>2
    <3>3. CASE /\ work[w].state = "dead_letter"
               /\ work'[w] = [work[w] EXCEPT !.state = "pending", !.budget = 0, !.due = TRUE]
      <4>1. /\ work'[w].state = "pending"
            /\ work'[w].token = work[w].token /\ work'[w].live = work[w].live
        BY <3>1, <3>3 DEF Row
      <4> QED BY <3>1, <3>3, <4>1 DEF RowLog
    <3> QED BY <2>1, <3>2, <3>3
  <2> QED BY <2>1, <2>2 DEF LogInv, Arrived
<1>11. ASSUME NEW w \in Work, LeaseExpires(w) \/ ComesDue(w)
       PROVE  LogInv'
  <2>1. work[w] \in Row /\ attempts[w] \in Seq(Outcomes) /\ RowLog(work[w], attempts[w])
    BY DEF TypeOK, LogInv
  <2>2. UNCHANGED <<oper, attempts, landed>>
    BY <1>11 DEF LeaseExpires, ComesDue, network
  <2>3. work[w].state \in {"pending", "leased"}
    BY <1>11, <2>1 DEF LeaseExpires, ComesDue, RowLog, Row
  <2>4. PICK row \in Row :
          /\ work' = [work EXCEPT ![w] = row]
          /\ row.state = work[w].state /\ row.token = work[w].token
          /\ work[w].live = FALSE => row.live = FALSE
    <3>1. CASE LeaseExpires(w)
      <4> DEFINE row == [work[w] EXCEPT !.live = FALSE]
      <4>1. work' = [work EXCEPT ![w] = row]
        BY <3>1 DEF LeaseExpires
      <4>2. row \in Row /\ row.state = work[w].state /\ row.token = work[w].token /\ row.live = FALSE
        BY <2>1 DEF Row
      <4> HIDE DEF row
      <4> QED BY <4>1, <4>2
    <3>2. CASE ComesDue(w)
      <4> DEFINE row == [work[w] EXCEPT !.due = TRUE]
      <4>1. work' = [work EXCEPT ![w] = row]
        BY <3>2 DEF ComesDue
      <4>2. row \in Row /\ row.state = work[w].state /\ row.token = work[w].token /\ row.live = work[w].live
        BY <2>1 DEF Row
      <4> HIDE DEF row
      <4> QED BY <4>1, <4>2
    <3> QED BY <1>11, <3>1, <3>2
  <2>5. RowLog(row, attempts[w])
    BY <2>1, <2>3, <2>4 DEF RowLog
  <2>6. attempts' = [attempts EXCEPT ![w] = attempts[w]]
    BY <2>2 DEF TypeOK
  <2> QED BY <2>1, <2>2, <2>3, <2>4, <2>5, <2>6, OneRow
<1>12. ASSUME NEW m \in wire, Land(m)
       PROVE  LogInv'
  BY <1>12, NoRow DEF Land, ledger
<1>13. CASE UNCHANGED vars
  BY <1>13, NoRow DEF vars
<1> QED
  BY <1>1, <1>2, <1>3, <1>4, <1>5, <1>7, <1>8, <1>9, <1>10, <1>11, <1>12, <1>13
  DEF Next, RequestStep, ExecutorStep, Time

LEMMA InitialLedger == Init => LedgerInv
<1> SUFFICES ASSUME Init PROVE LedgerInv
  OBVIOUS
<1>1. TypeOK /\ HeldWhenBusy
  BY DEF Init, TypeOK, HeldWhenBusy, Row, Absent, Working
<1>2. ASSUME NEW w \in Work PROVE RowLog(work[w], attempts[w]) /\ work[w].state = "absent"
  BY DEF Init, RowLog, Absent
<1> QED BY <1>1, <1>2 DEF LedgerInv, LogInv

\* The inductive invariant holds in every behaviour.
THEOREM LedgerInvariant == Spec => []LedgerInv
<1>1. LedgerInv /\ [Next]_vars => LedgerInv'
  BY TypeStep, LogStep DEF LedgerInv
<1> QED BY <1>1, InitialLedger, PTL DEF Spec

\* A row is leased exactly under its newest attempt, the only one still open.
THEOREM LeasesMatch == Spec => []LeaseMatchesAttempts
<1>1. LedgerInv => LeaseMatchesAttempts
  <2> SUFFICES ASSUME LedgerInv, NEW w \in Work
               PROVE  /\ work[w].state = "leased" => work[w].token = Len(attempts[w])
                      /\ \A i \in DOMAIN attempts[w] :
                           attempts[w][i] = "started"
                             <=> (work[w].state = "leased" /\ work[w].token = i)
    BY DEF LeaseMatchesAttempts
  <2>1. /\ RowLog(work[w], attempts[w])
        /\ attempts[w] \in Seq(Outcomes) /\ DOMAIN attempts[w] = 1..Len(attempts[w])
    BY DEF LedgerInv, LogInv, TypeOK
  <2> QED BY <2>1 DEF RowLog
<1> QED BY <1>1, LedgerInvariant, PTL

\* A row is acknowledged by one attempt, the last, whose call had arrived.
THEOREM AcknowledgedOnceHolds == Spec => []AcknowledgedOnce
<1>1. LedgerInv => AcknowledgedOnce
  <2> SUFFICES ASSUME LedgerInv, NEW w \in Work
               PROVE  /\ work[w].state = "acknowledged" <=>
                           \E i \in DOMAIN attempts[w] : attempts[w][i] = "acknowledged"
                      /\ \A i \in DOMAIN attempts[w] :
                           attempts[w][i] = "acknowledged" =>
                             /\ i = Len(attempts[w])
                             /\ \E m \in landed : m.work = w /\ m.token = i
    BY DEF AcknowledgedOnce
  <2>1. /\ RowLog(work[w], attempts[w])
        /\ attempts[w] \in Seq(Outcomes) /\ DOMAIN attempts[w] = 1..Len(attempts[w])
        /\ work[w].state = "acknowledged" => Arrived(w)
    BY DEF LedgerInv, LogInv, TypeOK
  <2>2. work[w].state = "acknowledged" =>
          Len(attempts[w]) \in DOMAIN attempts[w]
          /\ attempts[w][Len(attempts[w])] = "acknowledged"
    <3>1. Len(attempts[w]) \in Nat
      BY <2>1
    <3> QED BY <2>1, <3>1 DEF RowLog
  <2> QED BY <2>1, <2>2 DEF RowLog, Arrived
<1> QED BY <1>1, LedgerInvariant, PTL
=============================================================================

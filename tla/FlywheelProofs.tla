--------------------------- MODULE FlywheelProofs ---------------------------
(* Theorems about the kernel's turns and its transaction log (Flywheel), for  *)
(* any number of turns, sessions and workers, whichever records share a       *)
(* millisecond and replace one another.                                       *)
EXTENDS Flywheel, ProofLemmas

-----------------------------------------------------------------------------
(* The log.                                                                  *)

Kind    == {"delegate", "exec", "yield", "audit", "halt"}
Sender  == Agent \union {"KERNEL_GUARDRAIL"}
Status  == {"AWAITING_WORKLOAD", "RUNNING", "HALTED"}
RowType == [id : Kind \X Nat, session : Session, sender : Sender, kind : Kind,
            output : Output \union {None}, passed : BOOLEAN,
            committed : BOOLEAN, prev : Nat, step : Nat]

LogTypes ==
  /\ appends \in Nat
  /\ DOMAIN log \subseteq 1..appends
  /\ DOMAIN removed \subseteq 1..appends /\ DOMAIN removed \intersect DOMAIN log = {}
  /\ session \in [Session -> [status : Status, burned : Nat]]
  /\ \A i \in DOMAIN log : log[i] \in RowType /\ log[i].step \in 1..appends

\* No identifier holds a number above that of the last append, so that a new one is
\* only shared when a time is.
IdsDiffer ==
  /\ \A i \in DOMAIN log : log[i].id[1] = log[i].kind /\ log[i].id[2] <= appends
  /\ \A i, j \in DOMAIN log : log[i].id = log[j].id => i = j

LogInv == LogTypes /\ IdsDiffer /\ LedgerVerifies /\ TokensAccounted

\* A new row at the end of the log, in the place of the one with its identifier.
Recorded(row) ==
  /\ log' = [i \in (DOMAIN log \ Replaced(log, row.id)) \union {appends + 1} |->
               IF i = appends + 1 THEN row ELSE log[i]]
  /\ removed' = [i \in DOMAIN removed \union Replaced(log, row.id) |->
                   IF i \in DOMAIN removed THEN removed[i] ELSE log[i]]
  /\ appends' = appends + 1
  /\ row \in RowType /\ row.committed
  /\ row.prev = LastLink(log, row.session)
  /\ row.step = Cardinality(RowsOf(log, row.session)) + 1
  /\ row.id[1] = row.kind /\ row.id[2] <= appends + 1
  /\ row.kind \notin Stamped => row.id[2] = appends + 1
  /\ \E status \in Status :
       session' = [session EXCEPT ![row.session].status = status,
                                  ![row.session].burned = @ + Spent(row.kind)]

LEMMA PlacesOfRows ==
  ASSUME NEW n \in Nat, NEW rows \in SUBSET (1..n)
  PROVE  /\ IsFiniteSet(rows) /\ Cardinality(rows) \in 0..n
         /\ rows # {} => Max(rows) \in rows /\ \A i \in rows : i <= Max(rows)
<1>1. IsFiniteSet(1..n) /\ Cardinality(1..n) = n
  <2>1. /\ IsFiniteSet(1..n)
        /\ Cardinality(1..n) = IF 1 > n THEN 0 ELSE n - 1 + 1
    BY FS_Interval
  <2> QED
    BY <2>1
<1>2. IsFiniteSet(rows) /\ Cardinality(rows) \in Nat /\ Cardinality(rows) <= n
  BY <1>1, FS_Subset, FS_CardinalityType
<1>3. ASSUME rows # {} PROVE Max(rows) \in rows /\ \A i \in rows : i <= Max(rows)
  <2>1. rows \in SUBSET Nat /\ \A i \in rows : i <= n
    OBVIOUS
  <2> QED
    BY <1>3, <2>1, MaxOfBoundedNaturals
<1> QED
  BY <1>2, <1>3

\* The rows of a session, its link and its count.
LEMMA RowsOfType ==
  ASSUME LogTypes, NEW s
  PROVE  /\ RowsOf(log, s) \in SUBSET (1..appends)
         /\ LastLink(log, s) \in Nat /\ Cardinality(RowsOf(log, s)) \in 0..appends
<1>1. RowsOf(log, s) \in SUBSET (1..appends) /\ appends \in Nat
  BY DEF RowsOf, LogTypes
<1>2. CASE RowsOf(log, s) = {}
  BY <1>1, <1>2, PlacesOfRows DEF LastLink, LinkTo, Genesis
<1>3. CASE RowsOf(log, s) # {}
  <2>1. Max(RowsOf(log, s)) \in RowsOf(log, s)
    BY <1>1, <1>3, PlacesOfRows
  <2>2. LastLink(log, s) = Max(RowsOf(log, s))
    BY <1>3 DEF LastLink, LinkTo
  <2> QED
    BY <1>1, <2>1, <2>2, PlacesOfRows
<1> QED
  BY <1>2, <1>3

LEMMA CostType ==
  ASSUME NEW kind
  PROVE  Cost(kind) \in Nat /\ Spent(kind) \in Nat
BY FlywheelAssumption DEF Cost, Spent

\* A time that a record is stamped with.
LEMMA StampType ==
  ASSUME LogInv, NEW kind, NEW time \in Stamps(kind)
  PROVE  time \in Nat /\ time <= appends + 1
<1> DEFINE rows == {i \in DOMAIN log : log[i].kind = kind}
<1>1. appends \in Nat /\ rows \in SUBSET (1..appends)
  BY DEF LogInv, LogTypes
<1>2. CASE time = appends + 1
  BY <1>1, <1>2
<1>3. CASE time \in LastStamp(kind)
  <2>1. rows # {} /\ time = log[Max(rows)].id[2]
    BY <1>3 DEF LastStamp
  <2>2. Max(rows) \in rows
    BY <1>1, <2>1, PlacesOfRows
  <2> HIDE DEF rows
  <2>3. Max(rows) \in DOMAIN log
    BY <2>2 DEF rows
  <2>4. log[Max(rows)] \in RowType /\ log[Max(rows)].id[2] <= appends
    BY <2>3 DEF LogInv, LogTypes, IdsDiffer
  <2>5. log[Max(rows)].id[2] \in Nat
    BY <2>4 DEF RowType
  <2> QED
    BY <1>1, <2>1, <2>4, <2>5
<1> QED
  BY <1>2, <1>3 DEF Stamps

LEMMA RecordAppends ==
  ASSUME LogInv, NEW kind \in Kind, NEW time \in Nat, NEW s \in Session, NEW sender \in Sender,
         NEW output \in Output \union {None}, NEW passed \in BOOLEAN, NEW status \in Status,
         NEW spent, spent = IF kind \in {"delegate", "halt"} THEN Estimate ELSE 0,
         time <= appends + 1, kind \notin Stamped => time = appends + 1,
         Record(Row(kind, time, s, sender, output, passed), spent, status)
  PROVE  \E row : /\ Recorded(row)
                  /\ row.id = TaskId(kind, time) /\ row.session = s /\ row.sender = sender
                  /\ row.kind = kind /\ row.output = output /\ row.passed = passed
<1> DEFINE plain == Row(kind, time, s, sender, output, passed)
           row == [plain EXCEPT !.prev = LastLink(log, s),
                                !.step = Cardinality(RowsOf(log, s)) + 1]
<1>1. /\ plain.id = TaskId(kind, time) /\ plain.session = s /\ plain.kind = kind
      /\ TaskId(kind, time)[1] = kind /\ TaskId(kind, time)[2] = time
  BY DEF Row, TaskId
<1>2. LastLink(log, s) \in Nat /\ Cardinality(RowsOf(log, s)) + 1 \in Nat
  BY RowsOfType DEF LogInv, LogTypes
<1>3. /\ row.id = plain.id /\ row.id = TaskId(kind, time)
      /\ row.session = s /\ row.sender = sender
      /\ row.kind = kind /\ row.output = output /\ row.passed = passed /\ row.committed
      /\ row.prev = LastLink(log, s) /\ row.step = Cardinality(RowsOf(log, s)) + 1
  BY DEF Row
<1>4. row \in RowType
  <2>1. TaskId(kind, time) \in Kind \X Nat
    BY DEF TaskId
  <2>2. plain \in RowType
    BY <2>1 DEF Row, RowType, Genesis
  <2> HIDE DEF plain
  <2> QED
    BY <1>2, <2>2 DEF RowType
<1>5. /\ log' = [i \in (DOMAIN log \ Replaced(log, plain.id)) \union {appends + 1} |->
                   IF i = appends + 1 THEN row ELSE log[i]]
      /\ removed' = [i \in DOMAIN removed \union Replaced(log, plain.id) |->
                       IF i \in DOMAIN removed THEN removed[i] ELSE log[i]]
      /\ appends' = appends + 1
  BY <1>1 DEF Record, CommitMicroStep
<1>6. session' = [session EXCEPT ![s].status = status, ![s].burned = @ + Spent(kind)]
  <2>1. spent + Cost(kind) = Spent(kind) /\ Cost(kind) \in Nat
    BY CostType, FlywheelAssumption DEF Spent
  <2>2. session[s].burned \in Nat
    BY DEF LogInv, LogTypes
  <2>3. session' = [session EXCEPT ![s].status = status, ![s].burned = @ + spent + Cost(kind)]
    BY <1>1 DEF Record
  <2>4. session[s].burned + spent + Cost(kind) = session[s].burned + Spent(kind)
    BY <2>1, <2>2, FlywheelAssumption
  <2> QED
    BY <2>3, <2>4
<1> HIDE DEF row, plain
<1>7. Recorded(row)
  BY <1>1, <1>3, <1>4, <1>5, <1>6 DEF Recorded
<1> QED
  BY <1>3, <1>7

\* What a recording does to the log: the new row comes last, the one row that gives way
\* to it is of the same kind, and the others stay as they are.
LEMMA RecordedRows ==
  ASSUME LogInv, NEW row, Recorded(row)
  PROVE  /\ appends \in Nat /\ appends' = appends + 1
         /\ DOMAIN log \subseteq 1..appends
         /\ appends + 1 \notin DOMAIN log
         /\ appends + 1 \in DOMAIN log' /\ log'[appends + 1] = row
         /\ \A i \in DOMAIN log : log[i].id # row.id => i \in DOMAIN log' /\ log'[i] = log[i]
         /\ \A i \in DOMAIN log' : i # appends + 1 =>
              i \in DOMAIN log /\ log[i].id # row.id /\ log'[i] = log[i]
         /\ \A i \in DOMAIN log : log[i].id = row.id =>
              log[i].kind = row.kind /\ row.kind \in Stamped
<1>1. /\ appends \in Nat /\ appends' = appends + 1
      /\ DOMAIN log \subseteq 1..appends /\ appends + 1 \notin DOMAIN log
  BY DEF LogInv, LogTypes, Recorded
<1>2. /\ log' = [i \in (DOMAIN log \ Replaced(log, row.id)) \union {appends + 1} |->
                   IF i = appends + 1 THEN row ELSE log[i]]
  BY DEF Recorded
<1>3. ASSUME NEW i \in DOMAIN log, log[i].id = row.id
      PROVE  log[i].kind = row.kind /\ row.kind \in Stamped
  <2>1. log[i].kind = row.kind /\ row.id[2] <= appends
    BY <1>3 DEF LogInv, IdsDiffer, Recorded
  <2>2. row.kind \notin Stamped => row.id[2] = appends + 1
    BY DEF Recorded
  <2> QED
    BY <1>1, <2>1, <2>2
<1>4. /\ appends + 1 \in DOMAIN log' /\ log'[appends + 1] = row
      /\ \A i \in DOMAIN log : log[i].id # row.id => i \in DOMAIN log' /\ log'[i] = log[i]
      /\ \A i \in DOMAIN log' : i # appends + 1 =>
           i \in DOMAIN log /\ log[i].id # row.id /\ log'[i] = log[i]
  BY <1>1, <1>2 DEF Replaced
<1> QED
  BY <1>1, <1>3, <1>4

LEMMA RecordedKeepsTypes ==
  ASSUME LogInv, NEW row, Recorded(row)
  PROVE  LogTypes' /\ IdsDiffer'
<1>1. /\ appends \in Nat /\ appends' = appends + 1
      /\ DOMAIN log \subseteq 1..appends
      /\ appends + 1 \notin DOMAIN log
      /\ appends + 1 \in DOMAIN log' /\ log'[appends + 1] = row
      /\ \A i \in DOMAIN log : log[i].id # row.id => i \in DOMAIN log' /\ log'[i] = log[i]
      /\ \A i \in DOMAIN log' : i # appends + 1 =>
           i \in DOMAIN log /\ log[i].id # row.id /\ log'[i] = log[i]
  BY RecordedRows
<1>2. row \in RowType /\ row.session \in Session /\ row.id[1] = row.kind /\ row.id[2] <= appends + 1
  BY DEF Recorded, RowType
<1>3. row.step \in 1..appends + 1
  BY <1>1, RowsOfType DEF Recorded, LogInv
<1>4. session' \in [Session -> [status : Status, burned : Nat]]
  <2>1. PICK status \in Status :
          session' = [session EXCEPT ![row.session].status = status,
                                     ![row.session].burned = @ + Spent(row.kind)]
    BY DEF Recorded
  <2>2. Spent(row.kind) \in Nat /\ session \in [Session -> [status : Status, burned : Nat]]
    BY CostType DEF LogInv, LogTypes
  <2>3. session[row.session] \in [status : Status, burned : Nat]
    BY <1>2, <2>2
  <2>4. session[row.session].burned + Spent(row.kind) \in Nat
    BY <2>2, <2>3
  <2> QED
    BY <1>2, <2>1, <2>2, <2>4
<1>5. ASSUME NEW i \in DOMAIN log
      PROVE  /\ log[i] \in RowType /\ log[i].step \in 1..appends
             /\ log[i].id[1] = log[i].kind /\ log[i].id[2] <= appends
             /\ log[i].id[2] \in Nat
  <2>1. log[i] \in RowType
    BY DEF LogInv, LogTypes
  <2>2. log[i].id \in Kind \X Nat
    BY <2>1 DEF RowType
  <2> QED
    BY <2>2 DEF LogInv, LogTypes, IdsDiffer
<1>6. LogTypes'
  <2>1. DOMAIN log' \subseteq 1..appends'
    BY <1>1
  <2>2. DOMAIN removed' = DOMAIN removed \union Replaced(log, row.id)
    BY DEF Recorded
  <2>3. /\ DOMAIN removed \subseteq 1..appends /\ DOMAIN removed \intersect DOMAIN log = {}
    BY DEF LogInv, LogTypes
  <2>4. DOMAIN removed' \subseteq 1..appends' /\ DOMAIN removed' \intersect DOMAIN log' = {}
    BY <1>1, <2>2, <2>3 DEF Replaced
  <2>5. ASSUME NEW i \in DOMAIN log'
        PROVE  log'[i] \in RowType /\ log'[i].step \in 1..appends'
    BY <1>1, <1>2, <1>3, <1>5
  <2> QED
    BY <1>1, <1>4, <2>1, <2>4, <2>5 DEF LogTypes
<1>7. IdsDiffer'
  <2>1. ASSUME NEW i \in DOMAIN log'
        PROVE  log'[i].id[1] = log'[i].kind /\ log'[i].id[2] <= appends'
    BY <1>1, <1>2, <1>5
  <2>2. ASSUME NEW i \in DOMAIN log', NEW j \in DOMAIN log', log'[i].id = log'[j].id
        PROVE  i = j
    <3>1. CASE i # appends + 1 /\ j # appends + 1
      BY <1>1, <2>2, <3>1 DEF LogInv, IdsDiffer
    <3>2. CASE i = appends + 1 \/ j = appends + 1
      BY <1>1, <2>2, <3>2
    <3> QED
      BY <3>1, <3>2
  <2> QED
    BY <2>1, <2>2 DEF IdsDiffer
<1> QED
  BY <1>6, <1>7

\* A new row is linked to the last of its session and counted after it; of a session
\* that has lost no row, all the others stay.
LEMMA RecordedVerifies ==
  ASSUME LogInv, NEW row, Recorded(row)
  PROVE  LedgerVerifies'
<1>1. /\ appends \in Nat /\ DOMAIN log \subseteq 1..appends
      /\ appends + 1 \notin DOMAIN log
      /\ appends + 1 \in DOMAIN log' /\ log'[appends + 1] = row
      /\ \A i \in DOMAIN log : log[i].id # row.id => i \in DOMAIN log' /\ log'[i] = log[i]
      /\ \A i \in DOMAIN log' : i # appends + 1 =>
           i \in DOMAIN log /\ log[i].id # row.id /\ log'[i] = log[i]
  BY RecordedRows
<1> SUFFICES ASSUME NEW s \in Session, RowsOf(removed', s) = {}, NEW i \in RowsOf(log', s)
             PROVE  LET before == {j \in RowsOf(log', s) : j < i}
                    IN /\ log'[i].prev = LinkTo(before)
                       /\ log'[i].step = Cardinality(before) + 1
  BY DEF LedgerVerifies, VerifyIntegrity
<1>2. /\ DOMAIN removed' = DOMAIN removed \union Replaced(log, row.id)
      /\ \A j \in DOMAIN removed : removed'[j] = removed[j]
      /\ \A j \in Replaced(log, row.id) : j \notin DOMAIN removed => removed'[j] = log[j]
  BY DEF Recorded
<1>3. RowsOf(removed, s) = {}
  BY <1>2 DEF RowsOf
<1>4. ASSUME NEW j \in DOMAIN log, log[j].session = s PROVE log[j].id # row.id
  <2> SUFFICES ASSUME log[j].id = row.id PROVE FALSE
    OBVIOUS
  <2>1. j \in Replaced(log, row.id) /\ j \notin DOMAIN removed
    BY DEF Replaced, LogInv, LogTypes
  <2> QED
    BY <1>2, <1>4, <2>1 DEF RowsOf
<1>5. ASSUME NEW j PROVE j \in RowsOf(log', s) <=>
                           j \in RowsOf(log, s) \/ (j = appends + 1 /\ row.session = s)
  BY <1>1, <1>4 DEF RowsOf
<1> DEFINE before == {j \in RowsOf(log, s) : j < i}
<1>6. RowsOf(log, s) \in SUBSET (1..appends)
  BY RowsOfType DEF LogInv
<1>7. {j \in RowsOf(log', s) : j < i} = before
  <2>1. i \in 1..appends + 1
    BY <1>1, <1>5, <1>6
  <2>2. \A j : j \in RowsOf(log', s) /\ j < i <=> j \in RowsOf(log, s) /\ j < i
    BY <1>1, <1>5, <2>1
  <2> QED
    BY <2>2
<1>8. CASE i \in RowsOf(log, s)
  <2>1. log'[i] = log[i]
    BY <1>1, <1>4, <1>8 DEF RowsOf
  <2>2. log[i].prev = LinkTo(before) /\ log[i].step = Cardinality(before) + 1
    BY <1>3, <1>8 DEF LogInv, LedgerVerifies, VerifyIntegrity
  <2> QED
    BY <1>7, <2>1, <2>2
<1>9. CASE i = appends + 1 /\ row.session = s
  <2>1. before = RowsOf(log, s)
    BY <1>1, <1>6, <1>9
  <2>2. row.prev = LinkTo(before) /\ row.step = Cardinality(before) + 1
    BY <1>9, <2>1 DEF Recorded, LastLink
  <2> QED
    BY <1>1, <1>7, <1>9, <2>2
<1> QED
  BY <1>5, <1>8, <1>9

ExpensesOf(s) == [i \in 1..appends |-> Expense(log, s, i) + Expense(removed, s, i)]

LEMMA ExpenseType ==
  ASSUME NEW rows, NEW s, NEW i
  PROVE  Expense(rows, s, i) \in Nat
BY CostType DEF Expense

\* What a row costs is burned in its session, and stays so when the row gives way.
LEMMA RecordedAccounts ==
  ASSUME LogInv, NEW row, Recorded(row)
  PROVE  TokensAccounted'
<1>1. /\ appends \in Nat /\ appends' = appends + 1
      /\ DOMAIN log \subseteq 1..appends
      /\ appends + 1 \notin DOMAIN log
      /\ appends + 1 \in DOMAIN log' /\ log'[appends + 1] = row
      /\ \A i \in DOMAIN log : log[i].id # row.id => i \in DOMAIN log' /\ log'[i] = log[i]
      /\ \A i \in DOMAIN log' : i # appends + 1 =>
           i \in DOMAIN log /\ log[i].id # row.id /\ log'[i] = log[i]
  BY RecordedRows
<1>2. /\ DOMAIN removed \subseteq 1..appends /\ DOMAIN removed \intersect DOMAIN log = {}
      /\ DOMAIN removed' = DOMAIN removed \union Replaced(log, row.id)
      /\ \A i \in DOMAIN removed : removed'[i] = removed[i]
      /\ \A i \in Replaced(log, row.id) : i \notin DOMAIN removed => removed'[i] = log[i]
  BY DEF LogInv, LogTypes, Recorded
<1> SUFFICES ASSUME NEW s \in Session
             PROVE  session'[s].burned = Total(ExpensesOf(s)', appends + 1)
  BY <1>1 DEF TokensAccounted, ExpensesOf
<1> DEFINE f == ExpensesOf(s)
<1>3. PICK g : g = ExpensesOf(s)'
  OBVIOUS
<1>4. ASSUME NEW i \in 1..appends
      PROVE  f[i] \in Int /\ f[i] = g[i]
  <2>1. f[i] = Expense(log, s, i) + Expense(removed, s, i)
    BY DEF ExpensesOf
  <2>2. g[i] = Expense(log', s, i) + Expense(removed', s, i)
    BY <1>1, <1>3 DEF ExpensesOf
  <2>3. /\ Expense(log, s, i) \in Nat /\ Expense(removed, s, i) \in Nat
        /\ Expense(log', s, i) \in Nat /\ Expense(removed', s, i) \in Nat
    BY ExpenseType
  <2>4. CASE i \in DOMAIN log /\ log[i].id = row.id
    <3>1. /\ i \notin DOMAIN removed /\ i \notin DOMAIN log'
          /\ i \in DOMAIN removed' /\ removed'[i] = log[i]
      BY <1>1, <1>2, <2>4 DEF Replaced
    <3>2. Expense(log', s, i) = 0 /\ Expense(removed, s, i) = 0
      BY <3>1 DEF Expense
    <3>3. Expense(removed', s, i) = Expense(log, s, i)
      BY <2>4, <3>1 DEF Expense
    <3> QED
      BY <2>1, <2>2, <2>3, <3>2, <3>3
  <2>5. CASE ~(i \in DOMAIN log /\ log[i].id = row.id)
    <3>1. Expense(log', s, i) = Expense(log, s, i)
      BY <1>1, <2>5 DEF Expense
    <3>2. Expense(removed', s, i) = Expense(removed, s, i)
      BY <1>2, <2>5 DEF Expense, Replaced
    <3> QED
      BY <2>1, <2>2, <2>3, <3>1, <3>2
  <2> QED
    BY <2>4, <2>5
<1>5. g[appends + 1] = IF row.session = s THEN Spent(row.kind) ELSE 0
  <2>1. g[appends + 1] = Expense(log', s, appends + 1) + Expense(removed', s, appends + 1)
    BY <1>1, <1>3 DEF ExpensesOf
  <2>2. Expense(log', s, appends + 1) = IF row.session = s THEN Spent(row.kind) ELSE 0
    BY <1>1 DEF Expense
  <2>3. appends + 1 \notin DOMAIN removed'
    BY <1>1, <1>2 DEF Replaced
  <2>4. Expense(removed', s, appends + 1) = 0
    BY <2>3 DEF Expense
  <2> QED
    BY <2>1, <2>2, <2>4, CostType
<1>6. \A i \in 1..appends + 1 : g[i] \in Int
  BY <1>1, <1>4, <1>5, CostType
<1>7. session[s].burned = Total(f, appends)
  BY DEF LogInv, TokensAccounted, ExpensesOf
<1> HIDE DEF f
<1>8. Total(f, appends) = Total(g, appends)
  BY <1>1, <1>4, TotalSame
<1>9. Total(g, appends + 1) = Total(g, appends) + g[appends + 1]
  <2>1. PICK n \in Nat : n = appends + 1
    BY <1>1
  <2>2. n # 0 /\ n - 1 = appends /\ \A i \in 1..n : g[i] \in Int
    BY <1>1, <1>6, <2>1
  <2>3. Total(g, n) = Total(g, n - 1) + g[n]
    BY <2>2, TotalFacts
  <2> QED
    BY <2>1, <2>2, <2>3
<1>10. session'[s].burned
         = session[s].burned + IF row.session = s THEN Spent(row.kind) ELSE 0
  <2>1. PICK status \in Status :
          session' = [session EXCEPT ![row.session].status = status,
                                     ![row.session].burned = @ + Spent(row.kind)]
    BY DEF Recorded
  <2>2. session \in [Session -> [status : Status, burned : Nat]] /\ Spent(row.kind) \in Nat
    BY CostType DEF LogInv, LogTypes
  <2>3. session[s] \in [status : Status, burned : Nat]
    BY <2>2
  <2>4. CASE row.session = s
    BY <2>1, <2>2, <2>3, <2>4
  <2>5. CASE row.session # s
    <3>1. session'[s] = session[s]
      BY <2>1, <2>2, <2>5
    <3> QED
      BY <2>3, <2>5, <3>1
  <2> QED
    BY <2>4, <2>5
<1> QED
  BY <1>3, <1>5, <1>7, <1>8, <1>9, <1>10

LEMMA RecordedKeeps ==
  ASSUME LogInv, NEW row, Recorded(row)
  PROVE  LogInv'
BY RecordedKeepsTypes, RecordedVerifies, RecordedAccounts DEF LogInv

\* A rollback changes nothing but marks, and keeps the marks off.
LEMMA RollbackChanges ==
  ASSUME LogInv, NEW ids, log' = RollbackStep(log, ids)
  PROVE  /\ DOMAIN log' = DOMAIN log
         /\ \A i \in DOMAIN log :
              /\ log'[i] \in RowType
              /\ log'[i].id = log[i].id /\ log'[i].session = log[i].session
              /\ log'[i].sender = log[i].sender /\ log'[i].kind = log[i].kind
              /\ log'[i].output = log[i].output /\ log'[i].passed = log[i].passed
              /\ log'[i].prev = log[i].prev /\ log'[i].step = log[i].step
              /\ log'[i].committed <=> log[i].committed /\ log[i].id \notin ids
<1>1. DOMAIN log' = DOMAIN log
  BY DEF RollbackStep
<1>2. ASSUME NEW i \in DOMAIN log
      PROVE  /\ log'[i] \in RowType
             /\ log'[i].id = log[i].id /\ log'[i].session = log[i].session
             /\ log'[i].sender = log[i].sender /\ log'[i].kind = log[i].kind
             /\ log'[i].output = log[i].output /\ log'[i].passed = log[i].passed
             /\ log'[i].prev = log[i].prev /\ log'[i].step = log[i].step
             /\ log'[i].committed <=> log[i].committed /\ log[i].id \notin ids
  <2>1. log'[i] = [log[i] EXCEPT !.committed = @ /\ log[i].id \notin ids] /\ log[i] \in RowType
    BY DEF RollbackStep, LogInv, LogTypes
  <2> QED
    BY <2>1 DEF RowType
<1> QED
  BY <1>1, <1>2

LEMMA RollbackKeeps ==
  ASSUME LogInv, NEW ids, log' = RollbackStep(log, ids), UNCHANGED <<session, appends, removed>>
  PROVE  LogInv'
<1>1. /\ DOMAIN log' = DOMAIN log
      /\ \A i \in DOMAIN log :
           /\ log'[i] \in RowType
           /\ log'[i].id = log[i].id /\ log'[i].session = log[i].session
           /\ log'[i].kind = log[i].kind
           /\ log'[i].prev = log[i].prev /\ log'[i].step = log[i].step
  BY RollbackChanges
<1>2. LogTypes'
  BY <1>1 DEF LogInv, LogTypes
<1>3. IdsDiffer'
  BY <1>1 DEF LogInv, IdsDiffer
<1>4. \A s : RowsOf(log', s) = RowsOf(log, s)
  BY <1>1 DEF RowsOf
<1>5. LedgerVerifies'
  <2> SUFFICES ASSUME NEW s \in Session, RowsOf(removed, s) = {}, NEW i \in RowsOf(log, s)
               PROVE  /\ log'[i].prev = LinkTo({j \in RowsOf(log, s) : j < i})
                      /\ log'[i].step = Cardinality({j \in RowsOf(log, s) : j < i}) + 1
    BY <1>4 DEF LedgerVerifies, VerifyIntegrity
  <2>1. i \in DOMAIN log
    BY DEF RowsOf
  <2> QED
    BY <1>1, <2>1 DEF LogInv, LedgerVerifies, VerifyIntegrity
<1>6. TokensAccounted'
  <2>1. \A s, i : Expense(log', s, i) = Expense(log, s, i)
    BY <1>1 DEF Expense
  <2> QED
    BY <2>1 DEF LogInv, TokensAccounted
<1> QED
  BY <1>2, <1>3, <1>5, <1>6 DEF LogInv

-----------------------------------------------------------------------------
(* The turns.                                                                *)

Phase   == {"new", "working", "answered", "done"}
Replies == {None, "SUCCESS", "YIELDED"} \union Failed
Outcome == {None, "SUCCESS", "YIELDED", "LOOP_INTERCEPTED", "THROWN", "FORMAL_POLICY_REJECTED"}
TurnType == [phase : Phase, session : Session \union {None},
             worker : Worker \union {Nobody, None}, reply : Replies,
             output : Output \union {None}, tx : (Kind \union {None}) \X Nat,
             outcome : Outcome, executing : BOOLEAN]

\* What a turn has at each of its phases.
TurnTrue(t) ==
  /\ turn[t].phase # "new" => turn[t].session \in Session
  /\ turn[t].phase = "new" => ~turn[t].executing
  /\ turn[t].phase \in {"new", "working"} => turn[t].reply = None
  /\ turn[t].phase = "working" => turn[t].executing
  /\ turn[t].phase = "answered" => turn[t].reply # None
  /\ turn[t].phase \in {"working", "answered"} \/ turn[t].executing => turn[t].worker \in Worker
  /\ turn[t].executing => turn[t].reply = IF turn[t].phase = "working" THEN None ELSE "YIELDED"
  /\ turn[t].reply = "SUCCESS" <=> turn[t].tx # NoTx
  /\ turn[t].outcome # None <=> turn[t].phase = "done"
  /\ turn[t].outcome = "SUCCESS" => turn[t].reply = "SUCCESS" /\ turn[t].output \notin Unsafe

TurnInv ==
  /\ turn \in [Turn -> TurnType]
  /\ agent \in [Agent -> {"IDLE", "BUSY"} \union Stopped]
  /\ directives \subseteq Session
  /\ overlapped \subseteq Session \X Worker
  /\ \A t \in Turn : TurnTrue(t)

LEMMA NewTurn == Idle \in TurnType
BY DEF Idle, TurnType, Phase, Replies, Outcome, NoTx

\* When only one turn changes, only that one is to be looked at.
LEMMA OneTurnChanges ==
  ASSUME TurnInv, NEW t \in Turn, NEW to \in TurnType, turn' = [turn EXCEPT ![t] = to],
         TurnTrue(t)',
         agent' \in [Agent -> {"IDLE", "BUSY"} \union Stopped],
         directives' \subseteq Session, overlapped' \subseteq Session \X Worker
  PROVE  TurnInv'
<1>1. turn' \in [Turn -> TurnType]
  BY DEF TurnInv
<1>2. ASSUME NEW u \in Turn PROVE TurnTrue(u)'
  <2>1. CASE u = t
    BY <2>1
  <2>2. CASE u # t
    <3>1. turn'[u] = turn[u] /\ TurnTrue(u)
      BY <2>2 DEF TurnInv
    <3> QED
      BY <3>1 DEF TurnTrue
  <2> QED
    BY <2>1, <2>2
<1> QED
  BY <1>1, <1>2 DEF TurnInv

-----------------------------------------------------------------------------
(* What each action records.                                                 *)

LEMMA SafeHaltRecords ==
  ASSUME LogInv, NEW t \in Turn, NEW s \in Session, NEW w, SafeHalt(t, s, w)
  PROVE  \E row : Recorded(row) /\ row.kind = "halt"
<1> DEFINE passed == FALSE
<1>1. PICK time \in Nat : time = appends + 1
  BY DEF LogInv, LogTypes
<1>2. Record(Row("halt", time, s, "KERNEL_GUARDRAIL", None, passed), Estimate, "HALTED")
  BY <1>1 DEF SafeHalt
<1>3. /\ "halt" \in Kind /\ "HALTED" \in Status /\ "KERNEL_GUARDRAIL" \in Sender
      /\ Estimate = IF "halt" \in {"delegate", "halt"} THEN Estimate ELSE 0
      /\ None \in Output \union {None} /\ passed \in BOOLEAN
      /\ time <= appends + 1 /\ ("halt" \notin Stamped => time = appends + 1)
  BY <1>1 DEF Kind, Status, Sender
<1> HIDE DEF passed
<1> QED
  BY <1>2, <1>3, RecordAppends

LEMMA DelegateRecords ==
  ASSUME LogInv, NEW t \in Turn, NEW s \in Session, NEW w, Delegate(t, s, w)
  PROVE  \E row : Recorded(row) /\ row.kind = "delegate" /\ row.sender = "strategist"
<1> DEFINE passed == FALSE
<1>1. PICK time \in Stamps("delegate") :
        Record(Row("delegate", time, s, "strategist", None, passed), Estimate, "RUNNING")
  BY DEF Delegate
<1>2. /\ "delegate" \in Kind /\ "RUNNING" \in Status /\ "strategist" \in Sender
      /\ Estimate = IF "delegate" \in {"delegate", "halt"} THEN Estimate ELSE 0
      /\ None \in Output \union {None} /\ passed \in BOOLEAN
      /\ "delegate" \notin Stamped => time = appends + 1
  BY DEF Kind, Stamped, Status, Sender, Agent
<1>3. time \in Nat /\ time <= appends + 1
  BY StampType
<1> HIDE DEF passed
<1> QED
  BY <1>1, <1>2, <1>3, RecordAppends

LEMMA ExecutorRecords ==
  ASSUME LogInv, TurnInv, NEW t \in Turn, NEW output \in Output, ExecutorReturns(t, output)
  PROVE  \E row : /\ Recorded(row) /\ row.kind = "exec" /\ row.id = TaskId("exec", appends + 1)
                  /\ row.session = turn[t].session /\ row.sender = turn[t].worker
                  /\ row.output = output
<1> DEFINE s == turn[t].session
           w == turn[t].worker
           passed == FALSE
<1>1. PICK time \in Nat : time = appends + 1
  BY DEF LogInv, LogTypes
<1>2. Record(Row("exec", time, s, w, output, passed), 0, session[s].status) /\ turn[t].executing
  BY <1>1 DEF ExecutorReturns
<1>3. s \in Session /\ w \in Sender
  BY <1>2 DEF TurnInv, TurnTrue, TurnType, Phase, Sender, Agent
<1>4. session[s].status \in Status
  BY <1>3 DEF LogInv, LogTypes
<1>5. /\ "exec" \in Kind /\ 0 = IF "exec" \in {"delegate", "halt"} THEN Estimate ELSE 0
      /\ output \in Output \union {None} /\ passed \in BOOLEAN
      /\ time <= appends + 1 /\ ("exec" \notin Stamped => time = appends + 1)
  BY <1>1 DEF Kind
<1> HIDE DEF s, w, passed
<1>6. \E row : /\ Recorded(row) /\ row.id = TaskId("exec", time) /\ row.session = s
               /\ row.sender = w /\ row.kind = "exec" /\ row.output = output
  BY <1>2, <1>3, <1>4, <1>5, RecordAppends
<1> QED
  BY <1>1, <1>6 DEF s, w

LEMMA TimeoutRecords ==
  ASSUME LogInv, TurnInv, NEW t \in Turn, Timeout(t)
  PROVE  \E row : /\ Recorded(row) /\ row.kind = "yield"
                  /\ row.session = turn[t].session /\ row.sender = turn[t].worker
<1> DEFINE s == turn[t].session
           w == turn[t].worker
           passed == FALSE
<1>1. PICK time \in Stamps("yield") :
        Record(Row("yield", time, s, w, None, passed), 0, session[s].status)
  BY DEF Timeout
<1>2. /\ "yield" \in Kind /\ 0 = IF "yield" \in {"delegate", "halt"} THEN Estimate ELSE 0
      /\ None \in Output \union {None} /\ passed \in BOOLEAN
      /\ "yield" \notin Stamped => time = appends + 1
  BY DEF Kind, Stamped
<1>3. time \in Nat /\ time <= appends + 1
  BY StampType
<1>4. s \in Session /\ w \in Sender
  BY DEF Timeout, TimerArmed, TurnInv, TurnTrue, Sender, Agent
<1>5. session[s].status \in Status
  BY <1>4 DEF LogInv, LogTypes
<1> HIDE DEF s, w, passed
<1>6. \E row : /\ Recorded(row) /\ row.session = s /\ row.sender = w /\ row.kind = "yield"
  BY <1>1, <1>2, <1>3, <1>4, <1>5, RecordAppends
<1> QED
  BY <1>6 DEF s, w

LEMMA AuditRecords ==
  ASSUME LogInv, TurnInv, NEW t \in Turn, turn[t].phase = "answered", Audit(t)
  PROVE  \E row : /\ Recorded(row) /\ row.kind = "audit" /\ row.session = turn[t].session
                  /\ row.output = turn[t].output
                  /\ row.passed = (turn[t].output \notin Unsafe)
<1> DEFINE s == turn[t].session
           output == turn[t].output
           passed == output \notin Unsafe
<1>1. PICK time \in Nat : time = appends + 1
  BY DEF LogInv, LogTypes
<1>2. Record(Row("audit", time, s, "auditor", output, passed), 0, session[s].status)
  BY <1>1 DEF Audit
<1>3. s \in Session /\ output \in Output \union {None} /\ passed \in BOOLEAN
  BY DEF TurnInv, TurnTrue, TurnType
<1>4. session[s].status \in Status
  BY <1>3 DEF LogInv, LogTypes
<1>5. /\ "audit" \in Kind /\ 0 = IF "audit" \in {"delegate", "halt"} THEN Estimate ELSE 0
      /\ "auditor" \in Sender
      /\ time <= appends + 1 /\ ("audit" \notin Stamped => time = appends + 1)
  BY <1>1 DEF Kind, Sender, Agent
<1> HIDE DEF s, output, passed
<1>6. \E row : /\ Recorded(row) /\ row.session = s /\ row.kind = "audit"
               /\ row.output = output /\ row.passed = passed
  BY <1>2, <1>3, <1>4, <1>5, RecordAppends
<1> QED
  BY <1>6 DEF s, output, passed

-----------------------------------------------------------------------------
(* The steps.                                                                *)

LEMMA EndKeeps ==
  ASSUME TurnInv, NEW t \in Turn, NEW s \in Session, NEW w \in Worker \union {Nobody},
         NEW outcome \in {"FORMAL_POLICY_REJECTED", "THROWN"}, End(t, s, w, outcome),
         agent' \in [Agent -> {"IDLE", "BUSY"} \union Stopped],
         directives' \subseteq Session, overlapped' \subseteq Session \X Worker
  PROVE  TurnInv' /\ turn'[t].tx = NoTx /\ \A u \in Turn : u # t => turn'[u] = turn[u]
<1> DEFINE to == [Idle EXCEPT !.phase = "done", !.session = s, !.worker = w,
                              !.outcome = outcome]
<1>1. turn' = [turn EXCEPT ![t] = to]
  BY DEF End
<1>2. /\ to.phase = "done" /\ to.session = s /\ to.outcome = outcome /\ to.reply = None
      /\ to.tx = NoTx /\ ~to.executing
  BY DEF Idle
<1>3. to \in TurnType
  BY NewTurn DEF TurnType, Phase, Outcome
<1> HIDE DEF to
<1>4. turn'[t] = to /\ \A u \in Turn : u # t => turn'[u] = turn[u]
  BY <1>1 DEF TurnInv
<1>5. TurnTrue(t)'
  BY <1>2, <1>4 DEF TurnTrue, None
<1> QED
  BY <1>1, <1>2, <1>3, <1>4, <1>5, OneTurnChanges

LEMMA RefuseKeeps ==
  ASSUME TurnInv, NEW t \in Turn, NEW s \in Session, NEW w \in Worker \union {Nobody},
         Refuse(t, s, w)
  PROVE  TurnInv' /\ turn'[t].tx = NoTx /\ \A u \in Turn : u # t => turn'[u] = turn[u]
<1>1. /\ agent' \in [Agent -> {"IDLE", "BUSY"} \union Stopped]
      /\ directives' \subseteq Session /\ overlapped' \subseteq Session \X Worker
  BY DEF Refuse, TurnInv
<1>2. End(t, s, w, "FORMAL_POLICY_REJECTED") \/ End(t, s, w, "THROWN")
  BY DEF Refuse
<1> QED
  BY <1>1, <1>2, EndKeeps

LEMMA SafeHaltKeeps ==
  ASSUME TurnInv, NEW t \in Turn, NEW s \in Session, NEW w \in Worker \union {Nobody},
         SafeHalt(t, s, w)
  PROVE  TurnInv' /\ turn'[t].tx = NoTx /\ \A u \in Turn : u # t => turn'[u] = turn[u]
<1>1. /\ agent' \in [Agent -> {"IDLE", "BUSY"} \union Stopped]
      /\ directives' \subseteq Session /\ overlapped' \subseteq Session \X Worker
  BY DEF SafeHalt, TurnInv, Stopped
<1>2. End(t, s, w, "THROWN")
  BY DEF SafeHalt
<1> QED
  BY <1>1, <1>2, EndKeeps

LEMMA DelegateKeeps ==
  ASSUME TurnInv, NEW t \in Turn, NEW s \in Session, NEW w \in Worker \union {Nobody},
         Delegate(t, s, w)
  PROVE  TurnInv' /\ turn'[t].tx = NoTx /\ \A u \in Turn : u # t => turn'[u] = turn[u]
<1>1. directives' \subseteq Session
  BY DEF Delegate, TurnInv
<1>3. overlapped' \subseteq Session \X Worker
  <2>1. overlapped' = overlapped \union {p \in {<<s, w>>} : \E u \in Turn : At(u, s, w) /\ Busy(u)}
    BY DEF Delegate
  <2>2. ASSUME NEW u \in Turn, At(u, s, w), Busy(u) PROVE w \in Worker
    BY <2>2 DEF At, Busy, TurnInv, TurnTrue
  <2> QED
    BY <2>1, <2>2 DEF TurnInv
<1>4. CASE w = Nobody
  <2>1. agent' = [agent EXCEPT !["strategist"] = "BUSY"] /\ End(t, s, w, "THROWN")
    BY <1>4 DEF Delegate, Delegated, SetAgent
  <2>2. agent' \in [Agent -> {"IDLE", "BUSY"} \union Stopped]
    BY <2>1 DEF TurnInv
  <2> QED
    BY <1>1, <1>3, <2>1, <2>2, EndKeeps
<1>5. CASE w # Nobody
  <2> DEFINE refused == agent[w] \in Stopped
             to == [Idle EXCEPT !.session = s, !.worker = w,
                                !.phase = IF refused THEN "answered" ELSE "working",
                                !.reply = IF refused THEN "REJECTED" ELSE None,
                                !.executing = ~refused]
  <2>1. /\ agent' = [a \in Agent |-> IF a = "strategist" \/ (a = w /\ ~refused)
                                     THEN "BUSY" ELSE agent[a]]
        /\ turn' = [turn EXCEPT ![t] = to]
    BY <1>5 DEF Delegate, Delegated
  <2>2. w \in Worker /\ w \in Agent
    BY <1>5 DEF Agent
  <2>3. agent' \in [Agent -> {"IDLE", "BUSY"} \union Stopped]
    <3>1. agent \in [Agent -> {"IDLE", "BUSY"} \union Stopped]
      BY DEF TurnInv
    <3> QED
      BY <2>1, <3>1
  <2>4. /\ to.session = s /\ to.worker = w /\ to.tx = NoTx /\ to.outcome = None
        /\ to.phase = IF refused THEN "answered" ELSE "working"
        /\ to.reply = IF refused THEN "REJECTED" ELSE None
        /\ (to.executing <=> ~refused)
    BY DEF Idle
  <2>5. to \in TurnType
    BY <2>2, NewTurn DEF TurnType, Phase, Replies, Failed
  <2> HIDE DEF to, refused
  <2>6. turn'[t] = to /\ \A u \in Turn : u # t => turn'[u] = turn[u]
    BY <2>1 DEF TurnInv
  <2>7. TurnTrue(t)'
    <3>1. CASE refused
      BY <2>2, <2>4, <2>6, <3>1 DEF TurnTrue, None
    <3>2. CASE ~refused
      BY <2>2, <2>4, <2>6, <3>2 DEF TurnTrue, None
    <3> QED
      BY <3>1, <3>2
  <2> QED
    BY <1>1, <1>3, <2>1, <2>3, <2>4, <2>5, <2>6, <2>7, OneTurnChanges
<1> QED
  BY <1>4, <1>5

\* What a reply makes of its turn.
LEMMA ReplyKeeps ==
  ASSUME TurnInv, NEW t \in Turn, turn[t].executing,
         NEW reply \in {"SUCCESS", "ERROR"}, NEW output \in Output \union {None},
         NEW tx \in (Kind \union {None}) \X Nat, reply = "SUCCESS" <=> tx # NoTx,
         Reply(t, reply, output, tx),
         agent' = [agent EXCEPT ![turn[t].worker] = "IDLE"], UNCHANGED <<directives, overlapped>>
  PROVE  /\ TurnInv'
         /\ \A u \in Turn : u # t => turn'[u] = turn[u]
         /\ turn'[t] = IF turn[t].phase = "working"
                         THEN [turn[t] EXCEPT !.phase = "answered", !.reply = reply,
                                 !.output = output, !.tx = tx, !.executing = FALSE]
                         ELSE [turn[t] EXCEPT !.executing = FALSE]
<1> DEFINE heard == [turn[t] EXCEPT !.phase = "answered", !.reply = reply,
                                    !.output = output, !.tx = tx, !.executing = FALSE]
           late == [turn[t] EXCEPT !.executing = FALSE]
<1>1. turn[t] \in TurnType /\ TurnTrue(t)
  BY DEF TurnInv
<1>2. /\ agent' \in [Agent -> {"IDLE", "BUSY"} \union Stopped]
      /\ directives' \subseteq Session /\ overlapped' \subseteq Session \X Worker
  BY DEF TurnInv
<1>3. turn' = [turn EXCEPT ![t] = IF turn[t].phase = "working" THEN heard ELSE late]
  BY DEF Reply
<1>4. heard \in TurnType
  BY <1>1 DEF TurnType, Phase, Replies, Failed
<1>5. late \in TurnType
  BY <1>1 DEF TurnType
<1>6. /\ heard.phase = "answered" /\ heard.reply = reply /\ heard.output = output
      /\ heard.tx = tx /\ ~heard.executing /\ heard.session = turn[t].session
      /\ heard.worker = turn[t].worker /\ heard.outcome = turn[t].outcome
  BY <1>1 DEF TurnType
<1>7. /\ late.phase = turn[t].phase /\ late.reply = turn[t].reply /\ late.output = turn[t].output
      /\ late.tx = turn[t].tx /\ ~late.executing /\ late.session = turn[t].session
      /\ late.worker = turn[t].worker /\ late.outcome = turn[t].outcome
  BY <1>1 DEF TurnType
<1> HIDE DEF heard, late
<1>8. CASE turn[t].phase = "working"
  <2>1. turn' = [turn EXCEPT ![t] = heard]
    BY <1>3, <1>8
  <2>2. turn'[t] = heard /\ \A u \in Turn : u # t => turn'[u] = turn[u]
    BY <2>1 DEF TurnInv
  <2>3. TurnTrue(t)'
    BY <1>1, <1>6, <1>8, <2>2 DEF TurnTrue, None
  <2>4. TurnInv'
    BY <1>2, <1>4, <2>1, <2>3, OneTurnChanges
  <2> QED
    BY <1>8, <2>2, <2>4 DEF heard
<1>9. CASE turn[t].phase # "working"
  <2>1. turn' = [turn EXCEPT ![t] = late]
    BY <1>3, <1>9
  <2>2. turn'[t] = late /\ \A u \in Turn : u # t => turn'[u] = turn[u]
    BY <2>1 DEF TurnInv
  <2>3. TurnTrue(t)'
    BY <1>1, <1>7, <1>9, <2>2 DEF TurnTrue, None
  <2>4. TurnInv'
    BY <1>2, <1>5, <2>1, <2>3, OneTurnChanges
  <2> QED
    BY <1>9, <2>2, <2>4 DEF late
<1> QED
  BY <1>8, <1>9

LEMMA TimeoutKeeps ==
  ASSUME TurnInv, NEW t \in Turn, Timeout(t)
  PROVE  /\ TurnInv'
         /\ \A u \in Turn : u # t => turn'[u] = turn[u]
         /\ turn'[t] = [turn[t] EXCEPT !.phase = "answered", !.reply = "YIELDED"]
<1> DEFINE to == [turn[t] EXCEPT !.phase = "answered", !.reply = "YIELDED"]
<1>1. turn[t] \in TurnType /\ TurnTrue(t) /\ turn[t].phase = "working"
  BY DEF TurnInv, Timeout, TimerArmed
<1>2. /\ agent' \in [Agent -> {"IDLE", "BUSY"} \union Stopped]
      /\ directives' \subseteq Session /\ overlapped' \subseteq Session \X Worker
  BY DEF TurnInv, Timeout, SetAgent
<1>3. turn' = [turn EXCEPT ![t] = to]
  BY DEF Timeout, TurnInv
<1>4. to \in TurnType
  BY <1>1 DEF TurnType, Phase, Replies
<1>5. /\ to.phase = "answered" /\ to.reply = "YIELDED" /\ to.output = turn[t].output
      /\ to.tx = turn[t].tx /\ (to.executing <=> turn[t].executing) /\ to.session = turn[t].session
      /\ to.worker = turn[t].worker /\ to.outcome = turn[t].outcome
  BY <1>1 DEF TurnType
<1> HIDE DEF to
<1>6. turn'[t] = to /\ \A u \in Turn : u # t => turn'[u] = turn[u]
  BY <1>3 DEF TurnInv
<1>7. TurnTrue(t)'
  BY <1>1, <1>5, <1>6 DEF TurnTrue, None
<1>8. TurnInv'
  BY <1>2, <1>3, <1>4, <1>7, OneTurnChanges
<1> QED
  BY <1>6, <1>8 DEF to

\* A turn is finished, with SUCCESS only if the audit let its output pass.
LEMMA FinishKeeps ==
  ASSUME TurnInv, NEW t \in Turn, turn[t].phase = "answered", NEW outcome \in Outcome \ {None},
         outcome = "SUCCESS" => turn[t].reply \notin Failed \union {"YIELDED"}
                                /\ turn[t].output \notin Unsafe,
         Finish(t, outcome),
         NEW a \in Agent, NEW status \in {"IDLE", "BUSY"} \union Stopped, Resumed(a, status),
         directives' \subseteq Session, UNCHANGED overlapped
  PROVE  /\ TurnInv'
         /\ \A u \in Turn : u # t => turn'[u] = turn[u]
         /\ turn'[t] = [turn[t] EXCEPT !.phase = "done", !.outcome = outcome]
<1> DEFINE to == [turn[t] EXCEPT !.phase = "done", !.outcome = outcome]
<1>1. turn[t] \in TurnType /\ TurnTrue(t)
  BY DEF TurnInv
<1>2. /\ agent' \in [Agent -> {"IDLE", "BUSY"} \union Stopped]
      /\ directives' \subseteq Session /\ overlapped' \subseteq Session \X Worker
  BY DEF TurnInv, Resumed
<1>3. turn' = [turn EXCEPT ![t] = to]
  BY DEF Finish, TurnInv
<1>4. to \in TurnType
  BY <1>1 DEF TurnType, Phase, Outcome
<1>5. /\ to.phase = "done" /\ to.reply = turn[t].reply /\ to.output = turn[t].output
      /\ to.tx = turn[t].tx /\ (to.executing <=> turn[t].executing) /\ to.session = turn[t].session
      /\ to.worker = turn[t].worker /\ to.outcome = outcome
  BY <1>1 DEF TurnType
<1> HIDE DEF to
<1>6. turn'[t] = to /\ \A u \in Turn : u # t => turn'[u] = turn[u]
  BY <1>3 DEF TurnInv
<1>7. turn[t].reply # None /\ turn[t].reply \in Replies
  BY <1>1 DEF TurnTrue, TurnType
<1>8. outcome = "SUCCESS" => turn[t].reply = "SUCCESS"
  BY <1>7 DEF Replies
<1>9. TurnTrue(t)'
  BY <1>1, <1>5, <1>6, <1>8 DEF TurnTrue, None
<1>10. TurnInv'
  BY <1>2, <1>3, <1>4, <1>9, OneTurnChanges
<1> QED
  BY <1>6, <1>10 DEF to

-----------------------------------------------------------------------------
(* Success.  The transaction of a turn is a row of its own, which stays, and  *)
(* stays committed until the turn itself is intercepted, unless a failed      *)
(* reply in the session makes the mitigation guess.                           *)

TxRecorded(t) ==
  turn[t].tx # NoTx =>
    \E i \in DOMAIN log : /\ log[i].id = turn[t].tx /\ log[i].kind = "exec"
                          /\ log[i].session = turn[t].session
                          /\ log[i].sender = turn[t].worker
                          /\ log[i].output = turn[t].output

TxOwn == \A t, u \in Turn : turn[t].tx # NoTx /\ turn[t].tx = turn[u].tx => t = u

TxKept(t) ==
  /\ turn[t].tx # NoTx /\ turn[t].outcome # "LOOP_INTERCEPTED"
  /\ \A u \in Turn : turn[u].session = turn[t].session => turn[u].reply \notin Failed
  => \E i \in DOMAIN log : log[i].id = turn[t].tx /\ log[i].kind = "exec" /\ log[i].committed

\* The step that made the output of a turn, and an audit after it that passed.
Backed(t) ==
  \E i, j \in DOMAIN log :
    /\ i < j /\ log[i].kind = "exec"
    /\ log[i].id = turn[t].tx /\ log[i].output = turn[t].output
    /\ log[j].kind = "audit" /\ log[j].passed /\ log[j].output = turn[t].output
    /\ {log[i].session, log[j].session} = {turn[t].session}
    /\ turn[t].output \notin Unsafe

BackedInv == /\ \A t \in Turn : TxRecorded(t) /\ TxKept(t)
             /\ TxOwn
             /\ \A t \in Turn : turn[t].outcome = "SUCCESS" => Backed(t)

\* Every step keeps the rows whose identifiers are their own, and what turns have
\* come to.
RowsKept ==
  \A i \in DOMAIN log : log[i].kind \notin Stamped =>
    /\ i \in DOMAIN log'
    /\ log'[i].id = log[i].id /\ log'[i].kind = log[i].kind
    /\ log'[i].session = log[i].session /\ log'[i].sender = log[i].sender
    /\ log'[i].output = log[i].output /\ log'[i].passed = log[i].passed

MarksKept ==
  \A i \in DOMAIN log : log[i].kind \notin Stamped /\ log[i].committed => log'[i].committed

TurnGoesOn(u) ==
  /\ turn[u].tx # NoTx => /\ turn'[u].tx = turn[u].tx
                          /\ turn'[u].session = turn[u].session
                          /\ turn'[u].worker = turn[u].worker
                          /\ turn'[u].output = turn[u].output
  /\ turn[u].reply \in Failed => /\ turn'[u].reply \in Failed
                                 /\ turn'[u].session = turn[u].session
  /\ turn[u].outcome = "LOOP_INTERCEPTED" => turn'[u].outcome = "LOOP_INTERCEPTED"

GoesOn == RowsKept /\ \A u \in Turn : TurnGoesOn(u)

LEMMA TxRecordedStays ==
  ASSUME GoesOn, NEW t \in Turn, TxRecorded(t), turn'[t].tx = turn[t].tx
  PROVE  TxRecorded(t)'
<1> SUFFICES ASSUME turn[t].tx # NoTx
             PROVE  \E i \in DOMAIN log' : /\ log'[i].id = turn'[t].tx /\ log'[i].kind = "exec"
                                           /\ log'[i].session = turn'[t].session
                                           /\ log'[i].sender = turn'[t].worker
                                           /\ log'[i].output = turn'[t].output
  BY DEF TxRecorded, NoTx
<1>1. PICK i \in DOMAIN log : /\ log[i].id = turn[t].tx /\ log[i].kind = "exec"
                              /\ log[i].session = turn[t].session
                              /\ log[i].sender = turn[t].worker
                              /\ log[i].output = turn[t].output
  BY DEF TxRecorded
<1>2. TurnGoesOn(t) /\ RowsKept
  BY DEF GoesOn
<1>3. log[i].kind \notin Stamped
  BY <1>1 DEF Stamped
<1> QED
  BY <1>1, <1>2, <1>3 DEF TurnGoesOn, RowsKept

LEMMA TxKeptStays ==
  ASSUME GoesOn, MarksKept, NEW t \in Turn, TxKept(t), turn'[t].tx = turn[t].tx
  PROVE  TxKept(t)'
<1> SUFFICES ASSUME turn[t].tx # NoTx, turn'[t].outcome # "LOOP_INTERCEPTED",
                    \A u \in Turn : turn'[u].session = turn'[t].session => turn'[u].reply \notin Failed
             PROVE  \E i \in DOMAIN log' : /\ log'[i].id = turn[t].tx
                                           /\ log'[i].kind = "exec" /\ log'[i].committed
  BY DEF TxKept, NoTx, Failed
<1>1. \A u \in Turn : TurnGoesOn(u)
  BY DEF GoesOn
<1>2. \A u \in Turn : turn[u].session = turn[t].session => turn[u].reply \notin Failed
  BY <1>1 DEF TurnGoesOn
<1>3. turn[t].outcome # "LOOP_INTERCEPTED"
  BY <1>1 DEF TurnGoesOn
<1>4. PICK i \in DOMAIN log :
        log[i].id = turn[t].tx /\ log[i].kind = "exec" /\ log[i].committed
  BY <1>2, <1>3 DEF TxKept
<1>5. log[i].kind \notin Stamped
  BY <1>4 DEF Stamped
<1> QED
  BY <1>4, <1>5 DEF GoesOn, RowsKept, MarksKept

\* A turn that had succeeded stays backed.
LEMMA BackedStays ==
  ASSUME TurnInv, GoesOn, NEW t \in Turn, turn[t].outcome = "SUCCESS", Backed(t)
  PROVE  Backed(t)'
<1>1. PICK i, j \in DOMAIN log :
        /\ i < j /\ log[i].kind = "exec"
        /\ log[i].id = turn[t].tx /\ log[i].output = turn[t].output
        /\ log[j].kind = "audit" /\ log[j].passed /\ log[j].output = turn[t].output
        /\ {log[i].session, log[j].session} = {turn[t].session}
        /\ turn[t].output \notin Unsafe
  BY DEF Backed
<1>2. turn[t].tx # NoTx
  BY DEF TurnInv, TurnTrue
<1>3. /\ turn'[t].tx = turn[t].tx /\ turn'[t].session = turn[t].session
      /\ turn'[t].output = turn[t].output
  BY <1>2 DEF GoesOn, TurnGoesOn
<1>4. log[i].kind \notin Stamped /\ log[j].kind \notin Stamped
  BY <1>1 DEF Stamped
<1>5. /\ i \in DOMAIN log' /\ log'[i].id = log[i].id /\ log'[i].session = log[i].session
      /\ log'[i].output = log[i].output /\ log'[i].kind = log[i].kind
      /\ j \in DOMAIN log' /\ log'[j].kind = log[j].kind /\ log'[j].passed = log[j].passed
      /\ log'[j].session = log[j].session /\ log'[j].output = log[j].output
  BY <1>4 DEF GoesOn, RowsKept
<1>6. /\ i < j /\ log'[i].kind = "exec"
      /\ log'[i].id = turn'[t].tx /\ log'[i].output = turn'[t].output
      /\ log'[j].kind = "audit" /\ log'[j].passed /\ log'[j].output = turn'[t].output
      /\ {log'[i].session, log'[j].session} = {turn'[t].session}
      /\ turn'[t].output \notin Unsafe
  BY <1>1, <1>3, <1>5
<1> QED
  BY <1>5, <1>6 DEF Backed

LEMMA BackedQuietly ==
  ASSUME TurnInv, BackedInv, GoesOn, MarksKept,
         \A u \in Turn : /\ turn'[u].tx = turn[u].tx
                         /\ turn'[u].outcome = "SUCCESS" => turn[u].outcome = "SUCCESS"
  PROVE  BackedInv'
<1>1. \A t \in Turn : TxRecorded(t)' /\ TxKept(t)'
  BY TxRecordedStays, TxKeptStays DEF BackedInv
<1>2. TxOwn'
  BY DEF BackedInv, TxOwn, NoTx
<1>3. \A t \in Turn : turn'[t].outcome = "SUCCESS" => Backed(t)'
  BY BackedStays DEF BackedInv
<1> QED
  BY <1>1, <1>2, <1>3 DEF BackedInv

-----------------------------------------------------------------------------
(* Every action keeps the three.                                             *)

LEMMA RecordedGoesOn ==
  ASSUME LogInv, NEW row, Recorded(row)
  PROVE  RowsKept /\ MarksKept
BY RecordedRows DEF RowsKept, MarksKept

LEMMA RollbackGoesOn ==
  ASSUME LogInv, NEW ids, log' = RollbackStep(log, ids)
  PROVE  RowsKept
BY RollbackChanges DEF RowsKept

\* One turn goes on and its transaction stays.
LEMMA BackedByOthers ==
  ASSUME TurnInv, BackedInv, RowsKept, MarksKept, NEW t \in Turn,
         \A u \in Turn : u # t => turn'[u] = turn[u],
         TurnGoesOn(t), turn'[t].tx = turn[t].tx,
         turn'[t].outcome = "SUCCESS" => turn[t].outcome = "SUCCESS"
  PROVE  BackedInv'
<1>1. GoesOn
  BY DEF GoesOn, TurnGoesOn
<1> QED
  BY <1>1, BackedQuietly

\* A turn that is new has no transaction, and has none when it has begun.
LEMMA BackedAtBegin ==
  ASSUME TurnInv, TurnInv', BackedInv, RowsKept, MarksKept, NEW t \in Turn,
         turn[t].phase = "new", turn'[t].tx = NoTx, \A u \in Turn : u # t => turn'[u] = turn[u]
  PROVE  BackedInv'
<1>1. TurnTrue(t) /\ TurnTrue(t)'
  BY DEF TurnInv
<1>2. turn[t].reply = None
  BY <1>1 DEF TurnTrue
<1>3. turn[t].tx = NoTx /\ turn[t].outcome = None
  BY <1>1, <1>2 DEF TurnTrue, None
<1>4. turn'[t].outcome # "SUCCESS"
  BY <1>1 DEF TurnTrue, NoTx
<1>5. TurnGoesOn(t)
  BY <1>2, <1>3 DEF TurnGoesOn, None, Failed
<1> QED
  BY <1>3, <1>4, <1>5, BackedByOthers

LEMMA BackedAtEnd ==
  ASSUME TurnInv, BackedInv, RowsKept, MarksKept, NEW t \in Turn,
         \A u \in Turn : u # t => turn'[u] = turn[u],
         NEW outcome \in Outcome \ {None, "SUCCESS"}, turn[t].phase = "answered",
         turn'[t] = [turn[t] EXCEPT !.phase = "done", !.outcome = outcome]
  PROVE  BackedInv'
<1>1. turn[t] \in TurnType /\ TurnTrue(t)
  BY DEF TurnInv
<1>2. /\ turn'[t].tx = turn[t].tx /\ turn'[t].session = turn[t].session
      /\ turn'[t].worker = turn[t].worker /\ turn'[t].output = turn[t].output
      /\ turn'[t].reply = turn[t].reply /\ turn'[t].outcome = outcome
  BY <1>1 DEF TurnType
<1>3. turn[t].outcome = None
  BY <1>1 DEF TurnTrue
<1>4. TurnGoesOn(t)
  BY <1>2, <1>3 DEF TurnGoesOn, None
<1> QED
  BY <1>2, <1>4, BackedByOthers

LEMMA BackedAtReply ==
  ASSUME TurnInv, BackedInv, RowsKept, MarksKept, NEW t \in Turn,
         \A u \in Turn : u # t => turn'[u] = turn[u],
         \/ /\ turn[t].phase = "working" /\ turn'[t].tx = NoTx
            /\ turn'[t].outcome = turn[t].outcome
         \/ turn'[t] = [turn[t] EXCEPT !.executing = FALSE]
  PROVE  BackedInv'
<1>1. turn[t] \in TurnType /\ TurnTrue(t)
  BY DEF TurnInv
<1>2. CASE turn[t].phase = "working" /\ turn'[t].tx = NoTx /\ turn'[t].outcome = turn[t].outcome
  <2>1. turn[t].reply = None /\ turn[t].outcome = None
    BY <1>1, <1>2 DEF TurnTrue
  <2>2. turn[t].tx = NoTx
    BY <1>1, <2>1 DEF TurnTrue, None
  <2>3. TurnGoesOn(t)
    BY <2>1, <2>2 DEF TurnGoesOn, None, Failed
  <2> QED
    BY <1>2, <2>2, <2>3, BackedByOthers
<1>3. CASE turn'[t] = [turn[t] EXCEPT !.executing = FALSE]
  <2>1. /\ turn'[t].tx = turn[t].tx /\ turn'[t].session = turn[t].session
        /\ turn'[t].worker = turn[t].worker /\ turn'[t].output = turn[t].output
        /\ turn'[t].reply = turn[t].reply /\ turn'[t].outcome = turn[t].outcome
    BY <1>1, <1>3 DEF TurnType
  <2>2. TurnGoesOn(t)
    BY <2>1 DEF TurnGoesOn
  <2> QED
    BY <2>1, <2>2, BackedByOthers
<1> QED
  BY <1>2, <1>3

\* The reply is heard: the row it has just recorded is the transaction of its turn,
\* and of no other turn, for theirs are older rows.
LEMMA BackedAtSuccess ==
  ASSUME LogInv, TurnInv, BackedInv, NEW t \in Turn, turn[t].phase = "working",
         \A u \in Turn : u # t => turn'[u] = turn[u],
         NEW row, Recorded(row), row.kind = "exec", row.session = turn[t].session,
         row.sender = turn[t].worker,
         turn'[t] = [turn[t] EXCEPT !.phase = "answered", !.reply = "SUCCESS",
                                    !.output = row.output, !.tx = row.id, !.executing = FALSE]
  PROVE  BackedInv'
<1>1. turn[t] \in TurnType /\ TurnTrue(t)
  BY DEF TurnInv
<1>2. turn[t].reply = None /\ turn[t].outcome = None
  BY <1>1 DEF TurnTrue
<1>3. turn[t].tx = NoTx
  BY <1>1, <1>2 DEF TurnTrue, None
<1>4. /\ turn'[t].tx = row.id /\ turn'[t].session = turn[t].session
      /\ turn'[t].worker = turn[t].worker /\ turn'[t].output = row.output
      /\ turn'[t].outcome = None
  BY <1>1, <1>2 DEF TurnType
<1>5. RowsKept /\ MarksKept
  BY RecordedGoesOn
<1>6. TurnGoesOn(t)
  BY <1>2, <1>3 DEF TurnGoesOn, None, Failed
<1>7. GoesOn
  BY <1>5, <1>6 DEF GoesOn, TurnGoesOn
<1>8. /\ appends + 1 \in DOMAIN log' /\ log'[appends + 1] = row
      /\ \A i \in DOMAIN log : log[i].id = row.id => row.kind \in Stamped
  BY RecordedRows
<1>9. \A i \in DOMAIN log : log[i].id # row.id
  BY <1>8 DEF Stamped
<1>10. row.committed
  BY DEF Recorded
<1>11. \A u \in Turn : TxRecorded(u)' /\ TxKept(u)'
  <2> TAKE u \in Turn
  <2>1. CASE u = t
    <3>1. /\ log'[appends + 1].id = turn'[u].tx /\ log'[appends + 1].kind = "exec"
          /\ log'[appends + 1].session = turn'[u].session
          /\ log'[appends + 1].sender = turn'[u].worker
          /\ log'[appends + 1].output = turn'[u].output
          /\ log'[appends + 1].committed
      BY <1>4, <1>8, <1>10, <2>1
    <3> QED
      BY <1>8, <3>1 DEF TxRecorded, TxKept
  <2>2. CASE u # t
    <3>1. TxRecorded(u) /\ TxKept(u) /\ turn'[u].tx = turn[u].tx
      BY <2>2 DEF BackedInv
    <3>2. TxRecorded(u)'
      BY <1>7, <3>1, TxRecordedStays
    <3>3. TxKept(u)'
      BY <1>5, <1>7, <3>1, TxKeptStays
    <3> QED
      BY <3>2, <3>3
  <2> QED
    BY <2>1, <2>2
<1>12. TxOwn'
  <2>1. \A u \in Turn : turn[u].tx # NoTx => turn[u].tx # row.id
    BY <1>9 DEF BackedInv, TxRecorded
  <2> SUFFICES ASSUME NEW u \in Turn, NEW v \in Turn,
                      turn'[u].tx # NoTx, turn'[u].tx = turn'[v].tx
               PROVE  u = v
    BY DEF TxOwn, NoTx
  <2>2. CASE u # t /\ v # t
    BY <2>2 DEF BackedInv, TxOwn
  <2>3. CASE u = t \/ v = t
    BY <1>4, <2>1, <2>3
  <2> QED
    BY <2>2, <2>3
<1>13. ASSUME NEW u \in Turn, turn'[u].outcome = "SUCCESS" PROVE Backed(u)'
  <2>1. u # t
    BY <1>4, <1>13 DEF None
  <2>2. turn[u].outcome = "SUCCESS" /\ Backed(u)
    BY <1>13, <2>1 DEF BackedInv
  <2> QED
    BY <1>7, <2>2, BackedStays
<1> QED
  BY <1>11, <1>12, <1>13 DEF BackedInv

\* The audit that lets a turn succeed comes after the step it judges.
LEMMA BackedAtAudit ==
  ASSUME LogInv, TurnInv, BackedInv, NEW t \in Turn, turn[t].reply = "SUCCESS",
         turn[t].phase = "answered",
         \A u \in Turn : u # t => turn'[u] = turn[u], turn[t].output \notin Unsafe,
         NEW row, Recorded(row), row.kind = "audit", row.session = turn[t].session,
         row.output = turn[t].output, row.passed,
         turn'[t] = [turn[t] EXCEPT !.phase = "done", !.outcome = "SUCCESS"]
  PROVE  BackedInv'
<1>1. turn[t] \in TurnType /\ TurnTrue(t)
  BY DEF TurnInv
<1>2. /\ turn'[t].tx = turn[t].tx /\ turn'[t].session = turn[t].session
      /\ turn'[t].worker = turn[t].worker /\ turn'[t].output = turn[t].output
      /\ turn'[t].reply = turn[t].reply /\ turn'[t].outcome = "SUCCESS"
  BY <1>1 DEF TurnType
<1>3. turn[t].outcome = None /\ turn[t].tx # NoTx
  BY <1>1 DEF TurnTrue
<1>4. RowsKept /\ MarksKept
  BY RecordedGoesOn
<1>5. TurnGoesOn(t)
  BY <1>2, <1>3 DEF TurnGoesOn, None
<1>6. GoesOn
  BY <1>4, <1>5 DEF GoesOn, TurnGoesOn
<1>7. \A u \in Turn : turn'[u].tx = turn[u].tx
  BY <1>2
<1>8. \A u \in Turn : TxRecorded(u)' /\ TxKept(u)'
  BY <1>4, <1>6, <1>7, TxRecordedStays, TxKeptStays DEF BackedInv
<1>9. TxOwn'
  BY <1>7 DEF BackedInv, TxOwn, NoTx
<1>10. Backed(t)'
  <2>1. /\ appends \in Nat /\ DOMAIN log \subseteq 1..appends
        /\ appends + 1 \in DOMAIN log' /\ log'[appends + 1] = row
    BY RecordedRows
  <2>2. PICK i \in DOMAIN log : /\ log[i].id = turn[t].tx /\ log[i].kind = "exec"
                                /\ log[i].session = turn[t].session
                                /\ log[i].output = turn[t].output
    BY <1>3 DEF BackedInv, TxRecorded
  <2>3. log[i].kind \notin Stamped
    BY <2>2 DEF Stamped
  <2>4. /\ i \in DOMAIN log' /\ log'[i].id = log[i].id /\ log'[i].kind = log[i].kind
        /\ log'[i].session = log[i].session /\ log'[i].output = log[i].output
    BY <1>4, <2>3 DEF RowsKept
  <2>5. i < appends + 1
    BY <2>1
  <2> QED
    BY <1>2, <2>1, <2>2, <2>4, <2>5 DEF Backed
<1>11. ASSUME NEW u \in Turn, turn'[u].outcome = "SUCCESS" PROVE Backed(u)'
  <2>1. CASE u = t
    BY <1>10, <2>1
  <2>2. CASE u # t
    <3>1. turn[u].outcome = "SUCCESS" /\ Backed(u)
      BY <1>11, <2>2 DEF BackedInv
    <3> QED
      BY <1>6, <3>1, BackedStays
  <2> QED
    BY <2>1, <2>2
<1> QED
  BY <1>8, <1>9, <1>11 DEF BackedInv

\* A mitigation takes back the step of its own turn; where it must guess, a reply of
\* the session had failed.
LEMMA BackedAtMitigation ==
  ASSUME LogInv, TurnInv, BackedInv, NEW t \in Turn, turn[t].phase = "answered",
         turn[t].reply # "YIELDED", log' = RollbackStep(log, Offending(t)),
         \A u \in Turn : u # t => turn'[u] = turn[u],
         turn'[t] = [turn[t] EXCEPT !.phase = "done", !.outcome = "LOOP_INTERCEPTED"]
  PROVE  BackedInv'
<1>1. turn[t] \in TurnType /\ TurnTrue(t)
  BY DEF TurnInv
<1>2. /\ turn'[t].tx = turn[t].tx /\ turn'[t].session = turn[t].session
      /\ turn'[t].worker = turn[t].worker /\ turn'[t].output = turn[t].output
      /\ turn'[t].reply = turn[t].reply /\ turn'[t].outcome = "LOOP_INTERCEPTED"
  BY <1>1 DEF TurnType
<1>3. turn[t].outcome = None
  BY <1>1 DEF TurnTrue
<1>4. RowsKept
  BY RollbackGoesOn
<1>5. TurnGoesOn(t)
  BY <1>2, <1>3 DEF TurnGoesOn, None
<1>6. GoesOn
  BY <1>4, <1>5 DEF GoesOn, TurnGoesOn
<1>7. \A u \in Turn : /\ turn'[u].tx = turn[u].tx /\ turn'[u].reply = turn[u].reply
                       /\ turn'[u].session = turn[u].session
  BY <1>2
<1>8. \A u \in Turn : TxRecorded(u)'
  BY <1>6, <1>7, TxRecordedStays DEF BackedInv
<1>9. ASSUME NEW u \in Turn PROVE TxKept(u)'
  <2> SUFFICES ASSUME turn[u].tx # NoTx, turn'[u].outcome # "LOOP_INTERCEPTED",
                      \A v \in Turn : turn'[v].session = turn'[u].session
                                      => turn'[v].reply \notin Failed
               PROVE  \E i \in DOMAIN log' : /\ log'[i].id = turn'[u].tx
                                             /\ log'[i].kind = "exec" /\ log'[i].committed
    BY <1>7 DEF TxKept, NoTx, Failed
  <2>1. u # t /\ turn'[u] = turn[u] /\ turn'[u].tx # turn[t].tx
    BY <1>2 DEF BackedInv, TxOwn
  <2>2. \A v \in Turn : turn[v].session = turn[u].session => turn[v].reply \notin Failed
    BY <1>7
  <2>3. PICK i \in DOMAIN log :
          log[i].id = turn[u].tx /\ log[i].kind = "exec" /\ log[i].committed
    BY <2>1, <2>2 DEF BackedInv, TxKept
  <2>4. log[i].session = turn[u].session
    BY <2>3 DEF BackedInv, TxRecorded, LogInv, IdsDiffer
  <2>5. log[i].id \notin Offending(t)
    <3>1. CASE turn[t].tx # NoTx
      BY <2>1, <2>3, <3>1 DEF Offending
    <3>2. CASE turn[t].tx = NoTx
      <4>1. turn[t].reply \in Failed
        BY <1>1, <3>2 DEF TurnTrue, TurnType, Replies
      <4>2. turn[t].session # turn[u].session
        BY <2>2, <4>1
      <4>3. ASSUME NEW j \in LatestTransaction(log, turn[t].session)
            PROVE  j \in DOMAIN log /\ log[j].session = turn[t].session
        <5>1. CommittedOf(log, turn[t].session) \in SUBSET (1..appends) /\ appends \in Nat
          BY DEF CommittedOf, RowsOf, LogInv, LogTypes
        <5>2. j \in CommittedOf(log, turn[t].session)
          BY <4>3, <5>1, PlacesOfRows DEF LatestTransaction
        <5> QED
          BY <5>2 DEF CommittedOf, RowsOf
      <4> SUFFICES ASSUME NEW j \in LatestTransaction(log, turn[t].session),
                          log[j].id = log[i].id
                   PROVE  FALSE
        BY <3>2 DEF Offending
      <4>4. j = i
        BY <4>3 DEF LogInv, IdsDiffer
      <4> QED
        BY <2>4, <4>2, <4>3, <4>4
    <3> QED
      BY <3>1, <3>2
  <2>6. /\ i \in DOMAIN log' /\ log'[i].id = log[i].id /\ log'[i].kind = log[i].kind
        /\ log'[i].committed
    BY <2>3, <2>5, RollbackChanges
  <2> QED
    BY <2>1, <2>3, <2>6
<1>10. TxOwn'
  BY <1>7 DEF BackedInv, TxOwn, NoTx
<1>11. ASSUME NEW u \in Turn, turn'[u].outcome = "SUCCESS" PROVE Backed(u)'
  <2>1. u # t
    BY <1>2, <1>11
  <2>2. turn[u].outcome = "SUCCESS" /\ Backed(u)
    BY <1>11, <2>1 DEF BackedInv
  <2> QED
    BY <1>6, <2>2, BackedStays
<1> QED
  BY <1>8, <1>9, <1>10, <1>11 DEF BackedInv

-----------------------------------------------------------------------------
(* Loops.  A pair of a session and a worker is alone while its turns come one *)
(* at a time; what it has committed and no turn waits to have judged holds no *)
(* loop.  Of a pair whose turns were answered in time no row gives way.       *)

Waits(t, s, w) == At(t, s, w) /\ turn[t].phase = "answered" /\ turn[t].tx # NoTx

Pending(s, w) == {turn[t].tx : t \in {u \in Turn : Waits(u, s, w)}}

Judged(s, w) == {i \in StepsOf(log, s, w) : log[i].id \notin Pending(s, w)}

OneAtATime ==
  \A s \in Session, w \in Worker : <<s, w>> \notin overlapped =>
    \A t, u \in Turn : At(t, s, w) /\ At(u, s, w) /\ Busy(t) /\ Busy(u) => t = u

InTime(s, w) ==
  /\ <<s, w>> \notin overlapped
  /\ \A t \in Turn : At(t, s, w) => turn[t].reply # "YIELDED"

\* LoopAmong in a given log.
LoopIn(l, steps) ==
  LET recent == RecentTransactions(steps, Window)
  IN \E i, k \in recent :
       LET run == {j \in recent : i <= j /\ j <= k}
       IN /\ Cardinality(run) = Successive
          /\ \A j \in run : l[j].kind = "exec" /\ l[j].output = l[i].output

NoLoop(s, w) == ~LoopIn(log, Judged(s, w))

\* A row whose identifier is a time is of the strategist, or of a turn that yielded.
StampedRow(row) ==
  row.kind \in Stamped =>
    \/ row.sender = "strategist"
    \/ \E t \in Turn : At(t, row.session, row.sender) /\ turn[t].reply = "YIELDED"

StampsKnown == \A i \in DOMAIN log : StampedRow(log[i])

LoopInv ==
  /\ OneAtATime /\ StampsKnown
  /\ \A s \in Session, w \in Worker : InTime(s, w) => NoLoop(s, w)

LEMMA RecentPart ==
  ASSUME NEW steps, NEW limit
  PROVE  RecentTransactions(steps, limit) \in SUBSET steps
BY DEF RecentTransactions

LEMMA LoopCarriesOver ==
  ASSUME NEW l, NEW m, NEW steps, LoopIn(l, steps),
         \A i \in steps : m[i].kind = l[i].kind /\ m[i].output = l[i].output
  PROVE  LoopIn(m, steps)
<1> DEFINE recent == RecentTransactions(steps, Window)
<1>1. recent \in SUBSET steps
  BY RecentPart
<1>2. \A i \in recent : m[i].kind = l[i].kind /\ m[i].output = l[i].output
  BY <1>1
<1>3. PICK i, k \in recent :
        LET run == {j \in recent : i <= j /\ j <= k}
        IN /\ Cardinality(run) = Successive
           /\ \A j \in run : l[j].kind = "exec" /\ l[j].output = l[i].output
  BY DEF LoopIn
<1> HIDE DEF recent
<1>4. /\ Cardinality({j \in recent : i <= j /\ j <= k}) = Successive
      /\ \A j \in {x \in recent : i <= x /\ x <= k} : m[j].kind = "exec" /\ m[j].output = m[i].output
  BY <1>2, <1>3
<1> QED
  BY <1>4 DEF LoopIn, recent

LEMMA SameLoop ==
  ASSUME NEW l, NEW m, NEW steps,
         \A i \in steps : m[i].kind = l[i].kind /\ m[i].output = l[i].output
  PROVE  LoopIn(m, steps) <=> LoopIn(l, steps)
BY LoopCarriesOver

LEMMA FewerInPart ==
  ASSUME NEW n \in Nat, NEW all \in SUBSET (1..n), NEW part \in SUBSET all,
         NEW limit \in Nat, Cardinality(all) <= limit
  PROVE  Cardinality(part) <= limit
<1>1. IsFiniteSet(1..n)
  BY FS_Interval
<1>2. IsFiniteSet(all) /\ Cardinality(all) \in Nat
  BY <1>1, FS_Subset, FS_CardinalityType
<1>3. IsFiniteSet(part) /\ Cardinality(part) \in Nat /\ Cardinality(part) <= Cardinality(all)
  BY <1>2, FS_Subset, FS_CardinalityType
<1> QED
  BY <1>2, <1>3

\* A later row that no executor made completes no loop.
LEMMA NoLoopWithOther ==
  ASSUME NEW n \in Nat, NEW steps \in SUBSET (1..n), NEW l, ~LoopIn(l, steps),
         l[n + 1].kind # "exec"
  PROVE  ~LoopIn(l, steps \union {n + 1})
<1> DEFINE more == steps \union {n + 1}
           recent == RecentTransactions(steps, Window)
           after == RecentTransactions(more, Window)
<1> SUFFICES ASSUME LoopIn(l, more) PROVE FALSE
  OBVIOUS
<1>1. \A j \in more : j \in 1..n + 1
  OBVIOUS
<1>4. PICK i, k \in after :
        LET run == {j \in after : i <= j /\ j <= k}
        IN /\ Cardinality(run) = Successive
           /\ \A j \in run : l[j].kind = "exec" /\ l[j].output = l[i].output
  BY DEF LoopIn
<1> DEFINE run == {j \in after : i <= j /\ j <= k}
<1>5. Cardinality(run) = 3
  BY <1>4 DEF Successive
<1>6. /\ \A j \in run : l[j].kind = "exec" /\ l[j].output = l[i].output
      /\ after \in SUBSET more /\ \A j \in run : i <= j /\ j <= k /\ j \in after
  BY <1>4, RecentPart
<1>7. i \in more /\ k \in more /\ i <= k /\ i \in run /\ k \in run
  <2>1. run # {}
    <3> SUFFICES ASSUME run = {} PROVE FALSE
      OBVIOUS
    <3> HIDE DEF run
    <3> QED
      BY <1>5, FS_EmptySet
  <2>2. PICK x : x \in run
    BY <2>1
  <2>3. i \in more /\ k \in more /\ x \in more /\ i <= x /\ x <= k
    BY <1>6, <2>2
  <2>4. i <= k /\ i <= i /\ k <= k
    <3> HIDE DEF run, more, after
    <3> QED
      BY <1>1, <2>3
  <2> QED
    BY <2>3, <2>4
<1>8. \A j \in run : j \in steps
  <2>1. k # n + 1
    <3> HIDE DEF run
    <3> QED
      BY <1>6, <1>7
  <2> TAKE j \in run
  <2>2. j \in more /\ j <= k
    BY <1>6
  <2>3. k \in 1..n + 1 /\ j \in 1..n + 1
    BY <1>1, <1>7, <2>2
  <2>4. j # n + 1
    <3> HIDE DEF run, more
    <3> QED
      BY <2>1, <2>2, <2>3
  <2> QED
    BY <2>2, <2>4
<1>9. ASSUME NEW j \in steps, i <= j PROVE j \in recent
  <2>1. Cardinality({x \in more : x >= i}) <= 5
    BY <1>4 DEF RecentTransactions, Window
  <2>2. /\ more \in SUBSET (1..n + 1) /\ steps \in SUBSET more
        /\ j \in more /\ n + 1 \in Nat
    BY <1>1
  <2>3. i \in Int /\ j \in Int /\ 5 \in Nat
    BY <1>1, <1>7, <2>2
  <2> HIDE DEF more, after
  <2> DEFINE all  == {x \in more : x >= i}
             part == {x \in steps : x >= j}
  <2>4. ASSUME NEW x \in steps, x >= j PROVE x >= i
    <3>1. x \in Int
      BY <1>1, <2>2
    <3> QED
      BY <1>9, <2>3, <2>4, <3>1
  <2>5. all \in SUBSET (1..n + 1) /\ part \in SUBSET all
    BY <2>2, <2>4
  <2>6. Cardinality(part) <= 5
    <3> HIDE DEF all, part
    <3>1. Cardinality(all) <= 5
      BY <2>1 DEF all
    <3> QED
      BY <2>2, <2>3, <2>5, <3>1, FewerInPart
  <2> QED
    BY <2>6 DEF RecentTransactions, Window
<1>10. run = {j \in recent : i <= j /\ j <= k}
  <2>1. ASSUME NEW j \in run PROVE j \in recent /\ i <= j /\ j <= k
    BY <1>6, <1>8, <1>9
  <2>2. ASSUME NEW j \in recent, i <= j, j <= k PROVE j \in after
    <3>1. Cardinality({x \in more : x >= i}) <= 5
      BY <1>4 DEF RecentTransactions, Window
    <3>2. /\ more \in SUBSET (1..n + 1) /\ more \in SUBSET more
          /\ j \in more /\ n + 1 \in Nat
      BY <1>1, RecentPart
    <3>3. i \in Int /\ j \in Int /\ 5 \in Nat
      BY <1>1, <1>7, <3>2
    <3> HIDE DEF more, recent
    <3> DEFINE all  == {x \in more : x >= i}
               part == {x \in more : x >= j}
    <3>4. ASSUME NEW x \in more, x >= j PROVE x >= i
      <4>1. x \in Int
        BY <3>2
      <4> QED
        BY <2>2, <3>3, <3>4, <4>1
    <3>5. all \in SUBSET (1..n + 1) /\ part \in SUBSET all
      BY <3>2, <3>4
    <3>6. Cardinality(part) <= 5
      <4> HIDE DEF all, part
      <4>1. Cardinality(all) <= 5
        BY <3>1 DEF all
      <4> QED
        BY <3>2, <3>3, <3>5, <4>1, FewerInPart
    <3> QED
      BY <3>2, <3>6 DEF RecentTransactions, Window
  <2> HIDE DEF recent, after
  <2> QED
    BY <2>1, <2>2
<1>11. i \in recent /\ k \in recent
  <2>1. i \in steps /\ k \in steps /\ i <= i /\ i <= k
    BY <1>6, <1>7, <1>8
  <2> HIDE DEF recent
  <2> QED
    BY <1>9, <2>1
<1>12. /\ Cardinality({j \in recent : i <= j /\ j <= k}) = Successive
       /\ \A j \in {x \in recent : i <= x /\ x <= k} : l[j].kind = "exec" /\ l[j].output = l[i].output
  BY <1>5, <1>6, <1>10 DEF Successive
<1> HIDE DEF recent
<1>13. LoopIn(l, steps)
  BY <1>11, <1>12 DEF LoopIn, recent
<1> QED
  BY <1>13

\* What has yielded stays so.
YieldsStay ==
  \A u \in Turn : turn[u].reply = "YIELDED" =>
    /\ turn'[u].reply = "YIELDED"
    /\ turn'[u].session = turn[u].session /\ turn'[u].worker = turn[u].worker

LEMMA StampedStays ==
  ASSUME YieldsStay, NEW old, NEW new, StampedRow(old),
         new.kind = old.kind, new.session = old.session, new.sender = old.sender
  PROVE  StampedRow(new)'
BY DEF YieldsStay, StampedRow, At

LEMMA StampsWhenRecorded ==
  ASSUME LogInv, StampsKnown, YieldsStay, NEW row, Recorded(row), StampedRow(row)'
  PROVE  StampsKnown'
<1>1. /\ log'[appends + 1] = row
      /\ \A i \in DOMAIN log' : i # appends + 1 => i \in DOMAIN log /\ log'[i] = log[i]
  BY RecordedRows
<1> SUFFICES ASSUME NEW i \in DOMAIN log' PROVE StampedRow(log[i])'
  BY DEF StampsKnown
<1>2. PICK new : new = log'[i]
  OBVIOUS
<1>3. StampedRow(new)'
  <2>1. CASE i = appends + 1
    BY <1>1, <1>2, <2>1
  <2>2. CASE i # appends + 1
    <3>1. StampedRow(log[i]) /\ new = log[i]
      BY <1>1, <1>2, <2>2 DEF StampsKnown
    <3>2. PICK old : old = log[i]
      OBVIOUS
    <3>3. StampedRow(old)
      BY <3>1, <3>2
    <3> QED
      BY <3>1, <3>2, <3>3, StampedStays
  <2> QED
    BY <2>1, <2>2
<1> QED
  BY <1>2, <1>3 DEF StampedRow

LEMMA StampsWhenKept ==
  ASSUME StampsKnown, YieldsStay, DOMAIN log' = DOMAIN log,
         \A i \in DOMAIN log : /\ log'[i].kind = log[i].kind /\ log'[i].session = log[i].session
                               /\ log'[i].sender = log[i].sender
  PROVE  StampsKnown'
<1> SUFFICES ASSUME NEW i \in DOMAIN log PROVE StampedRow(log[i])'
  BY DEF StampsKnown
<1>1. PICK new : new = log'[i]
  OBVIOUS
<1>2. PICK old : old = log[i]
  OBVIOUS
<1>3. StampedRow(old)
  BY <1>2 DEF StampsKnown
<1>4. StampedRow(new)'
  BY <1>1, <1>2, <1>3, StampedStays
<1> QED
  BY <1>1, <1>4 DEF StampedRow

\* None of the steps of a pair that was answered in time can give way.
OwnSteps(s, w) == \A i \in StepsOf(log, s, w) : log[i].kind \notin Stamped

LEMMA StepsAreOwn ==
  ASSUME LoopInv, NEW s, NEW w \in Worker, InTime(s, w)
  PROVE  OwnSteps(s, w)
<1> SUFFICES ASSUME NEW i \in StepsOf(log, s, w), log[i].kind \in Stamped PROVE FALSE
  BY DEF OwnSteps
<1>1. i \in DOMAIN log /\ log[i].session = s /\ log[i].sender = w
  BY DEF StepsOf, CommittedOf, RowsOf
<1>2. w # "strategist"
  BY FlywheelAssumption
<1>3. StampedRow(log[i])
  BY <1>1 DEF LoopInv, StampsKnown
<1>4. PICK t \in Turn : At(t, s, w) /\ turn[t].reply = "YIELDED"
  BY <1>1, <1>2, <1>3 DEF StampedRow
<1> QED
  BY <1>4 DEF InTime

\* Nothing of a pair changes, or only a row is added that no executor made.
LEMMA NoLoopStays ==
  ASSUME NEW s, NEW w, NoLoop(s, w), Judged(s, w)' = Judged(s, w),
         \A i \in StepsOf(log, s, w) : log'[i].kind = log[i].kind /\ log'[i].output = log[i].output
  PROVE  NoLoop(s, w)'
<1>1. \A i \in Judged(s, w) : log'[i].kind = log[i].kind /\ log'[i].output = log[i].output
  BY DEF Judged
<1> QED
  BY <1>1, SameLoop DEF NoLoop

LEMMA StepsWhenRecorded ==
  ASSUME LogInv, NEW row, Recorded(row), NEW s, NEW w, OwnSteps(s, w)
  PROVE  /\ StepsOf(log', s, w) = StepsOf(log, s, w) \union
              {i \in {appends + 1} : row.session = s /\ row.sender = w}
         /\ StepsOf(log, s, w) \in SUBSET (1..appends)
         /\ \A i \in StepsOf(log, s, w) : i \in DOMAIN log /\ log'[i] = log[i]
         /\ appends \in Nat /\ log'[appends + 1] = row
<1>1. /\ appends \in Nat /\ DOMAIN log \subseteq 1..appends /\ appends + 1 \notin DOMAIN log
      /\ appends + 1 \in DOMAIN log' /\ log'[appends + 1] = row
      /\ \A i \in DOMAIN log : log[i].id # row.id => i \in DOMAIN log' /\ log'[i] = log[i]
      /\ \A i \in DOMAIN log' : i # appends + 1 =>
           i \in DOMAIN log /\ log[i].id # row.id /\ log'[i] = log[i]
      /\ \A i \in DOMAIN log : log[i].id = row.id =>
           log[i].kind = row.kind /\ row.kind \in Stamped
  BY RecordedRows
<1>2. row.committed
  BY DEF Recorded
<1>3. StepsOf(log, s, w) \in SUBSET DOMAIN log
  BY DEF StepsOf, CommittedOf, RowsOf
<1>4. \A i \in StepsOf(log, s, w) : i \in DOMAIN log' /\ log'[i] = log[i]
  BY <1>1, <1>3 DEF OwnSteps
<1>5. ASSUME NEW i
      PROVE  i \in StepsOf(log', s, w) <=>
               i \in StepsOf(log, s, w) \/ (i = appends + 1 /\ row.session = s /\ row.sender = w)
  <2> DEFINE In(l) == /\ i \in DOMAIN l /\ l[i].session = s
                      /\ l[i].committed /\ l[i].sender = w
  <2>1. (i \in StepsOf(log, s, w) <=> In(log)) /\ (i \in StepsOf(log', s, w) <=> In(log'))
    BY DEF StepsOf, CommittedOf, RowsOf
  <2>2. CASE i = appends + 1
    BY <1>1, <1>2, <2>1, <2>2
  <2>3. CASE i # appends + 1
    <3>1. In(log') => In(log)
      BY <1>1, <2>3
    <3>2. In(log) => In(log')
      BY <1>4, <2>1
    <3> QED
      BY <2>1, <2>3, <3>1, <3>2
  <2> QED
    BY <2>2, <2>3
<1>6. StepsOf(log', s, w) = StepsOf(log, s, w) \union
              {i \in {appends + 1} : row.session = s /\ row.sender = w}
  BY <1>5
<1> QED
  BY <1>1, <1>3, <1>4, <1>6

LEMMA NoLoopWhenRecorded ==
  ASSUME LogInv, NEW row, Recorded(row), NEW s, NEW w, NoLoop(s, w), OwnSteps(s, w),
         Pending(s, w)' = Pending(s, w),
         row.session = s /\ row.sender = w => row.kind # "exec"
  PROVE  NoLoop(s, w)'
<1>1. /\ StepsOf(log', s, w) = StepsOf(log, s, w) \union
           {i \in {appends + 1} : row.session = s /\ row.sender = w}
      /\ StepsOf(log, s, w) \in SUBSET (1..appends)
      /\ \A i \in StepsOf(log, s, w) : i \in DOMAIN log /\ log'[i] = log[i]
      /\ appends \in Nat /\ log'[appends + 1] = row
  BY StepsWhenRecorded
<1>2. Judged(s, w) \in SUBSET StepsOf(log, s, w)
  BY DEF Judged
<1>3. CASE Judged(s, w)' = Judged(s, w)
  BY <1>1, <1>3, NoLoopStays
<1>4. CASE Judged(s, w)' # Judged(s, w)
  <2>1. \A i : i \in Judged(s, w)' <=>
          i \in Judged(s, w) \/ /\ i = appends + 1 /\ row.session = s /\ row.sender = w
                                /\ row.id \notin Pending(s, w)
    BY <1>1 DEF Judged
  <2>2. row.session = s /\ row.sender = w /\ Judged(s, w)' = Judged(s, w) \union {appends + 1}
    BY <1>4, <2>1
  <2>3. ~LoopIn(log', Judged(s, w))
    <3>1. \A i \in Judged(s, w) : log'[i].kind = log[i].kind /\ log'[i].output = log[i].output
      BY <1>1, <1>2
    <3> QED
      BY <3>1, SameLoop DEF NoLoop
  <2>4. log'[appends + 1].kind # "exec" /\ Judged(s, w) \in SUBSET (1..appends)
    BY <1>1, <1>2, <2>2
  <2>5. ~LoopIn(log', Judged(s, w) \union {appends + 1})
    BY <1>1, <2>3, <2>4, NoLoopWithOther
  <2> QED
    BY <2>2, <2>5 DEF NoLoop
<1> QED
  BY <1>3, <1>4

LEMMA PendingSame ==
  ASSUME NEW t \in Turn, \A u \in Turn : u # t => turn'[u] = turn[u], NEW s, NEW w,
         ~Waits(t, s, w), ~Waits(t, s, w)'
  PROVE  Pending(s, w)' = Pending(s, w)
<1>1. \A u \in Turn : Waits(u, s, w) => Waits(u, s, w)' /\ turn'[u].tx = turn[u].tx
  BY DEF Waits, At, NoTx
<1>2. \A u \in Turn : Waits(u, s, w)' => Waits(u, s, w) /\ turn'[u].tx = turn[u].tx
  BY DEF Waits, At, NoTx
<1>3. \A id \in Pending(s, w) : id \in Pending(s, w)'
  BY <1>1 DEF Pending
<1>4. \A id \in Pending(s, w)' : id \in Pending(s, w)
  BY <1>2 DEF Pending
<1> QED
  BY <1>3, <1>4

LEMMA PendingIsRecorded ==
  ASSUME BackedInv, NEW s, NEW w, NEW id \in Pending(s, w)
  PROVE  \E i \in DOMAIN log : log[i].id = id /\ log[i].session = s /\ log[i].sender = w
BY DEF Pending, Waits, At, BackedInv, TxRecorded

\* A turn goes on within its session and worker.
LEMMA LoopInvStays ==
  ASSUME TurnInv, LoopInv, NEW t \in Turn, \A u \in Turn : u # t => turn'[u] = turn[u],
         UNCHANGED overlapped,
         turn'[t].session = turn[t].session, turn'[t].worker = turn[t].worker,
         Busy(t)' => Busy(t), turn[t].reply = "YIELDED" => turn'[t].reply = "YIELDED",
         StampsKnown',
         \A s \in Session, w \in Worker :
           InTime(s, w)' /\ OwnSteps(s, w) /\ NoLoop(s, w) => NoLoop(s, w)'
  PROVE  LoopInv'
<1>1. \A u \in Turn : \A s, w : At(u, s, w)' <=> At(u, s, w)
  BY DEF At
<1>2. \A u \in Turn : Busy(u)' => Busy(u)
  BY DEF Busy
<1>3. OneAtATime'
  BY <1>1, <1>2 DEF LoopInv, OneAtATime
<1>4. \A s \in Session, w \in Worker : InTime(s, w)' => InTime(s, w)
  BY <1>1 DEF InTime
<1>5. \A s \in Session, w \in Worker : InTime(s, w) => OwnSteps(s, w) /\ NoLoop(s, w)
  BY StepsAreOwn DEF LoopInv
<1> QED
  BY <1>3, <1>4, <1>5 DEF LoopInv

LEMMA YieldsOfOthersStay ==
  ASSUME NEW t \in Turn, \A u \in Turn : u # t => turn'[u] = turn[u],
         turn[t].reply = "YIELDED" =>
           /\ turn'[t].reply = "YIELDED"
           /\ turn'[t].session = turn[t].session /\ turn'[t].worker = turn[t].worker
  PROVE  YieldsStay
BY DEF YieldsStay

LEMMA LoopAtReply ==
  ASSUME LogInv, TurnInv, LoopInv, NEW t \in Turn,
         \A u \in Turn : u # t => turn'[u] = turn[u], UNCHANGED <<log, overlapped>>,
         turn'[t].session = turn[t].session, turn'[t].worker = turn[t].worker,
         Busy(t)' => Busy(t), turn[t].reply = "YIELDED" => turn'[t].reply = "YIELDED",
         turn[t].tx = NoTx, turn'[t].tx = NoTx
  PROVE  LoopInv'
<1>1. \A s \in Session, w \in Worker : NoLoop(s, w) => NoLoop(s, w)'
  <2> TAKE s \in Session, w \in Worker
  <2>1. Pending(s, w)' = Pending(s, w)
    <3>1. ~Waits(t, s, w) /\ ~Waits(t, s, w)'
      BY DEF Waits, NoTx
    <3> QED
      BY <3>1, PendingSame
  <2>2. Judged(s, w)' = Judged(s, w)
    BY <2>1 DEF Judged
  <2> QED
    BY <2>1, <2>2 DEF NoLoop
<1>2. StampsKnown'
  <2>1. YieldsStay
    BY YieldsOfOthersStay
  <2> QED
    BY <2>1, StampsWhenKept DEF LoopInv
<1> QED
  BY <1>1, <1>2, LoopInvStays

LEMMA LoopAtRecord ==
  ASSUME LogInv, TurnInv, LoopInv, NEW t \in Turn,
         \A u \in Turn : u # t => turn'[u] = turn[u], UNCHANGED overlapped,
         NEW row, Recorded(row),
         turn'[t].session = turn[t].session, turn'[t].worker = turn[t].worker,
         Busy(t)' => Busy(t), turn[t].reply = "YIELDED" => turn'[t].reply = "YIELDED",
         turn[t].tx = NoTx, turn'[t].tx = NoTx,
         row.kind = "exec" => /\ row.session = turn[t].session /\ row.sender = turn[t].worker
                              /\ turn'[t].reply = "YIELDED",
         StampedRow(row)'
  PROVE  LoopInv'
<1>1. ASSUME NEW s \in Session, NEW w \in Worker, InTime(s, w)', OwnSteps(s, w), NoLoop(s, w)
      PROVE  NoLoop(s, w)'
  <2>1. Pending(s, w)' = Pending(s, w)
    <3>1. ~Waits(t, s, w) /\ ~Waits(t, s, w)'
      BY DEF Waits, NoTx
    <3> QED
      BY <3>1, PendingSame
  <2>2. row.session = s /\ row.sender = w => row.kind # "exec"
    BY <1>1 DEF InTime, At
  <2> QED
    BY <1>1, <2>1, <2>2, NoLoopWhenRecorded
<1>2. StampsKnown'
  <2>1. YieldsStay
    BY YieldsOfOthersStay
  <2> QED
    BY <2>1, StampsWhenRecorded DEF LoopInv
<1> QED
  BY <1>1, <1>2, LoopInvStays

\* A turn begins: either it is the only one of its pair, or the pair is alone no more.
LEMMA LoopAtBegin ==
  ASSUME LogInv, TurnInv, LoopInv, NEW t \in Turn, turn[t].phase = "new",
         \A u \in Turn : u # t => turn'[u] = turn[u], turn'[t].tx = NoTx,
         overlapped \subseteq overlapped',
         \A s \in Session, w \in Worker :
           At(t, s, w)' /\ Busy(t)' /\ <<s, w>> \notin overlapped'
           => \A u \in Turn : ~(At(u, s, w) /\ Busy(u)),
         \/ log' = log
         \/ \E row : /\ Recorded(row) /\ row.kind # "exec"
                     /\ row.kind \in Stamped => row.sender = "strategist"
  PROVE  LoopInv'
<1>1. /\ turn[t].reply = None /\ ~Busy(t) /\ TurnTrue(t)
  BY DEF TurnInv, TurnTrue, Busy
<1>2. \A u \in Turn : u # t => /\ \A s, w : At(u, s, w)' <=> At(u, s, w)
                               /\ Busy(u)' <=> Busy(u)
  BY DEF At, Busy
<1>3. OneAtATime'
  <2> SUFFICES ASSUME NEW s \in Session, NEW w \in Worker, <<s, w>> \notin overlapped',
                      NEW u \in Turn, NEW v \in Turn,
                      At(u, s, w)', At(v, s, w)', Busy(u)', Busy(v)'
               PROVE  u = v
    BY DEF OneAtATime
  <2>1. <<s, w>> \notin overlapped
    OBVIOUS
  <2>2. CASE u # t /\ v # t
    BY <1>2, <2>1, <2>2 DEF LoopInv, OneAtATime
  <2>3. CASE u = t
    BY <1>2, <2>3
  <2>4. CASE v = t
    BY <1>2, <2>4
  <2> QED
    BY <2>2, <2>3, <2>4
<1>4. ASSUME NEW s \in Session, NEW w \in Worker, InTime(s, w)' PROVE NoLoop(s, w)'
  <2>1. InTime(s, w)
    BY <1>1, <1>2, <1>4 DEF InTime, None
  <2>2. NoLoop(s, w) /\ OwnSteps(s, w)
    BY <2>1, StepsAreOwn DEF LoopInv
  <2>3. Pending(s, w)' = Pending(s, w)
    <3>1. ~Waits(t, s, w) /\ ~Waits(t, s, w)'
      BY DEF Waits, NoTx
    <3> QED
      BY <3>1, PendingSame
  <2>4. CASE log' = log
    <3>1. Judged(s, w)' = Judged(s, w)
      BY <2>3, <2>4 DEF Judged
    <3> QED
      BY <2>2, <2>4, <3>1 DEF NoLoop
  <2>5. CASE \E row : Recorded(row) /\ row.kind # "exec"
    BY <2>2, <2>3, <2>5, NoLoopWhenRecorded
  <2> QED
    BY <2>4, <2>5
<1>5. StampsKnown'
  <2>1. YieldsStay
    BY <1>1, YieldsOfOthersStay DEF None
  <2>2. CASE log' = log
    BY <2>1, <2>2, StampsWhenKept DEF LoopInv
  <2>3. ASSUME NEW row, Recorded(row), row.kind \in Stamped => row.sender = "strategist"
        PROVE  StampsKnown'
    <3>1. StampedRow(row)'
      BY <2>3 DEF StampedRow
    <3> QED
      BY <2>1, <2>3, <3>1, StampsWhenRecorded DEF LoopInv
  <2> QED
    BY <2>2, <2>3
<1> QED
  BY <1>3, <1>4, <1>5 DEF LoopInv

\* A reply that is heard leaves its step to be judged.
LEMMA LoopAtSuccess ==
  ASSUME LogInv, TurnInv, LoopInv, NEW t \in Turn,
         \A u \in Turn : u # t => turn'[u] = turn[u], UNCHANGED overlapped,
         NEW row, Recorded(row), row.kind = "exec", turn[t].phase = "working",
         turn'[t].session = turn[t].session, turn'[t].worker = turn[t].worker,
         turn'[t].tx = row.id, turn'[t].phase = "answered",
         row.session = turn[t].session, row.sender = turn[t].worker
  PROVE  LoopInv'
<1>1. turn[t].reply = None /\ Busy(t)
  BY DEF TurnInv, TurnTrue, Busy
<1>2. row.id # NoTx
  <2>1. row.id \in Kind \X Nat
    BY DEF Recorded, RowType
  <2> QED
    BY <2>1 DEF Kind, NoTx, None
<1>3. ASSUME NEW s \in Session, NEW w \in Worker, OwnSteps(s, w), NoLoop(s, w)
      PROVE  NoLoop(s, w)'
  <2>1. ~Waits(t, s, w)
    BY DEF Waits
  <2>2. CASE ~At(t, s, w)
    <3>1. ~Waits(t, s, w)'
      BY <2>2 DEF Waits, At
    <3>2. Pending(s, w)' = Pending(s, w)
      BY <2>1, <3>1, PendingSame
    <3>3. row.session = s /\ row.sender = w => row.kind # "exec"
      BY <2>2 DEF At
    <3> QED
      BY <1>3, <3>2, <3>3, NoLoopWhenRecorded
  <2>3. CASE At(t, s, w)
    <3>1. Waits(t, s, w)' /\ \A u \in Turn : u # t => (Waits(u, s, w)' <=> Waits(u, s, w))
      BY <1>2, <2>3 DEF Waits, At
    <3>2. \A id : id \in Pending(s, w)' <=> id \in Pending(s, w) \/ id = row.id
      <4>1. \A u \in Turn : Waits(u, s, w) => Waits(u, s, w)' /\ turn'[u].tx = turn[u].tx
        BY <2>1, <3>1
      <4>2. \A u \in Turn : Waits(u, s, w)' => \/ Waits(u, s, w) /\ turn'[u].tx = turn[u].tx
                                               \/ turn'[u].tx = row.id
        BY <3>1
      <4>3. \A id : id \in Pending(s, w) => id \in Pending(s, w)'
        BY <4>1 DEF Pending
      <4>4. \A id : id \in Pending(s, w)' => id \in Pending(s, w) \/ id = row.id
        BY <4>2 DEF Pending
      <4>5. row.id \in Pending(s, w)'
        BY <3>1 DEF Pending
      <4> QED
        BY <4>3, <4>4, <4>5
    <3>3. /\ StepsOf(log', s, w) = StepsOf(log, s, w) \union
               {i \in {appends + 1} : row.session = s /\ row.sender = w}
          /\ \A i \in StepsOf(log, s, w) : i \in DOMAIN log /\ log'[i] = log[i]
          /\ log'[appends + 1] = row
      BY <1>3, StepsWhenRecorded
    <3>4. \A i \in DOMAIN log : log[i].id # row.id
      <4>1. \A i \in DOMAIN log : log[i].id = row.id => row.kind \in Stamped
        BY RecordedRows
      <4> QED
        BY <4>1 DEF Stamped
    <3>5. \A i \in StepsOf(log, s, w) : log[i].id # row.id /\ log'[i] = log[i]
      BY <3>3, <3>4
    <3>6. ASSUME NEW i PROVE i \in Judged(s, w)' <=> i \in Judged(s, w)
      <4>1. i \in StepsOf(log', s, w) => i \in StepsOf(log, s, w) \/ i = appends + 1
        BY <3>3
      <4>2. i \in StepsOf(log, s, w) => i \in StepsOf(log', s, w)
        BY <3>3
      <4> QED
        BY <3>2, <3>3, <3>5, <4>1, <4>2 DEF Judged
    <3>7. Judged(s, w)' = Judged(s, w)
      BY <3>6 DEF Judged
    <3> QED
      BY <1>3, <3>3, <3>7, NoLoopStays
  <2> QED
    BY <2>2, <2>3
<1>4. turn[t].reply = "YIELDED" => turn'[t].reply = "YIELDED"
  BY <1>1 DEF None
<1>5. StampsKnown'
  <2>1. YieldsStay
    BY <1>4, YieldsOfOthersStay
  <2>2. StampedRow(row)'
    BY DEF StampedRow, Stamped
  <2> QED
    BY <2>1, <2>2, StampsWhenRecorded DEF LoopInv
<1> QED
  BY <1>1, <1>3, <1>4, <1>5, LoopInvStays

\* When a turn of a pair that is alone ends, nothing of the pair waits any more.
LEMMA PendingAtEnd ==
  ASSUME LoopInv, NEW t \in Turn, turn[t].phase = "answered", turn'[t].phase = "done",
         \A u \in Turn : u # t => turn'[u] = turn[u],
         NEW s \in Session, NEW w \in Worker, <<s, w>> \notin overlapped, At(t, s, w)
  PROVE  Pending(s, w)' = {} /\ Pending(s, w) = {turn[t].tx} \ {NoTx}
<1>1. \A u \in Turn : u # t => ~Waits(u, s, w) /\ ~Waits(u, s, w)'
  BY DEF LoopInv, OneAtATime, Waits, Busy, At
<1>2. ~Waits(t, s, w)' /\ (Waits(t, s, w) <=> turn[t].tx # NoTx)
  BY DEF Waits
<1>3. \A id : id \notin Pending(s, w)'
  BY <1>1, <1>2 DEF Pending
<1>4. \A id : id \in Pending(s, w) <=> id = turn[t].tx /\ turn[t].tx # NoTx
  BY <1>1, <1>2 DEF Pending
<1> QED
  BY <1>3, <1>4

LEMMA LoopAtAudit ==
  ASSUME LogInv, TurnInv, LoopInv, NEW t \in Turn,
         \A u \in Turn : u # t => turn'[u] = turn[u], UNCHANGED overlapped,
         NEW row, Recorded(row), row.kind = "audit", turn[t].phase = "answered",
         turn'[t].phase = "done", turn'[t].reply = turn[t].reply,
         turn'[t].session = turn[t].session, turn'[t].worker = turn[t].worker,
         Busy(t)' => Busy(t), ~LoopDetected(turn[t].session, turn[t].worker)
  PROVE  LoopInv'
<1>1. ASSUME NEW s \in Session, NEW w \in Worker, InTime(s, w)', OwnSteps(s, w), NoLoop(s, w)
      PROVE  NoLoop(s, w)'
  <2>1. CASE ~At(t, s, w)
    <3>1. ~Waits(t, s, w) /\ ~Waits(t, s, w)'
      BY <2>1 DEF Waits, At
    <3>2. Pending(s, w)' = Pending(s, w)
      BY <3>1, PendingSame
    <3> QED
      BY <1>1, <3>2, NoLoopWhenRecorded
  <2>2. CASE At(t, s, w)
    <3>1. Pending(s, w)' = {}
      BY <1>1, <2>2, PendingAtEnd DEF InTime
    <3>2. Judged(s, w)' = StepsOf(log', s, w)
      BY <3>1 DEF Judged
    <3>3. ~LoopIn(log, StepsOf(log, s, w))
      BY <2>2 DEF At, LoopDetected, LoopAmong, LoopIn
    <3>4. /\ StepsOf(log', s, w) = StepsOf(log, s, w) \union
               {i \in {appends + 1} : row.session = s /\ row.sender = w}
          /\ StepsOf(log, s, w) \in SUBSET (1..appends)
          /\ \A i \in StepsOf(log, s, w) : log'[i] = log[i]
          /\ appends \in Nat /\ log'[appends + 1] = row
      BY <1>1, StepsWhenRecorded
    <3>5. ~LoopIn(log', StepsOf(log, s, w))
      BY <3>3, <3>4, SameLoop
    <3>6. log'[appends + 1].kind # "exec"
      BY <3>4
    <3>7. ~LoopIn(log', StepsOf(log, s, w) \union {appends + 1})
      BY <3>4, <3>5, <3>6, NoLoopWithOther
    <3>8. \/ StepsOf(log', s, w) = StepsOf(log, s, w)
          \/ StepsOf(log', s, w) = StepsOf(log, s, w) \union {appends + 1}
      BY <3>4
    <3> QED
      BY <3>2, <3>5, <3>7, <3>8 DEF NoLoop
  <2> QED
    BY <2>1, <2>2
<1>2. StampsKnown'
  <2>1. YieldsStay
    BY YieldsOfOthersStay
  <2>2. StampedRow(row)'
    BY DEF StampedRow, Stamped
  <2> QED
    BY <2>1, <2>2, StampsWhenRecorded DEF LoopInv
<1> QED
  BY <1>1, <1>2, LoopInvStays

\* A mitigation breaks the loop: without its own step the pair had none.
LEMMA LoopAtMitigation ==
  ASSUME LogInv, TurnInv, BackedInv, LoopInv, NEW t \in Turn,
         \A u \in Turn : u # t => turn'[u] = turn[u], UNCHANGED overlapped,
         turn[t].phase = "answered", turn'[t].phase = "done", turn'[t].reply = turn[t].reply,
         turn'[t].session = turn[t].session, turn'[t].worker = turn[t].worker,
         Busy(t)' => Busy(t), LoopDetected(turn[t].session, turn[t].worker),
         log' = RollbackStep(log, Offending(t))
  PROVE  LoopInv'
<1>1. /\ DOMAIN log' = DOMAIN log
      /\ \A i \in DOMAIN log :
           /\ log'[i].id = log[i].id /\ log'[i].session = log[i].session
           /\ log'[i].sender = log[i].sender /\ log'[i].kind = log[i].kind
           /\ log'[i].output = log[i].output
           /\ log'[i].committed <=> log[i].committed /\ log[i].id \notin Offending(t)
  BY RollbackChanges
<1>2. ASSUME NEW s, NEW w, NEW i
      PROVE  i \in StepsOf(log', s, w) <=>
               i \in StepsOf(log, s, w) /\ log[i].id \notin Offending(t)
  BY <1>1 DEF StepsOf, CommittedOf, RowsOf
<1>3. \A s, w : \A i \in StepsOf(log, s, w) :
        i \in DOMAIN log /\ log[i].session = s /\ log[i].sender = w
  BY DEF StepsOf, CommittedOf, RowsOf
<1>4. ASSUME NEW s, NEW w, NEW i \in StepsOf(log, s, w)
      PROVE  log'[i].kind = log[i].kind /\ log'[i].output = log[i].output
  BY <1>1, <1>3
<1>5. ASSUME NEW s \in Session, NEW w \in Worker, InTime(s, w)', NoLoop(s, w)
      PROVE  NoLoop(s, w)'
  <2>1. CASE ~At(t, s, w)
    <3>1. ~Waits(t, s, w) /\ ~Waits(t, s, w)'
      BY <2>1 DEF Waits, At
    <3>2. Pending(s, w)' = Pending(s, w)
      BY <3>1, PendingSame
    <3>3. ASSUME NEW i \in StepsOf(log, s, w) PROVE log[i].id \notin Offending(t)
      <4> SUFFICES ASSUME log[i].id \in Offending(t) PROVE FALSE
        OBVIOUS
      <4>1. PICK j \in DOMAIN log : /\ log[j].id = log[i].id
                                    /\ log[j].session = turn[t].session
                                    /\ log[j].sender = turn[t].worker
        <5>1. CASE turn[t].tx # NoTx
          BY <5>1 DEF Offending, BackedInv, TxRecorded
        <5>2. CASE turn[t].tx = NoTx
          <6>1. CommittedOf(log, turn[t].session) \in SUBSET (1..appends) /\ appends \in Nat
            BY DEF CommittedOf, RowsOf, LogInv, LogTypes
          <6>2. PICK j \in LatestTransaction(log, turn[t].session) :
                  log[j].sender = turn[t].worker /\ log[j].id = log[i].id
            BY <5>2 DEF Offending
          <6>3. j \in CommittedOf(log, turn[t].session)
            BY <6>1, <6>2, PlacesOfRows DEF LatestTransaction
          <6> QED
            BY <6>2, <6>3 DEF CommittedOf, RowsOf
        <5> QED
          BY <5>1, <5>2
      <4>2. j = i
        BY <1>3, <4>1 DEF LogInv, IdsDiffer
      <4> QED
        BY <1>3, <2>1, <4>1, <4>2 DEF At
    <3>4. StepsOf(log', s, w) = StepsOf(log, s, w)
      <4>1. \A i : i \in StepsOf(log', s, w) <=> i \in StepsOf(log, s, w)
        BY <1>2, <3>3
      <4> QED
        BY <4>1
    <3>5. Judged(s, w)' = Judged(s, w)
      BY <1>1, <1>3, <3>2, <3>4 DEF Judged
    <3> QED
      BY <1>4, <1>5, <3>5, NoLoopStays
  <2>2. CASE At(t, s, w)
    <3>1. Pending(s, w)' = {} /\ Pending(s, w) = {turn[t].tx} \ {NoTx}
      BY <1>5, <2>2, PendingAtEnd DEF InTime
    <3>2. turn[t].tx # NoTx
      <4> SUFFICES ASSUME turn[t].tx = NoTx PROVE FALSE
        OBVIOUS
      <4>1. Judged(s, w) = StepsOf(log, s, w)
        BY <3>1 DEF Judged
      <4>2. LoopIn(log, StepsOf(log, s, w))
        <5>1. LoopDetected(s, w)
          BY <2>2 DEF At
        <5> QED
          BY <5>1 DEF LoopDetected, LoopAmong, LoopIn
      <4> QED
        BY <1>5, <4>1, <4>2 DEF NoLoop
    <3>3. Offending(t) = Pending(s, w)
      BY <3>1, <3>2 DEF Offending
    <3>4. StepsOf(log', s, w) = Judged(s, w)
      BY <1>2, <3>3 DEF Judged
    <3>5. Judged(s, w)' = Judged(s, w)
      BY <3>1, <3>4 DEF Judged
    <3> QED
      BY <1>4, <1>5, <3>5, NoLoopStays
  <2> QED
    BY <2>1, <2>2
<1>6. StampsKnown'
  <2>1. YieldsStay
    BY YieldsOfOthersStay
  <2> QED
    BY <1>1, <2>1, StampsWhenKept DEF LoopInv
<1> QED
  BY <1>5, <1>6, LoopInvStays

-----------------------------------------------------------------------------
(* The four together.                                                        *)

KernelInv == LogInv /\ TurnInv /\ BackedInv /\ LoopInv

LEMMA SameLog ==
  ASSUME UNCHANGED <<session, log, appends, removed>>
  PROVE  /\ LogInv => LogInv'
         /\ RowsKept /\ MarksKept
<1>1. LogInv => LogInv'
  BY DEF LogInv, LogTypes, IdsDiffer, LedgerVerifies, VerifyIntegrity, TokensAccounted, Expense
<1>2. RowsKept /\ MarksKept
  BY DEF RowsKept, MarksKept
<1> QED
  BY <1>1, <1>2

LEMMA InitHolds ==
  ASSUME Init
  PROVE  KernelInv
<1>1. DOMAIN log = {} /\ DOMAIN removed = {} /\ appends = 0
  BY DEF Init
<1>2. LogTypes /\ IdsDiffer
  <2>1. session \in [Session -> [status : Status, burned : Nat]]
    BY DEF Init, Status
  <2> QED
    BY <1>1, <2>1 DEF LogTypes, IdsDiffer
<1>3. LedgerVerifies /\ TokensAccounted
  <2>1. LedgerVerifies
    BY <1>1 DEF LedgerVerifies, VerifyIntegrity, RowsOf
  <2>2. ASSUME NEW s \in Session
        PROVE  session[s].burned =
                 Total([i \in 1..appends |-> Expense(log, s, i) + Expense(removed, s, i)], appends)
    <3> DEFINE f == [i \in 1..appends |-> Expense(log, s, i) + Expense(removed, s, i)]
    <3>1. 0 \in Nat /\ \A i \in 1..0 : f[i] \in Int
      OBVIOUS
    <3> HIDE DEF f
    <3>2. Total(f, 0) = 0
      BY <3>1, TotalFacts
    <3>3. session[s].burned = 0
      BY DEF Init
    <3> QED
      BY <1>1, <3>2, <3>3 DEF f
  <2> QED
    BY <2>1, <2>2 DEF TokensAccounted
<1>4. \A t \in Turn : turn[t] = Idle
  BY DEF Init
<1>5. TurnInv
  <2>1. turn \in [Turn -> TurnType]
    BY NewTurn DEF Init
  <2>2. \A t \in Turn : TurnTrue(t)
    BY <1>4 DEF TurnTrue, Idle, None
  <2> QED
    BY <2>1, <2>2 DEF Init, TurnInv
<1>6. BackedInv
  BY <1>4 DEF BackedInv, TxRecorded, TxKept, TxOwn, Idle, None
<1>7. LoopInv
  <2>1. OneAtATime
    BY <1>4 DEF OneAtATime, Busy, Idle
  <2>2. ASSUME NEW s \in Session, NEW w \in Worker PROVE NoLoop(s, w)
    <3>1. Judged(s, w) = {}
      BY <1>1 DEF Judged, StepsOf, CommittedOf, RowsOf
    <3> QED
      BY <3>1, RecentPart DEF NoLoop, LoopIn
  <2>3. StampsKnown
    BY <1>1 DEF StampsKnown
  <2> QED
    BY <2>1, <2>2, <2>3 DEF LoopInv
<1> QED
  BY <1>2, <1>3, <1>5, <1>6, <1>7 DEF KernelInv, LogInv

LEMMA QuietInv ==
  ASSUME KernelInv, UNCHANGED <<session, log, appends, removed, directives, turn, overlapped>>,
         agent' \in [Agent -> {"IDLE", "BUSY"} \union Stopped]
  PROVE  KernelInv'
<1>1. LogInv'
  BY SameLog DEF KernelInv
<1>2. TurnInv'
  BY DEF KernelInv, TurnInv, TurnTrue
<1>3. BackedInv'
  BY DEF KernelInv, BackedInv, TxRecorded, TxKept, TxOwn, Backed
<1>4. LoopInv'
  <2>1. \A s, w : Pending(s, w)' = Pending(s, w) /\ (InTime(s, w)' <=> InTime(s, w))
    BY DEF Pending, Waits, At, InTime
  <2>2. \A s, w : NoLoop(s, w)' <=> NoLoop(s, w)
    BY <2>1 DEF NoLoop, Judged
  <2> QED
    BY <2>1, <2>2 DEF KernelInv, LoopInv, OneAtATime, StampsKnown, StampedRow, At, Busy
<1> QED
  BY <1>1, <1>2, <1>3, <1>4 DEF KernelInv

LEMMA BeginInv ==
  ASSUME KernelInv, NEW t \in Turn, NEW s \in Session,
         NEW w \in Worker \union {Nobody}, Begin(t, s, w)
  PROVE  KernelInv'
<1>1. LogInv /\ TurnInv /\ BackedInv /\ LoopInv /\ turn[t].phase = "new"
  BY DEF KernelInv, Begin
<1>2. CASE Refuse(t, s, w)
  <2>1. TurnInv' /\ turn'[t].tx = NoTx /\ \A u \in Turn : u # t => turn'[u] = turn[u]
    BY <1>1, <1>2, RefuseKeeps
  <2>2. UNCHANGED <<session, log, appends, removed>> /\ UNCHANGED overlapped
    BY <1>2 DEF Refuse
  <2>3. ~Busy(t)'
    BY <1>1, <1>2 DEF Refuse, End, Busy, Idle, TurnInv
  <2>4. LogInv' /\ RowsKept /\ MarksKept
    BY <1>1, <2>2, SameLog
  <2>5. BackedInv'
    BY <1>1, <2>1, <2>4, BackedAtBegin
  <2>6. LoopInv'
    BY <1>1, <2>1, <2>2, <2>3, LoopAtBegin
  <2> QED
    BY <2>1, <2>4, <2>5, <2>6 DEF KernelInv
<1>3. CASE SafeHalt(t, s, w)
  <2>1. TurnInv' /\ turn'[t].tx = NoTx /\ \A u \in Turn : u # t => turn'[u] = turn[u]
    BY <1>1, <1>3, SafeHaltKeeps
  <2>2. PICK row : Recorded(row) /\ row.kind = "halt"
    BY <1>1, <1>3, SafeHaltRecords
  <2>3. ~Busy(t)' /\ UNCHANGED overlapped
    BY <1>1, <1>3 DEF SafeHalt, End, Busy, Idle, TurnInv
  <2>4. LogInv' /\ RowsKept /\ MarksKept
    BY <1>1, <2>2, RecordedKeeps, RecordedGoesOn
  <2>5. BackedInv'
    BY <1>1, <2>1, <2>4, BackedAtBegin
  <2>6. LoopInv'
    <3>1. row.kind # "exec" /\ (row.kind \in Stamped => row.sender = "strategist")
      BY <2>2 DEF Stamped
    <3> QED
      BY <1>1, <2>1, <2>2, <2>3, <3>1, LoopAtBegin
  <2> QED
    BY <2>1, <2>4, <2>5, <2>6 DEF KernelInv
<1>4. CASE Delegate(t, s, w)
  <2>1. TurnInv' /\ turn'[t].tx = NoTx /\ \A u \in Turn : u # t => turn'[u] = turn[u]
    BY <1>1, <1>4, DelegateKeeps
  <2>2. PICK row : Recorded(row) /\ row.kind = "delegate" /\ row.sender = "strategist"
    BY <1>1, <1>4, DelegateRecords
  <2>3. LogInv' /\ RowsKept /\ MarksKept
    BY <1>1, <2>2, RecordedKeeps, RecordedGoesOn
  <2>4. BackedInv'
    BY <1>1, <2>1, <2>3, BackedAtBegin
  <2>5. overlapped' = overlapped \union {p \in {<<s, w>>} : \E u \in Turn : At(u, s, w) /\ Busy(u)}
    BY <1>4 DEF Delegate
  <2>6. turn'[t].session = s /\ turn'[t].worker = w
    <3>1. turn \in [Turn -> TurnType]
      BY <1>1 DEF TurnInv
    <3>2. CASE w = Nobody
      BY <1>4, <3>1, <3>2 DEF Delegate, Delegated, End, Idle
    <3>3. CASE w # Nobody
      <4> DEFINE refused == agent[w] \in Stopped
                 to == [Idle EXCEPT !.session = s, !.worker = w,
                                    !.phase = IF refused THEN "answered" ELSE "working",
                                    !.reply = IF refused THEN "REJECTED" ELSE None,
                                    !.executing = ~refused]
      <4>1. turn' = [turn EXCEPT ![t] = to]
        BY <1>4, <3>3 DEF Delegate, Delegated
      <4>2. to.session = s /\ to.worker = w
        BY DEF Idle
      <4> HIDE DEF to
      <4> QED
        BY <3>1, <4>1, <4>2
    <3> QED
      BY <3>2, <3>3
  <2>7. ASSUME NEW x \in Session, NEW v \in Worker, At(t, x, v)', <<x, v>> \notin overlapped'
        PROVE  \A u \in Turn : ~(At(u, x, v) /\ Busy(u))
    <3>1. x = s /\ v = w
      BY <2>6, <2>7 DEF At
    <3> QED
      BY <2>5, <2>7, <3>1
  <2>8. LoopInv'
    <3>1. overlapped \subseteq overlapped' /\ row.kind # "exec"
      BY <2>2, <2>5
    <3> QED
      BY <1>1, <2>1, <2>2, <2>7, <3>1, LoopAtBegin
  <2> QED
    BY <2>1, <2>3, <2>4, <2>8 DEF KernelInv
<1> QED
  BY <1>2, <1>3, <1>4 DEF Begin

LEMMA ReturnsInv ==
  ASSUME KernelInv, NEW t \in Turn, NEW output \in Output, ExecutorReturns(t, output)
  PROVE  KernelInv'
<1>1. LogInv /\ TurnInv /\ BackedInv /\ LoopInv /\ turn[t].executing
  BY DEF KernelInv, ExecutorReturns
<1>2. turn[t] \in TurnType /\ TurnTrue(t)
  BY <1>1 DEF TurnInv
<1>3. PICK row : /\ Recorded(row) /\ row.kind = "exec" /\ row.id = TaskId("exec", appends + 1)
                 /\ row.session = turn[t].session /\ row.sender = turn[t].worker
                 /\ row.output = output
  BY <1>1, ExecutorRecords
<1>4. LogInv' /\ RowsKept /\ MarksKept
  BY <1>1, <1>3, RecordedKeeps, RecordedGoesOn
<1>5. /\ TurnInv' /\ \A u \in Turn : u # t => turn'[u] = turn[u]
      /\ turn'[t] = IF turn[t].phase = "working"
                      THEN [turn[t] EXCEPT !.phase = "answered", !.reply = "SUCCESS",
                              !.output = output, !.tx = row.id, !.executing = FALSE]
                      ELSE [turn[t] EXCEPT !.executing = FALSE]
  <2>1. TaskId("exec", appends + 1) = row.id
    BY <1>3
  <2>2. Reply(t, "SUCCESS", output, row.id) /\ UNCHANGED <<directives, overlapped>>
    BY <2>1 DEF ExecutorReturns
  <2>3. row.id \in (Kind \union {None}) \X Nat /\ row.id # NoTx
    <3>1. row.id \in Kind \X Nat
      BY <1>3 DEF Recorded, RowType
    <3>2. row.id[1] = "exec"
      BY <1>3 DEF Recorded
    <3> QED
      BY <3>1, <3>2 DEF NoTx, None
  <2>4. agent' = [agent EXCEPT ![turn[t].worker] = "IDLE"]
    BY DEF ExecutorReturns, SetAgent
  <2>5. "SUCCESS" \in {"SUCCESS", "ERROR"} /\ output \in Output \union {None}
    OBVIOUS
  <2> QED
    BY <1>1, <2>2, <2>3, <2>4, <2>5, ReplyKeeps
<1>6. UNCHANGED overlapped
  BY DEF ExecutorReturns
<1>7. CASE turn[t].phase = "working"
  <2>1. turn'[t] = [turn[t] EXCEPT !.phase = "answered", !.reply = "SUCCESS",
                                   !.output = row.output, !.tx = row.id, !.executing = FALSE]
    BY <1>3, <1>5, <1>7
  <2>2. BackedInv'
    BY <1>1, <1>3, <1>5, <1>7, <2>1, BackedAtSuccess
  <2>3. /\ turn'[t].session = turn[t].session /\ turn'[t].worker = turn[t].worker
        /\ turn'[t].tx = row.id /\ turn'[t].phase = "answered"
    BY <1>2, <2>1 DEF TurnType
  <2>4. LoopInv'
    BY <1>1, <1>3, <1>5, <1>6, <1>7, <2>3, LoopAtSuccess
  <2> QED
    BY <1>4, <1>5, <2>2, <2>4 DEF KernelInv
<1>8. CASE turn[t].phase # "working"
  <2>1. turn'[t] = [turn[t] EXCEPT !.executing = FALSE]
    BY <1>5, <1>8
  <2>2. BackedInv'
    BY <1>1, <1>4, <1>5, <2>1, BackedAtReply
  <2>3. /\ turn'[t].session = turn[t].session /\ turn'[t].worker = turn[t].worker
        /\ turn'[t].tx = turn[t].tx /\ turn'[t].reply = turn[t].reply
        /\ turn'[t].phase = turn[t].phase /\ ~turn'[t].executing
    BY <1>2, <2>1 DEF TurnType
  <2>4. turn[t].reply = "YIELDED"
    BY <1>1, <1>2, <1>8 DEF TurnTrue
  <2>5. turn[t].tx = NoTx
    BY <1>2, <2>4 DEF TurnTrue
  <2>6. Busy(t)' => Busy(t)
    BY <2>3 DEF Busy
  <2>7. StampedRow(row)'
    BY <1>3 DEF StampedRow, Stamped
  <2>8. LoopInv'
    BY <1>1, <1>3, <1>5, <1>6, <2>3, <2>4, <2>5, <2>6, <2>7, LoopAtRecord
  <2> QED
    BY <1>4, <1>5, <2>2, <2>8 DEF KernelInv
<1> QED
  BY <1>7, <1>8

LEMMA ThrowsInv ==
  ASSUME KernelInv, NEW t \in Turn, ExecutorThrows(t)
  PROVE  KernelInv'
<1>1. LogInv /\ TurnInv /\ BackedInv /\ LoopInv /\ turn[t].executing
  BY DEF KernelInv, ExecutorThrows
<1>2. turn[t] \in TurnType /\ TurnTrue(t)
  BY <1>1 DEF TurnInv
<1>3. /\ Reply(t, "ERROR", None, NoTx) /\ UNCHANGED <<directives, overlapped>>
      /\ UNCHANGED <<session, log, appends, removed>> /\ UNCHANGED <<log, overlapped>>
      /\ agent' = [agent EXCEPT ![turn[t].worker] = "IDLE"]
  BY DEF ExecutorThrows, SetAgent
<1>4. LogInv' /\ RowsKept /\ MarksKept
  BY <1>1, <1>3, SameLog
<1>5. /\ TurnInv' /\ \A u \in Turn : u # t => turn'[u] = turn[u]
      /\ turn'[t] = IF turn[t].phase = "working"
                      THEN [turn[t] EXCEPT !.phase = "answered", !.reply = "ERROR",
                              !.output = None, !.tx = NoTx, !.executing = FALSE]
                      ELSE [turn[t] EXCEPT !.executing = FALSE]
  <2>1. /\ "ERROR" \in {"SUCCESS", "ERROR"} /\ None \in Output \union {None}
        /\ NoTx \in (Kind \union {None}) \X Nat
        /\ "ERROR" = "SUCCESS" <=> NoTx # NoTx
    BY DEF NoTx
  <2> QED
    BY <1>1, <1>3, <2>1, ReplyKeeps
<1>6. turn[t].reply # "SUCCESS" /\ turn[t].tx = NoTx
  BY <1>1, <1>2 DEF TurnTrue, None
<1>7. /\ turn'[t].session = turn[t].session /\ turn'[t].worker = turn[t].worker
      /\ turn'[t].tx = NoTx /\ turn'[t].outcome = turn[t].outcome
      /\ turn[t].reply = "YIELDED" => turn'[t].reply = "YIELDED"
      /\ Busy(t)' => Busy(t)
  <2>1. CASE turn[t].phase = "working"
    <3>1. turn[t].reply = None
      BY <1>2, <2>1 DEF TurnTrue
    <3> QED
      BY <1>1, <1>2, <1>5, <2>1, <3>1 DEF TurnType, Busy, None
  <2>2. CASE turn[t].phase # "working"
    BY <1>1, <1>2, <1>5, <1>6, <2>2 DEF TurnType, Busy
  <2> QED
    BY <2>1, <2>2
<1>8. BackedInv'
  BY <1>1, <1>4, <1>5, <1>7, BackedAtReply
<1>9. LoopInv'
  BY <1>1, <1>3, <1>5, <1>6, <1>7, LoopAtReply
<1> QED
  BY <1>4, <1>5, <1>8, <1>9 DEF KernelInv

LEMMA TimeoutInv ==
  ASSUME KernelInv, NEW t \in Turn, Timeout(t)
  PROVE  KernelInv'
<1>1. LogInv /\ TurnInv /\ BackedInv /\ LoopInv /\ turn[t].phase = "working" /\ UNCHANGED overlapped
  BY DEF KernelInv, Timeout, TimerArmed
<1>2. turn[t] \in TurnType /\ TurnTrue(t)
  BY <1>1 DEF TurnInv
<1>3. PICK row : /\ Recorded(row) /\ row.kind = "yield"
                 /\ row.session = turn[t].session /\ row.sender = turn[t].worker
  BY <1>1, TimeoutRecords
<1>4. LogInv' /\ RowsKept /\ MarksKept
  BY <1>1, <1>3, RecordedKeeps, RecordedGoesOn
<1>5. /\ TurnInv' /\ \A u \in Turn : u # t => turn'[u] = turn[u]
      /\ turn'[t] = [turn[t] EXCEPT !.phase = "answered", !.reply = "YIELDED"]
  BY <1>1, TimeoutKeeps
<1>6. turn[t].reply = None /\ turn[t].executing
  BY <1>1, <1>2 DEF TurnTrue
<1>7. turn[t].tx = NoTx
  BY <1>2, <1>6 DEF TurnTrue, None
<1>8. /\ turn'[t].session = turn[t].session /\ turn'[t].worker = turn[t].worker
      /\ turn'[t].tx = NoTx /\ turn'[t].outcome = turn[t].outcome /\ turn'[t].reply = "YIELDED"
  BY <1>2, <1>5, <1>7 DEF TurnType
<1>9. Busy(t)' => Busy(t)
  BY <1>6 DEF Busy
<1>10. BackedInv'
  BY <1>1, <1>4, <1>5, <1>8, BackedAtReply
<1>11. StampedRow(row)'
  BY <1>3, <1>8 DEF StampedRow, At
<1>12. LoopInv'
  <2>1. row.kind # "exec"
    BY <1>3
  <2> QED
    BY <1>1, <1>3, <1>5, <1>7, <1>8, <1>9, <1>11, <2>1, LoopAtRecord
<1> QED
  BY <1>4, <1>5, <1>10, <1>12 DEF KernelInv

\* What Finish leaves alone.
LEMMA FinishLeaves ==
  ASSUME TurnInv, NEW t \in Turn, NEW outcome,
         turn'[t] = [turn[t] EXCEPT !.phase = "done", !.outcome = outcome]
  PROVE  /\ turn'[t].phase = "done" /\ turn'[t].reply = turn[t].reply
         /\ turn'[t].session = turn[t].session /\ turn'[t].worker = turn[t].worker
         /\ turn'[t].tx = turn[t].tx /\ (Busy(t)' => Busy(t))
<1>1. turn[t] \in TurnType
  BY DEF TurnInv
<1> QED
  BY <1>1 DEF TurnType, Busy

LEMMA ConcludeInv ==
  ASSUME KernelInv, NEW t \in Turn, Conclude(t)
  PROVE  KernelInv'
<1>1. LogInv /\ TurnInv /\ BackedInv /\ LoopInv /\ turn[t].phase = "answered"
  BY DEF KernelInv, Conclude
<1>2. turn[t] \in TurnType /\ TurnTrue(t)
  BY <1>1 DEF TurnInv
<1>3. CASE Yield(t) \/ AuditThrows(t)
  <2>1. PICK outcome \in {"YIELDED", "THROWN"}, a \in {"strategist", "auditor"},
             status \in {"IDLE", "BUSY"} :
          /\ Finish(t, outcome) /\ Resumed(a, status)
          /\ turn[t].reply # "SUCCESS"
          /\ UNCHANGED <<session, log, appends, removed, directives, overlapped>>
    BY <1>3 DEF Yield, AuditThrows, Failed
  <2>2. UNCHANGED <<session, log, appends, removed>> /\ UNCHANGED <<log, overlapped>>
    BY <2>1
  <2>3. LogInv' /\ RowsKept /\ MarksKept
    BY <1>1, <2>2, SameLog
  <2>4. turn[t].tx = NoTx
    BY <1>2, <2>1 DEF TurnTrue
  <2>5. /\ TurnInv' /\ \A u \in Turn : u # t => turn'[u] = turn[u]
        /\ turn'[t] = [turn[t] EXCEPT !.phase = "done", !.outcome = outcome]
    <3>1. /\ outcome \in Outcome \ {None} /\ outcome # "SUCCESS" /\ a \in Agent
          /\ status \in {"IDLE", "BUSY"} \union Stopped /\ directives' \subseteq Session
          /\ UNCHANGED overlapped
      BY <1>1, <2>1 DEF Outcome, None, Agent, TurnInv
    <3> QED
      BY <1>1, <2>1, <3>1, FinishKeeps
  <2>6. outcome \in Outcome \ {None, "SUCCESS"}
    BY <2>1 DEF Outcome, None
  <2>7. BackedInv'
    BY <1>1, <2>3, <2>5, <2>6, BackedAtEnd
  <2>8. /\ turn'[t].phase = "done" /\ turn'[t].reply = turn[t].reply
        /\ turn'[t].session = turn[t].session /\ turn'[t].worker = turn[t].worker
        /\ turn'[t].tx = turn[t].tx /\ (Busy(t)' => Busy(t))
    BY <1>1, <2>5, FinishLeaves
  <2>9. LoopInv'
    BY <1>1, <2>2, <2>4, <2>5, <2>8, LoopAtReply
  <2> QED
    BY <2>3, <2>5, <2>7, <2>9 DEF KernelInv
<1>4. CASE turn[t].reply # "YIELDED" /\ Mitigate(t)
  <2>1. /\ LoopDetected(turn[t].session, turn[t].worker)
        /\ Resumed(turn[t].worker, "FROZEN") /\ Finish(t, "LOOP_INTERCEPTED")
        /\ log' = RollbackStep(log, Offending(t)) /\ UNCHANGED <<session, appends, removed>>
        /\ UNCHANGED overlapped /\ directives' = directives \union {turn[t].session}
    BY <1>4 DEF Mitigate
  <2>2. LogInv'
    BY <1>1, <2>1, RollbackKeeps
  <2>3. /\ TurnInv' /\ \A u \in Turn : u # t => turn'[u] = turn[u]
        /\ turn'[t] = [turn[t] EXCEPT !.phase = "done", !.outcome = "LOOP_INTERCEPTED"]
    <3>1. /\ "LOOP_INTERCEPTED" \in Outcome \ {None} /\ turn[t].worker \in Agent
          /\ "FROZEN" \in {"IDLE", "BUSY"} \union Stopped /\ directives' \subseteq Session
      BY <1>1, <1>2, <2>1 DEF Outcome, None, Agent, Stopped, TurnInv, TurnTrue
    <3> QED
      BY <1>1, <2>1, <3>1, FinishKeeps
  <2>4. BackedInv'
    BY <1>1, <1>4, <2>1, <2>3, BackedAtMitigation
  <2>5. /\ turn'[t].phase = "done" /\ turn'[t].reply = turn[t].reply
        /\ turn'[t].session = turn[t].session /\ turn'[t].worker = turn[t].worker
        /\ (Busy(t)' => Busy(t))
    BY <1>1, <2>3, FinishLeaves
  <2>6. LoopInv'
    BY <1>1, <2>1, <2>3, <2>5, LoopAtMitigation
  <2> QED
    BY <2>2, <2>3, <2>4, <2>6 DEF KernelInv
<1>5. CASE /\ turn[t].reply # "YIELDED" /\ ~LoopDetected(turn[t].session, turn[t].worker)
           /\ Audit(t)
  <2> DEFINE passed  == turn[t].output \notin Unsafe
             outcome == IF passed THEN "SUCCESS" ELSE "THROWN"
  <2>1. turn[t].reply = "SUCCESS"
    BY <1>1, <1>2, <1>5 DEF Audit, TurnTrue, TurnType, Replies
  <2>2. PICK row : /\ Recorded(row) /\ row.kind = "audit" /\ row.session = turn[t].session
                   /\ row.output = turn[t].output /\ row.passed = passed
    BY <1>1, <1>5, AuditRecords
  <2>3. LogInv' /\ RowsKept /\ MarksKept
    BY <1>1, <2>2, RecordedKeeps, RecordedGoesOn
  <2>4. Finish(t, outcome) /\ Resumed("auditor", "IDLE") /\ UNCHANGED <<directives, overlapped>>
    BY <1>5 DEF Audit
  <2>5. /\ TurnInv' /\ \A u \in Turn : u # t => turn'[u] = turn[u]
        /\ turn'[t] = [turn[t] EXCEPT !.phase = "done", !.outcome = outcome]
    <3>1. /\ outcome \in Outcome \ {None} /\ "auditor" \in Agent
          /\ "IDLE" \in {"IDLE", "BUSY"} \union Stopped /\ directives' \subseteq Session
          /\ UNCHANGED overlapped
      BY <1>1, <2>4 DEF Outcome, None, Agent, TurnInv
    <3>2. /\ turn[t].reply \notin Failed \union {"YIELDED"}
          /\ outcome = "SUCCESS" => turn[t].output \notin Unsafe
      BY <2>1 DEF Failed
    <3> HIDE DEF outcome
    <3> QED
      BY <1>1, <2>4, <3>1, <3>2, FinishKeeps
  <2>6. BackedInv'
    <3>1. CASE passed
      <4>1. turn'[t] = [turn[t] EXCEPT !.phase = "done", !.outcome = "SUCCESS"]
        BY <2>5, <3>1
      <4> QED
        BY <1>1, <2>1, <2>2, <2>5, <3>1, <4>1, BackedAtAudit
    <3>2. CASE ~passed
      <4>1. /\ turn'[t] = [turn[t] EXCEPT !.phase = "done", !.outcome = "THROWN"]
            /\ "THROWN" \in Outcome \ {None, "SUCCESS"}
        BY <2>5, <3>2 DEF Outcome, None
      <4> QED
        BY <1>1, <2>3, <2>5, <4>1, BackedAtEnd
    <3> QED
      BY <3>1, <3>2
  <2> HIDE DEF outcome, passed
  <2>7. /\ turn'[t].phase = "done" /\ turn'[t].reply = turn[t].reply
        /\ turn'[t].session = turn[t].session /\ turn'[t].worker = turn[t].worker
        /\ (Busy(t)' => Busy(t))
    BY <1>1, <2>5, FinishLeaves
  <2>8. LoopInv'
    BY <1>1, <1>5, <2>2, <2>4, <2>5, <2>7, LoopAtAudit
  <2> QED
    BY <2>3, <2>5, <2>6, <2>8 DEF KernelInv
<1> QED
  BY <1>3, <1>4, <1>5 DEF Conclude

LEMMA NextKeeps ==
  ASSUME KernelInv, [Next]_vars
  PROVE  KernelInv'
<1>1. ASSUME NEW w \in Worker, RegisterWorker(w) PROVE KernelInv'
  <2>1. /\ UNCHANGED <<session, log, appends, removed, directives, turn, overlapped>>
        /\ agent' = [agent EXCEPT ![w] = "IDLE"]
    BY <1>1 DEF RegisterWorker, SetAgent
  <2>2. agent' \in [Agent -> {"IDLE", "BUSY"} \union Stopped]
    BY <2>1 DEF KernelInv, TurnInv
  <2> QED
    BY <2>1, <2>2, QuietInv
<1>2. CASE UNCHANGED vars
  <2>1. /\ UNCHANGED <<session, log, appends, removed, directives, turn, overlapped>>
        /\ agent' \in [Agent -> {"IDLE", "BUSY"} \union Stopped]
    BY <1>2 DEF vars, KernelInv, TurnInv
  <2> QED
    BY <2>1, QuietInv
<1> QED
  BY <1>1, <1>2, BeginInv, ReturnsInv, ThrowsInv, TimeoutInv, ConcludeInv DEF Next

-----------------------------------------------------------------------------
(* The theorems.                                                             *)

LEMMA KernelInvHolds == Spec => []KernelInv
<1>1. Init => KernelInv
  BY InitHolds
<1>2. KernelInv /\ [Next]_vars => KernelInv'
  BY NextKeeps
<1> QED
  BY <1>1, <1>2, PTL DEF Spec

\* However turns, late answers, halts and rollbacks mix, and whichever records share a
\* millisecond, the hash chain of a session is whole of which no row was replaced, for
\* any number of turns, sessions and workers.
THEOREM ChainWhole == Spec => []LedgerVerifies
<1>1. KernelInv => LedgerVerifies
  BY DEF KernelInv, LogInv
<1> QED
  BY <1>1, KernelInvHolds, PTL

\* What a session has burned is what all its records, those that were replaced
\* included, and its turns' estimates add up to.
THEOREM TokensAddUp == Spec => []TokensAccounted
<1>1. KernelInv => TokensAccounted
  BY DEF KernelInv, LogInv
<1> QED
  BY <1>1, KernelInvHolds, PTL

\* SUCCESS is backed by the session's own records, which stay unless a failed reply
\* made a mitigation guess, and turns that came one at a time leave no loop.
THEOREM SuccessIsBacked == Spec => []TurnsBacked
<1>1. KernelInv => TypeOK
  <2> SUFFICES ASSUME KernelInv PROVE TypeOK
    OBVIOUS
  <2>1. LogTypes /\ TurnInv
    BY DEF KernelInv, LogInv
  <2>2. ASSUME NEW i \in DOMAIN log
        PROVE  /\ i \in 1..appends /\ log[i].step \in 1..appends
               /\ log[i].session \in Session
               /\ log[i].sender \in Agent \union {"KERNEL_GUARDRAIL"}
    <3>1. log[i] \in RowType /\ i \in 1..appends /\ log[i].step \in 1..appends
      BY <2>1 DEF LogTypes
    <3> QED
      BY <3>1 DEF RowType, Sender
  <2>3. ASSUME NEW t \in Turn
        PROVE  /\ turn[t].phase \in {"new", "working", "answered", "done"}
               /\ turn[t].phase = "working" => turn[t].executing
               /\ turn[t].phase = "done" <=> turn[t].outcome # None
               /\ turn[t].reply \in {None, "SUCCESS", "YIELDED"} \union Failed
               /\ turn[t].outcome \in {None, "SUCCESS", "YIELDED", "LOOP_INTERCEPTED", "THROWN",
                                       "FORMAL_POLICY_REJECTED"}
    <3>1. turn[t] \in TurnType /\ TurnTrue(t)
      BY <2>1 DEF TurnInv
    <3> QED
      BY <3>1 DEF TurnType, TurnTrue, Phase, Replies, Outcome
  <2> QED
    BY <2>1, <2>2, <2>3 DEF TypeOK, LogTypes, TurnInv, Status
<1>2. KernelInv => SuccessRecorded
  BY DEF KernelInv, BackedInv, Backed, SuccessRecorded
<1>3. KernelInv => SuccessKept
  <2> SUFFICES ASSUME KernelInv, NEW t \in Turn, turn[t].outcome = "SUCCESS",
                      \A u \in Turn : turn[u].session = turn[t].session => turn[u].reply \notin Failed
               PROVE  \E i \in DOMAIN log : log[i].id = turn[t].tx /\ log[i].committed
    BY DEF SuccessKept
  <2>1. turn[t].tx # NoTx /\ turn[t].outcome # "LOOP_INTERCEPTED"
    BY DEF KernelInv, TurnInv, TurnTrue
  <2> QED
    BY <2>1 DEF KernelInv, BackedInv, TxKept
<1>4. KernelInv => LoopsBroken
  <2> SUFFICES ASSUME KernelInv, NEW s \in Session, NEW w \in Worker, <<s, w>> \notin overlapped,
                      \A t \in Turn : At(t, s, w) => /\ turn[t].phase # "answered"
                                                     /\ turn[t].reply # "YIELDED"
               PROVE  ~LoopDetected(s, w)
    BY DEF LoopsBroken
  <2>1. Pending(s, w) = {}
    BY DEF Pending, Waits
  <2>2. Judged(s, w) = StepsOf(log, s, w)
    BY <2>1 DEF Judged
  <2>3. ~LoopIn(log, StepsOf(log, s, w))
    BY <2>2 DEF KernelInv, LoopInv, InTime, NoLoop
  <2> QED
    BY <2>3 DEF LoopDetected, LoopAmong, LoopIn
<1>5. KernelInv => TurnsBacked
  BY <1>1, <1>2, <1>3, <1>4 DEF TurnsBacked
<1> QED
  BY <1>5, KernelInvHolds, PTL

=============================================================================

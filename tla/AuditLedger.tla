----------------------------- MODULE AuditLedger -----------------------------
(* Runtime/tamper_evident_audit.py: TamperEvidentAuditLedger, written to by  *)
(* several threads or processes through one SQLite file, checked by readers, *)
(* and damaged from outside. A SHA-256 is ideal: a hash is what was hashed.  *)
EXTENDS Naturals, Sequences, SequencesExt, FiniteSetsExt

CONSTANTS Recorder, Payload,
          Damaged,    \* a payload nobody recorded
          MaxBlocks, MaxDamages

ASSUME LedgerAssumption == Damaged \notin Payload /\ {MaxBlocks, MaxDamages} \subseteq Nat

VARIABLES
  chain,    \* block_index -> row of audit_blocks
  clock,     \* time.time(), one tick a call
  recorder,  \* recorder -> [pc, payload, now] of its record_mutation()
  audit_report,    \* [pc, valid, seen, total, head]: generate_soc2_compliance_report()
  minted,    \* history: the blocks that were committed
  damages

ledgerVars == <<chain, clock, recorder, audit_report, minted, damages>>

\* The header that block_hash covers holds everything but the raw payload.
BlockHash(i, ts, payload_hash, prev) == <<i, ts, payload_hash, prev>>
Genesis == <<>>
Idle == [pc |-> "idle", payload |-> Damaged, now |-> 0]
NoReport == [pc |-> "idle", valid |-> FALSE, seen |-> 0, total |-> 0, head |-> Genesis]

LedgerTypeOK ==
  /\ \A i \in DOMAIN chain:
       /\ i \in Nat
       /\ chain[i].raw_payload \in Payload \cup {Damaged}
  /\ clock \in Nat
  /\ recorder \in [Recorder -> [pc: {"idle", "called"}, payload: Payload \cup {Damaged}, now: Nat]]
  /\ audit_report.pc \in {"idle", "verified", "done"} /\ audit_report.valid \in BOOLEAN
  /\ damages \in 0..MaxDamages

LedgerInit ==
  /\ chain = [i \in {} |-> 0]
  /\ clock = 0
  /\ recorder = [r \in Recorder |-> Idle]
  /\ audit_report = NoReport
  /\ minted = {}
  /\ damages = 0

----------------------------------------------------------------------------
(* record_mutation                                                           *)
\* The time is taken before the lock is.
RecordCalled(r, x) ==
  /\ recorder[r].pc = "idle" /\ clock < MaxBlocks
  /\ clock' = clock + 1
  /\ recorder' = [recorder EXCEPT ![r] = [pc |-> "called", payload |-> x, now |-> clock']]
  /\ UNCHANGED <<chain, audit_report, minted, damages>>

\* Under BEGIN EXCLUSIVE: the latest block, the new one, the commit.
NextBlock(x, now) ==
  LET index == IF DOMAIN chain = {} THEN 0 ELSE Max(DOMAIN chain) + 1
      prev == IF index = 0 THEN Genesis ELSE chain[index - 1].block_hash
  IN [index |-> index, timestamp |-> now, payload_hash |-> x, prev_hash |-> prev,
      block_hash |-> BlockHash(index, now, x, prev), raw_payload |-> x]

RecordCommits(r) ==
  /\ recorder[r].pc = "called"
  /\ LET b == NextBlock(recorder[r].payload, recorder[r].now) IN
     /\ chain' = [i \in DOMAIN chain \cup {b.index} |-> IF i = b.index THEN b ELSE chain[i]]
     /\ minted' = minted \cup {b}
  /\ recorder' = [recorder EXCEPT ![r] = Idle]
  /\ UNCHANGED <<clock, audit_report, damages>>

\* The lock is not had within 30 seconds, or the process dies before the commit.
RecordFails(r) ==
  /\ recorder[r].pc = "called"
  /\ recorder' = [recorder EXCEPT ![r] = Idle]
  /\ UNCHANGED <<chain, clock, audit_report, minted, damages>>

----------------------------------------------------------------------------
\* The hash of the row before, in the order of the index.
Before(i) == LET lower == {j \in DOMAIN chain: j < i}
             IN IF lower = {} THEN Genesis ELSE chain[Max(lower)].block_hash

\* Mutant: the rows are verified one by one, not their links.
VerifyRows == \A i \in DOMAIN chain: LET b == chain[i] IN
  /\ b.payload_hash = b.raw_payload
  /\ b.block_hash = BlockHash(i, b.timestamp, b.payload_hash, b.prev_hash)

\* verify_chain_integrity(): every row in the order of its index, against the
\* hash of the row before it.
verify_chain_integrity == \A i \in DOMAIN chain: LET b == chain[i] IN
  /\ b.prev_hash = Before(i)
  /\ b.payload_hash = b.raw_payload
  /\ b.block_hash = BlockHash(i, b.timestamp, b.payload_hash, b.prev_hash)

\* The chain is verified with one connection, counted with another.
ReportVerifies ==
  /\ audit_report.pc # "verified"
  /\ audit_report' = [NoReport EXCEPT !.pc = "verified", !.valid = verify_chain_integrity,
                                !.seen = Cardinality(DOMAIN chain)]
  /\ UNCHANGED <<chain, clock, recorder, minted, damages>>

ReportCounts ==
  /\ audit_report.pc = "verified"
  /\ audit_report' = [audit_report EXCEPT !.pc = "done", !.total = Cardinality(DOMAIN chain),
       !.head = IF DOMAIN chain = {} THEN Genesis ELSE chain[Max(DOMAIN chain)].block_hash]
  /\ UNCHANGED <<chain, clock, recorder, minted, damages>>

----------------------------------------------------------------------------
\* The file is damaged: a column of a row changes, or a row is gone.
Damage(i) ==
  /\ damages < MaxDamages
  /\ damages' = damages + 1
  /\ \/ chain' = [chain EXCEPT ![i].raw_payload = Damaged]
     \/ chain' = [chain EXCEPT ![i].payload_hash = Damaged]
     \/ chain' = [chain EXCEPT ![i].timestamp = @ + 1]
     \/ chain' = [chain EXCEPT ![i].prev_hash = Genesis]
     \/ chain' = [chain EXCEPT ![i].block_hash = Genesis]
     \/ chain' = [j \in DOMAIN chain \ {i} |-> chain[j]]
  /\ UNCHANGED <<clock, recorder, audit_report, minted>>

LedgerNext ==
  \/ \E r \in Recorder, x \in Payload: RecordCalled(r, x)
  \/ \E r \in Recorder: RecordCommits(r) \/ RecordFails(r)
  \/ ReportVerifies \/ ReportCounts
  \/ \E i \in DOMAIN chain: Damage(i)

LedgerSpec == LedgerInit /\ [][LedgerNext]_ledgerVars

----------------------------------------------------------------------------
\* A chain that verifies consists of blocks that were committed as they are, from
\* the first on without a gap, each made on top of the one before: damage before
\* the last block never goes unseen, whatever was recorded after it. (Two damages
\* may: a block made on a row whose hash had become that of no block begins a chain
\* once that row is gone.) And a report of an undamaged ledger is about at least
\* the blocks it verified.
ChainTells ==
  /\ LedgerTypeOK
  /\ verify_chain_integrity => \A i \in DOMAIN chain:
       /\ chain[i] \in minted
       /\ i > 0 => i - 1 \in DOMAIN chain \/ (damages > 1 /\ chain[i].prev_hash = Genesis)
  /\ audit_report.pc = "done" /\ damages = 0 =>
       audit_report.valid /\ audit_report.total >= audit_report.seen

=============================================================================

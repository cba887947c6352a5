------------------------------ MODULE WalStore ------------------------------
(***************************************************************************)
(* The transaction log of fabric/src/memory/wal_store.js as operators on a *)
(* function from rowids to rows.  A new row gets a rowid above all others. *)
(*                                                                         *)
(* A hash is taken over a step number, the hash before it and a payload.   *)
(* Payloads carry the identifiers and times of what they record, and two   *)
(* rows that stay in the log have different ones, so that a hash is known  *)
(* by the rowid of its row once the other two are kept beside it.          *)
(***************************************************************************)
EXTENDS Integers, FiniteSetsExt, Functions

Genesis == 0

\* The rowids of a session's rows in the log.
RowsOf(log, s) == {i \in DOMAIN log : log[i].session = s}

CommittedOf(log, s) == {i \in RowsOf(log, s) : log[i].committed}

\* The link to the last of these rows, which is its hash.
LinkTo(rows) == IF rows = {} THEN Genesis ELSE Max(rows)

\* A mutation: steps that were rolled back are not linked to.
LastCommittedLink(log, s) == LinkTo(CommittedOf(log, s))

\* The link a new row of the session takes: the hash of the session's last row.
LastLink(log, s) == LinkTo(RowsOf(log, s))

\* The rows with this task_id, the primary key, which INSERT OR REPLACE deletes.
Replaced(log, id) == {i \in DOMAIN log : log[i].id = id}

\* commitMicroStep: the link and the step number are read before the insertion.
CommitMicroStep(log, rowid, row) ==
  LET linked == [row EXCEPT !.prev = LastLink(log, row.session),
                            !.step = Cardinality(RowsOf(log, row.session)) + 1]
  IN [i \in (DOMAIN log \ Replaced(log, row.id)) \union {rowid} |->
        IF i = rowid THEN linked ELSE log[i]]

\* A mutation: a rollback deletes the rows.
DeleteStep(log, ids) == Restrict(log, {i \in DOMAIN log : log[i].id \notin ids})

\* rollbackStep of each of ids: the row stays and loses its mark.
RollbackStep(log, ids) ==
  [i \in DOMAIN log |-> [log[i] EXCEPT !.committed = @ /\ log[i].id \notin ids]]

\* What a sender has committed in a session.
StepsOf(log, s, sender) == {i \in CommittedOf(log, s) : log[i].sender = sender}

\* getRecentTransactions of these.
RecentTransactions(steps, limit) == {i \in steps : Cardinality({j \in steps : j >= i}) <= limit}

\* getLatestTransaction, as a set of no row or one.
LatestTransaction(log, s) ==
  LET rows == CommittedOf(log, s) IN IF rows = {} THEN {} ELSE {Max(rows)}

\* verifyIntegrity of one session.
VerifyIntegrity(log, s) ==
  \A i \in RowsOf(log, s) :
    LET before == {j \in RowsOf(log, s) : j < i}
    IN /\ log[i].prev = LinkTo(before)
       /\ log[i].step = Cardinality(before) + 1

=============================================================================

--------------------------- MODULE ReplicatedLog ---------------------------
(***************************************************************************)
(* What a Raft cluster promises its clients: one log of committed entries  *)
(* that only grows, of which every node applies a growing prefix, and in   *)
(* which whoever is told COMMITTED finds the very entry proposed.          *)
(***************************************************************************)
EXTENDS Integers, Sequences

CONSTANT Server

VARIABLES
  history,      \* the committed entries
  applied,      \* for each server, how many of them it has applied
  answers       \* the promises resolved: records of a node, an index and an entry

LInit ==
  /\ history = <<>>
  /\ applied = [s \in Server |-> 0]
  /\ answers = {}

\* Entries are added at the end.
Extended ==
  /\ Len(history) <= Len(history')
  /\ \A n \in 1..Len(history) : history'[n] = history[n]

\* No server applies again what it has applied, nor what is not committed.
Applies ==
  \A s \in Server : applied[s] <= applied'[s] /\ applied'[s] <= Len(history')

\* An answer stands for ever.  It is given when the server applies the entry, neither
\* before nor after.
Answers ==
  /\ answers \subseteq answers'
  /\ \A a \in answers' \ answers :
       /\ a.node \in Server
       /\ a.index \in (applied[a.node] + 1)..applied'[a.node]
       /\ history'[a.index] = a.entry

\* One turn of an event loop may commit, apply and answer at once.
LNext == Extended /\ Applies /\ Answers

LSpec == LInit /\ [][LNext]_<<history, applied, answers>>

=============================================================================

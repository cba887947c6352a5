-------------------------- MODULE KnowledgeHistory --------------------------
(***************************************************************************)
(* What the knowledge runtime promises its users: one history of lifecycle *)
(* transitions, to which every transition is added once, after the state   *)
(* its predecessors left, and from which nothing is ever lost.             *)
(***************************************************************************)
EXTENDS Integers, Sequences, FiniteSetsExt, KnowledgeLifecycle

CONSTANTS
  Knowledge,    \* the identifiers of pieces of knowledge
  Absent        \* not created

VARIABLES
  entities,     \* the initial state of each piece of knowledge, or Absent
  history       \* the transitions, in the order of their sequence numbers

Transition(k, from, to) == [knowledge |-> k, from |-> from, to |-> to]

Own(k) == {n \in DOMAIN history : history[n].knowledge = k}

StateOf(k) == IF Own(k) = {} THEN entities[k] ELSE history[Max(Own(k))].to

HInit ==
  /\ entities = [k \in Knowledge |-> Absent]
  /\ history = <<>>

HCreate(k, state) ==
  /\ entities[k] = Absent
  /\ entities' = [entities EXCEPT ![k] = state]
  /\ UNCHANGED history

HTransition(k, target) ==
  /\ entities[k] # Absent
  /\ target \in Allowed(StateOf(k))
  /\ history' = Append(history, Transition(k, StateOf(k), target))
  /\ UNCHANGED entities

HNext ==
  \E k \in Knowledge, state \in LifecycleState : HCreate(k, state) \/ HTransition(k, state)

HSpec == HInit /\ [][HNext]_<<entities, history>>

=============================================================================

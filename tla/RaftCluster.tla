---------------------------- MODULE RaftCluster -----------------------------
(***************************************************************************)
(* The life of the nodes of module Raft: start(), stop(), addPeer(),       *)
(* removePeer() of RaftNode, and a process that dies and is started again. *)
(*                                                                         *)
(* Nothing of a RaftNode is written to disk, so a restarted process comes  *)
(* back with the state of the constructor; its messages are still on their *)
(* way.  Each node keeps a peer set of its own, changed by local calls.    *)
(***************************************************************************)
EXTENDS Raft

CONSTANT MaxCalls   \* bound: lifecycle calls and restarts, of all nodes together

VARIABLE calls      \* how many lifecycle calls and restarts there were

clusterVars == <<vars, calls>>

ClusterInit == Init /\ calls = 0

Call == calls < MaxCalls /\ calls' = calls + 1

\* start(): the role and the election timer, nothing else.
Start(i) ==
  /\ Call
  /\ role' = [role EXCEPT ![i] = Follower]
  /\ electionTimer' = [electionTimer EXCEPT ![i] = TRUE]
  /\ UNCHANGED <<currentTerm, votedFor, logVars, leaderVars, votesCollected, peers,
                 heartbeatTimer, messages>>

\* Mutant: the timers are cleared and the role is kept.
RoleKept(i) == role[i]

RoleOnStop(i) == Follower

\* stop(): both timers and the role.  handleMessage() stays reachable, and a late
\* message arms the election timer again.
Stop(i) ==
  /\ Call
  /\ electionTimer' = [electionTimer EXCEPT ![i] = FALSE]
  /\ heartbeatTimer' = [heartbeatTimer EXCEPT ![i] = FALSE]
  /\ role' = [role EXCEPT ![i] = RoleOnStop(i)]
  /\ UNCHANGED <<currentTerm, votedFor, logVars, leaderVars, votesCollected, peers,
                 messages>>

\* addPeer(): a leader also starts to track the peer.
AddPeer(i, p) ==
  /\ Call
  /\ p # i
  /\ peers' = [peers EXCEPT ![i] = @ \cup {p}]
  /\ IF role[i] = Leader
       THEN /\ nextIndex' = [nextIndex EXCEPT ![i][p] = Len(log[i]) + 1]
            /\ matchIndex' = [matchIndex EXCEPT ![i][p] = 0]
       ELSE UNCHANGED leaderVars
  /\ UNCHANGED <<termVars, logVars, votesCollected, timerVars, messages>>

\* removePeer(): absent from the maps, a peer reads as nextIndex 1, matchIndex 0.
RemovePeer(i, p) ==
  /\ Call
  /\ p \in peers[i]
  /\ peers' = [peers EXCEPT ![i] = @ \ {p}]
  /\ nextIndex' = [nextIndex EXCEPT ![i][p] = 1]
  /\ matchIndex' = [matchIndex EXCEPT ![i][p] = 0]
  /\ UNCHANGED <<termVars, logVars, votesCollected, timerVars, messages>>

AppliedOnStart(i) == 0

\* The process dies and runs again: the constructor, with the configured peers,
\* then start().
Restart(i) ==
  /\ Call
  /\ currentTerm' = [currentTerm EXCEPT ![i] = 0]
  /\ votedFor' = [votedFor EXCEPT ![i] = Nil]
  /\ log' = [log EXCEPT ![i] = <<>>]
  /\ commitIndex' = [commitIndex EXCEPT ![i] = 0]
  /\ lastApplied' = [lastApplied EXCEPT ![i] = AppliedOnStart(i)]
  /\ role' = [role EXCEPT ![i] = Follower]
  /\ nextIndex' = [nextIndex EXCEPT ![i] = [p \in Node |-> 1]]
  /\ matchIndex' = [matchIndex EXCEPT ![i] = [p \in Node |-> 0]]
  /\ votesCollected' = [votesCollected EXCEPT ![i] = {}]
  /\ peers' = [peers EXCEPT ![i] = Node \ {i}]
  /\ electionTimer' = [electionTimer EXCEPT ![i] = TRUE]
  /\ heartbeatTimer' = [heartbeatTimer EXCEPT ![i] = FALSE]
  /\ UNCHANGED messages

Engine == Next /\ UNCHANGED calls

ClusterNext ==
  \/ Engine
  \/ \E i \in Node : Start(i)
  \/ \E i \in Node : Stop(i)
  \/ \E i, p \in Node : AddPeer(i, p)
  \/ \E i, p \in Node : RemovePeer(i, p)
  \/ \E i \in Node : Restart(i)

ClusterSpec == ClusterInit /\ [][ClusterNext]_clusterVars

-----------------------------------------------------------------------------
(* Properties *)

\* A node that campaigns or leads has the timer its role needs, through every
\* stop(), start(), restart and change of peers: no leader without a heartbeat,
\* no candidate that can never retry.
ActiveRolesTimed ==
  \A i \in Node : /\ role[i] = Leader => heartbeatTimer[i]
                  /\ role[i] = Candidate => electionTimer[i]

\* What the constructor sets: a restart forgets all of it.
Forgets(i) ==
  /\ currentTerm'[i] = 0
  /\ votedFor'[i] = Nil
  /\ log'[i] = <<>>
  /\ commitIndex'[i] = 0
  /\ lastApplied'[i] = 0

VoteStands(i) ==
  \/ currentTerm'[i] > currentTerm[i]
  \/ currentTerm'[i] = currentTerm[i] /\ votedFor[i] \in {Nil, votedFor'[i]}

\* What a step applies is, at that moment, committed and held.  (Later the log may
\* be cut and commitIndex lowered below lastApplied, by a leader that was left
\* alone in its cluster and counted only its own, shorter log.)
AppliesCommitted(i) ==
  \/ lastApplied'[i] = lastApplied[i]
  \/ /\ lastApplied'[i] > lastApplied[i]
     /\ lastApplied'[i] <= commitIndex'[i]
     /\ commitIndex'[i] <= Len(log'[i])

StandsOrForgets ==
  \A i \in Node : \/ Forgets(i)
                  \/ VoteStands(i) /\ AppliesCommitted(i)

\* Only a restart, which forgets everything, lowers a term, takes back a vote or
\* winds lastApplied back to apply a second time; no call, no change of peers and
\* no message of an earlier life does so.
OnlyRestartForgets == [][StandsOrForgets]_clusterVars

=============================================================================

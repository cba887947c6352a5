-------------------------------- MODULE Raft --------------------------------
(***************************************************************************)
(* The Raft engine of the Fabric layer,                                    *)
(* fabric/src/consensus/raft_consensus.js, class RaftNode: leader election,*)
(* log replication, commitment and application over the callback transport *)
(* (sendMessage / handleMessage).                                          *)
(*                                                                         *)
(* One action is one turn of the JavaScript event loop: a timer callback,  *)
(* the delivery of one message, or the synchronous part of propose().      *)
(* "messages" holds every message ever sent: a message may be delivered    *)
(* late, in any order, more than once, or never.                           *)
(*                                                                         *)
(* Abstractions: an entry is its term and its command (the index is its    *)
(* position; id, timestamp and the two hashes are determined by the prefix *)
(* it closes); the randomised time-out is "the armed election timer may    *)
(* fire"; leaderId, which only labels status reports, is left out.         *)
(***************************************************************************)
EXTENDS Integers, Sequences, FiniteSets, FiniteSetsExt

CONSTANTS
  Node,        \* the nodes of the cluster
  Value,       \* the commands clients propose
  Poison,      \* the commands on which the applyCommand callback throws
  Nil,         \* votedFor === null
  MaxTerm,     \* bound: no election is started beyond this term
  MaxLogLen,   \* bound: nothing is proposed to a log of this length
  MaxMessages  \* bound: no step sends beyond this many distinct messages

ASSUME NodeAssumption ==
  /\ IsFiniteSet(Node)
  /\ Node # {}
  /\ Nil \notin Node
  /\ Poison \subseteq Value

ASSUME BoundAssumption == MaxTerm \in Nat /\ MaxLogLen \in Nat /\ MaxMessages \in Nat

Follower  == "FOLLOWER"
Candidate == "CANDIDATE"
Leader    == "LEADER"
Role      == {Follower, Candidate, Leader}

VARIABLES
  currentTerm, votedFor, log,       \* "persistent state" of the constructor
  commitIndex, lastApplied, role,   \* volatile state of every node
  nextIndex, matchIndex,            \* volatile state of leaders
  votesCollected,                   \* _votesCollected; {} is null or undefined
  peers,                            \* the peer set each node believes in
  electionTimer, heartbeatTimer,    \* whether each timer handle is armed
  messages

termVars   == <<currentTerm, votedFor, role>>
logVars    == <<log, commitIndex, lastApplied>>
leaderVars == <<nextIndex, matchIndex>>
timerVars  == <<electionTimer, heartbeatTimer>>
vars       == <<termVars, logVars, leaderVars, votesCollected, peers,
                timerVars, messages>>

-----------------------------------------------------------------------------
(* Logs, quorums and messages *)

LastTerm(lg) == IF lg = <<>> THEN 0 ELSE lg[Len(lg)].term

TermAt(lg, i) == IF i \in 1..Len(lg) THEN lg[i].term ELSE 0

\* Mutant: the node forgets to count itself among the nodes of the cluster.
QuorumWithoutSelf(i) == (Cardinality(peers[i]) + 1) \div 2

QuorumSize(i) == (Cardinality(peers[i]) + 1) \div 2 + 1

SmallerOf(a, b) == IF a < b THEN a ELSE b
LargerOf(a, b)  == IF a < b THEN b ELSE a

\* Mutant: entries that are there already are pushed again.
MergeWithDuplicates(lg, prev, es) == lg \o es

\* The loop that appends entries es after position prev: it keeps what agrees
\* on the term, cuts at the first conflict and pushes the rest.
MergeEntries(lg, prev, es) ==
  LET conflicts == {k \in 1..Len(es) : /\ prev + k <= Len(lg)
                                       /\ lg[prev + k].term # es[k].term}
      keep      == IF conflicts = {} THEN Len(lg) ELSE prev + Min(conflicts) - 1
  IN  SubSeq(lg, 1, keep) \o SubSeq(es, keep - prev + 1, Len(es))

\* applyLogs(): lastApplied is raised before the callback is called, so a
\* callback that throws leaves the loop with its own entry counted as applied.
ThrowsAt(lg, from, to) == {k \in (from + 1)..to : lg[k].cmd \in Poison}

AppliedUpTo(lg, from, to) ==
  IF ThrowsAt(lg, from, to) = {} THEN LargerOf(from, to)
                                 ELSE Min(ThrowsAt(lg, from, to))

\* One APPEND_ENTRIES message of replicateLogs(), with the whole suffix of lg
\* from the peer's nextIndex.
AppendMsg(i, p, term, lg, next, commit) ==
  [type         |-> "APPEND_ENTRIES",
   from         |-> i,
   to           |-> p,
   term         |-> term,
   prevLogIndex |-> next - 1,
   prevLogTerm  |-> TermAt(lg, next - 1),
   entries      |-> SubSeq(lg, next, Len(lg)),
   leaderCommit |-> commit]

AppendReply(m, term, success, lg) ==
  [type       |-> "APPEND_ENTRIES_REPLY",
   from       |-> m.to,
   to         |-> m.from,
   term       |-> term,
   success    |-> success,
   matchIndex |-> Len(lg)]

Send(ms) ==
  /\ messages' = messages \cup ms
  /\ Cardinality(messages') <= MaxMessages

-----------------------------------------------------------------------------
(* The prologue of handleMessage(): a higher term makes the receiver a     *)
(* follower of that term, clears its vote and its heartbeat, re-arms the   *)
(* election timer.                                                         *)

\* Mutant: a message of the current term resets the vote too.
NewerOrSameTerm(m) == m.term >= currentTerm[m.to]

NewerTerm(m) == m.term > currentTerm[m.to]

\* Mutant: the node adopts the term and keeps its role.
RoleWithoutStepDown(m) == role[m.to]

TermAfter(m) == IF NewerTerm(m) THEN m.term ELSE currentTerm[m.to]
RoleAfter(m) == IF NewerTerm(m) THEN Follower ELSE role[m.to]
VoteAfter(m) == IF NewerTerm(m) THEN Nil ELSE votedFor[m.to]

ObserveTerm(m) ==
  currentTerm' = [currentTerm EXCEPT ![m.to] = TermAfter(m)]

-----------------------------------------------------------------------------
Init ==
  /\ currentTerm    = [i \in Node |-> 0]
  /\ votedFor       = [i \in Node |-> Nil]
  /\ log            = [i \in Node |-> <<>>]
  /\ commitIndex    = [i \in Node |-> 0]
  /\ lastApplied    = [i \in Node |-> 0]
  /\ role           = [i \in Node |-> Follower]
  /\ nextIndex      = [i \in Node |-> [p \in Node |-> 1]]
  /\ matchIndex     = [i \in Node |-> [p \in Node |-> 0]]
  /\ votesCollected = [i \in Node |-> {}]
  /\ peers          = [i \in Node |-> Node \ {i}]
  /\ electionTimer  = [i \in Node |-> TRUE]
  /\ heartbeatTimer = [i \in Node |-> FALSE]
  /\ messages       = {}

\* becomeLeader() for a node whose term is "term": the first heartbeat goes
\* out in the same turn, with the nextIndex it has just set.
BecomeLeader(i, term) ==
  /\ role' = [role EXCEPT ![i] = Leader]
  /\ electionTimer' = [electionTimer EXCEPT ![i] = FALSE]
  /\ heartbeatTimer' = [heartbeatTimer EXCEPT ![i] = TRUE]
  /\ nextIndex' = [nextIndex EXCEPT ![i] =
       [p \in Node |-> IF p \in peers[i] THEN Len(log[i]) + 1 ELSE @[p]]]
  /\ matchIndex' = [matchIndex EXCEPT ![i] =
       [p \in Node |-> IF p \in peers[i] THEN 0 ELSE @[p]]]
  /\ Send({AppendMsg(i, p, term, log[i], Len(log[i]) + 1, commitIndex[i])
             : p \in peers[i]})

\* The election timer fires: startElection().
StartElection(i) ==
  /\ electionTimer[i]
  /\ currentTerm[i] < MaxTerm
  /\ currentTerm' = [currentTerm EXCEPT ![i] = @ + 1]
  /\ votedFor' = [votedFor EXCEPT ![i] = i]
  /\ \/ /\ QuorumSize(i) <= 1
        /\ BecomeLeader(i, currentTerm[i] + 1)
     \/ /\ QuorumSize(i) > 1
        /\ role' = [role EXCEPT ![i] = Candidate]
        /\ Send({[type         |-> "REQUEST_VOTE",
                  from         |-> i,
                  to           |-> p,
                  term         |-> currentTerm[i] + 1,
                  lastLogIndex |-> Len(log[i]),
                  lastLogTerm  |-> LastTerm(log[i])] : p \in peers[i]})
        /\ UNCHANGED <<leaderVars, timerVars>>
  /\ UNCHANGED <<logVars, votesCollected, peers>>

\* The heartbeat interval fires: replicateLogs() if the node still leads.
Heartbeat(i) ==
  /\ heartbeatTimer[i]
  /\ role[i] = Leader
  /\ Send({AppendMsg(i, p, currentTerm[i], log[i], nextIndex[i][p], commitIndex[i])
             : p \in peers[i]})
  /\ UNCHANGED <<termVars, logVars, leaderVars, votesCollected, peers, timerVars>>

\* propose(): a leader appends the command and replicates it; alone in its
\* cluster it commits and applies at once.
Propose(i, v) ==
  LET newLog == Append(log[i], [term |-> currentTerm[i], cmd |-> v])
  IN  /\ role[i] = Leader
      /\ Len(log[i]) < MaxLogLen
      /\ log' = [log EXCEPT ![i] = newLog]
      /\ \/ /\ peers[i] = {}
            /\ commitIndex' = [commitIndex EXCEPT ![i] = Len(newLog)]
            /\ lastApplied' = [lastApplied EXCEPT ![i] = AppliedUpTo(newLog, @, Len(newLog))]
            /\ UNCHANGED messages
         \/ /\ peers[i] # {}
            /\ Send({AppendMsg(i, p, currentTerm[i], newLog, nextIndex[i][p], commitIndex[i])
                       : p \in peers[i]})
            /\ UNCHANGED <<commitIndex, lastApplied>>
      /\ UNCHANGED <<termVars, leaderVars, votesCollected, peers, timerVars>>

-----------------------------------------------------------------------------
(* handleRequestVote() *)

\* Mutant: any candidate's log will do.
AnyLogWillDo(m) == TRUE

LogUpToDate(m) ==
  LET lg == log[m.to]
  IN  \/ m.lastLogTerm > LastTerm(lg)
      \/ m.lastLogTerm = LastTerm(lg) /\ m.lastLogIndex >= Len(lg)

\* Mutant: the vote already cast is not looked at.
GrantsVoteAgain(m) == m.term >= TermAfter(m) /\ LogUpToDate(m)

GrantsVote(m) ==
  /\ m.term >= TermAfter(m)
  /\ VoteAfter(m) \in {Nil, m.from}
  /\ LogUpToDate(m)

HandleRequestVote(m) ==
  /\ m.type = "REQUEST_VOTE"
  /\ ObserveTerm(m)
  /\ role' = [role EXCEPT ![m.to] = RoleAfter(m)]
  /\ votedFor' = [votedFor EXCEPT ![m.to] =
       IF GrantsVote(m) THEN m.from ELSE VoteAfter(m)]
  /\ heartbeatTimer' = [heartbeatTimer EXCEPT ![m.to] = @ /\ ~NewerTerm(m)]
  /\ electionTimer' = [electionTimer EXCEPT ![m.to] = @ \/ NewerTerm(m) \/ GrantsVote(m)]
  /\ Send({[type        |-> "REQUEST_VOTE_REPLY",
            from        |-> m.to,
            to          |-> m.from,
            term        |-> TermAfter(m),
            voteGranted |-> GrantsVote(m)]})
  /\ UNCHANGED <<logVars, leaderVars, votesCollected, peers>>

-----------------------------------------------------------------------------
(* handleRequestVoteReply(): the set of votes is created on the first vote *)
(* and dropped when the node wins; no other step clears it.                *)

VotesWith(m) == votesCollected[m.to] \cup {m.to, m.from}

CountsVote(m) ==
  /\ RoleAfter(m) = Candidate
  /\ m.term = TermAfter(m)
  /\ m.voteGranted

HandleRequestVoteReply(m) ==
  /\ m.type = "REQUEST_VOTE_REPLY"
  /\ ObserveTerm(m)
  /\ votedFor' = [votedFor EXCEPT ![m.to] = VoteAfter(m)]
  /\ \/ /\ CountsVote(m)
        /\ Cardinality(VotesWith(m)) >= QuorumSize(m.to)
        /\ votesCollected' = [votesCollected EXCEPT ![m.to] = {}]
        /\ BecomeLeader(m.to, m.term)
     \/ /\ CountsVote(m)
        /\ Cardinality(VotesWith(m)) < QuorumSize(m.to)
        /\ votesCollected' = [votesCollected EXCEPT ![m.to] = VotesWith(m)]
        /\ UNCHANGED <<role, leaderVars, timerVars, messages>>
     \/ /\ ~CountsVote(m)
        /\ role' = [role EXCEPT ![m.to] = RoleAfter(m)]
        /\ heartbeatTimer' = [heartbeatTimer EXCEPT ![m.to] = @ /\ ~NewerTerm(m)]
        /\ electionTimer' = [electionTimer EXCEPT ![m.to] = @ \/ NewerTerm(m)]
        /\ UNCHANGED <<votesCollected, leaderVars, messages>>
  /\ UNCHANGED <<logVars, peers>>

-----------------------------------------------------------------------------
(* handleAppendEntries() *)

PrevEntryMatches(m) ==
  m.prevLogIndex > 0 =>
    /\ m.prevLogIndex <= Len(log[m.to])
    /\ log[m.to][m.prevLogIndex].term = m.prevLogTerm

CommitAfter(m, lg) ==
  IF m.leaderCommit > commitIndex[m.to] THEN SmallerOf(m.leaderCommit, Len(lg))
                                        ELSE commitIndex[m.to]

\* The accepting branch; a callback that throws in applyLogs() escapes before
\* the reply is sent.
AcceptEntries(m) ==
  LET newLog  == MergeEntries(log[m.to], m.prevLogIndex, m.entries)
      commit  == CommitAfter(m, newLog)
      applies == m.leaderCommit > commitIndex[m.to]
      throws  == applies /\ ThrowsAt(newLog, lastApplied[m.to], commit) # {}
  IN  /\ log' = [log EXCEPT ![m.to] = newLog]
      /\ commitIndex' = [commitIndex EXCEPT ![m.to] = commit]
      /\ lastApplied' = [lastApplied EXCEPT ![m.to] =
           IF applies THEN AppliedUpTo(newLog, @, commit) ELSE @]
      /\ Send(IF throws THEN {} ELSE {AppendReply(m, TermAfter(m), TRUE, newLog)})

HandleAppendEntries(m) ==
  /\ m.type = "APPEND_ENTRIES"
  /\ ObserveTerm(m)
  /\ votedFor' = [votedFor EXCEPT ![m.to] = VoteAfter(m)]
  /\ heartbeatTimer' = [heartbeatTimer EXCEPT ![m.to] = @ /\ ~NewerTerm(m)]
  /\ \/ /\ m.term < TermAfter(m)
        /\ Send({AppendReply(m, TermAfter(m), FALSE, log[m.to])})
        /\ UNCHANGED <<role, electionTimer, logVars>>
     \/ /\ m.term >= TermAfter(m)
        /\ role' = [role EXCEPT ![m.to] = Follower]
        /\ electionTimer' = [electionTimer EXCEPT ![m.to] = TRUE]
        /\ \/ /\ PrevEntryMatches(m)
              /\ AcceptEntries(m)
           \/ /\ ~PrevEntryMatches(m)
              /\ Send({AppendReply(m, TermAfter(m), FALSE, log[m.to])})
              /\ UNCHANGED logVars
  /\ UNCHANGED <<leaderVars, votesCollected, peers>>

-----------------------------------------------------------------------------
(* handleAppendEntriesReply() and checkAndAdvanceCommitIndex() *)

\* Mutant: one match too few makes a quorum.
CommittableEarly(i, match) ==
  {n \in (commitIndex[i] + 1)..Len(log[i]) :
     /\ log[i][n].term = currentTerm[i]
     /\ Cardinality({p \in peers[i] : match[p] >= n}) + 1 >= QuorumSize(i) - 1}

\* The indexes above commitIndex that hold an entry of the leader's own term
\* and that match, a matchIndex per peer, a quorum.
Committable(i, match) ==
  {n \in (commitIndex[i] + 1)..Len(log[i]) :
     /\ log[i][n].term = currentTerm[i]
     /\ Cardinality({p \in peers[i] : match[p] >= n}) + 1 >= QuorumSize(i)}

AdvanceCommit(i, match) ==
  LET new == IF Committable(i, match) = {} THEN commitIndex[i]
                                           ELSE Max(Committable(i, match))
  IN  /\ commitIndex' = [commitIndex EXCEPT ![i] = new]
      /\ lastApplied' = [lastApplied EXCEPT ![i] =
           IF new = commitIndex[i] THEN @ ELSE AppliedUpTo(log[i], @, new)]

BackOff(next) == LargerOf(1, next - 1)

LeaderTakesReply(m) == RoleAfter(m) = Leader /\ m.term = TermAfter(m)

HandleAppendEntriesReply(m) ==
  /\ m.type = "APPEND_ENTRIES_REPLY"
  /\ ObserveTerm(m)
  /\ role' = [role EXCEPT ![m.to] = RoleAfter(m)]
  /\ votedFor' = [votedFor EXCEPT ![m.to] = VoteAfter(m)]
  /\ heartbeatTimer' = [heartbeatTimer EXCEPT ![m.to] = @ /\ ~NewerTerm(m)]
  /\ electionTimer' = [electionTimer EXCEPT ![m.to] = @ \/ NewerTerm(m)]
  /\ \/ /\ LeaderTakesReply(m)
        /\ m.success
        /\ nextIndex' = [nextIndex EXCEPT ![m.to][m.from] = m.matchIndex + 1]
        /\ matchIndex' = [matchIndex EXCEPT ![m.to][m.from] = m.matchIndex]
        /\ AdvanceCommit(m.to, [matchIndex[m.to] EXCEPT ![m.from] = m.matchIndex])
     \/ /\ LeaderTakesReply(m)
        /\ ~m.success
        /\ nextIndex' = [nextIndex EXCEPT ![m.to][m.from] = BackOff(@)]
        /\ UNCHANGED <<matchIndex, commitIndex, lastApplied>>
     \/ /\ ~LeaderTakesReply(m)
        /\ UNCHANGED <<leaderVars, commitIndex, lastApplied>>
  /\ UNCHANGED <<log, votesCollected, peers, messages>>

-----------------------------------------------------------------------------
Deliver(m) ==
  \/ HandleRequestVote(m)
  \/ HandleRequestVoteReply(m)
  \/ HandleAppendEntries(m)
  \/ HandleAppendEntriesReply(m)

Next ==
  \/ \E i \in Node : StartElection(i)
  \/ \E i \in Node : Heartbeat(i)
  \/ \E i \in Node, v \in Value : Propose(i, v)
  \/ \E m \in messages : Deliver(m)

Spec == Init /\ [][Next]_vars

-----------------------------------------------------------------------------
(* Properties *)

Entry == [term : Nat, cmd : Value]

Message ==
       [type : {"REQUEST_VOTE"}, from : Node, to : Node, term : Nat,
        lastLogIndex : Nat, lastLogTerm : Nat]
  \cup [type : {"REQUEST_VOTE_REPLY"}, from : Node, to : Node, term : Nat,
        voteGranted : BOOLEAN]
  \cup [type : {"APPEND_ENTRIES"}, from : Node, to : Node, term : Nat,
        prevLogIndex : Nat, prevLogTerm : Nat, entries : Seq(Entry),
        leaderCommit : Nat]
  \cup [type : {"APPEND_ENTRIES_REPLY"}, from : Node, to : Node, term : Nat,
        success : BOOLEAN, matchIndex : Nat]

\* Every field of RaftNode holds a value of the kind its constructor gives it,
\* and every message sent is one the handlers can read.
TypeOK ==
  /\ currentTerm \in [Node -> Nat]
  /\ votedFor \in [Node -> Node \cup {Nil}]
  /\ log \in [Node -> Seq(Entry)]
  /\ commitIndex \in [Node -> Nat]
  /\ lastApplied \in [Node -> Nat]
  /\ role \in [Node -> Role]
  /\ nextIndex \in [Node -> [Node -> Nat \ {0}]]
  /\ matchIndex \in [Node -> [Node -> Nat]]
  /\ votesCollected \in [Node -> SUBSET Node]
  /\ peers \in [Node -> SUBSET Node]
  /\ electionTimer \in [Node -> BOOLEAN]
  /\ heartbeatTimer \in [Node -> BOOLEAN]
  /\ messages \subseteq Message

\* At most one node leads a term, as "Raft Leader Election" promises
\* (handleRequestVote grants one vote a term, handleRequestVoteReply needs a
\* quorum of them).
ElectionSafety ==
  \A i, j \in Node :
    role[i] = Leader /\ role[j] = Leader /\ currentTerm[i] = currentTerm[j]
      => i = j

\* A node that has granted its vote in a term, in however many replies, has
\* granted it to one candidate (canVote of handleRequestVote).
IsGrant(m) == m.type = "REQUEST_VOTE_REPLY" /\ m.voteGranted

OneVotePerTerm ==
  \A m1, m2 \in messages :
    IsGrant(m1) /\ IsGrant(m2) /\ m1.from = m2.from /\ m1.term = m2.term
      => m1.to = m2.to

\* Two logs that hold an entry of the same term at the same index agree on
\* everything up to it: the property that the entryHash chain of propose()
\* stands for and that the consistency check of handleAppendEntries maintains.
LogMatching ==
  \A i, j \in Node :
    \A n \in 1..SmallerOf(Len(log[i]), Len(log[j])) :
      log[i][n].term = log[j][n].term
        => SubSeq(log[i], 1, n) = SubSeq(log[j], 1, n)

\* A node is never left without a timer: a leader has its heartbeat interval
\* and no election timer, any other node an armed election timer, so that it
\* campaigns again if it hears nothing (resetElectionTimeout and
\* clearHeartbeatTimer on every path through handleMessage).
TimersArmed ==
  \A i \in Node : IF role[i] = Leader
                   THEN heartbeatTimer[i] /\ ~electionTimer[i]
                   ELSE electionTimer[i]

\* Nobody applies what is not committed, or commits what it does not hold
\* (CommitAfter is bounded by the log, applyLogs by commitIndex).
AppliedCommittedHeld ==
  \A i \in Node : lastApplied[i] <= commitIndex[i] /\ commitIndex[i] <= Len(log[i])

\* What any node takes as committed is held, the same entry at the same index,
\* by a quorum of the cluster ("quorum consensus", checkAndAdvanceCommitIndex).
Holders(i, n) == {j \in Node : n <= Len(log[j]) /\ log[j][n] = log[i][n]}

CommittedByQuorum ==
  \A i \in Node : \A n \in 1..SmallerOf(commitIndex[i], Len(log[i])) :
    Cardinality(Holders(i, n)) >= Cardinality(Node) \div 2 + 1

\* Any two nodes have applied the same entries, index by index ("Atomic state
\* machine commitment" over "quorum consensus").
StateMachineSafety ==
  \A i, j \in Node :
    \A n \in 1..SmallerOf(lastApplied[i], lastApplied[j]) :
      n <= Len(log[i]) /\ n <= Len(log[j]) /\ log[i][n] = log[j][n]

\* A leader's log holds every entry some node has committed in an earlier or
\* the same term: what logOk of handleRequestVote is for.
LeaderCompleteness ==
  \A i, j \in Node :
    role[i] = Leader /\ currentTerm[i] >= currentTerm[j]
      => /\ commitIndex[j] <= Len(log[i])
         /\ \A n \in 1..commitIndex[j] : log[i][n] = log[j][n]

\* What is committed is safe: on a quorum, applied by nobody before, applied by all
\* alike and held by every leader (the four parts above).
CommittedSafe ==
  CommittedByQuorum /\ AppliedCommittedHeld /\ StateMachineSafety /\ LeaderCompleteness

\* Terms never go back, and a vote cast is not recast in the same term, on any
\* path: timer, request, or a higher term seen in a reply.
TermsAndVotesStable ==
  [][\A i \in Node :
       /\ currentTerm'[i] >= currentTerm[i]
       /\ currentTerm'[i] = currentTerm[i] /\ votedFor[i] # Nil
            => votedFor'[i] = votedFor[i]]_vars

=============================================================================

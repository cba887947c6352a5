----------------------------- MODULE RaftProofs -----------------------------
(* Theorems about the Raft engine and about the life of its nodes, for every  *)
(* cluster and every bound.                                                   *)
EXTENDS RaftCluster, ProofLemmas

-----------------------------------------------------------------------------
(* Types of the values the handlers build *)

LEMMA TermAtType ==
  ASSUME NEW lg \in Seq(Entry), NEW i \in Int
  PROVE  TermAt(lg, i) \in Nat /\ LastTerm(lg) \in Nat
<1>1. \A k \in 1..Len(lg) : lg[k] \in Entry
  BY ElementOfSeq
<1>2. lg # <<>> => Len(lg) \in 1..Len(lg)
  BY EmptySeq
<1> QED
  BY <1>1, <1>2 DEF TermAt, LastTerm, Entry

LEMMA AppendMsgType ==
  ASSUME NEW i \in Node, NEW p \in Node, NEW term \in Nat, NEW lg \in Seq(Entry),
         NEW next \in Nat \ {0}, NEW commit \in Nat
  PROVE  AppendMsg(i, p, term, lg, next, commit) \in Message
<1>1. Len(lg) \in Nat
  BY LenProperties
<1>2. SubSeq(lg, next, Len(lg)) \in Seq(Entry)
  BY <1>1, SubSeqType
<1>3. TermAt(lg, next - 1) \in Nat
  BY TermAtType
<1> QED
  BY <1>2, <1>3 DEF AppendMsg, Message

LEMMA MergeEntriesType ==
  ASSUME NEW lg \in Seq(Entry), NEW prev \in Nat, NEW es \in Seq(Entry),
         prev <= Len(lg)
  PROVE  MergeEntries(lg, prev, es) \in Seq(Entry)
<1> DEFINE conflicts == {k \in 1..Len(es) : /\ prev + k <= Len(lg)
                                            /\ lg[prev + k].term # es[k].term}
           keep      == IF conflicts = {} THEN Len(lg) ELSE prev + Min(conflicts) - 1
<1>1. Len(lg) \in Nat /\ Len(es) \in Nat
  BY LenProperties
<1>2. keep \in Nat /\ keep <= Len(lg) /\ keep >= prev
  <2>1. CASE conflicts = {}
    BY <1>1, <2>1
  <2>2. CASE conflicts # {}
    <3>1. conflicts \in SUBSET Nat
      BY <1>1
    <3>2. Min(conflicts) \in conflicts
      BY <2>2, <3>1, MinOfNaturals
    <3>3. Min(conflicts) \in Nat \ {0} /\ prev + Min(conflicts) <= Len(lg)
      BY <1>1, <3>2
    <3> QED
      BY <1>1, <2>2, <3>3
  <2> QED
    BY <2>1, <2>2
<1> HIDE DEF conflicts, keep
<1>3. SubSeq(lg, 1, keep) \in Seq(Entry)
  BY <1>1, <1>2, SubSeqType
<1>4. SubSeq(es, keep - prev + 1, Len(es)) \in Seq(Entry)
  BY <1>1, <1>2, SubSeqType
<1>5. MergeEntries(lg, prev, es) = SubSeq(lg, 1, keep) \o SubSeq(es, keep - prev + 1, Len(es))
  BY DEF MergeEntries, conflicts, keep
<1> QED
  BY <1>3, <1>4, <1>5, ConcatProperties

LEMMA AppliedUpToType ==
  ASSUME NEW lg, NEW from \in Nat, NEW to \in Nat
  PROVE  AppliedUpTo(lg, from, to) \in Nat
<1>1. CASE ThrowsAt(lg, from, to) = {}
  BY <1>1 DEF AppliedUpTo, LargerOf
<1>2. CASE ThrowsAt(lg, from, to) # {}
  <2>1. ThrowsAt(lg, from, to) \in SUBSET Nat
    BY DEF ThrowsAt
  <2> QED
    BY <1>2, <2>1, MinOfNaturals DEF AppliedUpTo
<1> QED
  BY <1>1, <1>2

\* The four kinds of message, taken apart.
LEMMA MessageFields ==
  ASSUME NEW m \in Message
  PROVE  /\ m.from \in Node /\ m.to \in Node /\ m.term \in Nat
         /\ m.type = "REQUEST_VOTE" => m.lastLogIndex \in Nat /\ m.lastLogTerm \in Nat
         /\ m.type = "REQUEST_VOTE_REPLY" => m.voteGranted \in BOOLEAN
         /\ m.type = "APPEND_ENTRIES" => /\ m.prevLogIndex \in Nat
                                         /\ m.entries \in Seq(Entry)
                                         /\ m.leaderCommit \in Nat
         /\ m.type = "APPEND_ENTRIES_REPLY" => m.success \in BOOLEAN /\ m.matchIndex \in Nat
BY DEF Message

-----------------------------------------------------------------------------
(* Type correctness, action by action *)

LEMMA BecomeLeaderType ==
  ASSUME TypeOK, NEW i \in Node, NEW term \in Nat, BecomeLeader(i, term)
  PROVE  /\ role' \in [Node -> Role]
         /\ nextIndex' \in [Node -> [Node -> Nat \ {0}]]
         /\ matchIndex' \in [Node -> [Node -> Nat]]
         /\ electionTimer' \in [Node -> BOOLEAN]
         /\ heartbeatTimer' \in [Node -> BOOLEAN]
         /\ messages' \subseteq Message
<1>1. log[i] \in Seq(Entry) /\ Len(log[i]) \in Nat /\ commitIndex[i] \in Nat /\ peers[i] \subseteq Node
  BY LenProperties DEF TypeOK
<1>2. \A p \in peers[i] :
        AppendMsg(i, p, term, log[i], Len(log[i]) + 1, commitIndex[i]) \in Message
  BY <1>1, AppendMsgType
<1>3. messages' \subseteq Message
  BY <1>2 DEF BecomeLeader, Send, TypeOK
<1>4. nextIndex' \in [Node -> [Node -> Nat \ {0}]] /\ matchIndex' \in [Node -> [Node -> Nat]]
  BY <1>1 DEF BecomeLeader, TypeOK
<1> QED
  BY <1>3, <1>4 DEF BecomeLeader, TypeOK, Role

LEMMA StartElectionType ==
  ASSUME TypeOK, NEW i \in Node, StartElection(i)
  PROVE  TypeOK'
<1>1. /\ currentTerm' \in [Node -> Nat]
      /\ votedFor' \in [Node -> Node \cup {Nil}]
      /\ currentTerm[i] + 1 \in Nat
  BY DEF TypeOK, StartElection
<1>2. /\ log' = log /\ commitIndex' = commitIndex /\ lastApplied' = lastApplied
      /\ votesCollected' = votesCollected /\ peers' = peers
  BY DEF StartElection, logVars
<1>3. CASE BecomeLeader(i, currentTerm[i] + 1)
  BY <1>1, <1>2, <1>3, BecomeLeaderType DEF TypeOK
<1>4. CASE ~ BecomeLeader(i, currentTerm[i] + 1)
  <2>1. role' \in [Node -> Role] /\ UNCHANGED <<nextIndex, matchIndex, electionTimer, heartbeatTimer>>
    BY <1>4 DEF StartElection, TypeOK, Role, leaderVars, timerVars
  <2>2. Len(log[i]) \in Nat /\ LastTerm(log[i]) \in Nat /\ peers[i] \subseteq Node
    BY LenProperties, TermAtType DEF TypeOK
  <2>3. messages' \subseteq Message
    BY <1>1, <1>4, <2>2 DEF StartElection, Send, TypeOK, Message
  <2> QED
    BY <1>1, <1>2, <2>1, <2>3 DEF TypeOK
<1> QED
  BY <1>3, <1>4

LEMMA HeartbeatType ==
  ASSUME TypeOK, NEW i \in Node, Heartbeat(i)
  PROVE  TypeOK'
<1>1. \A p \in peers[i] :
        AppendMsg(i, p, currentTerm[i], log[i], nextIndex[i][p], commitIndex[i]) \in Message
  BY AppendMsgType DEF TypeOK
<1> QED
  BY <1>1 DEF Heartbeat, Send, TypeOK, termVars, logVars, leaderVars, timerVars

LEMMA ProposeType ==
  ASSUME TypeOK, NEW i \in Node, NEW v \in Value, Propose(i, v)
  PROVE  TypeOK'
<1> DEFINE newLog == Append(log[i], [term |-> currentTerm[i], cmd |-> v])
<1>1. newLog \in Seq(Entry) /\ Len(newLog) \in Nat
  <2>1. [term |-> currentTerm[i], cmd |-> v] \in Entry /\ log[i] \in Seq(Entry)
    BY DEF TypeOK, Entry
  <2> QED
    BY <2>1, AppendProperties, LenProperties
<1>2. AppliedUpTo(newLog, lastApplied[i], Len(newLog)) \in Nat
  BY <1>1, AppliedUpToType DEF TypeOK
<1>3. \A p \in peers[i] :
        AppendMsg(i, p, currentTerm[i], newLog, nextIndex[i][p], commitIndex[i]) \in Message
  BY <1>1, AppendMsgType DEF TypeOK
<1>4. log' = [log EXCEPT ![i] = newLog]
  BY DEF Propose
<1>5. commitIndex' \in [Node -> Nat] /\ lastApplied' \in [Node -> Nat] /\ messages' \subseteq Message
  <2>1. CASE peers[i] = {}
    <3>1. /\ commitIndex' = [commitIndex EXCEPT ![i] = Len(newLog)]
          /\ lastApplied' = [lastApplied EXCEPT ![i] = AppliedUpTo(newLog, lastApplied[i], Len(newLog))]
          /\ messages' = messages
      BY <2>1 DEF Propose
    <3> HIDE DEF newLog
    <3> QED
      BY <1>1, <1>2, <3>1 DEF TypeOK
  <2>2. CASE peers[i] # {}
    <3>1. Send({AppendMsg(i, p, currentTerm[i], newLog, nextIndex[i][p], commitIndex[i])
                  : p \in peers[i]})
          /\ UNCHANGED <<commitIndex, lastApplied>>
      BY <2>2 DEF Propose
    <3> QED
      BY <1>3, <3>1 DEF Send, TypeOK
  <2> QED
    BY <2>1, <2>2
<1> HIDE DEF newLog
<1>6. log' \in [Node -> Seq(Entry)]
  BY <1>1, <1>4 DEF TypeOK
<1>7. UNCHANGED <<termVars, leaderVars, votesCollected, peers, timerVars>>
  BY DEF Propose
<1> QED
  BY <1>5, <1>6, <1>7 DEF TypeOK, termVars, leaderVars, timerVars

\* What the prologue of handleMessage() leaves in the receiver is well typed.
LEMMA PrologueType ==
  ASSUME TypeOK, NEW m \in messages
  PROVE  /\ m \in Message /\ m.to \in Node /\ m.from \in Node /\ m.term \in Nat
         /\ TermAfter(m) \in Nat
         /\ RoleAfter(m) \in Role
         /\ VoteAfter(m) \in Node \cup {Nil}
         /\ NewerTerm(m) \in BOOLEAN
<1>1. m \in Message /\ m.to \in Node /\ m.from \in Node /\ m.term \in Nat
  BY MessageFields DEF TypeOK
<1>2. NewerTerm(m) \in BOOLEAN
  BY DEF NewerTerm
<1>3. currentTerm[m.to] \in Nat /\ role[m.to] \in Role /\ votedFor[m.to] \in Node \cup {Nil}
  BY <1>1 DEF TypeOK
<1> QED
  BY <1>1, <1>2, <1>3 DEF TermAfter, RoleAfter, VoteAfter, Role

LEMMA HandleRequestVoteType ==
  ASSUME TypeOK, NEW m \in messages, HandleRequestVote(m)
  PROVE  TypeOK'
<1>1. GrantsVote(m) \in BOOLEAN
  BY DEF GrantsVote
<1>2. [type |-> "REQUEST_VOTE_REPLY", from |-> m.to, to |-> m.from,
       term |-> TermAfter(m), voteGranted |-> GrantsVote(m)] \in Message
  BY <1>1, PrologueType DEF Message
<1>3. messages' \subseteq Message
  BY <1>2 DEF HandleRequestVote, Send, TypeOK
<1>4. /\ currentTerm' \in [Node -> Nat] /\ role' \in [Node -> Role]
      /\ votedFor' \in [Node -> Node \cup {Nil}]
  BY PrologueType DEF HandleRequestVote, ObserveTerm, TypeOK
<1>5. electionTimer' \in [Node -> BOOLEAN] /\ heartbeatTimer' \in [Node -> BOOLEAN]
  BY <1>1, PrologueType DEF HandleRequestVote, TypeOK
<1> QED
  BY <1>3, <1>4, <1>5 DEF HandleRequestVote, TypeOK, logVars, leaderVars

LEMMA HandleRequestVoteReplyType ==
  ASSUME TypeOK, NEW m \in messages, HandleRequestVoteReply(m)
  PROVE  TypeOK'
<1>1. /\ currentTerm' \in [Node -> Nat] /\ votedFor' \in [Node -> Node \cup {Nil}]
  BY PrologueType DEF HandleRequestVoteReply, ObserveTerm, TypeOK
<1>2. votesCollected' \in [Node -> SUBSET Node]
  <2>1. VotesWith(m) \in SUBSET Node /\ m.to \in Node
    BY PrologueType DEF VotesWith, TypeOK
  <2>2. \/ votesCollected' = [votesCollected EXCEPT ![m.to] = {}]
        \/ votesCollected' = [votesCollected EXCEPT ![m.to] = VotesWith(m)]
        \/ votesCollected' = votesCollected
    BY DEF HandleRequestVoteReply
  <2> QED
    BY <2>1, <2>2 DEF TypeOK
<1>3. /\ role' \in [Node -> Role]
      /\ nextIndex' \in [Node -> [Node -> Nat \ {0}]]
      /\ matchIndex' \in [Node -> [Node -> Nat]]
      /\ electionTimer' \in [Node -> BOOLEAN]
      /\ heartbeatTimer' \in [Node -> BOOLEAN]
      /\ messages' \subseteq Message
  <2>1. CASE BecomeLeader(m.to, m.term)
    BY <2>1, PrologueType, BecomeLeaderType
  <2>2. CASE UNCHANGED <<role, leaderVars, timerVars, messages>>
    BY <2>2 DEF TypeOK, leaderVars, timerVars
  <2>3. CASE /\ role' = [role EXCEPT ![m.to] = RoleAfter(m)]
             /\ heartbeatTimer' = [heartbeatTimer EXCEPT ![m.to] = @ /\ ~NewerTerm(m)]
             /\ electionTimer' = [electionTimer EXCEPT ![m.to] = @ \/ NewerTerm(m)]
             /\ UNCHANGED <<votesCollected, leaderVars, messages>>
    BY <2>3, PrologueType DEF TypeOK, leaderVars
  <2> QED
    BY <2>1, <2>2, <2>3 DEF HandleRequestVoteReply
<1> QED
  BY <1>1, <1>2, <1>3 DEF HandleRequestVoteReply, TypeOK, logVars

LEMMA AppendReplyType ==
  ASSUME TypeOK, NEW m \in messages, NEW success \in BOOLEAN, NEW lg \in Seq(Entry)
  PROVE  AppendReply(m, TermAfter(m), success, lg) \in Message
<1>1. Len(lg) \in Nat
  BY LenProperties
<1> QED
  BY <1>1, PrologueType DEF AppendReply, Message

LEMMA AcceptEntriesType ==
  ASSUME TypeOK, NEW m \in messages, m.type = "APPEND_ENTRIES",
         PrevEntryMatches(m), AcceptEntries(m)
  PROVE  /\ log' \in [Node -> Seq(Entry)]
         /\ commitIndex' \in [Node -> Nat]
         /\ lastApplied' \in [Node -> Nat]
         /\ messages' \subseteq Message
<1> DEFINE newLog == MergeEntries(log[m.to], m.prevLogIndex, m.entries)
<1>1. /\ m.to \in Node /\ m.prevLogIndex \in Nat /\ m.entries \in Seq(Entry)
      /\ m.leaderCommit \in Nat
  BY PrologueType, MessageFields
<1>2. log[m.to] \in Seq(Entry) /\ Len(log[m.to]) \in Nat
  BY <1>1, LenProperties DEF TypeOK
<1>3. newLog \in Seq(Entry) /\ Len(newLog) \in Nat
  BY <1>1, <1>2, MergeEntriesType, LenProperties DEF PrevEntryMatches
<1>4. CommitAfter(m, newLog) \in Nat
  BY <1>1, <1>3 DEF CommitAfter, SmallerOf, TypeOK
<1>5. AppliedUpTo(newLog, lastApplied[m.to], CommitAfter(m, newLog)) \in Nat
  BY <1>1, <1>3, <1>4, AppliedUpToType DEF TypeOK
<1>6. AppendReply(m, TermAfter(m), TRUE, newLog) \in Message
  BY <1>3, AppendReplyType
<1> HIDE DEF newLog
<1>7. log' = [log EXCEPT ![m.to] = newLog]
      /\ commitIndex' = [commitIndex EXCEPT ![m.to] = CommitAfter(m, newLog)]
  BY DEF AcceptEntries, newLog
<1>8. lastApplied' = [lastApplied EXCEPT ![m.to] =
        IF m.leaderCommit > commitIndex[m.to]
          THEN AppliedUpTo(newLog, @, CommitAfter(m, newLog)) ELSE @]
  BY DEF AcceptEntries, newLog
<1>9. messages' \subseteq messages \cup {AppendReply(m, TermAfter(m), TRUE, newLog)}
  BY DEF AcceptEntries, Send, newLog
<1> QED
  BY <1>1, <1>3, <1>4, <1>5, <1>6, <1>7, <1>8, <1>9 DEF TypeOK

LEMMA HandleAppendEntriesType ==
  ASSUME TypeOK, NEW m \in messages, HandleAppendEntries(m)
  PROVE  TypeOK'
<1>1. m.type = "APPEND_ENTRIES" /\ m.to \in Node /\ log[m.to] \in Seq(Entry)
  BY PrologueType DEF HandleAppendEntries, TypeOK
<1>2. /\ currentTerm' \in [Node -> Nat] /\ votedFor' \in [Node -> Node \cup {Nil}]
      /\ heartbeatTimer' \in [Node -> BOOLEAN]
  BY PrologueType DEF HandleAppendEntries, ObserveTerm, TypeOK
<1>3. role' \in [Node -> Role] /\ electionTimer' \in [Node -> BOOLEAN]
  BY <1>1 DEF HandleAppendEntries, TypeOK, Role
<1>4. AppendReply(m, TermAfter(m), FALSE, log[m.to]) \in Message
  BY <1>1, AppendReplyType
<1>5. CASE Send({AppendReply(m, TermAfter(m), FALSE, log[m.to])}) /\ UNCHANGED logVars
  <2>1. messages' \subseteq Message
    BY <1>4, <1>5 DEF Send, TypeOK
  <2>2. UNCHANGED <<leaderVars, logVars, votesCollected, peers>>
    BY <1>5 DEF HandleAppendEntries
  <2> QED
    BY <1>2, <1>3, <2>1, <2>2 DEF TypeOK, logVars, leaderVars
<1>6. CASE PrevEntryMatches(m) /\ AcceptEntries(m)
  BY <1>1, <1>2, <1>3, <1>6, AcceptEntriesType DEF HandleAppendEntries, TypeOK, leaderVars
<1> QED
  BY <1>5, <1>6 DEF HandleAppendEntries

LEMMA AdvanceCommitType ==
  ASSUME TypeOK, NEW i \in Node, NEW match, AdvanceCommit(i, match)
  PROVE  commitIndex' \in [Node -> Nat] /\ lastApplied' \in [Node -> Nat]
<1> DEFINE new == IF Committable(i, match) = {} THEN commitIndex[i]
                                                ELSE Max(Committable(i, match))
<1>1. new \in Nat
  <2>1. Committable(i, match) \in SUBSET Nat /\ Len(log[i]) \in Nat
        /\ \A y \in Committable(i, match) : y <= Len(log[i])
    BY LenProperties DEF Committable, TypeOK
  <2>2. Committable(i, match) # {} => Max(Committable(i, match)) \in Nat
    BY <2>1, MaxOfBoundedNaturals
  <2> QED
    BY <2>2 DEF TypeOK
<1>2. AppliedUpTo(log[i], lastApplied[i], new) \in Nat
  BY <1>1, AppliedUpToType DEF TypeOK
<1>3. /\ commitIndex' = [commitIndex EXCEPT ![i] = new]
      /\ lastApplied' = [lastApplied EXCEPT ![i] =
           IF new = commitIndex[i] THEN @ ELSE AppliedUpTo(log[i], @, new)]
  BY DEF AdvanceCommit
<1> HIDE DEF new
<1> QED
  BY <1>1, <1>2, <1>3 DEF TypeOK

LEMMA HandleAppendEntriesReplyType ==
  ASSUME TypeOK, NEW m \in messages, HandleAppendEntriesReply(m)
  PROVE  TypeOK'
<1>1. m.to \in Node /\ m.from \in Node /\ m.matchIndex \in Nat
  BY PrologueType, MessageFields DEF HandleAppendEntriesReply
<1>2. /\ currentTerm' \in [Node -> Nat] /\ role' \in [Node -> Role]
      /\ votedFor' \in [Node -> Node \cup {Nil}]
      /\ heartbeatTimer' \in [Node -> BOOLEAN] /\ electionTimer' \in [Node -> BOOLEAN]
  BY PrologueType DEF HandleAppendEntriesReply, ObserveTerm, TypeOK
<1>3. \A n \in Nat \ {0} : BackOff(n) \in Nat \ {0}
  BY DEF BackOff, LargerOf
<1>4. /\ nextIndex' \in [Node -> [Node -> Nat \ {0}]]
      /\ matchIndex' \in [Node -> [Node -> Nat]]
  <2>1. CASE LeaderTakesReply(m) /\ m.success
    <3>1. /\ nextIndex' = [nextIndex EXCEPT ![m.to][m.from] = m.matchIndex + 1]
          /\ matchIndex' = [matchIndex EXCEPT ![m.to][m.from] = m.matchIndex]
      BY <2>1 DEF HandleAppendEntriesReply
    <3>2. m.matchIndex + 1 \in Nat \ {0}
      BY <1>1
    <3>3. nextIndex' \in [Node -> [Node -> Nat \ {0}]]
      BY <1>1, <3>1, <3>2 DEF TypeOK
    <3>4. matchIndex' \in [Node -> [Node -> Nat]]
      BY <1>1, <3>1 DEF TypeOK
    <3> QED
      BY <3>3, <3>4
  <2>2. CASE LeaderTakesReply(m) /\ ~m.success
    <3>1. /\ nextIndex' = [nextIndex EXCEPT ![m.to][m.from] = BackOff(@)]
          /\ matchIndex' = matchIndex
      BY <2>2 DEF HandleAppendEntriesReply
    <3> QED
      BY <1>1, <1>3, <3>1 DEF TypeOK
  <2>3. CASE ~LeaderTakesReply(m)
    BY <2>3 DEF HandleAppendEntriesReply, TypeOK, leaderVars
  <2> QED
    BY <2>1, <2>2, <2>3
<1>5. commitIndex' \in [Node -> Nat] /\ lastApplied' \in [Node -> Nat]
  <2>1. CASE UNCHANGED <<commitIndex, lastApplied>>
    BY <2>1 DEF TypeOK
  <2>2. CASE AdvanceCommit(m.to, [matchIndex[m.to] EXCEPT ![m.from] = m.matchIndex])
    BY <1>1, <2>2, AdvanceCommitType
  <2> QED
    BY <2>1, <2>2 DEF HandleAppendEntriesReply
<1> QED
  BY <1>2, <1>4, <1>5 DEF HandleAppendEntriesReply, TypeOK

LEMMA InitType == Init => TypeOK
BY EmptySeq, NodeAssumption DEF Init, TypeOK, Role, Follower

LEMMA NextType ==
  ASSUME TypeOK, [Next]_vars
  PROVE  TypeOK'
<1>1. ASSUME NEW i \in Node, StartElection(i) PROVE TypeOK'
  BY <1>1, StartElectionType
<1>2. ASSUME NEW i \in Node, Heartbeat(i) PROVE TypeOK'
  BY <1>2, HeartbeatType
<1>3. ASSUME NEW i \in Node, NEW v \in Value, Propose(i, v) PROVE TypeOK'
  BY <1>3, ProposeType
<1>4. ASSUME NEW m \in messages, Deliver(m) PROVE TypeOK'
  BY <1>4, HandleRequestVoteType, HandleRequestVoteReplyType, HandleAppendEntriesType,
     HandleAppendEntriesReplyType DEF Deliver
<1>5. CASE UNCHANGED vars
  BY <1>5 DEF TypeOK, vars, termVars, logVars, leaderVars, timerVars
<1> QED
  BY <1>1, <1>2, <1>3, <1>4, <1>5 DEF Next

\* Every reachable state is one the fields of RaftNode are declared for.
THEOREM TypeCorrect == Spec => []TypeOK
BY InitType, NextType, PTL DEF Spec

-----------------------------------------------------------------------------
(* Votes.  The invariant ties every granted reply to the vote its sender has *)
(* on record, and every leader to a vote it was granted in its term.         *)

VoteInv ==
  /\ \A i \in Node : peers[i] = Node \ {i}
  /\ \A m \in messages : m.from # m.to
  /\ \A i \in Node : role[i] # Follower => votedFor[i] = i
  /\ \A m \in messages : IsGrant(m) =>
       /\ m.term <= currentTerm[m.from]
       /\ m.term = currentTerm[m.from] => votedFor[m.from] = m.to
  /\ OneVotePerTerm
  /\ \A i \in Node : role[i] = Leader =>
       \/ Node = {i}
       \/ \E m \in messages : IsGrant(m) /\ m.to = i /\ m.term = currentTerm[i]

\* What every step does to votes, stated once for all actions.
VoteStep ==
  /\ peers' = peers
  /\ messages \subseteq messages'
  /\ \A m \in messages' : m \notin messages =>
       /\ m.from # m.to
       /\ IsGrant(m) => m.term = currentTerm'[m.from] /\ votedFor'[m.from] = m.to
  /\ \A i \in Node : /\ currentTerm'[i] >= currentTerm[i]
                     /\ currentTerm'[i] = currentTerm[i] /\ votedFor[i] # Nil
                          => votedFor'[i] = votedFor[i]
  /\ \A i \in Node : role'[i] # Follower => votedFor'[i] = i
  /\ \A i \in Node : role'[i] = Leader =>
       \/ role[i] = Leader /\ currentTerm'[i] = currentTerm[i]
       \/ Node = {i}
       \/ \E m \in messages : IsGrant(m) /\ m.to = i /\ m.term = currentTerm'[i]

\* A step that sends no vote and touches neither terms, votes nor roles.
LEMMA AppendOnlyVotes ==
  ASSUME TypeOK, VoteInv, messages \subseteq messages',
         \A m \in messages' : m \notin messages => m.type = "APPEND_ENTRIES" /\ m.from # m.to,
         UNCHANGED <<termVars, peers>>
  PROVE  VoteStep
BY DEF VoteStep, VoteInv, TypeOK, IsGrant, termVars

LEMMA AloneInQuorumOfOne ==
  ASSUME VoteInv, NEW i \in Node, QuorumSize(i) <= 1
  PROVE  Node = {i}
<1>1. peers[i] = Node \ {i} /\ IsFiniteSet(peers[i])
  BY NodeAssumption, FS_RemoveElement DEF VoteInv
<1>2. Cardinality(peers[i]) \in Nat
  BY <1>1, FS_CardinalityType
<1>3. Cardinality(peers[i]) = 0
  BY <1>2 DEF QuorumSize
<1>4. peers[i] = {}
  BY <1>1, <1>3, FS_EmptySet
<1> QED
  BY <1>1, <1>4

LEMMA StartElectionVotes ==
  ASSUME TypeOK, VoteInv, NEW i \in Node, StartElection(i)
  PROVE  VoteStep
<1>1. /\ peers' = peers /\ peers[i] = Node \ {i}
      /\ currentTerm' = [currentTerm EXCEPT ![i] = @ + 1]
      /\ votedFor' = [votedFor EXCEPT ![i] = i]
  BY DEF StartElection, VoteInv
<1>2. CASE QuorumSize(i) <= 1 /\ BecomeLeader(i, currentTerm[i] + 1)
  <2>1. Node = {i}
    BY <1>2, AloneInQuorumOfOne
  <2>2. messages' = messages
    BY <1>1, <1>2, <2>1 DEF BecomeLeader, Send
  <2> QED
    BY <1>1, <2>1, <2>2 DEF VoteStep, TypeOK
<1>3. CASE /\ role' = [role EXCEPT ![i] = Candidate]
           /\ Send({[type |-> "REQUEST_VOTE", from |-> i, to |-> p,
                     term |-> currentTerm[i] + 1, lastLogIndex |-> Len(log[i]),
                     lastLogTerm |-> LastTerm(log[i])] : p \in peers[i]})
  <2>1. \A m \in messages' : m \notin messages => m.type = "REQUEST_VOTE" /\ m.from # m.to
    BY <1>1, <1>3 DEF Send
  <2>2. messages \subseteq messages'
    BY <1>3 DEF Send
  <2>3. \A j \in Node : role'[j] = Leader => role[j] = Leader /\ j # i
    BY <1>3 DEF TypeOK, Candidate, Leader
  <2>4. \A j \in Node : role'[j] # Follower => votedFor'[j] = j
    BY <1>1, <1>3 DEF TypeOK, VoteInv
  <2> QED
    BY <1>1, <2>1, <2>2, <2>3, <2>4 DEF VoteStep, TypeOK, IsGrant
<1> QED
  BY <1>2, <1>3 DEF StartElection

LEMMA HeartbeatVotes ==
  ASSUME TypeOK, VoteInv, NEW i \in Node, Heartbeat(i)
  PROVE  VoteStep
<1> DEFINE ms == {AppendMsg(i, p, currentTerm[i], log[i], nextIndex[i][p], commitIndex[i])
                    : p \in peers[i]}
<1>1. messages' = messages \cup ms /\ UNCHANGED <<termVars, peers>>
  BY DEF Heartbeat, Send
<1>2. \A m \in ms : m.type = "APPEND_ENTRIES" /\ m.from # m.to
  BY DEF AppendMsg, VoteInv
<1> HIDE DEF ms
<1> QED
  BY <1>1, <1>2, AppendOnlyVotes

LEMMA ProposeVotes ==
  ASSUME TypeOK, VoteInv, NEW i \in Node, NEW v \in Value, Propose(i, v)
  PROVE  VoteStep
<1> DEFINE newLog == Append(log[i], [term |-> currentTerm[i], cmd |-> v])
           ms == {AppendMsg(i, p, currentTerm[i], newLog, nextIndex[i][p], commitIndex[i])
                    : p \in peers[i]}
<1>1. UNCHANGED <<termVars, peers>>
  BY DEF Propose
<1>2. messages' = messages \cup ms \/ messages' = messages \cup {}
  BY DEF Propose, Send
<1>3. \A m \in ms : m.type = "APPEND_ENTRIES" /\ m.from # m.to
  BY DEF AppendMsg, VoteInv
<1> HIDE DEF ms, newLog
<1> QED
  BY <1>1, <1>2, <1>3, AppendOnlyVotes

\* The two cases of the prologue.
LEMMA PrologueCases ==
  ASSUME TypeOK, NEW m \in messages
  PROVE  /\ m.to \in Node /\ m.from \in Node
         /\ currentTerm[m.to] \in Nat /\ TermAfter(m) \in Nat
         /\ \/ /\ TermAfter(m) > currentTerm[m.to]
               /\ VoteAfter(m) = Nil
               /\ RoleAfter(m) = Follower
            \/ /\ TermAfter(m) = currentTerm[m.to]
               /\ VoteAfter(m) = votedFor[m.to]
               /\ RoleAfter(m) = role[m.to]
<1>1. m.to \in Node /\ m.from \in Node /\ m.term \in Nat /\ TermAfter(m) \in Nat
  BY PrologueType
<1>2. currentTerm[m.to] \in Nat
  BY <1>1 DEF TypeOK
<1>3. CASE NewerTerm(m)
  BY <1>1, <1>2, <1>3 DEF TermAfter, VoteAfter, RoleAfter, NewerTerm
<1>4. CASE ~NewerTerm(m)
  BY <1>1, <1>2, <1>4 DEF TermAfter, VoteAfter, RoleAfter, NewerTerm
<1> QED
  BY <1>3, <1>4

LEMMA HandleRequestVoteVotes ==
  ASSUME TypeOK, VoteInv, NEW m \in messages, HandleRequestVote(m)
  PROVE  VoteStep
<1> DEFINE reply == [type |-> "REQUEST_VOTE_REPLY", from |-> m.to, to |-> m.from,
                     term |-> TermAfter(m), voteGranted |-> GrantsVote(m)]
<1>1. m.to \in Node /\ m.from \in Node /\ m.from # m.to
  BY PrologueType DEF VoteInv
<1>2. /\ currentTerm' = [currentTerm EXCEPT ![m.to] = TermAfter(m)]
      /\ role' = [role EXCEPT ![m.to] = RoleAfter(m)]
      /\ votedFor' = [votedFor EXCEPT ![m.to] = IF GrantsVote(m) THEN m.from ELSE VoteAfter(m)]
      /\ messages' = messages \cup {reply}
      /\ peers' = peers
  BY DEF HandleRequestVote, ObserveTerm, Send
<1>3. GrantsVote(m) => VoteAfter(m) \in {Nil, m.from}
  BY DEF GrantsVote
<1>4. /\ currentTerm'[m.to] = TermAfter(m)
      /\ votedFor'[m.to] = IF GrantsVote(m) THEN m.from ELSE VoteAfter(m)
      /\ role'[m.to] = RoleAfter(m)
  BY <1>1, <1>2 DEF TypeOK
<1>5. \A j \in Node : j # m.to =>
        currentTerm'[j] = currentTerm[j] /\ votedFor'[j] = votedFor[j] /\ role'[j] = role[j]
  BY <1>1, <1>2 DEF TypeOK
<1>6. /\ reply.from = m.to /\ reply.to = m.from /\ reply.term = TermAfter(m)
      /\ reply.voteGranted = GrantsVote(m)
  OBVIOUS
<1>7. \A k \in messages' : k \notin messages =>
        /\ k.from # k.to
        /\ IsGrant(k) => k.term = currentTerm'[k.from] /\ votedFor'[k.from] = k.to
  <2> SUFFICES /\ reply.from # reply.to
               /\ reply.voteGranted =>
                    reply.term = currentTerm'[reply.from] /\ votedFor'[reply.from] = reply.to
    BY <1>2 DEF IsGrant
  <2> HIDE DEF reply
  <2> QED
    BY <1>1, <1>4, <1>6
<1> HIDE DEF reply
<1>8. \A j \in Node : /\ currentTerm'[j] >= currentTerm[j]
                      /\ currentTerm'[j] = currentTerm[j] /\ votedFor[j] # Nil
                           => votedFor'[j] = votedFor[j]
  <2> SUFFICES ASSUME NEW j \in Node
               PROVE  /\ currentTerm'[j] >= currentTerm[j]
                      /\ currentTerm'[j] = currentTerm[j] /\ votedFor[j] # Nil
                           => votedFor'[j] = votedFor[j]
    OBVIOUS
  <2>1. currentTerm[j] \in Nat
    BY DEF TypeOK
  <2>2. CASE j = m.to
    BY <1>3, <1>4, <2>1, <2>2, PrologueCases
  <2>3. CASE j # m.to
    BY <1>5, <2>1, <2>3
  <2> QED
    BY <2>2, <2>3
<1>9. \A j \in Node : role'[j] # Follower =>
        role'[j] = role[j] /\ currentTerm'[j] = currentTerm[j] /\ votedFor'[j] = votedFor[j]
  <2> SUFFICES ASSUME role'[m.to] # Follower
               PROVE  /\ role'[m.to] = role[m.to]
                      /\ currentTerm'[m.to] = currentTerm[m.to]
                      /\ votedFor'[m.to] = votedFor[m.to]
    BY <1>5
  <2>1. /\ TermAfter(m) = currentTerm[m.to]
        /\ VoteAfter(m) = votedFor[m.to]
        /\ RoleAfter(m) = role[m.to]
    BY <1>4, PrologueCases
  <2>2. votedFor[m.to] = m.to
    BY <1>1, <1>4, <2>1 DEF VoteInv
  <2>3. ~GrantsVote(m)
    BY <1>1, <1>3, <2>1, <2>2, NodeAssumption
  <2> QED
    BY <1>4, <2>1, <2>3
<1>10. \A j \in Node : role'[j] # Follower => votedFor'[j] = j
  BY <1>9 DEF VoteInv
<1>11. \A j \in Node : role'[j] = Leader => role[j] = Leader /\ currentTerm'[j] = currentTerm[j]
  BY <1>9 DEF Leader, Follower
<1> QED
  BY <1>2, <1>7, <1>8, <1>10, <1>11 DEF VoteStep

\* The handlers that grant no vote: terms and votes follow the prologue.
LEMMA PrologueVotes ==
  ASSUME TypeOK, VoteInv, NEW m \in messages,
         ObserveTerm(m), votedFor' = [votedFor EXCEPT ![m.to] = VoteAfter(m)]
  PROVE  /\ \A j \in Node : /\ currentTerm'[j] >= currentTerm[j]
                            /\ currentTerm'[j] = currentTerm[j] => votedFor'[j] = votedFor[j]
         /\ RoleAfter(m) # Follower =>
              /\ RoleAfter(m) = role[m.to]
              /\ currentTerm' = currentTerm
              /\ votedFor' = votedFor
         /\ \A j \in Node : j # m.to => currentTerm'[j] = currentTerm[j] /\ votedFor'[j] = votedFor[j]
<1>1. /\ m.to \in Node
      /\ currentTerm'[m.to] = TermAfter(m) /\ votedFor'[m.to] = VoteAfter(m)
  BY PrologueType DEF ObserveTerm, TypeOK
<1>2. \A j \in Node : j # m.to => currentTerm'[j] = currentTerm[j] /\ votedFor'[j] = votedFor[j]
  BY DEF ObserveTerm, TypeOK
<1>3. \A j \in Node : currentTerm[j] \in Nat
  BY DEF TypeOK
<1>4. \A j \in Node : /\ currentTerm'[j] >= currentTerm[j]
                      /\ currentTerm'[j] = currentTerm[j] => votedFor'[j] = votedFor[j]
  BY <1>1, <1>2, <1>3, PrologueCases
<1>5. RoleAfter(m) # Follower =>
        /\ RoleAfter(m) = role[m.to]
        /\ currentTerm'[m.to] = currentTerm[m.to]
        /\ votedFor'[m.to] = votedFor[m.to]
  BY <1>1, PrologueCases
<1>6. /\ DOMAIN currentTerm = Node /\ DOMAIN votedFor = Node
      /\ currentTerm' = [currentTerm EXCEPT ![m.to] = currentTerm'[m.to]]
      /\ votedFor' = [votedFor EXCEPT ![m.to] = votedFor'[m.to]]
      /\ currentTerm = [j \in Node |-> currentTerm[j]]
      /\ votedFor = [j \in Node |-> votedFor[j]]
  BY <1>1 DEF ObserveTerm, TypeOK
<1>7. RoleAfter(m) # Follower => currentTerm' = currentTerm /\ votedFor' = votedFor
  BY <1>1, <1>5, <1>6
<1> QED
  BY <1>2, <1>4, <1>5, <1>7

LEMMA AppendMsgRoute ==
  ASSUME NEW i, NEW p, NEW term, NEW lg, NEW next, NEW commit
  PROVE  LET k == AppendMsg(i, p, term, lg, next, commit)
         IN  k.type = "APPEND_ENTRIES" /\ k.from = i /\ k.to = p
BY DEF AppendMsg

LEMMA HandleRequestVoteReplyVotes ==
  ASSUME TypeOK, VoteInv, NEW m \in messages, HandleRequestVoteReply(m)
  PROVE  VoteStep
<1>1. /\ m.to \in Node /\ m.term \in Nat /\ peers[m.to] = Node \ {m.to} /\ peers' = peers
      /\ ObserveTerm(m) /\ votedFor' = [votedFor EXCEPT ![m.to] = VoteAfter(m)]
  BY PrologueType DEF HandleRequestVoteReply, VoteInv
<1>2. CASE CountsVote(m) /\ BecomeLeader(m.to, m.term)
  <2>1. RoleAfter(m) = Candidate /\ m.term = TermAfter(m) /\ m.voteGranted
    BY <1>2 DEF CountsVote
  <2>2. currentTerm' = currentTerm /\ votedFor' = votedFor /\ role[m.to] = Candidate
    BY <1>1, <2>1, PrologueVotes DEF Candidate, Follower
  <2>3. IsGrant(m) /\ m.term = currentTerm'[m.to]
    BY <1>1, <2>1 DEF IsGrant, HandleRequestVoteReply, ObserveTerm, TypeOK
  <2>4. role' = [role EXCEPT ![m.to] = Leader]
    BY <1>2 DEF BecomeLeader
  <2>5. messages \subseteq messages'
        /\ \A k \in messages' : k \notin messages => k.type = "APPEND_ENTRIES" /\ k.from # k.to
    <3> DEFINE ms == {AppendMsg(m.to, p, m.term, log[m.to], Len(log[m.to]) + 1, commitIndex[m.to])
                        : p \in peers[m.to]}
    <3>1. messages' = messages \cup ms
      BY <1>2 DEF BecomeLeader, Send
    <3>2. \A k \in ms : k.type = "APPEND_ENTRIES" /\ k.from # k.to
      <4> SUFFICES ASSUME NEW p \in peers[m.to]
                   PROVE  LET k == AppendMsg(m.to, p, m.term, log[m.to], Len(log[m.to]) + 1,
                                             commitIndex[m.to])
                          IN  k.type = "APPEND_ENTRIES" /\ k.from # k.to
        OBVIOUS
      <4> QED
        BY <1>1, AppendMsgRoute
    <3> HIDE DEF ms
    <3> QED
      BY <3>1, <3>2
  <2>6. \A j \in Node : role'[j] # Follower => votedFor'[j] = j
    BY <1>1, <2>2, <2>4 DEF TypeOK, VoteInv, Candidate, Follower
  <2>7. \A j \in Node : role'[j] = Leader => role[j] = Leader \/ j = m.to
    BY <2>4 DEF TypeOK
  <2>8. \A j \in Node : role'[j] = Leader =>
          \/ role[j] = Leader /\ currentTerm'[j] = currentTerm[j]
          \/ \E k \in messages : IsGrant(k) /\ k.to = j /\ k.term = currentTerm'[j]
    BY <2>2, <2>3, <2>7
  <2> QED
    BY <1>1, <2>2, <2>5, <2>6, <2>8 DEF VoteStep, IsGrant, TypeOK
<1>3. CASE messages' = messages /\ role' = role /\ RoleAfter(m) # Follower
  <2>1. currentTerm' = currentTerm /\ votedFor' = votedFor
    BY <1>1, <1>3, PrologueVotes
  <2> QED
    BY <1>1, <1>3, <2>1 DEF VoteStep, VoteInv, TypeOK
<1>4. CASE messages' = messages /\ role' = [role EXCEPT ![m.to] = RoleAfter(m)]
  <2>1. \A j \in Node : role'[j] = IF j = m.to THEN RoleAfter(m) ELSE role[j]
    BY <1>4 DEF TypeOK
  <2>2. \A j \in Node : role'[j] # Follower =>
          role'[j] = role[j] /\ currentTerm'[j] = currentTerm[j] /\ votedFor'[j] = votedFor[j]
    BY <1>1, <2>1, PrologueVotes
  <2> QED
    BY <1>1, <1>4, <2>2, PrologueVotes DEF VoteStep, VoteInv, Leader, Follower
<1>5. CountsVote(m) => RoleAfter(m) # Follower
  BY DEF CountsVote, Candidate, Follower
<1> QED
  BY <1>2, <1>3, <1>4, <1>5 DEF HandleRequestVoteReply

LEMMA HandleAppendEntriesVotes ==
  ASSUME TypeOK, VoteInv, NEW m \in messages, HandleAppendEntries(m)
  PROVE  VoteStep
<1>1. /\ m.to \in Node /\ m.from # m.to /\ peers' = peers
      /\ ObserveTerm(m) /\ votedFor' = [votedFor EXCEPT ![m.to] = VoteAfter(m)]
  BY PrologueType DEF HandleAppendEntries, VoteInv
<1>2. /\ messages \subseteq messages'
      /\ \A k \in messages' : k \notin messages => k.type = "APPEND_ENTRIES_REPLY" /\ k.from # k.to
  BY <1>1 DEF HandleAppendEntries, AcceptEntries, Send, AppendReply
<1>3. \A j \in Node : role'[j] # Follower =>
        role'[j] = role[j] /\ currentTerm'[j] = currentTerm[j] /\ votedFor'[j] = votedFor[j]
  <2>1. CASE role' = [role EXCEPT ![m.to] = Follower]
    BY <1>1, <2>1, PrologueVotes DEF TypeOK
  <2>2. CASE m.term < TermAfter(m) /\ role' = role
    <3>1. ~NewerTerm(m)
      <4> SUFFICES ASSUME NewerTerm(m) PROVE FALSE
        OBVIOUS
      <4>1. TermAfter(m) = m.term
        BY DEF TermAfter
      <4>2. m.term \in Int
        BY MessageFields DEF TypeOK
      <4> QED
        BY <2>2, <4>1, <4>2
    <3>2. currentTerm' = currentTerm /\ votedFor' = votedFor
      BY <1>1, <3>1 DEF ObserveTerm, TermAfter, VoteAfter, TypeOK
    <3> QED
      BY <2>2, <3>2
  <2> QED
    BY <2>1, <2>2 DEF HandleAppendEntries
<1>4. \A j \in Node : /\ currentTerm'[j] >= currentTerm[j]
                      /\ currentTerm'[j] = currentTerm[j] => votedFor'[j] = votedFor[j]
  BY <1>1, PrologueVotes
<1>5. \A k \in messages' : k \notin messages => k.from # k.to /\ ~IsGrant(k)
  BY <1>2 DEF IsGrant
<1>6. \A j \in Node : role'[j] # Follower => votedFor'[j] = j
  BY <1>3 DEF VoteInv
<1>7. \A j \in Node : role'[j] = Leader => role[j] = Leader /\ currentTerm'[j] = currentTerm[j]
  BY <1>3 DEF Leader, Follower
<1> QED
  BY <1>1, <1>2, <1>4, <1>5, <1>6, <1>7 DEF VoteStep

LEMMA HandleAppendEntriesReplyVotes ==
  ASSUME TypeOK, VoteInv, NEW m \in messages, HandleAppendEntriesReply(m)
  PROVE  VoteStep
<1>1. /\ m.to \in Node /\ peers' = peers /\ messages' = messages
      /\ ObserveTerm(m) /\ votedFor' = [votedFor EXCEPT ![m.to] = VoteAfter(m)]
      /\ role' = [role EXCEPT ![m.to] = RoleAfter(m)]
  BY PrologueType DEF HandleAppendEntriesReply
<1>2. \A j \in Node : role'[j] = IF j = m.to THEN RoleAfter(m) ELSE role[j]
  BY <1>1 DEF TypeOK
<1>3. \A j \in Node : role'[j] # Follower =>
        role'[j] = role[j] /\ currentTerm'[j] = currentTerm[j] /\ votedFor'[j] = votedFor[j]
  <2> SUFFICES ASSUME NEW j \in Node, role'[j] # Follower
               PROVE  /\ role'[j] = role[j]
                      /\ currentTerm'[j] = currentTerm[j] /\ votedFor'[j] = votedFor[j]
    OBVIOUS
  <2>1. CASE j = m.to
    <3>1. RoleAfter(m) # Follower /\ role'[j] = RoleAfter(m)
      BY <1>2, <2>1
    <3> QED
      BY <1>1, <2>1, <3>1, PrologueVotes
  <2>2. CASE j # m.to
    BY <1>1, <1>2, <2>2, PrologueVotes
  <2> QED
    BY <2>1, <2>2
<1> QED
  BY <1>1, <1>3, PrologueVotes DEF VoteStep, VoteInv, Leader, Follower

LEMMA VoteStepKeepsVoteInv ==
  ASSUME TypeOK, TypeOK', VoteInv, VoteStep
  PROVE  VoteInv'
<1>1. \A m \in messages' : m.from \in Node /\ m.term \in Nat
  BY MessageFields DEF TypeOK
<1>2. \A m \in messages' : IsGrant(m) =>
        /\ m.term <= currentTerm'[m.from]
        /\ m.term = currentTerm'[m.from] => votedFor'[m.from] = m.to
  <2> SUFFICES ASSUME NEW m \in messages', IsGrant(m)
               PROVE  /\ m.term <= currentTerm'[m.from]
                      /\ m.term = currentTerm'[m.from] => votedFor'[m.from] = m.to
    OBVIOUS
  <2>1. CASE m \notin messages
    BY <1>1, <2>1 DEF VoteStep
  <2>2. CASE m \in messages
    <3>1. /\ m.term <= currentTerm[m.from]
          /\ m.term = currentTerm[m.from] => votedFor[m.from] = m.to
      BY <2>2 DEF VoteInv
    <3>2. currentTerm[m.from] \in Nat /\ currentTerm'[m.from] \in Nat
          /\ m.term \in Nat /\ currentTerm'[m.from] >= currentTerm[m.from]
      BY <1>1 DEF VoteStep, TypeOK
    <3>3. m.to # Nil
      BY <2>2, MessageFields, NodeAssumption DEF TypeOK
    <3> QED
      BY <1>1, <3>1, <3>2, <3>3 DEF VoteStep
  <2> QED
    BY <2>1, <2>2
<1>3. \A m1, m2 \in messages' :
        IsGrant(m1) /\ IsGrant(m2) /\ m1.from = m2.from /\ m1.term = m2.term
          => m1.to = m2.to
  <2> SUFFICES ASSUME NEW m1 \in messages', NEW m2 \in messages', IsGrant(m1), IsGrant(m2),
                      m1.from = m2.from, m1.term = m2.term
               PROVE  m1.to = m2.to
    OBVIOUS
  <2>1. CASE m1 \in messages /\ m2 \in messages
    BY <2>1 DEF VoteInv, OneVotePerTerm
  <2>2. CASE m1 \notin messages
    BY <1>1, <1>2, <2>2 DEF VoteStep
  <2>3. CASE m2 \notin messages
    BY <1>1, <1>2, <2>3 DEF VoteStep
  <2> QED
    BY <2>1, <2>2, <2>3
<1>4. \A i \in Node : role'[i] = Leader =>
        \/ Node = {i}
        \/ \E m \in messages' : IsGrant(m) /\ m.to = i /\ m.term = currentTerm'[i]
  BY DEF VoteStep, VoteInv
<1> QED
  BY <1>2, <1>3, <1>4 DEF VoteStep, VoteInv, OneVotePerTerm

LEMMA NextVotes ==
  ASSUME TypeOK, VoteInv, [Next]_vars
  PROVE  VoteStep
<1>1. ASSUME NEW i \in Node, StartElection(i) PROVE VoteStep
  BY <1>1, StartElectionVotes
<1>2. ASSUME NEW i \in Node, Heartbeat(i) PROVE VoteStep
  BY <1>2, HeartbeatVotes
<1>3. ASSUME NEW i \in Node, NEW v \in Value, Propose(i, v) PROVE VoteStep
  BY <1>3, ProposeVotes
<1>4. ASSUME NEW m \in messages, Deliver(m) PROVE VoteStep
  BY <1>4, HandleRequestVoteVotes, HandleRequestVoteReplyVotes, HandleAppendEntriesVotes,
     HandleAppendEntriesReplyVotes DEF Deliver
<1>5. CASE UNCHANGED vars
  <2>1. UNCHANGED <<termVars, peers>> /\ messages' = messages
    BY <1>5 DEF vars
  <2> QED
    BY <2>1, AppendOnlyVotes
<1> QED
  BY <1>1, <1>2, <1>3, <1>4, <1>5 DEF Next

THEOREM VotesCorrect == Spec => []VoteInv
<1>1. Init => VoteInv
  BY DEF Init, VoteInv, OneVotePerTerm, Leader, Follower
<1>2. TypeOK /\ TypeOK' /\ VoteInv /\ [Next]_vars => VoteInv'
  BY NextVotes, VoteStepKeepsVoteInv
<1> QED
  BY <1>1, <1>2, TypeCorrect, PTL DEF Spec

\* No node votes for two candidates of one term, in a cluster of any size.
THEOREM VoteOnce == Spec => []OneVotePerTerm
<1>1. VoteInv => OneVotePerTerm
  BY DEF VoteInv
<1> QED
  BY <1>1, VotesCorrect, PTL

\* Terms grow and votes stand, in a cluster of any size.
THEOREM VotesStand == Spec => TermsAndVotesStable
<1>1. TypeOK /\ VoteInv /\ [Next]_vars =>
        [\A i \in Node :
           /\ currentTerm'[i] >= currentTerm[i]
           /\ currentTerm'[i] = currentTerm[i] /\ votedFor[i] # Nil
                => votedFor'[i] = votedFor[i]]_vars
  BY NextVotes DEF VoteStep
<1> QED
  BY <1>1, TypeCorrect, VotesCorrect, PTL DEF Spec, TermsAndVotesStable

\* Three nodes at most: four distinct nodes do not fit.
LEMMA ThreeNodes ==
  ASSUME Cardinality(Node) <= 3,
         NEW a \in Node, NEW b \in Node, NEW c \in Node, NEW d \in Node,
         a # b, c \notin {a, b}, d \notin {a, b}
  PROVE  c = d
<1> SUFFICES ASSUME c # d PROVE FALSE
  OBVIOUS
<1>1. /\ IsFiniteSet({a}) /\ Cardinality({a}) = 1
  BY FS_Singleton
<1>2. /\ IsFiniteSet({a} \cup {b}) /\ Cardinality({a} \cup {b}) = 2
  BY <1>1, FS_AddElement
<1>3. /\ IsFiniteSet(({a} \cup {b}) \cup {c}) /\ Cardinality(({a} \cup {b}) \cup {c}) = 3
  BY <1>2, FS_AddElement
<1> DEFINE four == (({a} \cup {b}) \cup {c}) \cup {d}
<1>4. /\ IsFiniteSet(four) /\ Cardinality(four) = 4
  BY <1>3, FS_AddElement
<1>5. four \subseteq Node
  OBVIOUS
<1> HIDE DEF four
<1>6. Cardinality(four) <= Cardinality(Node)
  BY <1>5, NodeAssumption, FS_Subset
<1>7. Cardinality(Node) \in Nat
  BY NodeAssumption, FS_CardinalityType
<1> QED
  BY <1>4, <1>6, <1>7

\* A cluster of at most three nodes has at most one leader per term: a leader
\* needs one vote beside its own, and in a term with two leaders only the third
\* node could have cast both.  (With four nodes the property fails: votes counted
\* in one term are still counted in the next.)
THEOREM ElectionOfThree ==
  ASSUME Cardinality(Node) <= 3
  PROVE  Spec => []ElectionSafety
<1>1. TypeOK /\ VoteInv => ElectionSafety
  <2> SUFFICES ASSUME TypeOK, VoteInv, NEW i \in Node, NEW j \in Node,
                      role[i] = Leader, role[j] = Leader, currentTerm[i] = currentTerm[j],
                      i # j
               PROVE  FALSE
    BY DEF ElectionSafety
  <2>1. votedFor[i] = i /\ votedFor[j] = j
    BY DEF VoteInv, Leader, Follower
  <2>2. PICK m \in messages : IsGrant(m) /\ m.to = i /\ m.term = currentTerm[i]
    BY DEF VoteInv
  <2>3. PICK k \in messages : IsGrant(k) /\ k.to = j /\ k.term = currentTerm[j]
    BY DEF VoteInv
  <2>4. m.from \in Node /\ k.from \in Node
    BY MessageFields DEF TypeOK
  <2>5. m.from # i /\ k.from # j
    BY <2>2, <2>3 DEF VoteInv
  <2>6. m.from # j
    BY <2>1, <2>2 DEF VoteInv
  <2>7. k.from # i
    BY <2>1, <2>3 DEF VoteInv
  <2>8. m.from = k.from
    BY <2>4, <2>5, <2>6, <2>7, ThreeNodes
  <2> QED
    BY <2>2, <2>3, <2>8 DEF VoteInv, OneVotePerTerm
<1> QED
  BY <1>1, TypeCorrect, VotesCorrect, PTL

-----------------------------------------------------------------------------
(* Timers.  That a leader keeps no election timer rests on the votes: it has *)
(* voted for itself, so it grants no vote, which would re-arm the timer.     *)

LEMMA BecomeLeaderTimers ==
  ASSUME TypeOK, TimersArmed, NEW i \in Node, NEW term, BecomeLeader(i, term)
  PROVE  TimersArmed'
BY DEF TypeOK, TimersArmed, BecomeLeader

\* A step whose only effect on roles and timers is at node i.
LEMMA LocalTimers ==
  ASSUME TypeOK, TimersArmed, NEW i \in Node,
         \A j \in Node : j # i => /\ role'[j] = role[j]
                                  /\ electionTimer'[j] = electionTimer[j]
                                  /\ heartbeatTimer'[j] = heartbeatTimer[j],
         IF role'[i] = Leader THEN heartbeatTimer'[i] /\ ~electionTimer'[i]
                              ELSE electionTimer'[i]
  PROVE  TimersArmed'
BY DEF TimersArmed

\* What the handlers that leave the accepting branches aside do to the timers.
LEMMA PrologueTimers ==
  ASSUME TypeOK, TimersArmed, NEW m \in messages, NEW grants \in BOOLEAN,
         grants => RoleAfter(m) # Leader,
         role' = [role EXCEPT ![m.to] = RoleAfter(m)],
         heartbeatTimer' = [heartbeatTimer EXCEPT ![m.to] = @ /\ ~NewerTerm(m)],
         electionTimer' = [electionTimer EXCEPT ![m.to] = @ \/ NewerTerm(m) \/ grants]
  PROVE  TimersArmed'
<1>1. m.to \in Node
  BY PrologueType
<1>2. /\ role'[m.to] = RoleAfter(m)
      /\ heartbeatTimer'[m.to] = (heartbeatTimer[m.to] /\ ~NewerTerm(m))
      /\ electionTimer'[m.to] = (electionTimer[m.to] \/ NewerTerm(m) \/ grants)
  BY <1>1 DEF TypeOK
<1>3. \A j \in Node : j # m.to => /\ role'[j] = role[j]
                                  /\ electionTimer'[j] = electionTimer[j]
                                  /\ heartbeatTimer'[j] = heartbeatTimer[j]
  BY DEF TypeOK
<1>4. NewerTerm(m) => RoleAfter(m) # Leader
  BY DEF RoleAfter, Leader, Follower
<1>5. ~NewerTerm(m) => RoleAfter(m) = role[m.to]
  BY DEF RoleAfter
<1>6. IF role'[m.to] = Leader THEN heartbeatTimer'[m.to] /\ ~electionTimer'[m.to]
                              ELSE electionTimer'[m.to]
  BY <1>1, <1>2, <1>4, <1>5 DEF TimersArmed
<1> QED
  BY <1>1, <1>3, <1>6, LocalTimers

LEMMA HandleRequestVoteTimers ==
  ASSUME TypeOK, VoteInv, TimersArmed, NEW m \in messages, HandleRequestVote(m)
  PROVE  TimersArmed'
<1>1. GrantsVote(m) => RoleAfter(m) # Leader
  <2> SUFFICES ASSUME GrantsVote(m), RoleAfter(m) = Leader PROVE FALSE
    OBVIOUS
  <2>1. RoleAfter(m) = role[m.to] /\ VoteAfter(m) = votedFor[m.to]
    BY PrologueCases DEF Leader, Follower
  <2>2. m.to \in Node /\ m.from # m.to
    BY PrologueType DEF VoteInv
  <2>3. VoteAfter(m) = m.to
    BY <2>1, <2>2 DEF VoteInv, Leader, Follower
  <2> QED
    BY <2>2, <2>3, NodeAssumption DEF GrantsVote
<1>2. GrantsVote(m) \in BOOLEAN
  BY DEF GrantsVote
<1> QED
  BY <1>1, <1>2, PrologueTimers DEF HandleRequestVote

LEMMA HandleRequestVoteReplyTimers ==
  ASSUME TypeOK, TimersArmed, NEW m \in messages, HandleRequestVoteReply(m)
  PROVE  TimersArmed'
<1>1. m.to \in Node
  BY PrologueType
<1>2. CASE BecomeLeader(m.to, m.term)
  BY <1>1, <1>2, BecomeLeaderTimers
<1>3. CASE UNCHANGED <<role, timerVars>>
  BY <1>3 DEF TimersArmed, timerVars
<1>4. CASE /\ role' = [role EXCEPT ![m.to] = RoleAfter(m)]
           /\ heartbeatTimer' = [heartbeatTimer EXCEPT ![m.to] = @ /\ ~NewerTerm(m)]
           /\ electionTimer' = [electionTimer EXCEPT ![m.to] = @ \/ NewerTerm(m)]
  <2>1. electionTimer' = [electionTimer EXCEPT ![m.to] = @ \/ NewerTerm(m) \/ FALSE]
    BY <1>4
  <2> QED
    BY <1>4, <2>1, PrologueTimers
<1> QED
  BY <1>2, <1>3, <1>4 DEF HandleRequestVoteReply

LEMMA HandleAppendEntriesTimers ==
  ASSUME TypeOK, TimersArmed, NEW m \in messages, HandleAppendEntries(m)
  PROVE  TimersArmed'
<1>1. m.to \in Node
  BY PrologueType
<1>2. heartbeatTimer' = [heartbeatTimer EXCEPT ![m.to] = @ /\ ~NewerTerm(m)]
  BY DEF HandleAppendEntries
<1>3. CASE m.term < TermAfter(m) /\ UNCHANGED <<role, electionTimer>>
  <2>1. ~NewerTerm(m)
    BY <1>3, PrologueType DEF TermAfter, NewerTerm, TypeOK
  <2>2. \A j \in Node : heartbeatTimer'[j] = heartbeatTimer[j]
    BY <1>1, <1>2, <2>1 DEF TypeOK
  <2> QED
    BY <1>3, <2>2 DEF TimersArmed
<1>4. CASE /\ role' = [role EXCEPT ![m.to] = Follower]
           /\ electionTimer' = [electionTimer EXCEPT ![m.to] = TRUE]
  BY <1>1, <1>2, <1>4, LocalTimers DEF TypeOK, Leader, Follower
<1> QED
  BY <1>3, <1>4 DEF HandleAppendEntries

\* Every node always has the timer its role calls for, in a cluster of any size.
THEOREM TimersCorrect == Spec => []TimersArmed
<1>1. Init => TimersArmed
  BY DEF Init, TimersArmed, Leader, Follower
<1>2. TypeOK /\ VoteInv /\ TimersArmed /\ [Next]_vars => TimersArmed'
  <2> SUFFICES ASSUME TypeOK, VoteInv, TimersArmed, [Next]_vars PROVE TimersArmed'
    OBVIOUS
  <2>1. ASSUME NEW i \in Node, StartElection(i) PROVE TimersArmed'
    <3>1. CASE BecomeLeader(i, currentTerm[i] + 1)
      BY <3>1, BecomeLeaderTimers
    <3>2. CASE role' = [role EXCEPT ![i] = Candidate] /\ UNCHANGED timerVars
      <4>1. electionTimer[i] /\ role'[i] = Candidate
        BY <2>1, <3>2 DEF StartElection, TypeOK
      <4> QED
        BY <3>2, <4>1, LocalTimers DEF timerVars, TypeOK, Candidate, Leader
    <3> QED
      BY <2>1, <3>1, <3>2 DEF StartElection
  <2>2. ASSUME NEW i \in Node, Heartbeat(i) PROVE TimersArmed'
    BY <2>2 DEF Heartbeat, TimersArmed, termVars, timerVars
  <2>3. ASSUME NEW i \in Node, NEW v \in Value, Propose(i, v) PROVE TimersArmed'
    BY <2>3 DEF Propose, TimersArmed, termVars, timerVars
  <2>4. ASSUME NEW m \in messages, HandleAppendEntriesReply(m) PROVE TimersArmed'
    <3>1. electionTimer' = [electionTimer EXCEPT ![m.to] = @ \/ NewerTerm(m) \/ FALSE]
      BY <2>4 DEF HandleAppendEntriesReply
    <3> QED
      BY <2>4, <3>1, PrologueTimers DEF HandleAppendEntriesReply
  <2>5. ASSUME NEW m \in messages, Deliver(m) PROVE TimersArmed'
    BY <2>4, <2>5, HandleRequestVoteTimers, HandleRequestVoteReplyTimers,
       HandleAppendEntriesTimers DEF Deliver
  <2>6. CASE UNCHANGED vars
    BY <2>6 DEF TimersArmed, vars, termVars, timerVars
  <2> QED
    BY <2>1, <2>2, <2>3, <2>5, <2>6 DEF Next
<1> QED
  BY <1>1, <1>2, TypeCorrect, VotesCorrect, PTL DEF Spec

-----------------------------------------------------------------------------
(* The managed cluster: calls, changing peer sets and restarts (RaftCluster). *)
(* There VoteInv does not hold, so these two follow from the types alone.     *)

LEMMA CallTypes ==
  ASSUME TypeOK, NEW i \in Node,
         \/ Start(i) \/ Stop(i) \/ Restart(i)
         \/ \E p \in Node : AddPeer(i, p)
         \/ \E p \in Node : RemovePeer(i, p)
  PROVE  TypeOK'
<1>1. CASE Start(i)
  BY <1>1 DEF Start, TypeOK, Role, logVars, leaderVars
<1>2. CASE Stop(i)
  BY <1>2 DEF Stop, RoleOnStop, TypeOK, Role, logVars, leaderVars
<1>3. CASE Restart(i)
  <2>1. <<>> \in Seq(Entry)
    BY EmptySeq
  <2> QED
    BY <1>3, <2>1 DEF Restart, AppliedOnStart, TypeOK, Role
<1>4. ASSUME NEW p \in Node, AddPeer(i, p) PROVE TypeOK'
  <2>1. Len(log[i]) + 1 \in Nat \ {0}
    <3>1. log[i] \in Seq(Entry)
      BY DEF TypeOK
    <3>2. Len(log[i]) \in Nat
      BY <3>1, LenProperties
    <3> QED
      BY <3>2
  <2>2. peers' \in [Node -> SUBSET Node]
    BY <1>4 DEF AddPeer, TypeOK
  <2>3. nextIndex' \in [Node -> [Node -> Nat \ {0}]] /\ matchIndex' \in [Node -> [Node -> Nat]]
    <3>1. CASE UNCHANGED leaderVars
      BY <3>1 DEF TypeOK, leaderVars
    <3>2. CASE /\ nextIndex' = [nextIndex EXCEPT ![i][p] = Len(log[i]) + 1]
               /\ matchIndex' = [matchIndex EXCEPT ![i][p] = 0]
      BY <2>1, <3>2 DEF TypeOK
    <3> QED
      BY <1>4, <3>1, <3>2 DEF AddPeer
  <2> QED
    BY <1>4, <2>2, <2>3 DEF AddPeer, TypeOK, termVars, logVars, timerVars
<1>5. ASSUME NEW p \in Node, RemovePeer(i, p) PROVE TypeOK'
  <2>1. peers' \in [Node -> SUBSET Node]
    BY <1>5 DEF RemovePeer, TypeOK
  <2>2. nextIndex' \in [Node -> [Node -> Nat \ {0}]] /\ matchIndex' \in [Node -> [Node -> Nat]]
    <3>1. /\ nextIndex' = [nextIndex EXCEPT ![i][p] = 1]
          /\ matchIndex' = [matchIndex EXCEPT ![i][p] = 0]
      BY <1>5 DEF RemovePeer
    <3>2. 1 \in Nat \ {0} /\ 0 \in Nat
      OBVIOUS
    <3> QED
      BY <3>1, <3>2 DEF TypeOK
  <2> QED
    BY <1>5, <2>1, <2>2 DEF RemovePeer, TypeOK, termVars, logVars, timerVars
<1> QED
  BY <1>1, <1>2, <1>3, <1>4, <1>5

\* Restarts and changes of peers leave every field well typed.
THEOREM ClusterTypeCorrect == ClusterSpec => []TypeOK
<1>1. ClusterInit => TypeOK
  BY InitType DEF ClusterInit
<1>2. TypeOK /\ [ClusterNext]_clusterVars => TypeOK'
  BY NextType, CallTypes DEF ClusterNext, Engine, clusterVars
<1> QED
  BY <1>1, <1>2, PTL DEF ClusterSpec

\* A step whose only effect on roles and timers is at node i.
LEMMA LocalRoles ==
  ASSUME TypeOK, ActiveRolesTimed, NEW i \in Node,
         \A j \in Node : j # i => /\ role'[j] = role[j]
                                  /\ electionTimer'[j] = electionTimer[j]
                                  /\ heartbeatTimer'[j] = heartbeatTimer[j],
         role'[i] = Leader => heartbeatTimer'[i],
         role'[i] = Candidate => electionTimer'[i]
  PROVE  ActiveRolesTimed'
BY DEF ActiveRolesTimed

\* A handler keeps them: a node that keeps its role keeps the timer, unless a newer
\* term makes it a follower.
LEMMA DeliverRoles ==
  ASSUME TypeOK, ActiveRolesTimed, NEW m \in messages, Deliver(m)
  PROVE  ActiveRolesTimed'
<1>1. m.to \in Node
  BY PrologueType
<1>2. NewerTerm(m) => RoleAfter(m) = Follower
  BY DEF RoleAfter
<1>3. ~NewerTerm(m) => RoleAfter(m) = role[m.to]
  BY DEF RoleAfter
<1>4. ASSUME NEW grants \in BOOLEAN,
             role' = [role EXCEPT ![m.to] = RoleAfter(m)],
             heartbeatTimer' = [heartbeatTimer EXCEPT ![m.to] = @ /\ ~NewerTerm(m)],
             electionTimer' = [electionTimer EXCEPT ![m.to] = @ \/ NewerTerm(m) \/ grants]
      PROVE  ActiveRolesTimed'
  <2>1. /\ role'[m.to] = RoleAfter(m)
        /\ heartbeatTimer'[m.to] = (heartbeatTimer[m.to] /\ ~NewerTerm(m))
        /\ electionTimer'[m.to] = (electionTimer[m.to] \/ NewerTerm(m) \/ grants)
    BY <1>1, <1>4 DEF TypeOK
  <2>2. \A j \in Node : j # m.to => /\ role'[j] = role[j]
                                    /\ electionTimer'[j] = electionTimer[j]
                                    /\ heartbeatTimer'[j] = heartbeatTimer[j]
    BY <1>4 DEF TypeOK
  <2>3. role'[m.to] = Leader => heartbeatTimer'[m.to]
    BY <1>1, <1>2, <1>3, <2>1 DEF ActiveRolesTimed, Follower, Leader
  <2>4. role'[m.to] = Candidate => electionTimer'[m.to]
    BY <1>1, <1>2, <1>3, <2>1 DEF ActiveRolesTimed, Follower, Candidate
  <2> QED
    BY <1>1, <2>2, <2>3, <2>4, LocalRoles
<1>5. ASSUME HandleRequestVote(m) PROVE ActiveRolesTimed'
  <2>1. GrantsVote(m) \in BOOLEAN
    BY DEF GrantsVote
  <2> QED
    BY <1>4, <1>5, <2>1 DEF HandleRequestVote
<1>6. ASSUME HandleRequestVoteReply(m) PROVE ActiveRolesTimed'
  <2>1. CASE BecomeLeader(m.to, m.term)
    BY <2>1 DEF TypeOK, ActiveRolesTimed, BecomeLeader, Leader, Candidate
  <2>2. CASE UNCHANGED <<role, timerVars>>
    BY <2>2 DEF ActiveRolesTimed, timerVars
  <2>3. CASE /\ role' = [role EXCEPT ![m.to] = RoleAfter(m)]
             /\ heartbeatTimer' = [heartbeatTimer EXCEPT ![m.to] = @ /\ ~NewerTerm(m)]
             /\ electionTimer' = [electionTimer EXCEPT ![m.to] = @ \/ NewerTerm(m)]
    <3>1. electionTimer' = [electionTimer EXCEPT ![m.to] = @ \/ NewerTerm(m) \/ FALSE]
      BY <2>3
    <3> QED
      BY <1>4, <2>3, <3>1
  <2> QED
    BY <1>6, <2>1, <2>2, <2>3 DEF HandleRequestVoteReply
<1>7. ASSUME HandleAppendEntries(m) PROVE ActiveRolesTimed'
  <2>1. heartbeatTimer' = [heartbeatTimer EXCEPT ![m.to] = @ /\ ~NewerTerm(m)]
    BY <1>7 DEF HandleAppendEntries
  <2>2. CASE m.term < TermAfter(m) /\ UNCHANGED <<role, electionTimer>>
    <3>1. ~NewerTerm(m)
      BY <2>2, PrologueType DEF TermAfter, NewerTerm, TypeOK
    <3>2. \A j \in Node : heartbeatTimer'[j] = heartbeatTimer[j]
      BY <1>1, <2>1, <3>1 DEF TypeOK
    <3> QED
      BY <2>2, <3>2 DEF ActiveRolesTimed
  <2>3. CASE /\ role' = [role EXCEPT ![m.to] = Follower]
             /\ electionTimer' = [electionTimer EXCEPT ![m.to] = TRUE]
    BY <1>1, <2>1, <2>3, LocalRoles DEF TypeOK, Leader, Follower, Candidate
  <2> QED
    BY <1>7, <2>2, <2>3 DEF HandleAppendEntries
<1>8. ASSUME HandleAppendEntriesReply(m) PROVE ActiveRolesTimed'
  <2>1. electionTimer' = [electionTimer EXCEPT ![m.to] = @ \/ NewerTerm(m) \/ FALSE]
    BY <1>8 DEF HandleAppendEntriesReply
  <2> QED
    BY <1>4, <1>8, <2>1 DEF HandleAppendEntriesReply
<1> QED
  BY <1>5, <1>6, <1>7, <1>8 DEF Deliver

\* Whatever the calls, the restarts and the changes of peers, a leader has its
\* heartbeat and a candidate its election timer.
THEOREM ClusterRolesTimed == ClusterSpec => []ActiveRolesTimed
<1>1. ClusterInit => ActiveRolesTimed
  BY DEF ClusterInit, Init, ActiveRolesTimed, Leader, Follower, Candidate
<1>2. TypeOK /\ ActiveRolesTimed /\ [ClusterNext]_clusterVars => ActiveRolesTimed'
  <2> SUFFICES ASSUME TypeOK, ActiveRolesTimed, [ClusterNext]_clusterVars
               PROVE  ActiveRolesTimed'
    OBVIOUS
  <2>1. ASSUME NEW i \in Node, StartElection(i) PROVE ActiveRolesTimed'
    <3>1. CASE BecomeLeader(i, currentTerm[i] + 1)
      BY <3>1 DEF TypeOK, ActiveRolesTimed, BecomeLeader, Leader, Candidate
    <3>2. CASE role' = [role EXCEPT ![i] = Candidate] /\ UNCHANGED timerVars
      BY <2>1, <3>2 DEF StartElection, TypeOK, ActiveRolesTimed, timerVars, Leader, Candidate
    <3> QED
      BY <2>1, <3>1, <3>2 DEF StartElection
  <2>2. ASSUME UNCHANGED <<role, timerVars>> PROVE ActiveRolesTimed'
    BY <2>2 DEF ActiveRolesTimed, timerVars
  <2>3. ASSUME Engine PROVE ActiveRolesTimed'
    BY <2>1, <2>2, <2>3, DeliverRoles DEF Engine, Next, Heartbeat, Propose, termVars
  <2>4. ASSUME NEW i \in Node, Start(i) \/ Stop(i) \/ Restart(i) PROVE ActiveRolesTimed'
    BY <2>4 DEF Start, Stop, RoleOnStop, Restart, TypeOK, ActiveRolesTimed, Leader, Follower,
       Candidate
  <2>5. ASSUME NEW i \in Node, NEW p \in Node, AddPeer(i, p) \/ RemovePeer(i, p)
        PROVE  ActiveRolesTimed'
    BY <2>2, <2>5 DEF AddPeer, RemovePeer, termVars
  <2>6. CASE UNCHANGED clusterVars
    BY <2>2, <2>6 DEF clusterVars, vars, termVars
  <2> QED
    BY <2>3, <2>4, <2>5, <2>6 DEF ClusterNext
<1> QED
  BY <1>1, <1>2, ClusterTypeCorrect, PTL DEF ClusterSpec

\* What applyLogs() leaves: nothing beyond the index it was called for.
LEMMA AppliedUpToBounds ==
  ASSUME NEW lg, NEW from \in Nat, NEW to \in Nat
  PROVE  LET applied == AppliedUpTo(lg, from, to)
         IN  /\ applied \in Nat
             /\ applied = from \/ (applied > from /\ applied <= to)
<1>1. CASE ThrowsAt(lg, from, to) = {}
  BY <1>1 DEF AppliedUpTo, LargerOf
<1>2. CASE ThrowsAt(lg, from, to) # {}
  <2>1. ThrowsAt(lg, from, to) \in SUBSET Nat
    BY DEF ThrowsAt
  <2>2. Min(ThrowsAt(lg, from, to)) \in ThrowsAt(lg, from, to)
    BY <1>2, <2>1, MinOfNaturals
  <2>3. Min(ThrowsAt(lg, from, to)) \in (from + 1) .. to
    BY <2>2 DEF ThrowsAt
  <2> QED
    BY <1>2, <2>3 DEF AppliedUpTo
<1> QED
  BY <1>1, <1>2

\* The three places that call applyLogs(): alone, on a leader's message, on a reply.
LEMMA ProposeApplies ==
  ASSUME TypeOK, NEW i \in Node, NEW v \in Value, Propose(i, v), NEW j \in Node
  PROVE  AppliesCommitted(j)
<1> DEFINE newLog == Append(log[i], [term |-> currentTerm[i], cmd |-> v])
<1>1. newLog \in Seq(Entry) /\ Len(newLog) \in Nat
  <2>1. [term |-> currentTerm[i], cmd |-> v] \in Entry /\ log[i] \in Seq(Entry)
    BY DEF TypeOK, Entry
  <2> QED
    BY <2>1, AppendProperties, LenProperties
<1>2. log' = [log EXCEPT ![i] = newLog]
  BY DEF Propose
<1>3. CASE UNCHANGED lastApplied
  BY <1>3 DEF AppliesCommitted
<1>4. CASE /\ commitIndex' = [commitIndex EXCEPT ![i] = Len(newLog)]
           /\ lastApplied' = [lastApplied EXCEPT ![i] = AppliedUpTo(newLog, @, Len(newLog))]
  <2> HIDE DEF newLog
  <2>1. CASE j # i
    BY <1>4, <2>1 DEF AppliesCommitted, TypeOK
  <2>2. CASE j = i
    <3>1. /\ commitIndex'[i] = Len(newLog) /\ log'[i] = newLog
          /\ lastApplied'[i] = AppliedUpTo(newLog, lastApplied[i], Len(newLog))
      BY <1>2, <1>4 DEF TypeOK
    <3>2. lastApplied[i] \in Nat
      BY DEF TypeOK
    <3> QED
      BY <1>1, <2>2, <3>1, <3>2, AppliedUpToBounds DEF AppliesCommitted
  <2> QED
    BY <2>1, <2>2
<1> QED
  BY <1>3, <1>4 DEF Propose

LEMMA AcceptApplies ==
  ASSUME TypeOK, NEW m \in messages, m.type = "APPEND_ENTRIES",
         PrevEntryMatches(m), AcceptEntries(m), NEW j \in Node
  PROVE  AppliesCommitted(j)
<1> DEFINE newLog == MergeEntries(log[m.to], m.prevLogIndex, m.entries)
<1>1. /\ m.to \in Node /\ m.prevLogIndex \in Nat /\ m.entries \in Seq(Entry)
      /\ m.leaderCommit \in Nat
  BY PrologueType, MessageFields
<1>2. log[m.to] \in Seq(Entry) /\ Len(log[m.to]) \in Nat
      /\ commitIndex[m.to] \in Nat /\ lastApplied[m.to] \in Nat
  BY <1>1, LenProperties DEF TypeOK
<1>3. newLog \in Seq(Entry) /\ Len(newLog) \in Nat
  BY <1>1, <1>2, MergeEntriesType, LenProperties DEF PrevEntryMatches
<1> HIDE DEF newLog
<1>4. log' = [log EXCEPT ![m.to] = newLog]
      /\ commitIndex' = [commitIndex EXCEPT ![m.to] = CommitAfter(m, newLog)]
  BY DEF AcceptEntries, newLog
<1>5. lastApplied' = [lastApplied EXCEPT ![m.to] =
        IF m.leaderCommit > commitIndex[m.to]
          THEN AppliedUpTo(newLog, lastApplied[m.to], CommitAfter(m, newLog)) ELSE @]
  BY DEF AcceptEntries, newLog
<1>6. CASE j # m.to
  BY <1>5, <1>6 DEF AppliesCommitted, TypeOK
<1>7. CASE j = m.to
  <2>1. log'[m.to] = newLog /\ commitIndex'[m.to] = CommitAfter(m, newLog)
    BY <1>1, <1>4 DEF TypeOK
  <2>2. CASE m.leaderCommit > commitIndex[m.to]
    <3>1. CommitAfter(m, newLog) \in Nat /\ CommitAfter(m, newLog) <= Len(newLog)
      BY <1>1, <1>3, <2>2 DEF CommitAfter, SmallerOf
    <3>2. lastApplied'[m.to] = AppliedUpTo(newLog, lastApplied[m.to], CommitAfter(m, newLog))
      BY <1>1, <1>5, <2>2 DEF TypeOK
    <3> QED
      BY <1>2, <1>7, <2>1, <3>1, <3>2, AppliedUpToBounds DEF AppliesCommitted
  <2>3. CASE ~(m.leaderCommit > commitIndex[m.to])
    BY <1>1, <1>5, <1>7, <2>3 DEF AppliesCommitted, TypeOK
  <2> QED
    BY <2>2, <2>3
<1> QED
  BY <1>6, <1>7

LEMMA AdvanceApplies ==
  ASSUME TypeOK, NEW i \in Node, NEW match, AdvanceCommit(i, match), UNCHANGED log,
         NEW j \in Node
  PROVE  AppliesCommitted(j)
<1> DEFINE new == IF Committable(i, match) = {} THEN commitIndex[i]
                                                ELSE Max(Committable(i, match))
<1>1. Committable(i, match) \in SUBSET Nat /\ Len(log[i]) \in Nat
      /\ \A y \in Committable(i, match) : y <= Len(log[i])
  BY LenProperties DEF Committable, TypeOK
<1>2. Committable(i, match) # {} => /\ Max(Committable(i, match)) \in Nat
                                    /\ Max(Committable(i, match)) <= Len(log[i])
  BY <1>1, MaxOfBoundedNaturals
<1>3. new # commitIndex[i] => new \in Nat /\ new <= Len(log[i])
  BY <1>2
<1>4. /\ commitIndex' = [commitIndex EXCEPT ![i] = new]
      /\ lastApplied' = [lastApplied EXCEPT ![i] =
           IF new = commitIndex[i] THEN @ ELSE AppliedUpTo(log[i], lastApplied[i], new)]
  BY DEF AdvanceCommit
<1> HIDE DEF new
<1>5. CASE j # i \/ new = commitIndex[i]
  BY <1>4, <1>5 DEF AppliesCommitted, TypeOK
<1>6. CASE j = i /\ new # commitIndex[i]
  <2>1. commitIndex'[i] = new /\ lastApplied'[i] = AppliedUpTo(log[i], lastApplied[i], new)
    BY <1>4, <1>6 DEF TypeOK
  <2>2. lastApplied[i] \in Nat
    BY DEF TypeOK
  <2> QED
    BY <1>3, <1>6, <2>1, <2>2, AppliedUpToBounds DEF AppliesCommitted
<1> QED
  BY <1>5, <1>6

\* No message and no timer takes a term or a vote back.
LEMMA PrologueStands ==
  ASSUME TypeOK, NEW m \in messages, ObserveTerm(m), NEW j \in Node, NEW vote,
         votedFor' = [votedFor EXCEPT ![m.to] = vote],
         vote = VoteAfter(m) \/ VoteAfter(m) = Nil
  PROVE  VoteStands(j)
<1>1. m.to \in Node /\ m.term \in Nat
  BY PrologueType, MessageFields DEF TypeOK
<1>2. currentTerm'[m.to] = TermAfter(m) /\ votedFor'[m.to] = vote
  BY <1>1 DEF ObserveTerm, TypeOK
<1>3. j # m.to => currentTerm'[j] = currentTerm[j] /\ votedFor'[j] = votedFor[j]
  BY DEF ObserveTerm, TypeOK
<1>4. CASE j # m.to
  BY <1>3, <1>4 DEF VoteStands
<1>5. CASE j = m.to /\ NewerTerm(m)
  BY <1>1, <1>2, <1>5 DEF VoteStands, TermAfter, NewerTerm
<1>6. CASE j = m.to /\ ~NewerTerm(m)
  BY <1>1, <1>2, <1>6 DEF VoteStands, TermAfter, VoteAfter
<1> QED
  BY <1>4, <1>5, <1>6

LEMMA DeliverStands ==
  ASSUME TypeOK, NEW m \in messages, Deliver(m), NEW j \in Node
  PROVE  VoteStands(j) /\ AppliesCommitted(j)
<1>1. ASSUME HandleRequestVote(m) PROVE VoteStands(j) /\ UNCHANGED lastApplied
  <2>1. GrantsVote(m) => VoteAfter(m) \in {Nil, m.from}
    BY DEF GrantsVote
  <2>2. PICK vote : /\ vote = (IF GrantsVote(m) THEN m.from ELSE VoteAfter(m))
                    /\ votedFor' = [votedFor EXCEPT ![m.to] = vote]
    BY <1>1 DEF HandleRequestVote
  <2>3. vote = VoteAfter(m) \/ VoteAfter(m) = Nil
    BY <2>1, <2>2
  <2> QED
    BY <1>1, <2>2, <2>3, PrologueStands DEF HandleRequestVote, logVars
<1>2. ASSUME HandleRequestVoteReply(m) PROVE VoteStands(j) /\ UNCHANGED lastApplied
  BY <1>2, PrologueStands DEF HandleRequestVoteReply, logVars
<1>3. ASSUME HandleAppendEntries(m) PROVE VoteStands(j) /\ AppliesCommitted(j)
  <2>1. VoteStands(j)
    BY <1>3, PrologueStands DEF HandleAppendEntries
  <2> SUFFICES AppliesCommitted(j)
    BY <2>1
  <2>2. CASE UNCHANGED logVars
    <3>1. lastApplied'[j] = lastApplied[j]
      BY <2>2 DEF logVars
    <3> QED
      BY <3>1 DEF AppliesCommitted
  <2>3. CASE PrevEntryMatches(m) /\ AcceptEntries(m)
    <3>1. m.type = "APPEND_ENTRIES"
      BY <1>3 DEF HandleAppendEntries
    <3> QED
      BY <2>3, <3>1, AcceptApplies
  <2> QED
    BY <1>3, <2>1, <2>2, <2>3 DEF HandleAppendEntries
<1>4. ASSUME HandleAppendEntriesReply(m) PROVE VoteStands(j) /\ AppliesCommitted(j)
  <2>1. VoteStands(j)
    BY <1>4, PrologueStands DEF HandleAppendEntriesReply
  <2> SUFFICES AppliesCommitted(j)
    BY <2>1
  <2>2. CASE UNCHANGED lastApplied
    BY <2>2 DEF AppliesCommitted
  <2>3. CASE AdvanceCommit(m.to, [matchIndex[m.to] EXCEPT ![m.from] = m.matchIndex])
    <3>1. m.to \in Node
      BY PrologueType
    <3>2. UNCHANGED log
      BY <1>4 DEF HandleAppendEntriesReply
    <3>3. PICK match : AdvanceCommit(m.to, match)
      BY <2>3
    <3> QED
      BY <3>1, <3>2, <3>3, AdvanceApplies
  <2> QED
    BY <1>4, <2>1, <2>2, <2>3 DEF HandleAppendEntriesReply
<1>5. UNCHANGED lastApplied => AppliesCommitted(j)
  BY DEF AppliesCommitted
<1> QED
  BY <1>1, <1>2, <1>3, <1>4, <1>5 DEF Deliver

\* Terms, votes and lastApplied go back only where the process starts anew.
THEOREM ClusterForgets == ClusterSpec => OnlyRestartForgets
<1>1. TypeOK /\ [ClusterNext]_clusterVars
        => [StandsOrForgets]_clusterVars
  <2> SUFFICES ASSUME TypeOK, ClusterNext, NEW j \in Node
               PROVE  Forgets(j) \/ (VoteStands(j) /\ AppliesCommitted(j))
    BY DEF StandsOrForgets
  <2>1. ASSUME UNCHANGED <<termVars, lastApplied>>
        PROVE  VoteStands(j) /\ AppliesCommitted(j)
    BY <2>1 DEF VoteStands, AppliesCommitted, termVars
  <2>2. ASSUME UNCHANGED <<currentTerm, votedFor, lastApplied>>
        PROVE  VoteStands(j) /\ AppliesCommitted(j)
    BY <2>2 DEF VoteStands, AppliesCommitted
  <2>3. ASSUME NEW i \in Node, StartElection(i)
        PROVE  VoteStands(j) /\ AppliesCommitted(j)
    <3>1. lastApplied'[j] = lastApplied[j]
      BY <2>3 DEF StartElection, logVars
    <3>2. /\ currentTerm' = [currentTerm EXCEPT ![i] = @ + 1]
          /\ votedFor' = [votedFor EXCEPT ![i] = i]
      BY <2>3 DEF StartElection
    <3>3. VoteStands(j)
      <4>1. CASE j = i
        BY <3>2, <4>1 DEF VoteStands, TypeOK
      <4>2. CASE j # i
        BY <3>2, <4>2 DEF VoteStands, TypeOK
      <4> QED
        BY <4>1, <4>2
    <3> QED
      BY <3>1, <3>3 DEF AppliesCommitted
  <2>4. ASSUME NEW i \in Node, Heartbeat(i)
        PROVE  VoteStands(j) /\ AppliesCommitted(j)
    BY <2>1, <2>4 DEF Heartbeat, logVars
  <2>5. ASSUME NEW i \in Node, NEW v \in Value, Propose(i, v)
        PROVE  VoteStands(j) /\ AppliesCommitted(j)
    BY <2>5, ProposeApplies DEF Propose, VoteStands, termVars
  <2>6. ASSUME NEW i \in Node, Start(i) \/ Stop(i)
        PROVE  VoteStands(j) /\ AppliesCommitted(j)
    BY <2>2, <2>6 DEF Start, Stop, logVars
  <2>7. ASSUME NEW i \in Node, NEW p \in Node, AddPeer(i, p) \/ RemovePeer(i, p)
        PROVE  VoteStands(j) /\ AppliesCommitted(j)
    BY <2>1, <2>7 DEF AddPeer, RemovePeer, logVars
  <2>8. ASSUME NEW i \in Node, Restart(i)
        PROVE  Forgets(j) \/ (VoteStands(j) /\ AppliesCommitted(j))
    BY <2>8 DEF Restart, AppliedOnStart, Forgets, VoteStands, AppliesCommitted, TypeOK
  <2> QED
    BY <2>3, <2>4, <2>5, <2>6, <2>7, <2>8, DeliverStands DEF ClusterNext, Engine, Next
<1> QED
  BY <1>1, ClusterTypeCorrect, PTL DEF ClusterSpec, OnlyRestartForgets

=============================================================================

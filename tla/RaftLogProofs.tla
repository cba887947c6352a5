---------------------------- MODULE RaftLogProofs ----------------------------
(* Log matching, for clusters of at most three nodes and any bounds (with     *)
(* four nodes two may win one term: the set of votes survives its election);  *)
(* and for at most two nodes what is promised of committed entries (with      *)
(* three a follower's stale suffix is counted as held).                       *)
EXTENDS RaftProofs, RaftClient

-----------------------------------------------------------------------------
(* Ballots.  Votes are requested before they are granted, and whoever asks    *)
(* for votes in a term grants none in it: so a term has one winner for ever,  *)
(* not only one leader at a time.                                             *)

IsRequest(m) == m.type = "REQUEST_VOTE"

BallotInv ==
  /\ \A r \in messages : IsRequest(r) =>
       /\ r.term <= currentTerm[r.from]
       /\ r.term = currentTerm[r.from] => votedFor[r.from] = r.from
  /\ \A g \in messages : IsGrant(g) =>
       \E r \in messages : IsRequest(r) /\ r.from = g.to /\ r.term = g.term
  /\ \A r, g \in messages : IsRequest(r) /\ IsGrant(g) /\ r.term = g.term => r.from # g.from

\* What a step sends, as far as ballots go.
BallotStep ==
  \A m \in messages' : m \notin messages =>
    /\ IsRequest(m) => /\ m.term = currentTerm[m.from] + 1
                       /\ m.term = currentTerm'[m.from] /\ votedFor'[m.from] = m.from
    /\ IsGrant(m) => \E r \in messages : IsRequest(r) /\ r.from = m.to /\ r.term = m.term

LEMMA BallotStepKeeps ==
  ASSUME TypeOK, TypeOK', VoteInv, BallotInv, VoteStep, BallotStep
  PROVE  BallotInv'
<1>0. /\ \A m \in messages' : m.from \in Node /\ m.to \in Node /\ m.term \in Nat
      /\ \A i \in Node : currentTerm[i] \in Nat /\ currentTerm'[i] \in Nat
      /\ \A m \in messages' : m.from # m.to
  BY MessageFields DEF TypeOK, VoteStep, VoteInv
<1>1. ASSUME NEW r \in messages', IsRequest(r)
      PROVE  /\ r.term <= currentTerm'[r.from]
             /\ r.term = currentTerm'[r.from] => votedFor'[r.from] = r.from
  <2>1. CASE r \notin messages
    BY <1>0, <1>1, <2>1 DEF BallotStep
  <2>2. CASE r \in messages
    <3>1. /\ r.term <= currentTerm[r.from]
          /\ r.term = currentTerm[r.from] => votedFor[r.from] = r.from
      BY <1>1, <2>2 DEF BallotInv
    <3>2. currentTerm'[r.from] >= currentTerm[r.from] /\ r.from # Nil
      BY <1>0, NodeAssumption DEF VoteStep
    <3>3. currentTerm'[r.from] = currentTerm[r.from] /\ votedFor[r.from] # Nil
            => votedFor'[r.from] = votedFor[r.from]
      BY <1>0 DEF VoteStep
    <3> QED
      BY <1>0, <3>1, <3>2, <3>3
  <2> QED
    BY <2>1, <2>2
<1>2. ASSUME NEW g \in messages', IsGrant(g)
      PROVE  \E r \in messages' : IsRequest(r) /\ r.from = g.to /\ r.term = g.term
  <2>1. \E r \in messages : IsRequest(r) /\ r.from = g.to /\ r.term = g.term
    BY <1>2 DEF BallotStep, BallotInv
  <2> QED
    BY <2>1 DEF VoteStep
<1>3. ASSUME NEW r \in messages', NEW g \in messages', IsRequest(r), IsGrant(g),
             r.term = g.term, r.from = g.from
      PROVE  FALSE
  <2>1. CASE r \in messages /\ g \in messages
    BY <1>3, <2>1 DEF BallotInv
  <2>2. CASE g \notin messages
    <3>1. g.term = currentTerm'[g.from] /\ votedFor'[g.from] = g.to
      BY <1>3, <2>2 DEF VoteStep
    <3>2. votedFor'[r.from] = r.from
      BY <1>1, <1>3, <3>1
    <3> QED
      BY <1>0, <1>3, <3>1, <3>2
  <2>3. CASE r \notin messages /\ g \in messages
    <3>1. g.term <= currentTerm[g.from]
      BY <1>3, <2>3 DEF VoteInv
    <3>2. r.term = currentTerm[r.from] + 1
      BY <1>3, <2>3 DEF BallotStep
    <3> QED
      BY <1>0, <1>3, <3>1, <3>2
  <2> QED
    BY <2>1, <2>2, <2>3
<1> QED
  BY <1>1, <1>2, <1>3 DEF BallotInv

\* The steps that send neither requests nor votes.
LEMMA NoBallots ==
  ASSUME \A m \in messages' : m \notin messages =>
           m.type \in {"APPEND_ENTRIES", "APPEND_ENTRIES_REPLY"}
  PROVE  BallotStep
BY DEF BallotStep, IsRequest, IsGrant


LEMMA NextBallots ==
  ASSUME TypeOK, VoteInv, BallotInv, [Next]_vars
  PROVE  BallotStep
<1>1. ASSUME NEW i \in Node, NEW term, BecomeLeader(i, term) PROVE BallotStep
  <2>1. \A p : AppendMsg(i, p, term, log[i], Len(log[i]) + 1, commitIndex[i]).type = "APPEND_ENTRIES"
    BY DEF AppendMsg
  <2> QED
    BY <1>1, <2>1, NoBallots DEF BecomeLeader, Send
<1>2. ASSUME NEW i \in Node, StartElection(i) PROVE BallotStep
  <2>1. CASE BecomeLeader(i, currentTerm[i] + 1)
    BY <1>1, <2>1
  <2>2. CASE Send({[type |-> "REQUEST_VOTE", from |-> i, to |-> p,
                    term |-> currentTerm[i] + 1, lastLogIndex |-> Len(log[i]),
                    lastLogTerm |-> LastTerm(log[i])] : p \in peers[i]})
    <3>1. \A m \in messages' : m \notin messages =>
            m.type = "REQUEST_VOTE" /\ m.from = i /\ m.term = currentTerm[i] + 1
      BY <2>2 DEF Send
    <3>2. currentTerm'[i] = currentTerm[i] + 1 /\ votedFor'[i] = i
      BY <1>2 DEF StartElection, TypeOK
    <3> QED
      BY <3>1, <3>2 DEF BallotStep, IsRequest, IsGrant
  <2> QED
    BY <1>2, <2>1, <2>2 DEF StartElection
<1>3. ASSUME NEW i \in Node, Heartbeat(i) PROVE BallotStep
  <2>1. \A p : AppendMsg(i, p, currentTerm[i], log[i], nextIndex[i][p], commitIndex[i]).type
                 = "APPEND_ENTRIES"
    BY DEF AppendMsg
  <2> QED
    BY <1>3, <2>1, NoBallots DEF Heartbeat, Send
<1>4. ASSUME NEW i \in Node, NEW v \in Value, Propose(i, v) PROVE BallotStep
  <2> DEFINE newLog == Append(log[i], [term |-> currentTerm[i], cmd |-> v])
  <2>1. \A p : AppendMsg(i, p, currentTerm[i], newLog, nextIndex[i][p], commitIndex[i]).type
                 = "APPEND_ENTRIES"
    BY DEF AppendMsg
  <2>2. \/ messages' = messages
        \/ Send({AppendMsg(i, p, currentTerm[i], newLog, nextIndex[i][p], commitIndex[i])
                   : p \in peers[i]})
    BY <1>4 DEF Propose
  <2> HIDE DEF newLog
  <2> QED
    BY <2>1, <2>2, NoBallots DEF Send
<1>5. ASSUME NEW m \in messages, HandleRequestVote(m) PROVE BallotStep
  <2> DEFINE reply == [type |-> "REQUEST_VOTE_REPLY", from |-> m.to, to |-> m.from,
                       term |-> TermAfter(m), voteGranted |-> GrantsVote(m)]
  <2>1. messages' = messages \cup {reply} /\ IsRequest(m)
    BY <1>5 DEF HandleRequestVote, Send, IsRequest
  <2>2. reply.type = "REQUEST_VOTE_REPLY" /\ reply.to = m.from /\ reply.term = TermAfter(m)
        /\ (reply.voteGranted => GrantsVote(m))
    OBVIOUS
  <2> HIDE DEF reply
  <2>3. GrantsVote(m) => m.term = TermAfter(m)
    <3>1. m.term \in Nat /\ currentTerm[m.to] \in Nat
      BY PrologueType DEF TypeOK
    <3> QED
      BY <3>1 DEF GrantsVote, TermAfter, NewerTerm
  <2> QED
    BY <2>1, <2>2, <2>3 DEF BallotStep, IsGrant, IsRequest
<1>6. ASSUME NEW m \in messages, HandleRequestVoteReply(m) PROVE BallotStep
  <2>1. m.to \in Node
    BY PrologueType
  <2>2. BecomeLeader(m.to, m.term) \/ messages' = messages
    BY <1>6 DEF HandleRequestVoteReply
  <2> QED
    BY <1>1, <2>1, <2>2, NoBallots
<1>7. ASSUME NEW m \in messages, HandleAppendEntries(m) PROVE BallotStep
  <2>1. \A k \in messages' : k \notin messages => k.type = "APPEND_ENTRIES_REPLY"
    BY <1>7 DEF HandleAppendEntries, AcceptEntries, Send, AppendReply
  <2> QED
    BY <2>1, NoBallots
<1>8. ASSUME NEW m \in messages, HandleAppendEntriesReply(m) PROVE BallotStep
  BY <1>8, NoBallots DEF HandleAppendEntriesReply
<1>9. CASE UNCHANGED vars
  BY <1>9, NoBallots DEF vars
<1> QED
  BY <1>2, <1>3, <1>4, <1>5, <1>6, <1>7, <1>8, <1>9 DEF Next, Deliver

\* Whoever asked for votes granted none in that term, in a cluster of any size.
THEOREM BallotsCorrect == Spec => []BallotInv
<1>1. Init => BallotInv
  BY DEF Init, BallotInv
<1>2. TypeOK /\ TypeOK' /\ VoteInv /\ BallotInv /\ [Next]_vars => BallotInv'
  BY NextVotes, NextBallots, BallotStepKeeps
<1> QED
  BY <1>1, <1>2, TypeCorrect, VotesCorrect, PTL DEF Spec

\* i has all it takes to lead term t: a vote besides its own, or nobody to ask.
Won(i, t) == Node = {i} \/ \E g \in messages : IsGrant(g) /\ g.to = i /\ g.term = t

\* Two winners of a term need the vote of one and the same third node.
LEMMA OneWinner ==
  ASSUME TypeOK, VoteInv, BallotInv, Cardinality(Node) <= 3,
         NEW i \in Node, NEW j \in Node, NEW t, Won(i, t), Won(j, t)
  PROVE  i = j
<1> SUFFICES ASSUME i # j PROVE FALSE
  OBVIOUS
<1>1. PICK g \in messages : IsGrant(g) /\ g.to = i /\ g.term = t
  BY DEF Won
<1>2. PICK h \in messages : IsGrant(h) /\ h.to = j /\ h.term = t
  BY DEF Won
<1>3. g.from \in Node /\ h.from \in Node
  BY MessageFields DEF TypeOK
<1>4. g.from # i /\ h.from # j
  BY <1>1, <1>2 DEF VoteInv
<1>5. g.from # j /\ h.from # i
  BY <1>1, <1>2 DEF BallotInv
<1>6. g.from = h.from
  BY <1>3, <1>4, <1>5, ThreeNodes
<1> QED
  BY <1>1, <1>2, <1>6 DEF VoteInv, OneVotePerTerm

-----------------------------------------------------------------------------
(* Fragments of logs.  A log, and the run of entries an APPEND_ENTRIES        *)
(* carries, are pieces of the same kind: entries from position lo + 1 on, and *)
(* the term at position lo, which handleAppendEntries compares.               *)

IsAppend(m) == m.type = "APPEND_ENTRIES"

Fragment(lo, t, es) == [lo |-> lo, term |-> t, entries |-> es]
FragmentType == [lo : Nat, term : Nat, entries : Seq(Entry)]

Whole(lg) == Fragment(0, 0, lg)
Sent(m)   == Fragment(m.prevLogIndex, m.prevLogTerm, m.entries)

Fragments == {Whole(log[i]) : i \in Node} \cup {Sent(m) : m \in {k \in messages : IsAppend(k)}}

Covers(F) == F.lo .. (F.lo + Len(F.entries))
TermOf(F, n) == IF n = 0 THEN 0
                ELSE IF n = F.lo THEN F.term ELSE F.entries[n - F.lo].term

SameAt(F, G, q) ==
  /\ TermOf(F, q) = TermOf(G, q)
  /\ q > F.lo /\ q > G.lo => F.entries[q - F.lo] = G.entries[q - G.lo]

\* A term in common at one position: the same entries up to it.
Agree(F, G) ==
  \A n \in Covers(F) \cap Covers(G) : TermOf(F, n) = TermOf(G, n) =>
    \A q \in Covers(F) \cap Covers(G) : q <= n => SameAt(F, G, q)

AllAgree == \A F, G \in Fragments : Agree(F, G)

\* Some fragment has an entry of term t at n.
Marked(n, t) == \E F \in Fragments : n \in Covers(F) /\ TermOf(F, n) = t

\* Node i has led term t, or gone past it.
Started(i, t) ==
  \/ currentTerm[i] > t
  \/ currentTerm[i] = t /\ role[i] # Candidate

\* Every term in a log is that of a winner who has led it, so that whoever wins
\* a term now finds no entry of it; and a leader's log is as long as any run of
\* entries of its term.
Owned ==
  \A n \in Nat, t \in Nat \ {0} : Marked(n, t) => \E i \in Node : Won(i, t) /\ Started(i, t)

Fresh ==
  \A i \in Node : role[i] # Follower =>
    /\ currentTerm[i] # 0
    /\ role[i] = Leader =>
         \A n \in Nat, t \in Nat : Marked(n, t) /\ t = currentTerm[i] => n <= Len(log[i])

LogInv == AllAgree /\ Owned /\ Fresh

\* F is cut from G, or hangs past the end of every log and says nothing.
PieceOf(F, G) ==
  \/ F.term = 0 /\ Len(F.entries) = 0
  \/ /\ F.lo >= G.lo /\ F.lo + Len(F.entries) <= G.lo + Len(G.entries)
     /\ \A q \in Covers(F) : SameAt(F, G, q)

LEMMA FragmentFields ==
  ASSUME NEW lo, NEW t, NEW es
  PROVE  /\ Fragment(lo, t, es).lo = lo /\ Fragment(lo, t, es).term = t
         /\ Fragment(lo, t, es).entries = es
BY DEF Fragment

LEMMA CoversNat ==
  ASSUME NEW F \in FragmentType
  PROVE  /\ F.lo \in Nat /\ F.term \in Nat /\ Len(F.entries) \in Nat
         /\ Covers(F) \subseteq Nat
         /\ \A n \in Nat : n \in Covers(F) <=> F.lo <= n /\ n <= F.lo + Len(F.entries)
         /\ \A n \in Covers(F) : TermOf(F, n) \in Nat
<1>1. F.lo \in Nat /\ F.term \in Nat /\ F.entries \in Seq(Entry)
  BY DEF FragmentType
<1>2. Len(F.entries) \in Nat
  BY <1>1, LenProperties
<1>3. Covers(F) \subseteq Nat
       /\ \A n \in Nat : n \in Covers(F) <=> F.lo <= n /\ n <= F.lo + Len(F.entries)
  BY <1>1, <1>2 DEF Covers
<1>4. ASSUME NEW n \in Covers(F) PROVE TermOf(F, n) \in Nat
  <2>1. CASE n = 0 \/ n = F.lo
    BY <1>1, <2>1 DEF TermOf
  <2>2. CASE n # 0 /\ n # F.lo
    <3>1. n - F.lo \in 1..Len(F.entries)
      BY <1>1, <1>2, <1>3, <2>2
    <3>2. F.entries[n - F.lo] \in Entry
      BY <1>1, <3>1, ElementOfSeq
    <3> QED
      BY <2>2, <3>2 DEF TermOf, Entry
  <2> QED
    BY <2>1, <2>2
<1> QED
  BY <1>1, <1>2, <1>3, <1>4

LEMMA WholeFacts ==
  ASSUME NEW lg \in Seq(Entry)
  PROVE  /\ Whole(lg) \in FragmentType
         /\ Whole(lg).lo = 0 /\ Whole(lg).entries = lg
         /\ Len(lg) \in Nat
         /\ \A n \in Nat : n \in Covers(Whole(lg)) <=> n <= Len(lg)
         /\ \A n \in 1..Len(lg) : TermOf(Whole(lg), n) = lg[n].term
         /\ TermOf(Whole(lg), 0) = 0
<1>1. Whole(lg) \in FragmentType /\ Whole(lg).lo = 0 /\ Whole(lg).entries = lg
  BY DEF Whole, Fragment, FragmentType
<1>2. Len(lg) \in Nat
  BY LenProperties
<1>3. \A n \in Nat : n \in Covers(Whole(lg)) <=> n <= Len(lg)
  BY <1>1, <1>2, CoversNat
<1>4. \A n \in 1..Len(lg) : TermOf(Whole(lg), n) = lg[n].term
  BY <1>1, <1>2 DEF TermOf
<1> QED
  BY <1>1, <1>2, <1>3, <1>4 DEF TermOf

LEMMA SentFacts ==
  ASSUME TypeOK, NEW m \in messages, IsAppend(m)
  PROVE  /\ Sent(m) \in FragmentType
         /\ Sent(m).lo = m.prevLogIndex /\ Sent(m).term = m.prevLogTerm
         /\ Sent(m).entries = m.entries
<1>1. m.prevLogIndex \in Nat /\ m.prevLogTerm \in Nat /\ m.entries \in Seq(Entry)
  BY DEF TypeOK, Message, IsAppend
<1> QED
  BY <1>1 DEF Sent, Fragment, FragmentType

LEMMA FragmentsTyped ==
  ASSUME TypeOK
  PROVE  \A F \in Fragments : F \in FragmentType
<1>1. \A i \in Node : Whole(log[i]) \in FragmentType
  BY WholeFacts DEF TypeOK
<1>2. \A m \in messages : IsAppend(m) => Sent(m) \in FragmentType
  BY SentFacts
<1> QED
  BY <1>1, <1>2 DEF Fragments

LEMMA AgreeSelf ==
  ASSUME NEW F PROVE Agree(F, F)
BY DEF Agree, SameAt

LEMMA AgreeSymmetric ==
  ASSUME NEW F, NEW G, Agree(F, G) PROVE Agree(G, F)
BY DEF Agree, SameAt

LEMMA PieceCovers ==
  ASSUME NEW F \in FragmentType, NEW G \in FragmentType,
         F.lo >= G.lo, F.lo + Len(F.entries) <= G.lo + Len(G.entries)
  PROVE  Covers(F) \subseteq Covers(G)
<1>1. /\ F.lo \in Nat /\ Len(F.entries) \in Nat /\ G.lo \in Nat /\ Len(G.entries) \in Nat
  BY CoversNat
<1> QED
  BY <1>1 DEF Covers

LEMMA PieceAgrees ==
  ASSUME NEW F \in FragmentType, NEW G \in FragmentType, NEW H \in FragmentType,
         PieceOf(F, G), Agree(G, H)
  PROVE  Agree(F, H)
<1> SUFFICES ASSUME NEW n \in Covers(F) \cap Covers(H), TermOf(F, n) = TermOf(H, n),
                    NEW q \in Covers(F) \cap Covers(H), q <= n
             PROVE  SameAt(F, H, q)
  BY DEF Agree
<1>1. CASE F.term = 0 /\ Len(F.entries) = 0
  <2>1. n = F.lo /\ q = F.lo
    BY <1>1, CoversNat
  <2> QED
    BY <2>1, CoversNat DEF SameAt
<1>2. CASE /\ F.lo >= G.lo /\ F.lo + Len(F.entries) <= G.lo + Len(G.entries)
           /\ \A k \in Covers(F) : SameAt(F, G, k)
  <2>1. n \in Covers(G) /\ q \in Covers(G)
    BY <1>2, PieceCovers
  <2>2. TermOf(G, n) = TermOf(H, n)
    BY <1>2 DEF SameAt
  <2>3. SameAt(G, H, q)
    BY <2>1, <2>2 DEF Agree
  <2>4. SameAt(F, G, q)
    BY <1>2
  <2>5. q > F.lo => q > G.lo
    <3>1. q \in Nat /\ F.lo \in Nat /\ G.lo \in Nat
      BY CoversNat
    <3> QED
      BY <1>2, <3>1
  <2> QED
    BY <2>3, <2>4, <2>5 DEF SameAt
<1> QED
  BY <1>1, <1>2 DEF PieceOf

LEMMA PieceMarks ==
  ASSUME NEW F \in FragmentType, NEW G \in FragmentType, PieceOf(F, G),
         NEW n \in Covers(F), TermOf(F, n) # 0
  PROVE  n \in Covers(G) /\ TermOf(G, n) = TermOf(F, n)
<1>1. CASE F.term = 0 /\ Len(F.entries) = 0
  <2>1. n = F.lo
    BY <1>1, CoversNat
  <2> QED
    BY <1>1, <2>1 DEF TermOf
<1>2. CASE /\ F.lo >= G.lo /\ F.lo + Len(F.entries) <= G.lo + Len(G.entries)
           /\ \A k \in Covers(F) : SameAt(F, G, k)
  BY <1>2, PieceCovers DEF SameAt
<1> QED
  BY <1>1, <1>2 DEF PieceOf

\* What replicateLogs() sends is a piece of the leader's log.
LEMMA AppendMsgPiece ==
  ASSUME NEW i, NEW p, NEW term, NEW lg \in Seq(Entry), NEW next \in Nat \ {0}, NEW commit
  PROVE  PieceOf(Sent(AppendMsg(i, p, term, lg, next, commit)), Whole(lg))
<1> DEFINE F == Sent(AppendMsg(i, p, term, lg, next, commit))
           es == SubSeq(lg, next, Len(lg))
<1>1. F.lo = next - 1 /\ F.term = TermAt(lg, next - 1) /\ F.entries = es
  BY DEF AppendMsg, Sent, Fragment
<1>2. Len(lg) \in Nat
  BY LenProperties
<1>3. \A k \in next..Len(lg) : lg[k] \in Entry
  BY <1>2, ElementOfSeq
<1>4. /\ Len(es) = IF next <= Len(lg) THEN Len(lg) - next + 1 ELSE 0
      /\ \A k \in 1..(Len(lg) - next + 1) : es[k] = lg[next + k - 1]
  BY <1>2, <1>3, SubSeqProperties
<1> HIDE DEF F, es
<1>5. CASE next - 1 > Len(lg)
  <2>1. Len(es) = 0 /\ TermAt(lg, next - 1) = 0
    BY <1>2, <1>4, <1>5 DEF TermAt
  <2> QED
    BY <1>1, <2>1 DEF PieceOf, F
<1>6. CASE next - 1 <= Len(lg)
  <2>1. F.lo + Len(F.entries) = Len(lg)
    BY <1>1, <1>2, <1>4, <1>6
  <2>2. ASSUME NEW q \in Covers(F) PROVE SameAt(F, Whole(lg), q)
    <3>1. q \in Nat /\ q >= next - 1 /\ q <= Len(lg)
      BY <1>1, <1>2, <2>1 DEF Covers
    <3>2. q > F.lo => F.entries[q - F.lo] = lg[q]
      BY <1>1, <1>2, <1>4, <3>1
    <3>3. Whole(lg).lo = 0 /\ Whole(lg).entries = lg
      BY WholeFacts
    <3>4. q > F.lo => F.entries[q - F.lo] = Whole(lg).entries[q - Whole(lg).lo]
      BY <3>1, <3>2, <3>3
    <3>5. TermOf(F, q) = TermOf(Whole(lg), q)
      <4>1. CASE q = 0
        BY <4>1 DEF TermOf
      <4>2. CASE q # 0 /\ q = F.lo
        <5>1. TermOf(F, q) = TermAt(lg, q)
          BY <1>1, <4>2 DEF TermOf
        <5> QED
          BY <1>2, <3>1, <4>2, <5>1, WholeFacts DEF TermAt
      <4>3. CASE q # 0 /\ q # F.lo
        <5>1. q > F.lo /\ q \in 1..Len(lg)
          BY <1>1, <1>2, <3>1, <4>3
        <5> QED
          BY <3>2, <4>3, <5>1, WholeFacts DEF TermOf
      <4> QED
        BY <4>1, <4>2, <4>3
    <3> QED
      BY <3>4, <3>5 DEF SameAt
  <2>3. F.lo >= Whole(lg).lo /\ F.lo + Len(F.entries) <= Whole(lg).lo + Len(Whole(lg).entries)
    <3>1. Whole(lg).lo = 0 /\ Whole(lg).entries = lg
      BY WholeFacts
    <3> QED
      BY <1>1, <1>2, <2>1, <3>1
  <2> QED
    BY <2>2, <2>3 DEF PieceOf, F
<1> QED
  BY <1>1, <1>2, <1>5, <1>6 DEF F

LEMMA PieceOfSelf ==
  ASSUME NEW F \in FragmentType PROVE PieceOf(F, F)
<1>1. F.lo >= F.lo /\ F.lo + Len(F.entries) <= F.lo + Len(F.entries)
  BY CoversNat
<1> QED
  BY <1>1 DEF PieceOf, SameAt

\* The steps that change one log at most, and send pieces of the logs they leave.
LEMMA AgreeStep ==
  ASSUME TypeOK, TypeOK', AllAgree, NEW i \in Node, NEW lg \in Seq(Entry),
         log' = [log EXCEPT ![i] = lg],
         \A G \in Fragments : Agree(Whole(lg), G),
         \A m \in messages' : IsAppend(m) /\ m \notin messages =>
           \E j \in Node : PieceOf(Sent(m), Whole(log'[j]))
  PROVE  /\ AllAgree'
         /\ \A n \in Nat, t \in Nat \ {0} : Marked(n, t)' =>
              Marked(n, t) \/ (n \in Covers(Whole(lg)) /\ TermOf(Whole(lg), n) = t)
<1> DEFINE Base == Fragments \cup {Whole(lg)}
<1>1. \A F \in Base : F \in FragmentType
  BY FragmentsTyped, WholeFacts
<1>2. \A F, G \in Base : Agree(F, G)
  <2> SUFFICES ASSUME NEW F \in Base, NEW G \in Base PROVE Agree(F, G)
    OBVIOUS
  <2>1. CASE F \in Fragments /\ G \in Fragments
    BY <2>1 DEF AllAgree
  <2>2. CASE F = Whole(lg) /\ G \in Fragments
    BY <2>2
  <2>3. CASE F \in Fragments /\ G = Whole(lg)
    BY <2>3, AgreeSymmetric
  <2>4. CASE F = Whole(lg) /\ G = Whole(lg)
    BY <2>4, AgreeSelf
  <2> QED
    BY <2>1, <2>2, <2>3, <2>4
<1>3. \A j \in Node : Whole(log'[j]) \in Base
  <2>1. \A j \in Node : log'[j] = IF j = i THEN lg ELSE log[j]
    BY DEF TypeOK
  <2> QED
    BY <2>1 DEF Fragments
<1>4. \A F \in Fragments' : F \in FragmentType /\ \E G \in Base : PieceOf(F, G)
  <2> SUFFICES ASSUME NEW F \in Fragments' PROVE F \in FragmentType /\ \E G \in Base : PieceOf(F, G)
    OBVIOUS
  <2>1. CASE \E j \in Node : F = Whole(log'[j])
    BY <1>1, <1>3, <2>1, PieceOfSelf
  <2>2. CASE \E m \in messages' : IsAppend(m) /\ F = Sent(m)
    <3>1. PICK m \in messages' : IsAppend(m) /\ F = Sent(m)
      BY <2>2
    <3>2. CASE m \in messages
      <4>1. F \in Base
        BY <3>1, <3>2 DEF Fragments
      <4> QED
        BY <1>1, <4>1, PieceOfSelf
    <3>3. CASE m \notin messages
      <4>1. F \in FragmentType
        <5>1. m.prevLogIndex \in Nat /\ m.prevLogTerm \in Nat /\ m.entries \in Seq(Entry)
          BY <3>1 DEF TypeOK, Message, IsAppend
        <5> QED
          BY <3>1, <5>1 DEF Sent, Fragment, FragmentType
      <4> QED
        BY <1>3, <3>1, <3>3, <4>1
    <3> QED
      BY <3>2, <3>3
  <2> QED
    BY <2>1, <2>2 DEF Fragments
<1> HIDE DEF Base
<1>5. ASSUME NEW F \in Fragments', NEW G \in Fragments' PROVE Agree(F, G)
  <2>1. PICK F0 \in Base : PieceOf(F, F0)
    BY <1>4
  <2>2. PICK G0 \in Base : PieceOf(G, G0)
    BY <1>4
  <2>3. /\ F \in FragmentType /\ G \in FragmentType
        /\ F0 \in FragmentType /\ G0 \in FragmentType
    BY <1>1, <1>4
  <2>4. Agree(F0, G0)
    BY <1>2
  <2>5. Agree(F, G0)
    BY <2>1, <2>3, <2>4, PieceAgrees
  <2>6. Agree(G0, F)
    BY <2>5, AgreeSymmetric
  <2>7. Agree(G, F)
    BY <2>2, <2>3, <2>6, PieceAgrees
  <2> QED
    BY <2>7, AgreeSymmetric
<1>6. ASSUME NEW n \in Nat, NEW t \in Nat \ {0}, Marked(n, t)'
      PROVE  Marked(n, t) \/ (n \in Covers(Whole(lg)) /\ TermOf(Whole(lg), n) = t)
  <2>1. PICK F \in Fragments' : n \in Covers(F) /\ TermOf(F, n) = t
    BY <1>6 DEF Marked
  <2>2. PICK G \in Base : PieceOf(F, G)
    BY <1>4
  <2>3. n \in Covers(G) /\ TermOf(G, n) = t
    BY <1>1, <1>4, <2>1, <2>2, PieceMarks
  <2> QED
    BY <2>3 DEF Base, Marked
<1> QED
  BY <1>5, <1>6 DEF AllAgree

\* The steps that leave the logs alone.
LEMMA QuietLogs ==
  ASSUME TypeOK, TypeOK', AllAgree, log' = log,
         \A m \in messages' : IsAppend(m) /\ m \notin messages =>
           \E j \in Node : PieceOf(Sent(m), Whole(log[j]))
  PROVE  /\ AllAgree'
         /\ \A n \in Nat, t \in Nat \ {0} : Marked(n, t)' => Marked(n, t)
<1>1. PICK i : i \in Node
  BY NodeAssumption
<1>2. log[i] \in Seq(Entry) /\ log' = [log EXCEPT ![i] = log[i]]
  BY <1>1 DEF TypeOK
<1>3. Whole(log[i]) \in Fragments
  BY <1>1 DEF Fragments
<1>4. \A G \in Fragments : Agree(Whole(log[i]), G)
  BY <1>3 DEF AllAgree
<1>5. /\ AllAgree'
      /\ \A n \in Nat, t \in Nat \ {0} : Marked(n, t)' =>
           Marked(n, t) \/ (n \in Covers(Whole(log[i])) /\ TermOf(Whole(log[i]), n) = t)
  BY <1>1, <1>2, <1>4, AgreeStep
<1> QED
  BY <1>3, <1>5 DEF Marked

\* An entry of a term that no fragment has at its place may be pushed.
LEMMA AppendAgrees ==
  ASSUME NEW lg \in Seq(Entry), NEW e \in Entry, NEW G \in FragmentType,
         Agree(Whole(lg), G),
         Len(lg) + 1 \in Covers(G) => TermOf(G, Len(lg) + 1) # e.term
  PROVE  /\ Agree(Whole(Append(lg, e)), G)
         /\ \A n \in Nat : n \in Covers(Whole(Append(lg, e))) =>
              \/ n \in Covers(Whole(lg)) /\ TermOf(Whole(lg), n) = TermOf(Whole(Append(lg, e)), n)
              \/ n = Len(lg) + 1 /\ TermOf(Whole(Append(lg, e)), n) = e.term
<1> DEFINE longer == Append(lg, e)
<1>1. /\ longer \in Seq(Entry) /\ Len(longer) = Len(lg) + 1 /\ Len(lg) \in Nat
      /\ \A k \in 1..Len(lg) : longer[k] = lg[k]
      /\ longer[Len(lg) + 1] = e
  BY AppendProperties, LenProperties
<1> HIDE DEF longer
<1>2. /\ Whole(lg).lo = 0 /\ Whole(lg).entries = lg
      /\ Whole(longer).lo = 0 /\ Whole(longer).entries = longer
  BY <1>1, WholeFacts
<1>3. \A q \in Nat : q <= Len(lg) =>
        /\ q \in Covers(Whole(lg)) /\ q \in Covers(Whole(longer))
        /\ SameAt(Whole(lg), Whole(longer), q)
  <2> SUFFICES ASSUME NEW q \in Nat, q <= Len(lg)
               PROVE  /\ q \in Covers(Whole(lg)) /\ q \in Covers(Whole(longer))
                      /\ SameAt(Whole(lg), Whole(longer), q)
    OBVIOUS
  <2>1. q \in Covers(Whole(lg)) /\ q \in Covers(Whole(longer))
    BY <1>1, WholeFacts
  <2>2. CASE q = 0
    BY <1>2, <2>1, <2>2 DEF SameAt, TermOf
  <2>3. CASE q # 0
    <3>1. q \in 1..Len(lg) /\ q \in 1..Len(longer)
      BY <1>1, <2>3
    <3>2. TermOf(Whole(lg), q) = TermOf(Whole(longer), q)
      BY <1>1, <3>1, WholeFacts
    <3>3. Whole(lg).entries[q - Whole(lg).lo] = Whole(longer).entries[q - Whole(longer).lo]
      BY <1>1, <1>2, <3>1
    <3> QED
      BY <2>1, <3>2, <3>3 DEF SameAt
  <2> QED
    BY <2>2, <2>3
<1>4. \A n \in Nat : n \in Covers(Whole(longer)) => n <= Len(lg) \/ n = Len(lg) + 1
  BY <1>1, WholeFacts
<1>5. TermOf(Whole(longer), Len(lg) + 1) = e.term
  BY <1>1, WholeFacts
<1>6. Agree(Whole(longer), G)
  <2> SUFFICES ASSUME NEW n \in Covers(Whole(longer)) \cap Covers(G),
                      TermOf(Whole(longer), n) = TermOf(G, n),
                      NEW q \in Covers(Whole(longer)) \cap Covers(G), q <= n
               PROVE  SameAt(Whole(longer), G, q)
    BY DEF Agree
  <2>1. n \in Nat /\ q \in Nat
    BY CoversNat
  <2>2. n <= Len(lg)
    BY <1>4, <1>5, <2>1
  <2>3. q <= Len(lg)
    BY <1>1, <2>1, <2>2
  <2>4. n \in Covers(Whole(lg)) /\ q \in Covers(Whole(lg)) /\ TermOf(Whole(lg), n) = TermOf(G, n)
    BY <1>3, <2>1, <2>2, <2>3 DEF SameAt
  <2>5. SameAt(Whole(lg), G, q)
    BY <2>4 DEF Agree
  <2> QED
    BY <1>2, <1>3, <2>1, <2>3, <2>5 DEF SameAt
<1> QED
  BY <1>3, <1>4, <1>5, <1>6 DEF longer, SameAt

\* Where the entries sent agree with those held on the terms, they are the same:
\* so merging keeps the log, or leaves it up to prev with the entries sent after it.
LEMMA MergeShape ==
  ASSUME NEW lg \in Seq(Entry), NEW prev \in Nat, NEW es \in Seq(Entry), prev <= Len(lg),
         \A k \in 1..Len(es) : prev + k <= Len(lg) /\ lg[prev + k].term = es[k].term
                                 => lg[prev + k] = es[k],
         NEW r, r = MergeEntries(lg, prev, es)
  PROVE  /\ r \in Seq(Entry)
         /\ \/ r = lg
            \/ /\ Len(r) = prev + Len(es)
               /\ \A q \in 1..prev : r[q] = lg[q]
               /\ \A k \in 1..Len(es) : r[prev + k] = es[k]
<1> DEFINE conflicts == {k \in 1..Len(es) : /\ prev + k <= Len(lg)
                                            /\ lg[prev + k].term # es[k].term}
           keep      == IF conflicts = {} THEN Len(lg) ELSE prev + Min(conflicts) - 1
           head      == SubSeq(lg, 1, keep)
           tail      == SubSeq(es, keep - prev + 1, Len(es))
<1>1. Len(lg) \in Nat /\ Len(es) \in Nat
  BY LenProperties
<1>2. /\ keep \in Nat /\ keep <= Len(lg) /\ keep >= prev
      /\ \A k \in 1..Len(es) : prev + k <= keep => k \notin conflicts
      /\ conflicts # {} => keep <= prev + Len(es)
  <2>1. CASE conflicts = {}
    <3>1. keep = Len(lg)
      BY <2>1
    <3> HIDE DEF keep, conflicts
    <3> QED
      BY <1>1, <2>1, <3>1
  <2>2. CASE conflicts # {}
    <3>1. conflicts \in SUBSET Nat
      BY <1>1
    <3>2. Min(conflicts) \in conflicts /\ \A y \in conflicts : Min(conflicts) <= y
      BY <2>2, <3>1, MinOfNaturals
    <3>3. Min(conflicts) \in 1..Len(es) /\ prev + Min(conflicts) <= Len(lg)
      BY <3>2
    <3>4. keep = prev + Min(conflicts) - 1
      BY <2>2
    <3> HIDE DEF keep, conflicts
    <3>5. \A k \in 1..Len(es) : prev + k <= keep => k \notin conflicts
      <4> SUFFICES ASSUME NEW k \in 1..Len(es), prev + k <= keep, k \in conflicts PROVE FALSE
        OBVIOUS
      <4>1. Min(conflicts) <= k
        BY <3>2
      <4> QED
        BY <1>1, <3>3, <3>4, <4>1
    <3> QED
      BY <1>1, <3>3, <3>4, <3>5
  <2> QED
    BY <2>1, <2>2
<1>3. \A k \in 1..Len(es) : prev + k <= keep => lg[prev + k] = es[k]
  <2> SUFFICES ASSUME NEW k \in 1..Len(es), prev + k <= keep PROVE lg[prev + k] = es[k]
    OBVIOUS
  <2>1. k \notin conflicts
    BY <1>2
  <2> HIDE DEF keep
  <2>2. prev + k <= Len(lg)
    BY <1>1, <1>2
  <2> QED
    BY <2>1, <2>2
<1>4. r = head \o tail
  BY DEF MergeEntries
<1>5. conflicts = {} => keep = Len(lg)
  OBVIOUS
<1> HIDE DEF conflicts, keep, head, tail
<1>6. /\ head \in Seq(Entry) /\ Len(head) = keep
      /\ \A q \in 1..keep : head[q] = lg[q]
  <2>1. \A q \in 1..keep : lg[q] \in Entry
    BY <1>1, <1>2, ElementOfSeq
  <2>2. head \in Seq(Entry)
    BY <1>1, <1>2, SubSeqType DEF head
  <2>3. /\ Len(head) = IF 1 <= keep THEN keep - 1 + 1 ELSE 0
        /\ \A q \in 1..(keep - 1 + 1) : head[q] = lg[1 + q - 1]
    BY <1>1, <1>2, <2>1, SubSeqProperties DEF head
  <2> QED
    BY <1>2, <2>2, <2>3
<1> DEFINE from == keep - prev + 1
<1>7. /\ tail \in Seq(Entry)
      /\ Len(tail) = IF from <= Len(es) THEN Len(es) - from + 1 ELSE 0
      /\ \A k \in 1..(Len(es) - from + 1) : tail[k] = es[from + k - 1]
  <2>1. from \in Nat \ {0}
    BY <1>2
  <2>2. \A k \in from..Len(es) : es[k] \in Entry
    BY <1>1, <2>1, ElementOfSeq
  <2>3. tail \in Seq(Entry)
    BY <1>1, <2>1, SubSeqType DEF tail
  <2> HIDE DEF from
  <2>4. tail = SubSeq(es, from, Len(es))
    BY DEF tail, from
  <2>5. \A k \in from..Len(es) : es[k] \in Entry
    BY <2>2
  <2> QED
    BY <1>1, <2>1, <2>3, <2>4, <2>5, SubSeqProperties
<1>8. /\ r \in Seq(Entry) /\ Len(r) = Len(head) + Len(tail)
      /\ \A q \in 1..Len(head) : r[q] = head[q]
      /\ \A k \in 1..Len(tail) : r[Len(head) + k] = tail[k]
  <2>1. /\ head \o tail \in Seq(Entry) /\ Len(head \o tail) = Len(head) + Len(tail)
        /\ \A q \in 1..(Len(head) + Len(tail)) :
             (head \o tail)[q] = IF q <= Len(head) THEN head[q] ELSE tail[q - Len(head)]
    BY <1>6, <1>7, ConcatProperties
  <2>2. Len(head) \in Nat /\ Len(tail) \in Nat
    BY <1>6, <1>7, LenProperties
  <2> QED
    BY <1>4, <2>1, <2>2
<1>9. CASE keep = Len(lg) /\ Len(lg) >= prev + Len(es)
  <2>1. Len(tail) = 0
    BY <1>1, <1>7, <1>9
  <2>2. Len(r) = Len(lg) /\ \A q \in 1..Len(lg) : r[q] = lg[q]
    BY <1>1, <1>6, <1>8, <1>9, <2>1
  <2>3. r = lg
    BY <1>8, <2>2, SeqEqual
  <2> QED
    BY <1>8, <2>3
<1>10. CASE keep <= prev + Len(es)
  <2>1. Len(r) = prev + Len(es)
    <3>1. Len(r) = Len(head) + Len(tail) /\ Len(head) = keep
      BY <1>6, <1>8
    <3>2. Len(tail) = IF from <= Len(es) THEN Len(es) - from + 1 ELSE 0
      BY <1>7
    <3> QED
      BY <1>1, <1>2, <1>10, <3>1, <3>2
  <2>2. \A q \in 1..prev : r[q] = lg[q]
    BY <1>2, <1>6, <1>8
  <2>3. ASSUME NEW k \in 1..Len(es) PROVE r[prev + k] = es[k]
    <3>1. CASE prev + k <= keep
      <4>1. prev + k \in 1..keep
        BY <1>2, <3>1
      <4> QED
        BY <1>3, <1>6, <1>8, <3>1, <4>1
    <3>2. CASE prev + k > keep
      <4>1. (prev + k) - keep \in 1..Len(tail) /\ from <= Len(es)
        BY <1>1, <1>2, <1>7, <1>10, <3>2
      <4>2. r[keep + ((prev + k) - keep)] = tail[(prev + k) - keep]
        BY <1>6, <1>8, <4>1
      <4>3. (prev + k) - keep \in 1..(Len(es) - from + 1)
        BY <1>1, <1>7, <4>1
      <4>4. tail[(prev + k) - keep] = es[from + ((prev + k) - keep) - 1]
        BY <1>7, <4>3
      <4>5. keep + ((prev + k) - keep) = prev + k /\ from + ((prev + k) - keep) - 1 = k
        BY <1>2
      <4> QED
        BY <4>2, <4>4, <4>5
    <3> QED
      BY <1>2, <3>1, <3>2
  <2> QED
    BY <1>8, <2>1, <2>2, <2>3
<1> QED
  BY <1>1, <1>2, <1>5, <1>9, <1>10

\* A log that has merged a message agrees with whatever agreed with both.
LEMMA MergeAgrees ==
  ASSUME NEW lg \in Seq(Entry), NEW prev \in Nat, NEW es \in Seq(Entry),
         NEW M \in FragmentType, M.lo = prev, M.entries = es, prev <= Len(lg),
         prev > 0 => lg[prev].term = M.term,
         Agree(Whole(lg), M),
         NEW r, r = MergeEntries(lg, prev, es)
  PROVE  /\ r \in Seq(Entry)
         /\ \A G \in FragmentType : Agree(Whole(lg), G) /\ Agree(M, G) => Agree(Whole(r), G)
         /\ \A n \in Nat : n \in Covers(Whole(r)) =>
              \/ n \in Covers(Whole(lg)) /\ TermOf(Whole(lg), n) = TermOf(Whole(r), n)
              \/ n \in Covers(M) /\ TermOf(M, n) = TermOf(Whole(r), n)
<1>1. Len(es) \in Nat /\ Len(lg) \in Nat
  BY LenProperties
<1>2. /\ Whole(lg).lo = 0 /\ Whole(lg).entries = lg
      /\ \A n \in Nat : n \in Covers(Whole(lg)) <=> n <= Len(lg)
      /\ \A n \in 1..Len(lg) : TermOf(Whole(lg), n) = lg[n].term
  BY WholeFacts
<1>0. \A n \in Nat : n \in Covers(M) <=> prev <= n /\ n <= prev + Len(es)
  BY CoversNat
<1>3. \A k \in 1..Len(es) : prev + k <= Len(lg) /\ lg[prev + k].term = es[k].term
                              => lg[prev + k] = es[k]
  <2> SUFFICES ASSUME NEW k \in 1..Len(es), prev + k <= Len(lg),
                      lg[prev + k].term = es[k].term
               PROVE  lg[prev + k] = es[k]
    OBVIOUS
  <2>0. PICK p \in Nat : p = prev + k
    BY <1>1
  <2>1. p \in 1..Len(lg) /\ p > prev /\ p - prev = k /\ p <= prev + Len(es) /\ p # 0
    BY <1>1, <2>0
  <2>2. p \in Covers(Whole(lg)) /\ p \in Covers(M)
    BY <1>0, <1>1, <1>2, <2>1
  <2>3. TermOf(Whole(lg), p) = lg[p].term
    BY <1>2, <2>1
  <2>4. TermOf(M, p) = es[k].term
    BY <2>1 DEF TermOf
  <2>5. SameAt(Whole(lg), M, p)
    BY <2>0, <2>1, <2>2, <2>3, <2>4 DEF Agree
  <2>6. M.entries[p - M.lo] = es[k] /\ Whole(lg).entries[p - Whole(lg).lo] = lg[p]
    BY <1>2, <2>1
  <2> QED
    BY <1>2, <2>0, <2>1, <2>5, <2>6 DEF SameAt
<1>4. /\ r \in Seq(Entry)
      /\ \/ r = lg
         \/ /\ Len(r) = prev + Len(es)
            /\ \A q \in 1..prev : r[q] = lg[q]
            /\ \A k \in 1..Len(es) : r[prev + k] = es[k]
  BY <1>3, MergeShape
<1>5. CASE r = lg
  BY <1>4, <1>5
<1>6. CASE /\ Len(r) = prev + Len(es)
           /\ \A q \in 1..prev : r[q] = lg[q]
           /\ \A k \in 1..Len(es) : r[prev + k] = es[k]
  <2>1. /\ Whole(r).lo = 0 /\ Whole(r).entries = r
        /\ \A n \in Nat : n \in Covers(Whole(r)) <=> n <= Len(r)
        /\ \A n \in 1..Len(r) : TermOf(Whole(r), n) = r[n].term
    BY <1>4, WholeFacts
  <2>2. ASSUME NEW q \in Nat, q <= prev
        PROVE  q \in Covers(Whole(lg)) /\ SameAt(Whole(lg), Whole(r), q)
    <3>1. q \in Covers(Whole(lg)) /\ q \in Covers(Whole(r))
      BY <1>1, <1>4, <1>6, <2>2, WholeFacts
    <3>2. CASE q = 0
      BY <1>2, <2>1, <3>1, <3>2 DEF SameAt, TermOf
    <3>3. CASE q # 0
      <4>1. q \in 1..Len(lg) /\ q \in 1..Len(r) /\ q \in 1..prev
        BY <1>1, <1>6, <2>2, <3>3
      <4>2. TermOf(Whole(lg), q) = TermOf(Whole(r), q)
        BY <1>2, <1>6, <2>1, <4>1
      <4>3. Whole(lg).entries[q - Whole(lg).lo] = Whole(r).entries[q - Whole(r).lo]
        BY <1>2, <1>6, <2>1, <4>1
      <4> QED
        BY <3>1, <4>2, <4>3 DEF SameAt
    <3> QED
      BY <3>2, <3>3
  <2>3. ASSUME NEW q \in Nat, q >= prev, q \in Covers(Whole(r))
        PROVE  q \in Covers(M) /\ SameAt(M, Whole(r), q)
    <3>1. q <= prev + Len(es)
      BY <1>4, <1>6, <2>3, WholeFacts
    <3>2. q \in Covers(M)
      BY <1>1, <2>3, <3>1, CoversNat
    <3>3. CASE q = prev
      <4>1. TermOf(M, q) = TermOf(Whole(r), q)
        <5>1. CASE q = 0
          BY <5>1 DEF TermOf
        <5>2. CASE q # 0
          <6>1. TermOf(M, q) = M.term
            BY <3>3, <5>2 DEF TermOf
          <6>2. q \in 1..prev /\ q \in 1..Len(r)
            BY <1>1, <1>6, <3>3, <5>2
          <6>3. TermOf(Whole(r), q) = lg[q].term
            BY <1>4, <1>6, <6>2, WholeFacts
          <6> QED
            BY <1>1, <3>3, <5>2, <6>1, <6>3
        <5> QED
          BY <5>1, <5>2
      <4> QED
        BY <1>1, <3>2, <3>3, <4>1 DEF SameAt
    <3>4. CASE q > prev
      <4>1. /\ q - prev \in 1..Len(es) /\ q # 0 /\ q # prev /\ q \in 1..Len(r)
            /\ prev + (q - prev) = q
        BY <1>1, <1>6, <3>1, <3>4
      <4>2. r[q] = es[q - prev]
        BY <1>6, <4>1
      <4>3. TermOf(M, q) = es[q - prev].term
        BY <4>1 DEF TermOf
      <4>4. TermOf(Whole(r), q) = r[q].term
        BY <1>4, <4>1, WholeFacts
      <4>5. M.entries[q - M.lo] = Whole(r).entries[q - Whole(r).lo]
        BY <2>1, <4>2
      <4> QED
        BY <3>2, <4>2, <4>3, <4>4, <4>5 DEF SameAt
    <3> QED
      BY <1>1, <2>3, <3>3, <3>4
  <2>4. ASSUME NEW G \in FragmentType, Agree(Whole(lg), G), Agree(M, G)
        PROVE  Agree(Whole(r), G)
    <3> SUFFICES ASSUME NEW n \in Covers(Whole(r)) \cap Covers(G),
                        TermOf(Whole(r), n) = TermOf(G, n),
                        NEW q \in Covers(Whole(r)) \cap Covers(G), q <= n
                 PROVE  SameAt(Whole(r), G, q)
      BY DEF Agree
    <3>1. n \in Nat /\ q \in Nat
      BY <2>4, CoversNat
    <3>2. CASE n <= prev
      <4>1. q <= prev
        BY <1>1, <3>1, <3>2
      <4>2. SameAt(Whole(lg), Whole(r), n) /\ SameAt(Whole(lg), Whole(r), q)
            /\ n \in Covers(Whole(lg)) /\ q \in Covers(Whole(lg))
        BY <2>2, <3>1, <3>2, <4>1
      <4>3. SameAt(Whole(lg), G, q)
        BY <2>4, <4>2 DEF Agree, SameAt
      <4> QED
        BY <1>2, <2>1, <4>2, <4>3 DEF SameAt
    <3>3. CASE n > prev
      <4>1. n \in Covers(M) /\ TermOf(M, n) = TermOf(G, n)
        BY <1>1, <2>3, <3>1, <3>3 DEF SameAt
      <4>2. CASE q > prev
        <5>1. q \in Covers(M) /\ SameAt(M, Whole(r), q)
          BY <1>1, <2>3, <3>1, <4>2
        <5>2. SameAt(M, G, q)
          BY <2>4, <4>1, <5>1 DEF Agree
        <5> QED
          BY <2>1, <4>2, <5>1, <5>2 DEF SameAt
      <4>3. CASE q <= prev
        <5>1. prev \in Covers(G) /\ prev \in Covers(M) /\ prev \in Covers(Whole(r))
              /\ prev \in Covers(Whole(lg))
          <6>1. prev \in Covers(G)
            <7>1. G.lo \in Nat /\ Len(G.entries) \in Nat /\ G.lo <= q /\ n <= G.lo + Len(G.entries)
              BY <2>4, <3>1, CoversNat
            <7>2. G.lo <= prev /\ prev <= G.lo + Len(G.entries)
              BY <3>1, <3>3, <4>3, <7>1
            <7> QED
              BY <2>4, <7>2, CoversNat
          <6>2. prev \in Covers(M)
            BY <1>1, CoversNat
          <6>3. prev \in Covers(Whole(r))
            BY <1>1, <1>4, <1>6, WholeFacts
          <6>4. prev \in Covers(Whole(lg))
            BY <1>1, WholeFacts
          <6> QED
            BY <6>1, <6>2, <6>3, <6>4
        <5>2. SameAt(M, G, prev)
          BY <1>1, <2>4, <3>1, <3>3, <4>1, <5>1 DEF Agree
        <5>3. SameAt(M, Whole(r), prev) /\ SameAt(Whole(lg), Whole(r), prev)
          BY <1>1, <2>2, <2>3, <5>1
        <5>4. TermOf(Whole(lg), prev) = TermOf(G, prev)
          BY <5>2, <5>3 DEF SameAt
        <5>5. SameAt(Whole(lg), Whole(r), q) /\ q \in Covers(Whole(lg))
          BY <2>2, <3>1, <4>3
        <5>6. SameAt(Whole(lg), G, q)
          BY <2>4, <4>3, <5>1, <5>4, <5>5 DEF Agree
        <5> QED
          BY <1>2, <2>1, <5>5, <5>6 DEF SameAt
      <4> QED
        BY <1>1, <3>1, <4>2, <4>3
    <3> QED
      BY <1>1, <3>1, <3>2, <3>3
  <2>5. ASSUME NEW n \in Nat, n \in Covers(Whole(r))
        PROVE  \/ n \in Covers(Whole(lg)) /\ TermOf(Whole(lg), n) = TermOf(Whole(r), n)
               \/ n \in Covers(M) /\ TermOf(M, n) = TermOf(Whole(r), n)
    <3>1. n <= prev \/ n >= prev
      BY <1>1
    <3> QED
      BY <2>2, <2>3, <2>5, <3>1 DEF SameAt
  <2> QED
    BY <1>4, <2>4, <2>5
<1> QED
  BY <1>4, <1>5, <1>6

-----------------------------------------------------------------------------
(* What every step does to logs, terms and roles, stated once for all actions.*)

LogStep ==
  /\ \A j \in Node : role'[j] # Follower =>
       \/ role'[j] = role[j] /\ currentTerm'[j] = currentTerm[j]
       \/ currentTerm'[j] = currentTerm[j] + 1
       \/ role'[j] = Leader /\ role[j] = Candidate /\ currentTerm'[j] = currentTerm[j]
  /\ \A j \in Node : role'[j] = Leader =>
       \/ /\ role[j] = Leader /\ currentTerm'[j] = currentTerm[j]
          /\ Len(log'[j]) >= Len(log[j])
       \/ Won(j, currentTerm'[j]) /\ ~Started(j, currentTerm'[j])
  /\ \A n \in Nat, t \in Nat \ {0} : Marked(n, t)' =>
       \/ Marked(n, t)
       \/ \E k \in Node : /\ role[k] = Leader /\ currentTerm[k] = t
                          /\ n = Len(log[k]) + 1 /\ n <= Len(log'[k])
  /\ AllAgree'

LEMMA LogStepKeeps ==
  ASSUME TypeOK, TypeOK', VoteInv, BallotInv, VoteStep, LogInv, LogStep,
         Cardinality(Node) <= 3
  PROVE  LogInv'
<1>0. /\ \A j \in Node : currentTerm[j] \in Nat /\ currentTerm'[j] \in Nat
      /\ \A j \in Node : Len(log[j]) \in Nat /\ Len(log'[j]) \in Nat
      /\ \A j \in Node : role[j] \in Role /\ role'[j] \in Role
  BY LenProperties DEF TypeOK
<1>1. \A j \in Node, t \in Nat : Started(j, t) => Started(j, t)'
  <2> SUFFICES ASSUME NEW j \in Node, NEW t \in Nat, Started(j, t) PROVE Started(j, t)'
    OBVIOUS
  <2>1. currentTerm'[j] >= currentTerm[j]
    BY DEF VoteStep
  <2>2. role'[j] = Candidate /\ currentTerm'[j] = currentTerm[j] => role[j] = Candidate
    BY <1>0 DEF LogStep, Candidate, Leader, Follower
  <2>3. currentTerm[j] \in Nat /\ currentTerm'[j] \in Nat
    BY <1>0
  <2>4. CASE currentTerm[j] > t
    BY <2>1, <2>3, <2>4 DEF Started
  <2>5. CASE currentTerm[j] = t /\ role[j] # Candidate
    <3>1. currentTerm'[j] > t \/ currentTerm'[j] = t
      BY <2>1, <2>3, <2>5
    <3> QED
      BY <2>2, <2>5, <3>1 DEF Started
  <2> QED
    BY <2>4, <2>5 DEF Started
<1>2. \A j \in Node, t \in Nat : Won(j, t) => Won(j, t)'
  BY DEF Won, VoteStep
<1>3. \A k \in Node : role[k] = Leader => Won(k, currentTerm[k]) /\ Started(k, currentTerm[k])
  BY DEF VoteInv, Won, Started, Leader, Candidate
<1>4. Owned'
  <2> SUFFICES ASSUME NEW n \in Nat, NEW t \in Nat \ {0}, Marked(n, t)'
               PROVE  \E i \in Node : Won(i, t)' /\ Started(i, t)'
    BY DEF Owned
  <2>1. CASE Marked(n, t)
    <3>1. PICK i \in Node : Won(i, t) /\ Started(i, t)
      BY <2>1 DEF LogInv, Owned
    <3> QED
      BY <1>1, <1>2, <3>1
  <2>2. CASE \E k \in Node : role[k] = Leader /\ currentTerm[k] = t
    <3>1. PICK k \in Node : role[k] = Leader /\ currentTerm[k] = t
      BY <2>2
    <3>2. Won(k, t) /\ Started(k, t)
      BY <1>3, <3>1
    <3> QED
      BY <1>1, <1>2, <3>2
  <2> QED
    BY <2>1, <2>2 DEF LogStep
<1>5. Fresh'
  <2> SUFFICES ASSUME NEW i \in Node, role'[i] # Follower
               PROVE  /\ currentTerm'[i] # 0
                      /\ role'[i] = Leader =>
                           \A n \in Nat, t \in Nat :
                             Marked(n, t)' /\ t = currentTerm'[i] => n <= Len(log'[i])
    BY DEF Fresh
  <2>1. currentTerm'[i] # 0
    <3>1. role[i] # Follower => currentTerm[i] # 0
      BY DEF LogInv, Fresh
    <3> QED
      BY <1>0, <3>1 DEF LogStep, Candidate, Follower
  <2>2. ASSUME role'[i] = Leader, NEW n \in Nat, NEW t \in Nat, Marked(n, t)',
               t = currentTerm'[i]
        PROVE  n <= Len(log'[i])
    <3>1. t \in Nat \ {0} /\ t = currentTerm'[i]
      BY <2>1, <2>2
    <3>0. \/ Marked(n, t)
          \/ \E k \in Node : /\ role[k] = Leader /\ currentTerm[k] = t
                             /\ n = Len(log[k]) + 1 /\ n <= Len(log'[k])
      BY <2>2, <3>1 DEF LogStep
    <3>2. CASE /\ role[i] = Leader /\ currentTerm'[i] = currentTerm[i]
               /\ Len(log'[i]) >= Len(log[i])
      <4>1. CASE Marked(n, t)
        <5>1. n <= Len(log[i])
          BY <3>1, <3>2, <4>1 DEF LogInv, Fresh, Leader, Follower
        <5> QED
          BY <1>0, <3>2, <5>1
      <4>2. CASE \E k \in Node : /\ role[k] = Leader /\ currentTerm[k] = t
                                 /\ n = Len(log[k]) + 1 /\ n <= Len(log'[k])
        <5>1. PICK k \in Node : role[k] = Leader /\ currentTerm[k] = t /\ n <= Len(log'[k])
          BY <4>2
        <5>2. Won(k, t) /\ Won(i, t)
          BY <1>3, <3>1, <3>2, <5>1
        <5>3. k = i
          BY <5>2, OneWinner
        <5> QED
          BY <5>1, <5>3
      <4> QED
        BY <3>0, <4>1, <4>2
    <3>3. CASE Won(i, t) /\ ~Started(i, t)
      <4>1. \E j \in Node : Won(j, t) /\ Started(j, t)
        <5>1. CASE Marked(n, t)
          BY <3>1, <5>1 DEF LogInv, Owned
        <5>2. CASE \E k \in Node : /\ role[k] = Leader /\ currentTerm[k] = t
                                   /\ n = Len(log[k]) + 1 /\ n <= Len(log'[k])
          BY <1>3, <5>2
        <5> QED
          BY <3>0, <5>1, <5>2
      <4>2. PICK j \in Node : Won(j, t) /\ Started(j, t)
        BY <4>1
      <4>3. j = i
        BY <3>3, <4>2, OneWinner
      <4> QED
        BY <3>3, <4>2, <4>3
    <3> QED
      BY <2>2, <3>1, <3>2, <3>3 DEF LogStep
  <2> QED
    BY <2>1, <2>2
<1> QED
  BY <1>4, <1>5 DEF LogStep, LogInv

\* The steps after which every node keeps its role and its term, or follows.
RolesKept ==
  \A j \in Node : role'[j] # Follower => role'[j] = role[j] /\ currentTerm'[j] = currentTerm[j]

LEMMA QuietLogStep ==
  ASSUME TypeOK, TypeOK', LogInv, RolesKept, log' = log,
         \A m \in messages' : IsAppend(m) /\ m \notin messages =>
           \E j \in Node : PieceOf(Sent(m), Whole(log[j]))
  PROVE  LogStep
<1>1. /\ AllAgree'
      /\ \A n \in Nat, t \in Nat \ {0} : Marked(n, t)' => Marked(n, t)
  BY QuietLogs DEF LogInv
<1>2. \A j \in Node : Len(log[j]) \in Nat
  BY LenProperties DEF TypeOK
<1> QED
  BY <1>1, <1>2 DEF LogStep, RolesKept, Leader, Follower

\* becomeLeader(): what it sends are pieces of the new leader's log.
LEMMA BecomeLeaderPieces ==
  ASSUME TypeOK, NEW i \in Node, NEW term, BecomeLeader(i, term)
  PROVE  /\ \A m \in messages' : IsAppend(m) /\ m \notin messages =>
              \E j \in Node : PieceOf(Sent(m), Whole(log[j]))
         /\ \A j \in Node : role'[j] = IF j = i THEN Leader ELSE role[j]
<1>1. log[i] \in Seq(Entry) /\ Len(log[i]) + 1 \in Nat \ {0}
  BY LenProperties DEF TypeOK
<1>2. \A p \in peers[i] :
        PieceOf(Sent(AppendMsg(i, p, term, log[i], Len(log[i]) + 1, commitIndex[i])), Whole(log[i]))
  BY <1>1, AppendMsgPiece
<1>3. \A m \in messages' : m \notin messages => PieceOf(Sent(m), Whole(log[i]))
  BY <1>2 DEF BecomeLeader, Send
<1>4. \A j \in Node : role'[j] = IF j = i THEN Leader ELSE role[j]
  BY DEF BecomeLeader, TypeOK
<1> QED
  BY <1>3, <1>4

LEMMA StartElectionLog ==
  ASSUME TypeOK, TypeOK', VoteInv, LogInv, NEW i \in Node, StartElection(i)
  PROVE  LogStep
<1>1. /\ log' = log
      /\ \A j \in Node : currentTerm'[j] = IF j = i THEN currentTerm[i] + 1 ELSE currentTerm[j]
      /\ currentTerm[i] \in Nat
  BY DEF StartElection, TypeOK, logVars
<1>2. \A j \in Node : Len(log'[j]) >= Len(log[j])
  <2>1. \A j \in Node : Len(log[j]) \in Nat
    BY LenProperties DEF TypeOK
  <2> QED
    BY <1>1, <2>1
<1>3. CASE QuorumSize(i) <= 1 /\ BecomeLeader(i, currentTerm[i] + 1)
  <2>1. Node = {i}
    BY <1>3, AloneInQuorumOfOne
  <2>2. /\ \A m \in messages' : IsAppend(m) /\ m \notin messages =>
              \E j \in Node : PieceOf(Sent(m), Whole(log[j]))
        /\ \A j \in Node : role'[j] = IF j = i THEN Leader ELSE role[j]
    BY <1>3, BecomeLeaderPieces
  <2>3. /\ AllAgree'
        /\ \A n \in Nat, t \in Nat \ {0} : Marked(n, t)' => Marked(n, t)
    BY <1>1, <2>2, QuietLogs DEF LogInv
  <2>4. \A j \in Node : currentTerm'[j] = currentTerm[j] + 1
    BY <1>1, <2>1
  <2>5. Won(i, currentTerm'[i]) /\ ~Started(i, currentTerm'[i])
    BY <1>1, <2>1, <2>4 DEF Won, Started
  <2>6. \A j \in Node : Won(j, currentTerm'[j]) /\ ~Started(j, currentTerm'[j])
    BY <2>1, <2>5
  <2> QED
    BY <2>3, <2>4, <2>6 DEF LogStep
<1>4. CASE /\ role' = [role EXCEPT ![i] = Candidate]
           /\ Send({[type |-> "REQUEST_VOTE", from |-> i, to |-> p,
                     term |-> currentTerm[i] + 1, lastLogIndex |-> Len(log[i]),
                     lastLogTerm |-> LastTerm(log[i])] : p \in peers[i]})
  <2>1. \A m \in messages' : m \notin messages => ~IsAppend(m)
    BY <1>4 DEF Send, IsAppend
  <2>2. /\ AllAgree'
        /\ \A n \in Nat, t \in Nat \ {0} : Marked(n, t)' => Marked(n, t)
    BY <1>1, <2>1, QuietLogs DEF LogInv
  <2>3. \A j \in Node : role'[j] = IF j = i THEN Candidate ELSE role[j]
    BY <1>4 DEF TypeOK
  <2>4. \A j \in Node : role'[j] # Follower =>
          \/ role'[j] = role[j] /\ currentTerm'[j] = currentTerm[j]
          \/ currentTerm'[j] = currentTerm[j] + 1
    BY <1>1, <2>3
  <2>5. \A j \in Node : role'[j] = Leader =>
          role[j] = Leader /\ currentTerm'[j] = currentTerm[j]
    BY <1>1, <2>3 DEF Candidate, Leader
  <2> QED
    BY <1>2, <2>2, <2>4, <2>5 DEF LogStep
<1> QED
  BY <1>3, <1>4 DEF StartElection

LEMMA HeartbeatLog ==
  ASSUME TypeOK, TypeOK', LogInv, NEW i \in Node, Heartbeat(i)
  PROVE  LogStep
<1>1. RolesKept /\ log' = log
  BY DEF Heartbeat, RolesKept, termVars, logVars
<1>2. \A p \in peers[i] :
        PieceOf(Sent(AppendMsg(i, p, currentTerm[i], log[i], nextIndex[i][p], commitIndex[i])),
                Whole(log[i]))
  BY AppendMsgPiece DEF TypeOK
<1>3. \A m \in messages' : m \notin messages => PieceOf(Sent(m), Whole(log[i]))
  BY <1>2 DEF Heartbeat, Send
<1> QED
  BY <1>1, <1>3, QuietLogStep

\* propose(): no fragment has an entry of the leader's term beyond its log.
LEMMA ProposeLog ==
  ASSUME TypeOK, TypeOK', LogInv, NEW i \in Node, NEW v \in Value, Propose(i, v)
  PROVE  LogStep
<1> DEFINE e      == [term |-> currentTerm[i], cmd |-> v]
           newLog == Append(log[i], e)
<1>1. /\ role[i] = Leader /\ log' = [log EXCEPT ![i] = newLog]
      /\ currentTerm' = currentTerm /\ role' = role
  BY DEF Propose, termVars
<1>2. e \in Entry /\ e.term = currentTerm[i] /\ log[i] \in Seq(Entry) /\ currentTerm[i] \in Nat
  BY DEF TypeOK, Entry
<1>3. \A m \in messages' : m \notin messages => PieceOf(Sent(m), Whole(newLog))
  <2>1. newLog \in Seq(Entry)
    BY <1>2, AppendProperties
  <2>2. \A p \in peers[i] :
          PieceOf(Sent(AppendMsg(i, p, currentTerm[i], newLog, nextIndex[i][p], commitIndex[i])),
                  Whole(newLog))
    <3> SUFFICES ASSUME NEW p \in peers[i]
                 PROVE  PieceOf(Sent(AppendMsg(i, p, currentTerm[i], newLog, nextIndex[i][p],
                                               commitIndex[i])), Whole(newLog))
      OBVIOUS
    <3>1. nextIndex[i][p] \in Nat \ {0}
      BY DEF TypeOK
    <3> HIDE DEF newLog
    <3> QED
      BY <2>1, <3>1, AppendMsgPiece
  <2>3. \/ messages' = messages
        \/ Send({AppendMsg(i, p, currentTerm[i], newLog, nextIndex[i][p], commitIndex[i])
                   : p \in peers[i]})
    BY DEF Propose
  <2> HIDE DEF newLog
  <2> QED
    BY <2>2, <2>3 DEF Send
<1> HIDE DEF e
<1>4. Len(log[i]) \in Nat /\ newLog \in Seq(Entry) /\ Len(newLog) = Len(log[i]) + 1
  BY <1>2, LenProperties, AppendProperties
<1>5. currentTerm[i] # 0
      /\ \A n \in Nat : Marked(n, currentTerm[i]) => n <= Len(log[i])
  BY <1>1, <1>2 DEF LogInv, Fresh, Leader, Follower
<1>6. \A G \in Fragments :
        /\ Agree(Whole(newLog), G)
        /\ \A n \in Nat : n \in Covers(Whole(newLog)) =>
             \/ n \in Covers(Whole(log[i])) /\ TermOf(Whole(log[i]), n) = TermOf(Whole(newLog), n)
             \/ n = Len(log[i]) + 1 /\ TermOf(Whole(newLog), n) = currentTerm[i]
  <2> SUFFICES ASSUME NEW G \in Fragments
               PROVE  /\ Agree(Whole(newLog), G)
                      /\ \A n \in Nat : n \in Covers(Whole(newLog)) =>
                           \/ /\ n \in Covers(Whole(log[i]))
                              /\ TermOf(Whole(log[i]), n) = TermOf(Whole(newLog), n)
                           \/ n = Len(log[i]) + 1 /\ TermOf(Whole(newLog), n) = currentTerm[i]
    OBVIOUS
  <2>1. G \in FragmentType /\ Agree(Whole(log[i]), G)
    BY FragmentsTyped DEF LogInv, AllAgree, Fragments
  <2>2. Len(log[i]) + 1 \in Covers(G) => TermOf(G, Len(log[i]) + 1) # e.term
    <3> SUFFICES ASSUME NEW n \in Nat, n = Len(log[i]) + 1, n \in Covers(G), TermOf(G, n) = e.term
                 PROVE  FALSE
      BY <1>4
    <3>1. Marked(n, currentTerm[i])
      BY <1>2 DEF Marked
    <3> QED
      BY <1>4, <1>5, <3>1
  <2> QED
    BY <1>2, <2>1, <2>2, AppendAgrees
<1> HIDE DEF newLog
<1>7. log'[i] = newLog
  BY <1>1 DEF TypeOK
<1>8. \A m \in messages' : IsAppend(m) /\ m \notin messages =>
        \E j \in Node : PieceOf(Sent(m), Whole(log'[j]))
  BY <1>3, <1>7
<1>9. /\ AllAgree'
      /\ \A n \in Nat, t \in Nat \ {0} : Marked(n, t)' =>
           Marked(n, t) \/ (n \in Covers(Whole(newLog)) /\ TermOf(Whole(newLog), n) = t)
  BY <1>1, <1>4, <1>6, <1>8, AgreeStep DEF LogInv
<1>10. \A n \in Nat, t \in Nat \ {0} : Marked(n, t)' =>
         \/ Marked(n, t)
         \/ /\ role[i] = Leader /\ currentTerm[i] = t
            /\ n = Len(log[i]) + 1 /\ n <= Len(log'[i])
  <2>1. Whole(log[i]) \in Fragments
    BY DEF Fragments
  <2> QED
    BY <1>1, <1>4, <1>6, <1>7, <1>9, <2>1 DEF Marked
<1>11. \A j \in Node : Len(log'[j]) >= Len(log[j])
  <2>1. \A j \in Node : Len(log[j]) \in Nat /\ (j # i => log'[j] = log[j])
    BY <1>1, LenProperties DEF TypeOK
  <2> QED
    BY <1>4, <1>7, <2>1
<1> QED
  BY <1>1, <1>9, <1>10, <1>11 DEF LogStep

\* The handlers that give the receiver the role and the term of the prologue.
LEMMA PrologueRoles ==
  ASSUME TypeOK, NEW m \in messages, ObserveTerm(m),
         role' = [role EXCEPT ![m.to] = RoleAfter(m)]
  PROVE  RolesKept
<1>1. m.to \in Node
  BY PrologueType
<1>2. \A j \in Node : /\ role'[j] = IF j = m.to THEN RoleAfter(m) ELSE role[j]
                      /\ currentTerm'[j] = IF j = m.to THEN TermAfter(m) ELSE currentTerm[j]
  BY <1>1 DEF ObserveTerm, TypeOK
<1>3. RoleAfter(m) # Follower => RoleAfter(m) = role[m.to] /\ TermAfter(m) = currentTerm[m.to]
  BY PrologueCases
<1> QED
  BY <1>2, <1>3 DEF RolesKept

LEMMA HandleRequestVoteLog ==
  ASSUME TypeOK, TypeOK', LogInv, NEW m \in messages, HandleRequestVote(m)
  PROVE  LogStep
<1>1. \A k \in messages' : k \notin messages => ~IsAppend(k)
  BY DEF HandleRequestVote, Send, IsAppend
<1>2. RolesKept /\ log' = log
  BY PrologueRoles DEF HandleRequestVote, logVars
<1> QED
  BY <1>1, <1>2, QuietLogStep

LEMMA HandleRequestVoteReplyLog ==
  ASSUME TypeOK, TypeOK', VoteInv, LogInv, NEW m \in messages, HandleRequestVoteReply(m)
  PROVE  LogStep
<1>1. m.to \in Node /\ ObserveTerm(m) /\ log' = log
  BY PrologueType DEF HandleRequestVoteReply, logVars
<1>2. CASE CountsVote(m) /\ BecomeLeader(m.to, m.term)
  <2>1. /\ RoleAfter(m) = Candidate /\ m.term = TermAfter(m) /\ IsGrant(m)
    BY <1>2 DEF CountsVote, IsGrant, HandleRequestVoteReply
  <2>2. role[m.to] = Candidate /\ currentTerm[m.to] = m.term
    BY <2>1, PrologueCases DEF Candidate, Follower
  <2>3. currentTerm' = currentTerm
    BY <1>1, <2>1, <2>2 DEF ObserveTerm, TypeOK
  <2>4. /\ \A k \in messages' : IsAppend(k) /\ k \notin messages =>
              \E j \in Node : PieceOf(Sent(k), Whole(log[j]))
        /\ \A j \in Node : role'[j] = IF j = m.to THEN Leader ELSE role[j]
    BY <1>1, <1>2, BecomeLeaderPieces
  <2>5. /\ AllAgree'
        /\ \A n \in Nat, t \in Nat \ {0} : Marked(n, t)' => Marked(n, t)
    BY <1>1, <2>4, QuietLogs DEF LogInv
  <2>6. Won(m.to, currentTerm'[m.to]) /\ ~Started(m.to, currentTerm'[m.to])
    <3>1. currentTerm[m.to] \in Nat
      BY <1>1 DEF TypeOK
    <3> QED
      BY <2>1, <2>2, <2>3, <3>1 DEF Won, Started
  <2>7. \A j \in Node : role'[j] # Follower =>
          \/ role'[j] = role[j] /\ currentTerm'[j] = currentTerm[j]
          \/ role'[j] = Leader /\ role[j] = Candidate /\ currentTerm'[j] = currentTerm[j]
    BY <2>2, <2>3, <2>4
  <2>8. \A j \in Node : role'[j] = Leader =>
          \/ /\ role[j] = Leader /\ currentTerm'[j] = currentTerm[j]
             /\ Len(log'[j]) >= Len(log[j])
          \/ Won(j, currentTerm'[j]) /\ ~Started(j, currentTerm'[j])
    <3>1. \A j \in Node : Len(log[j]) \in Nat
      BY LenProperties DEF TypeOK
    <3> QED
      BY <1>1, <2>3, <2>4, <2>6, <3>1
  <2> QED
    BY <2>5, <2>7, <2>8 DEF LogStep
<1>3. CASE messages' = messages /\ role' = role /\ RoleAfter(m) # Follower
  <2>1. currentTerm' = currentTerm
    <3>1. TermAfter(m) = currentTerm[m.to]
      BY <1>3, PrologueCases
    <3> QED
      BY <1>1, <3>1 DEF ObserveTerm, TypeOK
  <2>2. RolesKept
    BY <1>3, <2>1 DEF RolesKept
  <2> QED
    BY <1>1, <1>3, <2>2, QuietLogStep
<1>4. CASE messages' = messages /\ role' = [role EXCEPT ![m.to] = RoleAfter(m)]
  BY <1>1, <1>4, PrologueRoles, QuietLogStep
<1>5. CountsVote(m) => RoleAfter(m) # Follower
  BY DEF CountsVote, Candidate, Follower
<1> QED
  BY <1>2, <1>3, <1>4, <1>5 DEF HandleRequestVoteReply

LEMMA HandleAppendEntriesRoles ==
  ASSUME TypeOK, NEW m \in messages, HandleAppendEntries(m)
  PROVE  /\ RolesKept
         /\ \A k \in messages' : k \notin messages => ~IsAppend(k)
<1>1. m.to \in Node /\ ObserveTerm(m)
  BY PrologueType DEF HandleAppendEntries
<1>2. \A j \in Node : currentTerm'[j] = IF j = m.to THEN TermAfter(m) ELSE currentTerm[j]
  BY <1>1 DEF ObserveTerm, TypeOK
<1>3. RolesKept
  <2>1. CASE role' = [role EXCEPT ![m.to] = Follower]
    BY <1>2, <2>1 DEF RolesKept, TypeOK
  <2>2. CASE m.term < TermAfter(m) /\ role' = role
    <3>1. TermAfter(m) = currentTerm[m.to]
      BY <2>2, PrologueType DEF TermAfter
    <3> QED
      BY <1>2, <2>2, <3>1 DEF RolesKept
  <2> QED
    BY <2>1, <2>2 DEF HandleAppendEntries
<1>4. \A k \in messages' : k \notin messages => ~IsAppend(k)
  BY DEF HandleAppendEntries, AcceptEntries, Send, AppendReply, IsAppend
<1> QED
  BY <1>3, <1>4

LEMMA HandleAppendEntriesLog ==
  ASSUME TypeOK, TypeOK', LogInv, NEW m \in messages, HandleAppendEntries(m)
  PROVE  LogStep
<1>1. RolesKept /\ \A k \in messages' : k \notin messages => ~IsAppend(k)
  BY HandleAppendEntriesRoles
<1>2. CASE log' = log
  BY <1>1, <1>2, QuietLogStep
<1>3. CASE /\ m.term >= TermAfter(m) /\ role' = [role EXCEPT ![m.to] = Follower]
           /\ PrevEntryMatches(m) /\ AcceptEntries(m)
  <2> DEFINE prev == m.prevLogIndex
             es   == m.entries
             lg   == log[m.to]
             r    == MergeEntries(lg, prev, es)
  <2>1. /\ m.to \in Node /\ IsAppend(m) /\ prev \in Nat /\ es \in Seq(Entry)
        /\ lg \in Seq(Entry) /\ Len(lg) \in Nat
    BY PrologueType, MessageFields, LenProperties DEF HandleAppendEntries, IsAppend, TypeOK
  <2>2. /\ Sent(m) \in FragmentType /\ Sent(m) \in Fragments /\ Whole(lg) \in Fragments
        /\ Sent(m).lo = prev /\ Sent(m).entries = es /\ Sent(m).term = m.prevLogTerm
    BY <2>1, SentFacts DEF Fragments
  <2>3. prev <= Len(lg) /\ (prev > 0 => lg[prev].term = Sent(m).term)
    BY <1>3, <2>1, <2>2 DEF PrevEntryMatches
  <2>4. Agree(Whole(lg), Sent(m))
    BY <2>2 DEF LogInv, AllAgree
  <2>5. log' = [log EXCEPT ![m.to] = r]
    BY <1>3 DEF AcceptEntries
  <2> HIDE DEF prev, es, lg, r
  <2>6. r = MergeEntries(lg, prev, es)
    BY DEF r
  <2>7. /\ r \in Seq(Entry)
        /\ \A G \in FragmentType : Agree(Whole(lg), G) /\ Agree(Sent(m), G) => Agree(Whole(r), G)
        /\ \A n \in Nat : n \in Covers(Whole(r)) =>
             \/ n \in Covers(Whole(lg)) /\ TermOf(Whole(lg), n) = TermOf(Whole(r), n)
             \/ n \in Covers(Sent(m)) /\ TermOf(Sent(m), n) = TermOf(Whole(r), n)
    BY <2>1, <2>2, <2>3, <2>4, <2>6, MergeAgrees
  <2>8. \A G \in Fragments : Agree(Whole(r), G)
    BY <2>2, <2>7, FragmentsTyped DEF LogInv, AllAgree
  <2>9. /\ AllAgree'
        /\ \A n \in Nat, t \in Nat \ {0} : Marked(n, t)' =>
             Marked(n, t) \/ (n \in Covers(Whole(r)) /\ TermOf(Whole(r), n) = t)
    BY <1>1, <2>1, <2>5, <2>7, <2>8, AgreeStep DEF LogInv
  <2>10. \A n \in Nat, t \in Nat \ {0} : Marked(n, t)' => Marked(n, t)
    BY <2>2, <2>7, <2>9 DEF Marked
  <2>11. \A j \in Node : role'[j] = Leader => log'[j] = log[j] /\ Len(log[j]) \in Nat
    BY <1>3, <2>1, <2>5, LenProperties DEF TypeOK, Leader, Follower
  <2> QED
    BY <1>1, <2>9, <2>10, <2>11 DEF LogStep, RolesKept, Leader, Follower
<1> QED
  BY <1>2, <1>3 DEF HandleAppendEntries, logVars

LEMMA NextLog ==
  ASSUME TypeOK, TypeOK', VoteInv, LogInv, [Next]_vars
  PROVE  LogStep
<1>1. ASSUME NEW i \in Node, StartElection(i) PROVE LogStep
  BY <1>1, StartElectionLog
<1>2. ASSUME NEW i \in Node, Heartbeat(i) PROVE LogStep
  BY <1>2, HeartbeatLog
<1>3. ASSUME NEW i \in Node, NEW v \in Value, Propose(i, v) PROVE LogStep
  BY <1>3, ProposeLog
<1>4. ASSUME NEW m \in messages, HandleAppendEntriesReply(m) PROVE LogStep
  <2>1. RolesKept /\ log' = log /\ messages' = messages
    BY <1>4, PrologueRoles DEF HandleAppendEntriesReply
  <2> QED
    BY <2>1, QuietLogStep
<1>5. ASSUME NEW m \in messages, Deliver(m) PROVE LogStep
  BY <1>4, <1>5, HandleRequestVoteLog, HandleRequestVoteReplyLog, HandleAppendEntriesLog
     DEF Deliver
<1>6. CASE UNCHANGED vars
  <2>1. RolesKept /\ log' = log /\ messages' = messages
    BY <1>6 DEF RolesKept, vars, termVars, logVars
  <2> QED
    BY <2>1, QuietLogStep
<1> QED
  BY <1>1, <1>2, <1>3, <1>5, <1>6 DEF Next

LEMMA AgreeingLogsMatch ==
  ASSUME TypeOK, AllAgree
  PROVE  LogMatching
<1> SUFFICES ASSUME NEW i \in Node, NEW j \in Node,
                    NEW n \in 1..SmallerOf(Len(log[i]), Len(log[j])),
                    log[i][n].term = log[j][n].term
             PROVE  SubSeq(log[i], 1, n) = SubSeq(log[j], 1, n)
  BY DEF LogMatching
<1>1. /\ log[i] \in Seq(Entry) /\ Len(log[i]) \in Nat
      /\ log[j] \in Seq(Entry) /\ Len(log[j]) \in Nat
  BY LenProperties DEF TypeOK
<1>2. n \in Nat /\ n >= 1 /\ n <= Len(log[i]) /\ n <= Len(log[j])
  BY <1>1 DEF SmallerOf
<1>3. Agree(Whole(log[i]), Whole(log[j]))
  BY DEF AllAgree, Fragments
<1>4. ASSUME NEW q \in 1..n PROVE log[i][q] = log[j][q]
  <2>1. /\ n \in Covers(Whole(log[i])) /\ n \in Covers(Whole(log[j]))
        /\ q \in Covers(Whole(log[i])) /\ q \in Covers(Whole(log[j])) /\ q <= n /\ q > 0
    BY <1>1, <1>2, WholeFacts
  <2>2. TermOf(Whole(log[i]), n) = TermOf(Whole(log[j]), n)
    BY <1>1, <1>2, WholeFacts
  <2>3. SameAt(Whole(log[i]), Whole(log[j]), q)
    BY <1>3, <2>1, <2>2 DEF Agree
  <2>4. /\ Whole(log[i]).lo = 0 /\ Whole(log[i]).entries = log[i]
        /\ Whole(log[j]).lo = 0 /\ Whole(log[j]).entries = log[j]
    BY <1>1, WholeFacts
  <2>5. Whole(log[i]).entries[q - Whole(log[i]).lo] = log[i][q]
        /\ Whole(log[j]).entries[q - Whole(log[j]).lo] = log[j][q]
    BY <2>4
  <2> QED
    BY <2>1, <2>3, <2>4, <2>5 DEF SameAt
<1>5. \A k \in Node : n <= Len(log[k]) /\ log[k] \in Seq(Entry) =>
        /\ SubSeq(log[k], 1, n) \in Seq(Entry)
        /\ Len(SubSeq(log[k], 1, n)) = n
        /\ \A q \in 1..n : SubSeq(log[k], 1, n)[q] = log[k][q]
  <2> SUFFICES ASSUME NEW k \in Node, n <= Len(log[k]), log[k] \in Seq(Entry)
               PROVE  /\ SubSeq(log[k], 1, n) \in Seq(Entry)
                      /\ Len(SubSeq(log[k], 1, n)) = n
                      /\ \A q \in 1..n : SubSeq(log[k], 1, n)[q] = log[k][q]
    OBVIOUS
  <2>1. \A q \in 1..n : log[k][q] \in Entry
    <3>1. Len(log[k]) \in Nat
      BY LenProperties
    <3> QED
      BY <1>2, <3>1, ElementOfSeq
  <2>2. /\ Len(SubSeq(log[k], 1, n)) = IF 1 <= n THEN n - 1 + 1 ELSE 0
        /\ \A q \in 1..(n - 1 + 1) : SubSeq(log[k], 1, n)[q] = log[k][1 + q - 1]
    BY <1>2, <2>1, SubSeqProperties
  <2>3. SubSeq(log[k], 1, n) \in Seq(Entry)
    BY <1>2, SubSeqType
  <2> QED
    BY <1>2, <2>2, <2>3
<1> QED
  BY <1>1, <1>2, <1>4, <1>5, SeqEqual

\* In a cluster of at most three nodes, two logs with an entry of one term at one
\* index are the same up to it: whatever is lost, repeated or late.
THEOREM LogMatchingOfThree ==
  ASSUME Cardinality(Node) <= 3
  PROVE  Spec => []LogMatching
<1>1. TypeOK /\ Init => LogInv
  <2> SUFFICES ASSUME TypeOK, Init PROVE LogInv
    OBVIOUS
  <2>1. \A F \in Fragments : F = Whole(<<>>)
    BY DEF Init, Fragments
  <2>2. AllAgree
    BY <2>1, AgreeSelf DEF AllAgree
  <2>3. \A n \in Nat, t \in Nat \ {0} : ~Marked(n, t)
    <3> SUFFICES ASSUME NEW n \in Nat, NEW t \in Nat \ {0}, Marked(n, t) PROVE FALSE
      OBVIOUS
    <3>1. <<>> \in Seq(Entry) /\ Len(<<>>) = 0
      BY EmptySeq
    <3>2. \A lg \in Seq(Entry) : Len(lg) = 0 =>
            \A k \in Nat : k \in Covers(Whole(lg)) => k = 0
      <4> SUFFICES ASSUME NEW lg \in Seq(Entry), Len(lg) = 0,
                          NEW k \in Nat, k \in Covers(Whole(lg))
                   PROVE  k = 0
        OBVIOUS
      <4>1. k <= Len(lg)
        BY WholeFacts
      <4> QED
        BY <4>1
    <3>3. PICK F \in Fragments : n \in Covers(F) /\ TermOf(F, n) = t
      BY DEF Marked
    <3>4. n \in Covers(Whole(<<>>)) /\ TermOf(Whole(<<>>), n) = t
      BY <2>1, <3>3
    <3>5. n = 0
      BY <3>1, <3>2, <3>4
    <3> QED
      BY <3>4, <3>5 DEF TermOf
  <2> QED
    BY <2>2, <2>3 DEF LogInv, Owned, Fresh, Init
<1>2. TypeOK /\ TypeOK' /\ VoteInv /\ BallotInv /\ LogInv /\ [Next]_vars => LogInv'
  BY NextVotes, NextLog, LogStepKeeps
<1>3. TypeOK /\ LogInv => LogMatching
  BY AgreeingLogsMatch DEF LogInv
<1> QED
  BY <1>1, <1>2, <1>3, TypeCorrect, VotesCorrect, BallotsCorrect, PTL DEF Spec

-----------------------------------------------------------------------------
(* Two nodes.  The winner of an election has the vote of the only other node, *)
(* whose log was no longer than its own and does not outgrow it: so of two    *)
(* logs one always continues the other, and no merge ever cuts.               *)

Longest(i) == \A j \in Node : Len(log[j]) <= Len(log[i])

\* Wherever two logs both have an entry, it is the same.
LogsNest ==
  \A i, j \in Node : \A q \in 1..Len(log[i]) : q <= Len(log[j]) => log[i][q] = log[j][q]

\* Terms rise along a log, up to the term of its node.
TermsRise ==
  \A i \in Node : \A q \in 1..Len(log[i]) :
    /\ log[i][q].term <= currentTerm[i]
    /\ \A r \in 1..Len(log[i]) : q <= r => log[i][q].term <= log[i][r].term

\* A run of entries that stands in lg from position prev + 1 on.
Holds(lg, prev, es) ==
  /\ prev + Len(es) <= Len(lg)
  /\ \A k \in 1..Len(es) : es[k] = lg[prev + k]

\* What a message says of the logs, now and whenever it is delivered.
RequestTrue(m) ==
  /\ m.lastLogIndex <= Len(log[m.from])
  /\ m.lastLogTerm = TermAt(log[m.from], m.lastLogIndex)

GrantTrue(m) ==
  m.term = currentTerm[m.to] => Len(log[m.from]) <= Len(log[m.to])

AppendTrue(m) ==
  /\ \E i \in Node : Holds(log[i], m.prevLogIndex, m.entries)
  /\ \A k \in 1..Len(m.entries) : m.entries[k].term <= m.term
  /\ \A i \in Node : m.leaderCommit <= Len(log[i])

IsSuccess(m) == m.type = "APPEND_ENTRIES_REPLY" /\ m.success

SuccessTrue(m) == m.matchIndex <= Len(log[m.from])

MessagesTrue ==
  \A m \in messages : /\ IsRequest(m) => RequestTrue(m)
                      /\ IsGrant(m) => GrantTrue(m)
                      /\ IsAppend(m) => AppendTrue(m)
                      /\ IsSuccess(m) => SuccessTrue(m)

\* What leaders know of the others, and all nodes of what is committed.
MatchesTrue == \A i, p \in Node : matchIndex[i][p] <= Len(log[p])
NextsTrue   == \A i \in Node : \A p \in peers[i] :
                 role[i] = Leader => nextIndex[i][p] <= Len(log[i]) + 1
CommitsTrue == \A i, j \in Node : commitIndex[i] <= Len(log[j])
AppliedTrue == \A i \in Node : lastApplied[i] <= commitIndex[i]

IndexesTrue == MatchesTrue /\ NextsTrue /\ CommitsTrue /\ AppliedTrue

PairInv == LogsNest /\ TermsRise /\ MessagesTrue /\ IndexesTrue

\* No step cuts a log, and only a leader's own log outgrows all others.
LogsGrow ==
  \A i \in Node : /\ Len(log[i]) <= Len(log'[i])
                   /\ \A q \in 1..Len(log[i]) : log'[i][q] = log[i][q]

GrowthHeld ==
  \A i \in Node : Len(log'[i]) > Len(log[i]) =>
    role[i] = Leader \/ \E k \in Node : Len(log'[i]) <= Len(log[k])

\* What every step does to logs, messages and indexes, stated once for all actions.
PairStep ==
  /\ LogsGrow /\ GrowthHeld
  /\ LogsNest' /\ TermsRise'
  /\ \A m \in messages' : m \notin messages =>
       /\ IsRequest(m) => RequestTrue(m)'
       /\ IsGrant(m) => GrantTrue(m)'
       /\ IsAppend(m) => AppendTrue(m)'
       /\ IsSuccess(m) => SuccessTrue(m)'
  /\ IndexesTrue'

LEMMA TwoNodes ==
  ASSUME Cardinality(Node) <= 2, NEW a \in Node, NEW b \in Node, NEW c \in Node,
         a # b, c # a
  PROVE  c = b
<1> SUFFICES ASSUME c # b PROVE FALSE
  OBVIOUS
<1> DEFINE three == ({a} \cup {b}) \cup {c}
<1>1. /\ IsFiniteSet({a}) /\ Cardinality({a}) = 1
  BY FS_Singleton
<1>2. /\ IsFiniteSet({a} \cup {b}) /\ Cardinality({a} \cup {b}) = 2
  BY <1>1, FS_AddElement
<1>3. /\ IsFiniteSet(three) /\ Cardinality(three) = 3
  BY <1>2, FS_AddElement
<1>4. three \subseteq Node
  OBVIOUS
<1> HIDE DEF three
<1>5. Cardinality(three) <= Cardinality(Node)
  BY <1>4, NodeAssumption, FS_Subset
<1>6. Cardinality(Node) \in Nat
  BY NodeAssumption, FS_CardinalityType
<1> QED
  BY <1>3, <1>5, <1>6

\* A leader was granted the vote of the only other node, which has not passed it since.
LEMMA LeaderLongest ==
  ASSUME TypeOK, VoteInv, PairInv, Cardinality(Node) <= 2, NEW i \in Node, role[i] = Leader
  PROVE  Longest(i)
<1> SUFFICES ASSUME NEW j \in Node PROVE Len(log[j]) <= Len(log[i])
  BY DEF Longest
<1>1. Len(log[j]) \in Nat /\ Len(log[i]) \in Nat
  BY LenProperties DEF TypeOK
<1>2. CASE j = i
  BY <1>1, <1>2
<1>3. CASE j # i
  <2>1. PICK g \in messages : IsGrant(g) /\ g.to = i /\ g.term = currentTerm[i]
    BY <1>3 DEF VoteInv
  <2>2. g.from \in Node /\ g.from # i
    BY <2>1, MessageFields DEF TypeOK, VoteInv
  <2>3. g.from = j
    BY <1>3, <2>2, TwoNodes
  <2> QED
    BY <2>1, <2>3 DEF PairInv, MessagesTrue, GrantTrue
<1> QED
  BY <1>2, <1>3

\* Merging what stands in a log that agrees with the receiver's cuts nothing.
LEMMA MergeKeeps ==
  ASSUME NEW lg \in Seq(Entry), NEW prev \in Nat, NEW es \in Seq(Entry), prev <= Len(lg),
         \A k \in 1..Len(es) : prev + k <= Len(lg) => lg[prev + k] = es[k],
         NEW r, r = MergeEntries(lg, prev, es)
  PROVE  /\ r \in Seq(Entry) /\ Len(r) >= Len(lg)
         /\ \A q \in 1..Len(lg) : r[q] = lg[q]
         /\ r # lg => Len(r) = prev + Len(es)
         /\ \A q \in 1..Len(r) : q > Len(lg) => r[q] = es[q - prev] /\ q - prev \in 1..Len(es)
<1>1. Len(lg) \in Nat /\ Len(es) \in Nat
  BY LenProperties
<1>2. /\ r \in Seq(Entry)
      /\ \/ r = lg
         \/ /\ Len(r) = prev + Len(es)
            /\ \A q \in 1..prev : r[q] = lg[q]
            /\ \A k \in 1..Len(es) : r[prev + k] = es[k]
  <2>1. \A k \in 1..Len(es) : prev + k <= Len(lg) /\ lg[prev + k].term = es[k].term
                                => lg[prev + k] = es[k]
    OBVIOUS
  <2> QED
    BY <2>1, MergeShape, SMTT(30)
<1>3. CASE r = lg
  BY <1>1, <1>2, <1>3
<1>4. CASE /\ Len(r) = prev + Len(es)
           /\ \A q \in 1..prev : r[q] = lg[q]
           /\ \A k \in 1..Len(es) : r[prev + k] = es[k]
  <2> DEFINE conflicts == {k \in 1..Len(es) : /\ prev + k <= Len(lg)
                                              /\ lg[prev + k].term # es[k].term}
             head      == SubSeq(lg, 1, Len(lg))
             tail      == SubSeq(es, Len(lg) - prev + 1, Len(es))
  <2>1. conflicts = {}
    OBVIOUS
  <2>2. r = head \o tail
    BY <2>1 DEF MergeEntries
  <2>3. head = lg
    <3>1. \A q \in 1..Len(lg) : lg[q] \in Entry
      BY ElementOfSeq
    <3>2. head \in Seq(Entry)
      BY <1>1, SubSeqType
    <3>3. /\ Len(head) = IF 1 <= Len(lg) THEN Len(lg) - 1 + 1 ELSE 0
          /\ \A q \in 1..(Len(lg) - 1 + 1) : head[q] = lg[1 + q - 1]
      BY <1>1, <3>1, SubSeqProperties
    <3> HIDE DEF head
    <3>4. Len(head) = Len(lg) /\ \A q \in 1..Len(lg) : head[q] = lg[q]
      BY <1>1, <3>3
    <3> QED
      BY <3>2, <3>4, SeqEqual
  <2>4. tail \in Seq(Entry)
    <3>1. Len(lg) - prev + 1 \in Nat \ {0}
      BY <1>1
    <3> QED
      BY <1>1, <3>1, SubSeqType
  <2> HIDE DEF head, tail, conflicts
  <2>5. Len(r) = Len(lg) + Len(tail) /\ Len(tail) \in Nat
    BY <2>2, <2>3, <2>4, ConcatProperties, LenProperties
  <2>6. Len(r) >= Len(lg)
    BY <1>1, <2>5
  <2>7. ASSUME NEW q \in 1..Len(lg) PROVE r[q] = lg[q]
    <3>1. CASE q <= prev
      BY <1>4, <3>1
    <3>2. CASE q > prev
      <4>1. q - prev \in 1..Len(es) /\ prev + (q - prev) = q
        BY <1>1, <1>4, <2>6, <3>2
      <4>2. r[prev + (q - prev)] = es[q - prev]
        BY <1>4, <4>1
      <4>3. lg[prev + (q - prev)] = es[q - prev]
        BY <4>1
      <4> QED
        BY <4>1, <4>2, <4>3
    <3> QED
      BY <3>1, <3>2
  <2>8. ASSUME NEW q \in 1..Len(r), q > Len(lg)
        PROVE  r[q] = es[q - prev] /\ q - prev \in 1..Len(es)
    <3>1. q - prev \in 1..Len(es) /\ prev + (q - prev) = q
      BY <1>1, <1>4, <2>8
    <3>2. r[prev + (q - prev)] = es[q - prev]
      BY <1>4, <3>1
    <3> QED
      BY <3>1, <3>2
  <2> QED
    BY <1>2, <1>4, <2>6, <2>7, <2>8
<1> QED
  BY <1>2, <1>3, <1>4


LEMMA LogsTyped ==
  ASSUME TypeOK, NEW i \in Node
  PROVE  /\ log[i] \in Seq(Entry) /\ Len(log[i]) \in Nat
         /\ \A q \in 1..Len(log[i]) : log[i][q] \in Entry /\ log[i][q].term \in Nat
<1>1. log[i] \in Seq(Entry) /\ Len(log[i]) \in Nat
  BY LenProperties DEF TypeOK
<1>2. \A q \in 1..Len(log[i]) : log[i][q] \in Entry
  BY <1>1, ElementOfSeq
<1> QED
  BY <1>1, <1>2 DEF Entry

\* What was true of a message stays true as logs grow.
LEMMA RequestStays ==
  ASSUME TypeOK, TypeOK', LogsGrow, NEW m \in messages, IsRequest(m), RequestTrue(m)
  PROVE  RequestTrue(m)'
<1>1. m.from \in Node /\ m.lastLogIndex \in Nat
  BY DEF TypeOK, Message, IsRequest
<1>2. Len(log[m.from]) \in Nat /\ Len(log'[m.from]) \in Nat
  BY <1>1, LenProperties DEF TypeOK
<1> QED
  BY <1>1, <1>2 DEF RequestTrue, LogsGrow, TermAt

LEMMA AppendStays ==
  ASSUME TypeOK, TypeOK', LogsGrow, NEW m \in messages, IsAppend(m), AppendTrue(m)
  PROVE  AppendTrue(m)'
<1>1. m.prevLogIndex \in Nat /\ Len(m.entries) \in Nat /\ m.leaderCommit \in Nat
  BY LenProperties DEF TypeOK, Message, IsAppend
<1>2. \A i \in Node : Len(log[i]) \in Nat /\ Len(log'[i]) \in Nat
  BY LenProperties DEF TypeOK
<1>3. PICK i \in Node : Holds(log[i], m.prevLogIndex, m.entries)
  BY DEF AppendTrue
<1>4. Holds(log'[i], m.prevLogIndex, m.entries)
  <2>1. Len(log[i]) <= Len(log'[i]) /\ \A q \in 1..Len(log[i]) : log'[i][q] = log[i][q]
    BY DEF LogsGrow
  <2>2. m.prevLogIndex + Len(m.entries) <= Len(log[i])
    BY <1>3 DEF Holds
  <2>3. ASSUME NEW k \in 1..Len(m.entries)
        PROVE  m.entries[k] = log'[i][m.prevLogIndex + k]
    <3>1. m.prevLogIndex + k \in 1..Len(log[i])
      BY <1>1, <1>2, <2>2
    <3>2. m.entries[k] = log[i][m.prevLogIndex + k]
      BY <1>3 DEF Holds
    <3> QED
      BY <2>1, <3>1, <3>2
  <2> QED
    BY <1>1, <1>2, <2>1, <2>2, <2>3 DEF Holds
<1>5. \A j \in Node : m.leaderCommit <= Len(log'[j])
  BY <1>1, <1>2 DEF AppendTrue, LogsGrow
<1> QED
  BY <1>4, <1>5 DEF AppendTrue

LEMMA SuccessStays ==
  ASSUME TypeOK, TypeOK', LogsGrow, NEW m \in messages, IsSuccess(m), SuccessTrue(m)
  PROVE  SuccessTrue(m)'
<1>1. m.from \in Node /\ m.matchIndex \in Nat
  BY DEF TypeOK, Message, IsSuccess
<1>2. Len(log[m.from]) \in Nat /\ Len(log'[m.from]) \in Nat
  BY <1>1, LenProperties DEF TypeOK
<1> QED
  BY <1>1, <1>2 DEF SuccessTrue, LogsGrow

\* The voter of a term that its candidate has not left is not ahead of it: to lead
\* a later term it would need the vote of that candidate.
LEMMA GrantStays ==
  ASSUME TypeOK, TypeOK', VoteInv, BallotInv, VoteStep, PairInv, LogsGrow, GrowthHeld,
         Cardinality(Node) <= 2, NEW g \in messages, IsGrant(g)
  PROVE  GrantTrue(g)'
<1> SUFFICES ASSUME g.term = currentTerm'[g.to]
             PROVE  Len(log'[g.from]) <= Len(log'[g.to])
  BY DEF GrantTrue
<1>1. g.from \in Node /\ g.to \in Node /\ g.term \in Nat /\ g.from # g.to
  BY MessageFields DEF TypeOK, VoteInv
<1>2. PICK r \in messages : IsRequest(r) /\ r.from = g.to /\ r.term = g.term
  BY DEF BallotInv
<1>3. currentTerm[g.to] \in Nat /\ currentTerm'[g.to] \in Nat /\ currentTerm[g.from] \in Nat
  BY <1>1 DEF TypeOK
<1>4. currentTerm[g.to] = g.term
  <2>1. g.term <= currentTerm[g.to]
    BY <1>2 DEF BallotInv
  <2>2. currentTerm[g.to] <= currentTerm'[g.to]
    BY <1>1 DEF VoteStep
  <2> QED
    BY <1>1, <1>3, <2>1, <2>2
<1>5. Len(log[g.from]) <= Len(log[g.to])
  BY <1>4 DEF PairInv, MessagesTrue, GrantTrue
<1>6. /\ Len(log[g.from]) \in Nat /\ Len(log'[g.from]) \in Nat
      /\ Len(log[g.to]) \in Nat /\ Len(log'[g.to]) \in Nat
      /\ Len(log[g.to]) <= Len(log'[g.to])
  BY <1>1, LenProperties DEF TypeOK, LogsGrow
<1>7. CASE ~(Len(log'[g.from]) > Len(log[g.from]))
  BY <1>5, <1>6, <1>7
<1>8. CASE \E k \in Node : Len(log'[g.from]) <= Len(log[k])
  <2>1. PICK k \in Node : Len(log'[g.from]) <= Len(log[k])
    BY <1>8
  <2>2. k = g.from \/ k = g.to
    BY <1>1, TwoNodes
  <2> QED
    BY <1>5, <1>6, <2>1, <2>2
<1>9. CASE role[g.from] = Leader
  <2>1. PICK h \in messages : IsGrant(h) /\ h.to = g.from /\ h.term = currentTerm[g.from]
    BY <1>1, <1>9 DEF VoteInv
  <2>2. h.from \in Node /\ h.from # g.from
    BY <2>1, MessageFields DEF TypeOK, VoteInv
  <2>3. h.from = g.to
    BY <1>1, <2>2, TwoNodes
  <2>4. h.term <= currentTerm[g.to] /\ g.term <= currentTerm[g.from]
    BY <2>1, <2>3 DEF VoteInv
  <2>5. h.term = r.term
    BY <1>2, <1>3, <1>4, <2>1, <2>4
  <2>6. r.from # h.from
    BY <1>2, <2>1, <2>5 DEF BallotInv
  <2> QED
    BY <1>2, <2>3, <2>6
<1> QED
  BY <1>1, <1>7, <1>8, <1>9 DEF GrowthHeld

LEMMA PairStepKeeps ==
  ASSUME TypeOK, TypeOK', VoteInv, BallotInv, VoteStep, PairInv, PairStep,
         Cardinality(Node) <= 2
  PROVE  PairInv'
<1>1. ASSUME NEW m \in messages, m \in messages'
      PROVE  /\ IsRequest(m) => RequestTrue(m)'
             /\ IsGrant(m) => GrantTrue(m)'
             /\ IsAppend(m) => AppendTrue(m)'
             /\ IsSuccess(m) => SuccessTrue(m)'
  <2>1. /\ IsRequest(m) => RequestTrue(m)
        /\ IsAppend(m) => AppendTrue(m)
        /\ IsSuccess(m) => SuccessTrue(m)
    BY DEF PairInv, MessagesTrue
  <2>2. LogsGrow /\ GrowthHeld
    BY DEF PairStep
  <2> QED
    BY <2>1, <2>2, RequestStays, GrantStays, AppendStays, SuccessStays
<1>2. MessagesTrue'
  <2> SUFFICES ASSUME NEW m \in messages'
               PROVE  /\ IsRequest(m) => RequestTrue(m)'
                      /\ IsGrant(m) => GrantTrue(m)'
                      /\ IsAppend(m) => AppendTrue(m)'
                      /\ IsSuccess(m) => SuccessTrue(m)'
    BY DEF MessagesTrue
  <2>1. CASE m \in messages
    BY <1>1, <2>1
  <2>2. CASE m \notin messages
    BY <2>2 DEF PairStep
  <2> QED
    BY <2>1, <2>2
<1> QED
  BY <1>2 DEF PairInv, PairStep

\* A step that changes no log.
LEMMA QuietPair ==
  ASSUME TypeOK, TypeOK', VoteStep, PairInv, log' = log
  PROVE  LogsGrow /\ GrowthHeld /\ LogsNest' /\ TermsRise'
<1>1. \A i \in Node : Len(log[i]) \in Nat
  BY LogsTyped
<1>2. LogsGrow /\ GrowthHeld
  BY <1>1 DEF LogsGrow, GrowthHeld
<1>3. LogsNest'
  BY DEF PairInv, LogsNest
<1>4. TermsRise'
  <2> SUFFICES ASSUME NEW i \in Node, NEW q \in 1..Len(log[i])
               PROVE  /\ log[i][q].term <= currentTerm'[i]
                      /\ \A r \in 1..Len(log[i]) : q <= r => log[i][q].term <= log[i][r].term
    BY DEF TermsRise
  <2>1. currentTerm'[i] >= currentTerm[i] /\ currentTerm[i] \in Nat /\ currentTerm'[i] \in Nat
    BY DEF VoteStep, TypeOK
  <2>2. log[i][q].term \in Nat
    BY LogsTyped
  <2> QED
    BY <2>1, <2>2 DEF PairInv, TermsRise
<1> QED
  BY <1>2, <1>3, <1>4

\* Indexes a step leaves alone, or a new leader resets.
LEMMA MatchesStay ==
  ASSUME TypeOK, TypeOK', PairInv, LogsGrow,
         \A i, p \in Node : matchIndex'[i][p] \in {matchIndex[i][p], 0}
  PROVE  MatchesTrue'
<1> SUFFICES ASSUME NEW i \in Node, NEW p \in Node PROVE matchIndex'[i][p] <= Len(log'[p])
  BY DEF MatchesTrue
<1>1. Len(log[p]) \in Nat /\ Len(log'[p]) \in Nat /\ Len(log[p]) <= Len(log'[p])
  BY LenProperties DEF TypeOK, LogsGrow
<1>2. matchIndex[i][p] \in Nat /\ matchIndex[i][p] <= Len(log[p])
  BY DEF TypeOK, PairInv, IndexesTrue, MatchesTrue
<1> QED
  BY <1>1, <1>2

LEMMA NextsStay ==
  ASSUME TypeOK, TypeOK', VoteInv, PairInv, LogsGrow, peers' = peers,
         \A i \in Node : role'[i] = Leader => role[i] = Leader /\ nextIndex'[i] = nextIndex[i]
  PROVE  NextsTrue'
<1> SUFFICES ASSUME NEW i \in Node, NEW p \in peers[i], role'[i] = Leader
             PROVE  nextIndex'[i][p] <= Len(log'[i]) + 1
  BY DEF NextsTrue
<1>1. Len(log[i]) \in Nat /\ Len(log'[i]) \in Nat /\ Len(log[i]) <= Len(log'[i])
  BY LenProperties DEF TypeOK, LogsGrow
<1>2. p \in Node
  BY DEF VoteInv
<1>3. nextIndex[i][p] \in Nat /\ nextIndex[i][p] <= Len(log[i]) + 1
  BY <1>2 DEF TypeOK, PairInv, IndexesTrue, NextsTrue
<1> QED
  BY <1>1, <1>3

LEMMA CommitsStay ==
  ASSUME TypeOK, TypeOK', PairInv, LogsGrow, UNCHANGED <<commitIndex, lastApplied>>
  PROVE  CommitsTrue' /\ AppliedTrue'
<1>1. ASSUME NEW i \in Node, NEW j \in Node PROVE commitIndex[i] <= Len(log'[j])
  <2>1. Len(log[j]) \in Nat /\ Len(log'[j]) \in Nat /\ Len(log[j]) <= Len(log'[j])
    BY LenProperties DEF TypeOK, LogsGrow
  <2>2. commitIndex[i] \in Nat /\ commitIndex[i] <= Len(log[j])
    BY DEF TypeOK, PairInv, IndexesTrue, CommitsTrue
  <2> QED
    BY <2>1, <2>2
<1> QED
  BY <1>1 DEF PairInv, IndexesTrue, CommitsTrue, AppliedTrue

\* replicateLogs(): what it sends stands in the sender's log.
LEMMA AppendMsgHolds ==
  ASSUME NEW i, NEW p, NEW term \in Nat, NEW lg \in Seq(Entry), NEW next \in Nat \ {0},
         NEW commit, next <= Len(lg) + 1, \A q \in 1..Len(lg) : lg[q].term <= term,
         NEW m, m = AppendMsg(i, p, term, lg, next, commit)
  PROVE  /\ Holds(lg, m.prevLogIndex, m.entries)
         /\ \A k \in 1..Len(m.entries) : m.entries[k].term <= m.term
         /\ m.leaderCommit = commit
<1>1. /\ m.prevLogIndex = next - 1 /\ m.entries = SubSeq(lg, next, Len(lg))
      /\ m.term = term /\ m.leaderCommit = commit
  BY DEF AppendMsg
<1>2. Len(lg) \in Nat
  BY LenProperties
<1>3. \A k \in next..Len(lg) : lg[k] \in Entry
  BY <1>2, ElementOfSeq
<1>4. /\ Len(SubSeq(lg, next, Len(lg))) = IF next <= Len(lg) THEN Len(lg) - next + 1 ELSE 0
      /\ \A k \in 1..(Len(lg) - next + 1) : SubSeq(lg, next, Len(lg))[k] = lg[next + k - 1]
  BY <1>2, <1>3, SubSeqProperties
<1>5. Len(m.entries) = Len(lg) - next + 1
  BY <1>1, <1>2, <1>4
<1>6. ASSUME NEW k \in 1..Len(m.entries)
      PROVE  m.entries[k] = lg[m.prevLogIndex + k] /\ m.prevLogIndex + k \in 1..Len(lg)
  BY <1>1, <1>2, <1>4, <1>5
<1> QED
  BY <1>1, <1>2, <1>5, <1>6 DEF Holds

\* becomeLeader(): nothing but the empty first heartbeat is sent.
LEMMA BecomeLeaderPair ==
  ASSUME TypeOK, TypeOK', VoteInv, VoteStep, PairInv, NEW i \in Node, NEW term \in Nat,
         \A q \in 1..Len(log[i]) : log[i][q].term <= term,
         BecomeLeader(i, term), UNCHANGED <<log, commitIndex, lastApplied, peers>>
  PROVE  PairStep
<1>1. LogsGrow /\ GrowthHeld /\ LogsNest' /\ TermsRise'
  BY QuietPair
<1>2. log[i] \in Seq(Entry) /\ Len(log[i]) \in Nat
  BY LogsTyped
<1>3. ASSUME NEW m \in messages', m \notin messages
      PROVE  /\ m.type = "APPEND_ENTRIES"
             /\ AppendTrue(m)'
  <2>1. PICK p \in peers[i] : m = AppendMsg(i, p, term, log[i], Len(log[i]) + 1, commitIndex[i])
    BY <1>3 DEF BecomeLeader, Send
  <2>2. /\ Holds(log[i], m.prevLogIndex, m.entries)
        /\ \A k \in 1..Len(m.entries) : m.entries[k].term <= m.term
        /\ m.leaderCommit = commitIndex[i]
    BY <1>2, <2>1, AppendMsgHolds
  <2>3. \A j \in Node : m.leaderCommit <= Len(log[j])
    BY <2>2 DEF PairInv, IndexesTrue, CommitsTrue
  <2>4. m.type = "APPEND_ENTRIES"
    BY <2>1 DEF AppendMsg
  <2> QED
    BY <2>2, <2>3, <2>4 DEF AppendTrue
<1>4. MatchesTrue'
  <2>1. \A j, p \in Node : matchIndex'[j][p] \in {matchIndex[j][p], 0}
    BY DEF BecomeLeader, TypeOK
  <2> QED
    BY <1>1, <2>1, MatchesStay
<1>5. NextsTrue'
  <2> SUFFICES ASSUME NEW j \in Node, NEW p \in peers[j], role'[j] = Leader
               PROVE  nextIndex'[j][p] <= Len(log[j]) + 1
    BY DEF NextsTrue
  <2>0. p \in Node
    BY DEF VoteInv
  <2>1. CASE j = i
    <3>1. nextIndex'[i][p] = Len(log[i]) + 1
      BY <2>0, <2>1 DEF BecomeLeader, TypeOK
    <3> QED
      BY <1>2, <2>1, <3>1
  <2>2. CASE j # i
    <3>1. role[j] = Leader /\ nextIndex'[j] = nextIndex[j]
      BY <2>2 DEF BecomeLeader, TypeOK
    <3> QED
      BY <3>1 DEF PairInv, IndexesTrue, NextsTrue
  <2> QED
    BY <2>1, <2>2
<1>6. CommitsTrue' /\ AppliedTrue'
  BY <1>1, CommitsStay
<1> QED
  BY <1>1, <1>3, <1>4, <1>5, <1>6
     DEF PairStep, IndexesTrue, IsRequest, IsGrant, IsAppend, IsSuccess

LEMMA StartElectionPair ==
  ASSUME TypeOK, TypeOK', VoteInv, VoteStep, PairInv, NEW i \in Node, StartElection(i)
  PROVE  PairStep
<1>1. /\ UNCHANGED <<log, commitIndex, lastApplied, peers>>
      /\ currentTerm[i] \in Nat /\ currentTerm[i] + 1 \in Nat
  BY DEF StartElection, logVars, TypeOK
<1>2. CASE BecomeLeader(i, currentTerm[i] + 1)
  <2>1. \A q \in 1..Len(log[i]) : log[i][q].term <= currentTerm[i] + 1
    <3> SUFFICES ASSUME NEW q \in 1..Len(log[i]) PROVE log[i][q].term <= currentTerm[i] + 1
      OBVIOUS
    <3>1. log[i][q].term \in Nat
      BY LogsTyped
    <3>2. log[i][q].term <= currentTerm[i]
      BY DEF PairInv, TermsRise
    <3> QED
      BY <1>1, <3>1, <3>2
  <2> QED
    BY <1>1, <1>2, <2>1, BecomeLeaderPair
<1>3. CASE /\ role' = [role EXCEPT ![i] = Candidate]
           /\ Send({[type         |-> "REQUEST_VOTE",
                     from         |-> i,
                     to           |-> p,
                     term         |-> currentTerm[i] + 1,
                     lastLogIndex |-> Len(log[i]),
                     lastLogTerm  |-> LastTerm(log[i])] : p \in peers[i]})
           /\ UNCHANGED <<leaderVars, timerVars>>
  <2>1. LogsGrow /\ GrowthHeld /\ LogsNest' /\ TermsRise'
    BY <1>1, QuietPair
  <2>2. ASSUME NEW m \in messages', m \notin messages
        PROVE  m.type = "REQUEST_VOTE" /\ RequestTrue(m)'
    <3>1. /\ m.type = "REQUEST_VOTE" /\ m.from = i
          /\ m.lastLogIndex = Len(log[i]) /\ m.lastLogTerm = LastTerm(log[i])
      BY <1>3, <2>2 DEF Send
    <3>2. LastTerm(log[i]) = TermAt(log[i], Len(log[i]))
      <4>1. log[i] \in Seq(Entry) /\ Len(log[i]) \in Nat
        BY LogsTyped
      <4>2. log[i] = <<>> <=> Len(log[i]) = 0
        BY <4>1, EmptySeq
      <4> QED
        BY <4>1, <4>2 DEF LastTerm, TermAt
    <3>3. Len(log[i]) \in Nat
      BY LogsTyped
    <3> QED
      BY <1>1, <3>1, <3>2, <3>3 DEF RequestTrue
  <2>3. MatchesTrue'
    <3>1. \A j, p \in Node : matchIndex'[j][p] \in {matchIndex[j][p], 0}
      BY <1>3 DEF leaderVars
    <3> QED
      BY <2>1, <3>1, MatchesStay
  <2>4. NextsTrue'
    <3>1. \A j \in Node : role'[j] = Leader => role[j] = Leader /\ nextIndex'[j] = nextIndex[j]
      BY <1>3 DEF leaderVars, TypeOK, Leader, Candidate
    <3> QED
      BY <1>1, <2>1, <3>1, NextsStay
  <2>5. CommitsTrue' /\ AppliedTrue'
    BY <1>1, <2>1, CommitsStay
  <2> QED
    BY <2>1, <2>2, <2>3, <2>4, <2>5
       DEF PairStep, IndexesTrue, IsRequest, IsGrant, IsAppend, IsSuccess
<1> QED
  BY <1>2, <1>3 DEF StartElection

LEMMA HeartbeatPair ==
  ASSUME TypeOK, TypeOK', VoteInv, VoteStep, PairInv, NEW i \in Node, Heartbeat(i)
  PROVE  PairStep
<1>1. UNCHANGED <<log, commitIndex, lastApplied, peers, role, nextIndex, matchIndex>>
  BY DEF Heartbeat, logVars, leaderVars, termVars
<1>2. LogsGrow /\ GrowthHeld /\ LogsNest' /\ TermsRise'
  BY <1>1, QuietPair
<1>3. ASSUME NEW m \in messages', m \notin messages
      PROVE  /\ m.type = "APPEND_ENTRIES"
             /\ AppendTrue(m)'
  <2>1. PICK p \in peers[i] :
          m = AppendMsg(i, p, currentTerm[i], log[i], nextIndex[i][p], commitIndex[i])
    BY <1>3 DEF Heartbeat, Send
  <2>2. /\ nextIndex[i][p] \in Nat \ {0} /\ nextIndex[i][p] <= Len(log[i]) + 1
        /\ currentTerm[i] \in Nat
    BY DEF Heartbeat, PairInv, IndexesTrue, NextsTrue, TypeOK, VoteInv
  <2>3. log[i] \in Seq(Entry) /\ \A q \in 1..Len(log[i]) : log[i][q].term <= currentTerm[i]
    BY LogsTyped DEF PairInv, TermsRise
  <2>4. /\ Holds(log[i], m.prevLogIndex, m.entries)
        /\ \A k \in 1..Len(m.entries) : m.entries[k].term <= m.term
        /\ m.leaderCommit = commitIndex[i]
    BY <2>1, <2>2, <2>3, AppendMsgHolds
  <2>5. \A j \in Node : m.leaderCommit <= Len(log[j])
    BY <2>4 DEF PairInv, IndexesTrue, CommitsTrue
  <2>6. m.type = "APPEND_ENTRIES"
    BY <2>1 DEF AppendMsg
  <2> QED
    BY <1>1, <2>4, <2>5, <2>6 DEF AppendTrue
<1>4. MatchesTrue' /\ NextsTrue' /\ CommitsTrue' /\ AppliedTrue'
  BY <1>1, <1>2, MatchesStay, NextsStay, CommitsStay
<1> QED
  BY <1>2, <1>3, <1>4 DEF PairStep, IndexesTrue, IsRequest, IsGrant, IsAppend, IsSuccess

LEMMA AlonePeers ==
  ASSUME VoteInv, NEW i \in Node, peers[i] = {}
  PROVE  Node = {i}
BY DEF VoteInv

\* A leader's new entry lies beyond every log.
LEMMA AppendNests ==
  ASSUME TypeOK, PairInv, NEW i \in Node, Longest(i), NEW e \in Entry, e.term = currentTerm[i],
         NEW lg, lg = Append(log[i], e), log' = [log EXCEPT ![i] = lg],
         currentTerm' = currentTerm, role[i] = Leader
  PROVE  /\ lg \in Seq(Entry) /\ Len(lg) = Len(log[i]) + 1
         /\ LogsGrow /\ GrowthHeld /\ LogsNest' /\ TermsRise'
         /\ \A q \in 1..Len(lg) : lg[q].term <= currentTerm[i]
<1>1. log[i] \in Seq(Entry) /\ Len(log[i]) \in Nat
  BY LogsTyped
<1>2. lg \in Seq(Entry) /\ Len(lg) = Len(log[i]) + 1
      /\ \A q \in 1..Len(log[i]) : lg[q] = log[i][q]
      /\ lg[Len(log[i]) + 1] = e
  BY <1>1, AppendProperties
<1>3. \A j \in Node : log'[j] = IF j = i THEN lg ELSE log[j]
  BY DEF TypeOK
<1>4. \A j \in Node : Len(log[j]) \in Nat /\ Len(log[j]) <= Len(log[i])
  BY LogsTyped DEF Longest
<1>5. LogsGrow /\ GrowthHeld
  BY <1>1, <1>2, <1>3, <1>4 DEF LogsGrow, GrowthHeld
<1>6. LogsNest'
  <2> SUFFICES ASSUME NEW j \in Node, NEW k \in Node, NEW q \in 1..Len(log'[j]),
                      q <= Len(log'[k])
               PROVE  log'[j][q] = log'[k][q]
    BY DEF LogsNest
  <2>1. CASE j = k
    BY <2>1
  <2>2. CASE j # k
    <3>1. q \in 1..Len(log[j]) /\ q <= Len(log[k]) /\ q \in 1..Len(log[i])
      BY <1>2, <1>3, <1>4, <2>2
    <3>2. log[j][q] = log[k][q]
      BY <3>1 DEF PairInv, LogsNest
    <3> QED
      BY <1>2, <1>3, <3>1, <3>2
  <2> QED
    BY <2>1, <2>2
<1>7. currentTerm[i] \in Nat /\ \A q \in 1..Len(log[i]) :
        /\ log[i][q].term \in Nat /\ log[i][q].term <= currentTerm[i]
        /\ \A r \in 1..Len(log[i]) : q <= r => log[i][q].term <= log[i][r].term
  BY LogsTyped DEF TypeOK, PairInv, TermsRise
<1>8. ASSUME NEW q \in 1..Len(lg)
      PROVE  /\ lg[q].term <= currentTerm[i]
             /\ \A r \in 1..Len(lg) : q <= r => lg[q].term <= lg[r].term
  <2>1. \A r \in 1..Len(lg) : r \in 1..Len(log[i]) \/ r = Len(log[i]) + 1
    BY <1>1, <1>2
  <2>2. lg[q].term <= currentTerm[i]
    BY <1>2, <1>7, <2>1
  <2>3. ASSUME NEW r \in 1..Len(lg), q <= r PROVE lg[q].term <= lg[r].term
    <3>1. CASE r = Len(log[i]) + 1
      BY <1>2, <2>2, <3>1
    <3>2. CASE r \in 1..Len(log[i])
      <4>1. q \in 1..Len(log[i])
        BY <1>1, <2>3, <3>2
      <4> QED
        BY <1>2, <1>7, <2>3, <3>2, <4>1
    <3> QED
      BY <2>1, <3>1, <3>2
  <2> QED
    BY <2>2, <2>3
<1>9. TermsRise'
  <2> SUFFICES ASSUME NEW j \in Node, NEW q \in 1..Len(log'[j])
               PROVE  /\ log'[j][q].term <= currentTerm[j]
                      /\ \A r \in 1..Len(log'[j]) : q <= r => log'[j][q].term <= log'[j][r].term
    BY DEF TermsRise
  <2>1. CASE j = i
    <3>1. log'[j] = lg
      BY <1>3, <2>1
    <3> QED
      BY <1>8, <2>1, <3>1
  <2>2. CASE j # i
    <3>1. log'[j] = log[j]
      BY <1>3, <2>2
    <3> QED
      BY <3>1 DEF PairInv, TermsRise
  <2> QED
    BY <2>1, <2>2
<1> QED
  BY <1>2, <1>5, <1>6, <1>8, <1>9

LEMMA ProposePair ==
  ASSUME TypeOK, TypeOK', VoteInv, VoteStep, PairInv, Cardinality(Node) <= 2,
         NEW i \in Node, NEW v \in Value, Propose(i, v)
  PROVE  PairStep
<1> DEFINE e      == [term |-> currentTerm[i], cmd |-> v]
           newLog == Append(log[i], e)
<1>1. /\ role[i] = Leader /\ log' = [log EXCEPT ![i] = newLog]
      /\ UNCHANGED <<currentTerm, role, nextIndex, matchIndex, peers>>
  BY DEF Propose, termVars, leaderVars
<1>2. \/ /\ peers[i] = {} /\ messages' = messages
         /\ commitIndex' = [commitIndex EXCEPT ![i] = Len(newLog)]
         /\ lastApplied' = [lastApplied EXCEPT ![i] = AppliedUpTo(newLog, @, Len(newLog))]
      \/ /\ UNCHANGED <<commitIndex, lastApplied>>
         /\ Send({AppendMsg(i, p, currentTerm[i], newLog, nextIndex[i][p], commitIndex[i])
                    : p \in peers[i]})
  BY DEF Propose
<1>3. e \in Entry /\ e.term = currentTerm[i]
  BY DEF TypeOK, Entry
<1>4. Longest(i)
  BY <1>1, LeaderLongest
<1> HIDE DEF e
<1>5. newLog = Append(log[i], e)
  OBVIOUS
<1> HIDE DEF newLog
<1>6. /\ newLog \in Seq(Entry) /\ Len(newLog) = Len(log[i]) + 1
      /\ LogsGrow /\ GrowthHeld /\ LogsNest' /\ TermsRise'
      /\ \A q \in 1..Len(newLog) : newLog[q].term <= currentTerm[i]
  BY <1>1, <1>3, <1>4, <1>5, AppendNests
<1>7. Len(log[i]) \in Nat /\ log'[i] = newLog
  BY <1>1, LogsTyped DEF TypeOK
<1>8. MatchesTrue' /\ NextsTrue'
  BY <1>1, <1>6, MatchesStay, NextsStay
<1>9. CASE /\ peers[i] = {} /\ messages' = messages
           /\ commitIndex' = [commitIndex EXCEPT ![i] = Len(newLog)]
           /\ lastApplied' = [lastApplied EXCEPT ![i] = AppliedUpTo(newLog, @, Len(newLog))]
  <2>1. \A j \in Node : j = i
    BY <1>9, AlonePeers
  <2>2. /\ commitIndex'[i] = Len(newLog)
        /\ lastApplied'[i] = AppliedUpTo(newLog, lastApplied[i], Len(newLog))
    BY <1>9 DEF TypeOK
  <2>3. /\ lastApplied[i] \in Nat /\ lastApplied[i] <= Len(log[i])
    BY DEF TypeOK, PairInv, IndexesTrue, AppliedTrue, CommitsTrue
  <2>4. lastApplied'[i] <= Len(newLog)
    <3>1. Len(newLog) \in Nat
      BY <1>6, <1>7
    <3>2. \/ lastApplied'[i] = lastApplied[i]
          \/ lastApplied'[i] <= Len(newLog)
      BY <2>2, <2>3, <3>1, AppliedUpToBounds
    <3> QED
      BY <1>6, <1>7, <2>3, <3>1, <3>2
  <2>5. CommitsTrue' /\ AppliedTrue'
    BY <1>6, <1>7, <2>1, <2>2, <2>4 DEF CommitsTrue, AppliedTrue
  <2> QED
    BY <1>6, <1>8, <1>9, <2>5 DEF PairStep, IndexesTrue
<1>10. CASE /\ UNCHANGED <<commitIndex, lastApplied>>
            /\ Send({AppendMsg(i, p, currentTerm[i], newLog, nextIndex[i][p], commitIndex[i])
                       : p \in peers[i]})
  <2>1. CommitsTrue' /\ AppliedTrue'
    BY <1>6, <1>10, CommitsStay
  <2>2. ASSUME NEW m \in messages', m \notin messages
        PROVE  /\ m.type = "APPEND_ENTRIES"
               /\ AppendTrue(m)'
    <3>1. PICK p \in peers[i] :
            m = AppendMsg(i, p, currentTerm[i], newLog, nextIndex[i][p], commitIndex[i])
      BY <1>10, <2>2 DEF Send
    <3>2. /\ nextIndex[i][p] \in Nat \ {0} /\ nextIndex[i][p] <= Len(log[i]) + 1
          /\ currentTerm[i] \in Nat
      BY <1>1 DEF PairInv, IndexesTrue, NextsTrue, TypeOK, VoteInv
    <3>3. nextIndex[i][p] <= Len(newLog) + 1
      BY <1>6, <1>7, <3>2
    <3>4. /\ Holds(newLog, m.prevLogIndex, m.entries)
          /\ \A k \in 1..Len(m.entries) : m.entries[k].term <= m.term
          /\ m.leaderCommit = commitIndex[i]
      <4>1. PICK next \in Nat \ {0} : next = nextIndex[i][p]
        BY <3>2
      <4>2. PICK term \in Nat : term = currentTerm[i]
        BY <3>2
      <4>3. /\ newLog \in Seq(Entry) /\ next <= Len(newLog) + 1
            /\ \A q \in 1..Len(newLog) : newLog[q].term <= term
        BY <1>6, <3>3, <4>1, <4>2
      <4>4. m = AppendMsg(i, p, term, newLog, next, commitIndex[i])
        BY <3>1, <4>1, <4>2
      <4> QED
        BY <4>3, <4>4, AppendMsgHolds
    <3>5. \A j \in Node : m.leaderCommit <= Len(log'[j])
      BY <1>10, <2>1, <3>4 DEF CommitsTrue
    <3>6. m.type = "APPEND_ENTRIES"
      BY <3>1 DEF AppendMsg
    <3> QED
      BY <1>7, <3>4, <3>5, <3>6 DEF AppendTrue
  <2> QED
    BY <1>6, <1>8, <2>1, <2>2
       DEF PairStep, IndexesTrue, IsRequest, IsGrant, IsAppend, IsSuccess
<1> QED
  BY <1>2, <1>9, <1>10

\* handleRequestVote(): a log that is as up to date as the voter's is as long.
LEMMA UpToDateIsAsLong ==
  ASSUME TypeOK, VoteInv, PairInv, NEW m \in messages, IsRequest(m), LogUpToDate(m)
  PROVE  Len(log[m.to]) <= Len(log[m.from])
<1>1. m.from \in Node /\ m.to \in Node /\ m.lastLogIndex \in Nat /\ m.lastLogTerm \in Nat
  BY MessageFields DEF TypeOK, Message, IsRequest
<1>2. /\ m.lastLogIndex <= Len(log[m.from])
      /\ m.lastLogTerm = TermAt(log[m.from], m.lastLogIndex)
  BY DEF PairInv, MessagesTrue, RequestTrue
<1> DEFINE lg == log[m.to]
           n  == m.lastLogIndex
<1>3. Len(lg) \in Nat /\ Len(log[m.from]) \in Nat
      /\ \A q \in 1..Len(lg) : lg[q].term \in Nat
  BY <1>1, LogsTyped
<1> SUFFICES ASSUME ~(Len(lg) <= n) PROVE FALSE
  BY <1>1, <1>2, <1>3
<1>4. lg # <<>> /\ Len(lg) \in 1..Len(lg)
  BY <1>1, <1>3, EmptySeq
<1>5. LastTerm(lg) = lg[Len(lg)].term
  BY <1>4 DEF LastTerm
<1>6. CASE n = 0
  <2>1. m.lastLogTerm = 0
    BY <1>2, <1>6 DEF TermAt
  <2> QED
    BY <1>1, <1>3, <1>4, <1>5, <1>6, <2>1 DEF LogUpToDate
<1>7. CASE n # 0
  <2>1. n \in 1..Len(log[m.from]) /\ n \in 1..Len(lg) /\ n <= Len(lg)
    BY <1>1, <1>2, <1>3, <1>7
  <2>2. m.lastLogTerm = log[m.from][n].term
    BY <1>2, <2>1 DEF TermAt
  <2>3. log[m.from][n] = lg[n]
    BY <1>1, <2>1 DEF PairInv, LogsNest
  <2>4. lg[n].term <= lg[Len(lg)].term
    BY <1>1, <1>4, <2>1 DEF PairInv, TermsRise
  <2> QED
    BY <1>1, <1>3, <1>4, <1>5, <2>1, <2>2, <2>3, <2>4 DEF LogUpToDate
<1> QED
  BY <1>6, <1>7

\* The handlers that leave logs, indexes and leaders alone.
LEMMA QuietIndexes ==
  ASSUME TypeOK, TypeOK', VoteInv, VoteStep, PairInv,
         UNCHANGED <<log, commitIndex, lastApplied, matchIndex, nextIndex, peers>>,
         \A i \in Node : role'[i] = Leader => role[i] = Leader
  PROVE  /\ LogsGrow /\ GrowthHeld /\ LogsNest' /\ TermsRise'
         /\ IndexesTrue'
<1>1. LogsGrow /\ GrowthHeld /\ LogsNest' /\ TermsRise'
  BY QuietPair
<1>2. MatchesTrue'
  BY <1>1, MatchesStay
<1>3. NextsTrue'
  BY <1>1, NextsStay
<1>4. CommitsTrue' /\ AppliedTrue'
  BY <1>1, CommitsStay
<1> QED
  BY <1>1, <1>2, <1>3, <1>4 DEF IndexesTrue

LEMMA HandleRequestVotePair ==
  ASSUME TypeOK, TypeOK', VoteInv, VoteStep, PairInv, NEW m \in messages, HandleRequestVote(m)
  PROVE  PairStep
<1>1. /\ m.to \in Node /\ ObserveTerm(m) /\ role' = [role EXCEPT ![m.to] = RoleAfter(m)]
      /\ UNCHANGED <<log, commitIndex, lastApplied, matchIndex, nextIndex, peers>>
  BY PrologueType DEF HandleRequestVote, logVars, leaderVars
<1>2. RolesKept
  BY <1>1, PrologueRoles
<1>3. \A i \in Node : role'[i] = Leader => role[i] = Leader
  BY <1>2 DEF RolesKept, Leader, Follower
<1>4. /\ LogsGrow /\ GrowthHeld /\ LogsNest' /\ TermsRise'
      /\ IndexesTrue'
  BY <1>1, <1>3, QuietIndexes
<1>5. ASSUME NEW g \in messages', g \notin messages
      PROVE  /\ g.type = "REQUEST_VOTE_REPLY"
             /\ IsGrant(g) => GrantTrue(g)'
  <2>1. /\ g.type = "REQUEST_VOTE_REPLY" /\ g.from = m.to /\ g.to = m.from
        /\ g.voteGranted = GrantsVote(m)
    BY <1>5 DEF HandleRequestVote, Send
  <2>2. ASSUME IsGrant(g) PROVE GrantTrue(g)'
    <3>1. LogUpToDate(m)
      BY <2>1, <2>2 DEF IsGrant, GrantsVote
    <3>2. Len(log[m.to]) <= Len(log[m.from])
      BY <3>1, UpToDateIsAsLong DEF HandleRequestVote, IsRequest
    <3> QED
      BY <1>1, <2>1, <3>2 DEF GrantTrue
  <2> QED
    BY <2>1, <2>2
<1> QED
  BY <1>4, <1>5 DEF PairStep, IsRequest, IsAppend, IsSuccess

LEMMA HandleRequestVoteReplyPair ==
  ASSUME TypeOK, TypeOK', VoteInv, VoteStep, PairInv, NEW m \in messages,
         HandleRequestVoteReply(m)
  PROVE  PairStep
<1>1. /\ m.to \in Node /\ m.term \in Nat /\ ObserveTerm(m)
      /\ UNCHANGED <<log, commitIndex, lastApplied, peers>>
  BY PrologueType, MessageFields DEF HandleRequestVoteReply, logVars, TypeOK
<1>2. CASE CountsVote(m) /\ BecomeLeader(m.to, m.term)
  <2>1. m.term >= currentTerm[m.to] /\ currentTerm[m.to] \in Nat
    BY <1>1, <1>2 DEF CountsVote, TermAfter, NewerTerm, TypeOK
  <2>2. \A q \in 1..Len(log[m.to]) : log[m.to][q].term <= m.term
    <3> SUFFICES ASSUME NEW q \in 1..Len(log[m.to]) PROVE log[m.to][q].term <= m.term
      OBVIOUS
    <3>1. log[m.to][q].term \in Nat /\ log[m.to][q].term <= currentTerm[m.to]
      BY <1>1, LogsTyped DEF PairInv, TermsRise
    <3> QED
      BY <1>1, <2>1, <3>1
  <2> QED
    BY <1>1, <1>2, <2>2, BecomeLeaderPair
<1>3. CASE /\ messages' = messages /\ UNCHANGED leaderVars
           /\ role' = role \/ role' = [role EXCEPT ![m.to] = RoleAfter(m)]
  <2>1. \A i \in Node : role'[i] = Leader => role[i] = Leader
    <3>1. CASE role' = role
      BY <3>1
    <3>2. CASE role' = [role EXCEPT ![m.to] = RoleAfter(m)]
      BY <1>1, <3>2, PrologueRoles DEF RolesKept, Leader, Follower
    <3> QED
      BY <1>3, <3>1, <3>2
  <2>2. /\ LogsGrow /\ GrowthHeld /\ LogsNest' /\ TermsRise'
        /\ IndexesTrue'
    BY <1>1, <1>3, <2>1, QuietIndexes DEF leaderVars
  <2> QED
    BY <1>3, <2>2 DEF PairStep
<1> QED
  BY <1>2, <1>3 DEF HandleRequestVoteReply

\* handleAppendEntries(): what it merges stands in a log that agrees with its own,
\* so nothing is cut.
LEMMA MergeNests ==
  ASSUME TypeOK, VoteStep, PairInv, NEW m \in messages, IsAppend(m), PrevEntryMatches(m),
         m.to \in Node, currentTerm'[m.to] >= m.term, TypeOK',
         NEW r, r = MergeEntries(log[m.to], m.prevLogIndex, m.entries),
         log' = [log EXCEPT ![m.to] = r]
  PROVE  r \in Seq(Entry) /\ LogsGrow /\ GrowthHeld /\ LogsNest' /\ TermsRise'
<1> DEFINE i    == m.to
           lg   == log[i]
           prev == m.prevLogIndex
           es   == m.entries
<1>1. prev \in Nat /\ es \in Seq(Entry) /\ Len(es) \in Nat /\ m.term \in Nat
  BY MessageFields, LenProperties DEF TypeOK, Message, IsAppend
<1>2. lg \in Seq(Entry) /\ Len(lg) \in Nat
  BY LogsTyped
<1>3. prev <= Len(lg)
  BY <1>1, <1>2 DEF PrevEntryMatches
<1>4. PICK k \in Node : Holds(log[k], prev, es)
  BY DEF PairInv, MessagesTrue, AppendTrue
<1>5. Len(log[k]) \in Nat /\ prev + Len(es) <= Len(log[k])
      /\ \A x \in 1..Len(es) : es[x] = log[k][prev + x]
  BY <1>4, LogsTyped DEF Holds
<1>6. \A x \in 1..Len(es) : prev + x <= Len(lg) => lg[prev + x] = es[x]
  <2> SUFFICES ASSUME NEW x \in 1..Len(es), prev + x <= Len(lg) PROVE lg[prev + x] = es[x]
    OBVIOUS
  <2>1. prev + x \in 1..Len(lg) /\ prev + x <= Len(log[k])
    BY <1>1, <1>2, <1>5
  <2>2. lg[prev + x] = log[k][prev + x]
    BY <2>1 DEF PairInv, LogsNest
  <2> QED
    BY <1>5, <2>2
<1> HIDE DEF lg, prev, es
<1>7. r = MergeEntries(lg, prev, es)
  BY DEF lg, prev, es
<1>8. /\ r \in Seq(Entry) /\ Len(r) >= Len(lg)
      /\ \A q \in 1..Len(lg) : r[q] = lg[q]
      /\ r # lg => Len(r) = prev + Len(es)
      /\ \A q \in 1..Len(r) : q > Len(lg) => r[q] = es[q - prev] /\ q - prev \in 1..Len(es)
  BY <1>1, <1>2, <1>3, <1>6, <1>7, MergeKeeps
<1>9. Len(r) \in Nat /\ \A q \in 1..Len(r) : r[q].term \in Nat
  <2>1. Len(r) \in Nat
    BY <1>8, LenProperties
  <2>2. \A q \in 1..Len(r) : r[q] \in Entry
    BY <1>8, <2>1, ElementOfSeq
  <2> QED
    BY <2>1, <2>2 DEF Entry
<1>10. \A j \in Node : log'[j] = IF j = i THEN r ELSE log[j]
  BY DEF TypeOK, i
<1>11. \A j \in Node : Len(log[j]) \in Nat
  BY LogsTyped
<1>12. LogsGrow /\ GrowthHeld
  <2>1. Len(r) > Len(lg) => Len(r) <= Len(log[k])
    BY <1>1, <1>2, <1>5, <1>8, <1>9
  <2>2. LogsGrow
    BY <1>8, <1>10, <1>11 DEF LogsGrow, lg
  <2>3. GrowthHeld
    BY <1>10, <1>11, <2>1 DEF GrowthHeld, lg
  <2> QED
    BY <2>2, <2>3
\* Every entry of every log after the step stands in a log before it.
<1>13. \A q \in 1..Len(r) : \/ q \in 1..Len(lg) /\ r[q] = lg[q]
                            \/ q \in 1..Len(log[k]) /\ r[q] = log[k][q] /\ r[q].term <= m.term
  <2> SUFFICES ASSUME NEW q \in 1..Len(r), ~(q \in 1..Len(lg))
               PROVE  q \in 1..Len(log[k]) /\ r[q] = log[k][q] /\ r[q].term <= m.term
    BY <1>8
  <2>1. q > Len(lg)
    BY <1>2, <1>9
  <2>2. r[q] = es[q - prev] /\ q - prev \in 1..Len(es)
    BY <1>8, <2>1
  <2>3. prev + (q - prev) = q /\ q \in 1..Len(log[k])
    BY <1>1, <1>5, <1>9, <2>2
  <2>4. es[q - prev] = log[k][prev + (q - prev)]
    BY <1>5, <2>2
  <2>5. es[q - prev].term <= m.term
    BY <2>2 DEF PairInv, MessagesTrue, AppendTrue, es
  <2> QED
    BY <2>2, <2>3, <2>4, <2>5
<1>14. \A j \in Node : \A q \in 1..Len(log'[j]) :
         \E h \in Node : q \in 1..Len(log[h]) /\ log'[j][q] = log[h][q]
  <2> SUFFICES ASSUME NEW j \in Node, NEW q \in 1..Len(log'[j])
               PROVE  \E h \in Node : q \in 1..Len(log[h]) /\ log'[j][q] = log[h][q]
    OBVIOUS
  <2>1. CASE j = i
    <3>1. log'[j] = r /\ lg = log[i] /\ i \in Node
      BY <1>10, <2>1 DEF lg, i
    <3> QED
      BY <1>13, <3>1
  <2>2. CASE j # i
    BY <1>10, <2>2
  <2> QED
    BY <2>1, <2>2
<1>15. LogsNest'
  <2> SUFFICES ASSUME NEW j \in Node, NEW x \in Node, NEW q \in 1..Len(log'[j]),
                      q <= Len(log'[x])
               PROVE  log'[j][q] = log'[x][q]
    BY DEF LogsNest
  <2>1. q \in 1..Len(log'[x])
    <3>1. Len(log'[x]) \in Nat
      BY <1>9, <1>10, <1>11
    <3> QED
      BY <3>1
  <2>2. PICK h \in Node : q \in 1..Len(log[h]) /\ log'[j][q] = log[h][q]
    BY <1>14
  <2>3. PICK y \in Node : q \in 1..Len(log[y]) /\ log'[x][q] = log[y][q]
    BY <1>14, <2>1
  <2>4. q <= Len(log[y])
    BY <1>11, <2>3
  <2>5. log[h][q] = log[y][q]
    BY <2>2, <2>4 DEF PairInv, LogsNest
  <2> QED
    BY <2>2, <2>3, <2>5
<1>16. TermsRise'
  <2> SUFFICES ASSUME NEW j \in Node, NEW q \in 1..Len(log'[j])
               PROVE  /\ log'[j][q].term <= currentTerm'[j]
                      /\ \A x \in 1..Len(log'[j]) : q <= x => log'[j][q].term <= log'[j][x].term
    BY DEF TermsRise
  <2>1. /\ currentTerm'[j] >= currentTerm[j]
        /\ currentTerm[j] \in Nat /\ currentTerm'[j] \in Nat
    BY DEF VoteStep, TypeOK
  <2>2. log'[j][q].term <= currentTerm'[j]
    <3>1. \A y \in 1..Len(log[j]) : /\ log[j][y].term <= currentTerm[j]
                                    /\ log[j][y].term \in Nat
      BY LogsTyped DEF PairInv, TermsRise
    <3>2. CASE j = i
      <4>1. log'[j] = r /\ lg = log[j]
        BY <1>10, <3>2 DEF lg
      <4>2. CASE q \in 1..Len(lg) /\ r[q] = lg[q]
        BY <2>1, <3>1, <4>1, <4>2
      <4>3. CASE r[q].term <= m.term
        <5>1. r[q].term \in Nat
          BY <1>9, <4>1
        <5>2. currentTerm'[j] >= m.term
          BY <3>2 DEF i
        <5> QED
          BY <1>1, <2>1, <4>1, <4>3, <5>1, <5>2
      <4> QED
        BY <1>13, <4>1, <4>2, <4>3
    <3>3. CASE j # i
      <4>1. log'[j] = log[j]
        BY <1>10, <3>3
      <4> QED
        BY <2>1, <3>1, <4>1
    <3> QED
      BY <3>2, <3>3
  <2>3. ASSUME NEW x \in 1..Len(log'[j]), q <= x
        PROVE  log'[j][q].term <= log'[j][x].term
    <3>1. PICK h \in Node : x \in 1..Len(log[h]) /\ log'[j][x] = log[h][x]
      BY <1>14
    <3>2. PICK y \in Node : q \in 1..Len(log[y]) /\ log'[j][q] = log[y][q]
      BY <1>14
    <3>3. q \in 1..Len(log[h]) /\ q <= Len(log[h])
      BY <1>11, <2>3, <3>1, <3>2
    <3>4. log[y][q] = log[h][q]
      BY <3>2, <3>3 DEF PairInv, LogsNest
    <3>5. log[h][q].term <= log[h][x].term
      BY <2>3, <3>1, <3>3 DEF PairInv, TermsRise
    <3> QED
      BY <3>1, <3>2, <3>4, <3>5
  <2> QED
    BY <2>2, <2>3
<1> QED
  BY <1>8, <1>12, <1>15, <1>16

LEMMA HandleAppendEntriesPair ==
  ASSUME TypeOK, TypeOK', VoteInv, VoteStep, PairInv, NEW m \in messages,
         HandleAppendEntries(m)
  PROVE  PairStep
<1>1. /\ m.to \in Node /\ m.term \in Nat /\ ObserveTerm(m) /\ m.type = "APPEND_ENTRIES"
      /\ UNCHANGED <<matchIndex, nextIndex, peers>>
  BY PrologueType, MessageFields DEF HandleAppendEntries, leaderVars, TypeOK
<1>2. \A i \in Node : role'[i] = Leader => role[i] = Leader /\ nextIndex'[i] = nextIndex[i]
  BY <1>1, HandleAppendEntriesRoles DEF RolesKept, Leader, Follower
<1>3. CASE /\ UNCHANGED logVars
           /\ Send({AppendReply(m, TermAfter(m), FALSE, log[m.to])})
  <2>1. /\ LogsGrow /\ GrowthHeld /\ LogsNest' /\ TermsRise'
        /\ IndexesTrue'
    BY <1>1, <1>2, <1>3, QuietIndexes DEF logVars
  <2>2. \A k \in messages' : k \notin messages =>
          k.type = "APPEND_ENTRIES_REPLY" /\ k.success = FALSE
    BY <1>3 DEF Send, AppendReply
  <2> QED
    BY <2>1, <2>2 DEF PairStep, IsRequest, IsGrant, IsAppend, IsSuccess
<1>4. CASE m.term >= TermAfter(m) /\ PrevEntryMatches(m) /\ AcceptEntries(m)
  <2> DEFINE i == m.to
             r == MergeEntries(log[i], m.prevLogIndex, m.entries)
             commit == CommitAfter(m, r)
  <2>1. /\ log' = [log EXCEPT ![i] = r]
        /\ commitIndex' = [commitIndex EXCEPT ![i] = commit]
        /\ lastApplied' = [lastApplied EXCEPT ![i] =
             IF m.leaderCommit > commitIndex[i] THEN AppliedUpTo(r, @, commit) ELSE @]
        /\ \A k \in messages' : k \notin messages => k = AppendReply(m, TermAfter(m), TRUE, r)
    BY <1>4 DEF AcceptEntries, Send
  <2>2. r = MergeEntries(log[m.to], m.prevLogIndex, m.entries)
    OBVIOUS
  <2>3. currentTerm'[m.to] >= m.term
    BY <1>1, <1>4 DEF ObserveTerm, TermAfter, NewerTerm, TypeOK
  <2> HIDE DEF r
  <2>4. r \in Seq(Entry) /\ LogsGrow /\ GrowthHeld /\ LogsNest' /\ TermsRise'
    BY <1>1, <1>4, <2>1, <2>2, <2>3, MergeNests DEF IsAppend
  <2>5. MatchesTrue' /\ NextsTrue'
    BY <1>1, <1>2, <2>4, MatchesStay, NextsStay
  <2>6. Len(r) \in Nat /\ log'[i] = r
    BY <1>1, <2>1, <2>4, LenProperties DEF TypeOK
  <2>7. /\ m.leaderCommit \in Nat /\ commitIndex[i] \in Nat /\ lastApplied[i] \in Nat
        /\ lastApplied[i] <= commitIndex[i]
    BY <1>1, MessageFields DEF TypeOK, Message, PairInv, IndexesTrue, AppliedTrue
  <2>8. /\ commit \in Nat /\ commit >= commitIndex[i]
        /\ commit <= m.leaderCommit \/ commit = commitIndex[i]
    <3>1. CASE m.leaderCommit > commitIndex[i]
      <4>1. commitIndex[i] <= Len(log'[i])
        <5>1. commitIndex[i] <= Len(log[i]) /\ Len(log[i]) <= Len(log'[i])
              /\ Len(log[i]) \in Nat
          BY <1>1, <2>4, LogsTyped DEF PairInv, IndexesTrue, CommitsTrue, LogsGrow
        <5> QED
          BY <2>6, <2>7, <5>1
      <4>2. commit = IF m.leaderCommit < Len(r) THEN m.leaderCommit ELSE Len(r)
        BY <3>1 DEF CommitAfter, SmallerOf
      <4> HIDE DEF commit
      <4> QED
        BY <2>6, <2>7, <3>1, <4>1, <4>2
    <3>2. CASE ~(m.leaderCommit > commitIndex[i])
      <4>1. commit = commitIndex[i]
        BY <3>2 DEF CommitAfter
      <4> QED
        BY <2>7, <4>1
    <3> QED
      BY <3>1, <3>2
  <2> HIDE DEF commit
  <2>9. CommitsTrue'
    <3> SUFFICES ASSUME NEW j \in Node, NEW k \in Node PROVE commitIndex'[j] <= Len(log'[k])
      BY DEF CommitsTrue
    <3>1. /\ Len(log[k]) \in Nat /\ Len(log'[k]) \in Nat /\ Len(log[k]) <= Len(log'[k])
      BY <2>4, LenProperties DEF TypeOK, LogsGrow
    <3>2. /\ commitIndex[j] \in Nat /\ commitIndex[j] <= Len(log[k])
          /\ m.leaderCommit <= Len(log[k])
      BY <1>1 DEF TypeOK, PairInv, IndexesTrue, CommitsTrue, MessagesTrue, AppendTrue, IsAppend
    <3>3. commitIndex'[j] = IF j = i THEN commit ELSE commitIndex[j]
      BY <2>1 DEF TypeOK
    <3> QED
      BY <2>7, <2>8, <3>1, <3>2, <3>3
  <2>10. AppliedTrue'
    <3> SUFFICES ASSUME NEW j \in Node PROVE lastApplied'[j] <= commitIndex'[j]
      BY DEF AppliedTrue
    <3>1. CASE j # i
      <4>1. lastApplied'[j] = lastApplied[j] /\ commitIndex'[j] = commitIndex[j]
        BY <2>1, <3>1 DEF TypeOK
      <4> QED
        BY <4>1 DEF PairInv, IndexesTrue, AppliedTrue
    <3>2. CASE j = i
      <4>1. commitIndex'[i] = commit
        BY <1>1, <2>1 DEF TypeOK
      <4>2. \/ lastApplied'[i] = lastApplied[i]
            \/ lastApplied'[i] = AppliedUpTo(r, lastApplied[i], commit)
        BY <1>1, <2>1 DEF TypeOK
      <4>3. CASE lastApplied'[i] = lastApplied[i]
        BY <2>7, <2>8, <3>2, <4>1, <4>3
      <4>4. CASE lastApplied'[i] = AppliedUpTo(r, lastApplied[i], commit)
        <5>1. \/ lastApplied'[i] = lastApplied[i]
              \/ lastApplied'[i] <= commit
          BY <2>7, <2>8, <4>4, AppliedUpToBounds
        <5> QED
          BY <2>7, <2>8, <3>2, <4>1, <5>1
      <4> QED
        BY <4>2, <4>3, <4>4
    <3> QED
      BY <3>1, <3>2
  <2>11. ASSUME NEW k \in messages', k \notin messages
         PROVE  k.type = "APPEND_ENTRIES_REPLY" /\ SuccessTrue(k)'
    <3>1. k.type = "APPEND_ENTRIES_REPLY" /\ k.from = m.to /\ k.matchIndex = Len(r)
      BY <2>1, <2>11 DEF AppendReply
    <3> QED
      BY <2>6, <3>1 DEF SuccessTrue
  <2> QED
    BY <2>4, <2>5, <2>9, <2>10, <2>11
       DEF PairStep, IndexesTrue, IsRequest, IsGrant, IsAppend, IsSuccess
<1> QED
  BY <1>3, <1>4 DEF HandleAppendEntries, logVars

\* checkAndAdvanceCommitIndex(): of two nodes, a quorum is both.
LEMMA QuorumIsAll ==
  ASSUME VoteInv, Cardinality(Node) <= 2, NEW i \in Node, NEW S \in SUBSET peers[i],
         Cardinality(S) + 1 >= QuorumSize(i)
  PROVE  S = peers[i]
<1>1. /\ IsFiniteSet(peers[i]) /\ Cardinality(peers[i]) = Cardinality(Node) - 1
  BY NodeAssumption, FS_RemoveElement DEF VoteInv
<1>2. Cardinality(Node) \in Nat /\ Cardinality(peers[i]) \in Nat
  BY <1>1, NodeAssumption, FS_CardinalityType
<1>3. IsFiniteSet(S) /\ Cardinality(S) <= Cardinality(peers[i])
      /\ (Cardinality(peers[i]) = Cardinality(S) => S = peers[i])
  BY <1>1, FS_Subset
<1>4. Cardinality(S) \in Nat
  BY <1>3, FS_CardinalityType
<1>5. Cardinality(peers[i]) = 0 \/ Cardinality(peers[i]) = 1
  BY <1>1, <1>2
<1>6. QuorumSize(i) = Cardinality(peers[i]) + 1
  BY <1>5 DEF QuorumSize
<1> QED
  BY <1>2, <1>3, <1>4, <1>6

LEMMA AdvancePair ==
  ASSUME TypeOK, VoteInv, PairInv, Cardinality(Node) <= 2, NEW i \in Node,
         NEW match \in [Node -> Nat], \A p \in Node : match[p] <= Len(log[p]),
         AdvanceCommit(i, match), log' = log
  PROVE  CommitsTrue' /\ AppliedTrue'
<1> DEFINE new == IF Committable(i, match) = {} THEN commitIndex[i]
                                                ELSE Max(Committable(i, match))
<1>1. /\ commitIndex' = [commitIndex EXCEPT ![i] = new]
      /\ lastApplied' = [lastApplied EXCEPT ![i] =
           IF new = commitIndex[i] THEN @ ELSE AppliedUpTo(log[i], lastApplied[i], new)]
  BY DEF AdvanceCommit
<1>2. /\ commitIndex[i] \in Nat /\ lastApplied[i] \in Nat /\ Len(log[i]) \in Nat
      /\ lastApplied[i] <= commitIndex[i]
  BY LogsTyped DEF TypeOK, PairInv, IndexesTrue, AppliedTrue
<1>3. ASSUME NEW n \in Committable(i, match)
      PROVE  /\ n \in Nat /\ n > commitIndex[i] /\ n <= Len(log[i])
             /\ \A j \in Node : n <= Len(log[j])
  <2>1. n \in Nat /\ n > commitIndex[i] /\ n <= Len(log[i])
    BY <1>2 DEF Committable
  <2> DEFINE S == {p \in peers[i] : match[p] >= n}
  <2>2. S \in SUBSET peers[i] /\ Cardinality(S) + 1 >= QuorumSize(i)
    BY DEF Committable
  <2>3. S = peers[i]
    BY <2>2, QuorumIsAll
  <2>4. ASSUME NEW j \in Node PROVE n <= Len(log[j])
    <3>1. CASE j = i
      BY <2>1, <3>1
    <3>2. CASE j # i
      <4>1. match[j] >= n
        BY <2>3, <3>2 DEF VoteInv
      <4>2. match[j] \in Nat /\ match[j] <= Len(log[j]) /\ Len(log[j]) \in Nat
        BY LogsTyped
      <4> QED
        BY <2>1, <4>1, <4>2
    <3> QED
      BY <3>1, <3>2
  <2> QED
    BY <2>1, <2>4
<1>4. /\ new \in Nat /\ new >= commitIndex[i]
      /\ \A j \in Node : new <= Len(log[j])
  <2>1. CASE Committable(i, match) = {}
    <3>1. new = commitIndex[i]
      BY <2>1
    <3> HIDE DEF new
    <3> QED
      BY <1>2, <3>1 DEF PairInv, IndexesTrue, CommitsTrue
  <2>2. CASE Committable(i, match) # {}
    <3>1. Committable(i, match) \in SUBSET Nat
          /\ \A y \in Committable(i, match) : y <= Len(log[i])
      BY <1>3
    <3>2. Max(Committable(i, match)) \in Committable(i, match)
      BY <1>2, <2>2, <3>1, MaxOfBoundedNaturals
    <3>3. new \in Committable(i, match)
      BY <2>2, <3>2
    <3> HIDE DEF new
    <3> QED
      BY <1>2, <1>3, <3>3
  <2> QED
    BY <2>1, <2>2
<1> HIDE DEF new
<1>5. ASSUME NEW j \in Node
      PROVE  /\ commitIndex'[j] = IF j = i THEN new ELSE commitIndex[j]
             /\ lastApplied'[j] = IF j = i /\ new # commitIndex[i]
                                    THEN AppliedUpTo(log[i], lastApplied[i], new)
                                    ELSE lastApplied[j]
  BY <1>1 DEF TypeOK
<1>6. CommitsTrue'
  <2>1. \A j, k \in Node : commitIndex[j] <= Len(log[k])
    BY DEF PairInv, IndexesTrue, CommitsTrue
  <2> QED
    BY <1>4, <1>5, <2>1 DEF CommitsTrue
<1>7. AppliedTrue'
  <2> SUFFICES ASSUME NEW j \in Node PROVE lastApplied'[j] <= commitIndex'[j]
    BY DEF AppliedTrue
  <2>1. CASE j # i
    BY <1>5, <2>1 DEF PairInv, IndexesTrue, AppliedTrue
  <2>2. CASE j = i
    <3>1. \/ AppliedUpTo(log[i], lastApplied[i], new) = lastApplied[i]
          \/ AppliedUpTo(log[i], lastApplied[i], new) <= new
      BY <1>2, <1>4, AppliedUpToBounds
    <3> QED
      BY <1>2, <1>4, <1>5, <2>2, <3>1
  <2> QED
    BY <2>1, <2>2
<1> QED
  BY <1>6, <1>7

LEMMA EntrySet ==
  ASSUME NEW S, NEW f \in [Node -> [Node -> S]], NEW a \in Node, NEW b \in Node, NEW x,
         NEW g, g = [f EXCEPT ![a][b] = x], NEW i \in Node, NEW p \in Node
  PROVE  g[i][p] = IF i = a /\ p = b THEN x ELSE f[i][p]
<1>1. g[i] = IF i = a THEN [f[a] EXCEPT ![b] = x] ELSE f[i]
  OBVIOUS
<1>2. f[a] \in [Node -> S]
  OBVIOUS
<1> QED
  BY <1>1, <1>2

LEMMA HandleAppendEntriesReplyPair ==
  ASSUME TypeOK, TypeOK', VoteInv, VoteStep, PairInv, Cardinality(Node) <= 2,
         NEW m \in messages, HandleAppendEntriesReply(m)
  PROVE  PairStep
<1>1. /\ m.to \in Node /\ m.from \in Node /\ ObserveTerm(m)
      /\ m.type = "APPEND_ENTRIES_REPLY" /\ m.matchIndex \in Nat
      /\ role' = [role EXCEPT ![m.to] = RoleAfter(m)]
      /\ UNCHANGED <<log, peers, messages>>
  BY PrologueType, MessageFields DEF HandleAppendEntriesReply, TypeOK, Message
<1>2. \A i \in Node : role'[i] = Leader => role[i] = Leader
  BY <1>1, PrologueRoles DEF RolesKept, Leader, Follower
<1>3. LogsGrow /\ GrowthHeld /\ LogsNest' /\ TermsRise'
  BY <1>1, QuietPair
<1>4. CASE ~LeaderTakesReply(m)
  <2>1. UNCHANGED <<commitIndex, lastApplied, matchIndex, nextIndex>>
    BY <1>4 DEF HandleAppendEntriesReply, leaderVars
  <2>2. IndexesTrue'
    BY <1>1, <1>2, <2>1, QuietIndexes
  <2> QED
    BY <1>1, <1>3, <2>2 DEF PairStep
<1>5. CASE LeaderTakesReply(m) /\ ~m.success
  <2>1. /\ nextIndex' = [nextIndex EXCEPT ![m.to][m.from] = BackOff(@)]
        /\ UNCHANGED <<matchIndex, commitIndex, lastApplied>>
    BY <1>5 DEF HandleAppendEntriesReply
  <2>2. MatchesTrue' /\ CommitsTrue' /\ AppliedTrue'
    BY <1>3, <2>1, MatchesStay, CommitsStay
  <2>3. NextsTrue'
    <3> SUFFICES ASSUME NEW i \in Node, NEW p \in peers[i], role'[i] = Leader
                 PROVE  nextIndex'[i][p] <= Len(log[i]) + 1
      BY <1>1 DEF NextsTrue
    <3>1. p \in Node
      BY DEF VoteInv
    <3>2. /\ nextIndex[i][p] \in Nat \ {0} /\ nextIndex[i][p] <= Len(log[i]) + 1
          /\ Len(log[i]) \in Nat
      BY <1>2, <3>1, LogsTyped DEF TypeOK, PairInv, IndexesTrue, NextsTrue
    <3>3. nextIndex'[i][p] = nextIndex[i][p] \/ nextIndex'[i][p] = BackOff(nextIndex[i][p])
      <4>1. nextIndex \in [Node -> [Node -> Nat \ {0}]]
        BY DEF TypeOK
      <4>2. nextIndex'[i][p] = IF i = m.to /\ p = m.from THEN BackOff(nextIndex[m.to][m.from])
                                                       ELSE nextIndex[i][p]
        BY <1>1, <2>1, <3>1, <4>1, EntrySet
      <4> QED
        BY <4>2
    <3> QED
      BY <3>2, <3>3 DEF BackOff, LargerOf
  <2> QED
    BY <1>1, <1>3, <2>2, <2>3 DEF PairStep, IndexesTrue
<1>6. CASE LeaderTakesReply(m) /\ m.success
  <2> DEFINE match == [matchIndex[m.to] EXCEPT ![m.from] = m.matchIndex]
  <2>1. /\ nextIndex' = [nextIndex EXCEPT ![m.to][m.from] = m.matchIndex + 1]
        /\ matchIndex' = [matchIndex EXCEPT ![m.to][m.from] = m.matchIndex]
        /\ AdvanceCommit(m.to, match)
    BY <1>6 DEF HandleAppendEntriesReply
  <2>2. m.matchIndex <= Len(log[m.from])
    BY <1>1, <1>6 DEF PairInv, MessagesTrue, SuccessTrue, IsSuccess
  <2>3. \A i, p \in Node : matchIndex[i][p] <= Len(log[p])
    BY DEF PairInv, IndexesTrue, MatchesTrue
  <2>4. match \in [Node -> Nat] /\ \A p \in Node : match[p] <= Len(log[p])
    BY <1>1, <2>2, <2>3 DEF TypeOK
  <2> HIDE DEF match
  <2>5. CommitsTrue' /\ AppliedTrue'
    BY <1>1, <2>1, <2>4, AdvancePair
  <2>6. MatchesTrue'
    <3> SUFFICES ASSUME NEW i \in Node, NEW p \in Node
                 PROVE  matchIndex'[i][p] <= Len(log[p])
      BY <1>1 DEF MatchesTrue
    <3>1. \/ matchIndex'[i][p] = matchIndex[i][p]
          \/ p = m.from /\ matchIndex'[i][p] = m.matchIndex
      <4>1. matchIndex \in [Node -> [Node -> Nat]]
        BY DEF TypeOK
      <4>2. matchIndex'[i][p] = IF i = m.to /\ p = m.from THEN m.matchIndex ELSE matchIndex[i][p]
        BY <1>1, <2>1, <4>1, EntrySet
      <4> QED
        BY <4>2
    <3> QED
      BY <2>2, <2>3, <3>1
  <2>7. Longest(m.to)
    <3>1. role[m.to] = Leader
      BY <1>1, <1>6, PrologueCases DEF LeaderTakesReply, Leader, Follower
    <3> QED
      BY <1>1, <3>1, LeaderLongest
  <2>8. NextsTrue'
    <3> SUFFICES ASSUME NEW i \in Node, NEW p \in peers[i], role'[i] = Leader
                 PROVE  nextIndex'[i][p] <= Len(log[i]) + 1
      BY <1>1 DEF NextsTrue
    <3>1. p \in Node
      BY DEF VoteInv
    <3>2. \/ nextIndex'[i][p] = nextIndex[i][p]
          \/ i = m.to /\ nextIndex'[i][p] = m.matchIndex + 1
      <4>1. nextIndex \in [Node -> [Node -> Nat \ {0}]]
        BY DEF TypeOK
      <4>2. nextIndex'[i][p] = IF i = m.to /\ p = m.from THEN m.matchIndex + 1
                                                       ELSE nextIndex[i][p]
        BY <1>1, <2>1, <3>1, <4>1, EntrySet
      <4> QED
        BY <4>2
    <3>3. nextIndex[i][p] <= Len(log[i]) + 1
      BY <1>2 DEF PairInv, IndexesTrue, NextsTrue
    <3>4. Len(log[m.from]) <= Len(log[m.to])
          /\ Len(log[m.from]) \in Nat /\ Len(log[m.to]) \in Nat
      BY <1>1, <2>7, LogsTyped DEF Longest
    <3> QED
      BY <1>1, <2>2, <3>2, <3>3, <3>4
  <2> QED
    BY <1>1, <1>3, <2>5, <2>6, <2>8 DEF PairStep, IndexesTrue
<1> QED
  BY <1>4, <1>5, <1>6

LEMMA NextPair ==
  ASSUME TypeOK, TypeOK', VoteInv, VoteStep, PairInv, Cardinality(Node) <= 2, [Next]_vars
  PROVE  PairStep
<1>1. ASSUME NEW i \in Node, StartElection(i) PROVE PairStep
  BY <1>1, StartElectionPair
<1>2. ASSUME NEW i \in Node, Heartbeat(i) PROVE PairStep
  BY <1>2, HeartbeatPair
<1>3. ASSUME NEW i \in Node, NEW v \in Value, Propose(i, v) PROVE PairStep
  BY <1>3, ProposePair
<1>4. ASSUME NEW m \in messages, Deliver(m) PROVE PairStep
  BY <1>4, HandleRequestVotePair, HandleRequestVoteReplyPair, HandleAppendEntriesPair,
     HandleAppendEntriesReplyPair DEF Deliver
<1>5. CASE UNCHANGED vars
  <2>1. /\ UNCHANGED <<log, commitIndex, lastApplied, matchIndex, nextIndex, peers>>
        /\ role' = role /\ messages' = messages
    BY <1>5 DEF vars, termVars, logVars, leaderVars
  <2>2. /\ LogsGrow /\ GrowthHeld /\ LogsNest' /\ TermsRise'
        /\ IndexesTrue'
    BY <2>1, QuietIndexes
  <2> QED
    BY <2>1, <2>2 DEF PairStep
<1> QED
  BY <1>1, <1>2, <1>3, <1>4, <1>5 DEF Next

\* In a cluster of at most two nodes one log always continues the other, terms rise along
\* them, every message says of the logs what is still true when it is delivered, and
\* no node takes as held or committed what the other has not.
THEOREM PairCorrect ==
  ASSUME Cardinality(Node) <= 2
  PROVE  Spec => []PairInv
<1>1. TypeOK /\ Init => PairInv
  <2> SUFFICES ASSUME TypeOK, Init PROVE PairInv
    OBVIOUS
  <2>1. \A i \in Node : log[i] = <<>> /\ Len(log[i]) = 0
    BY EmptySeq DEF Init
  <2>2. LogsNest /\ TermsRise
    BY <2>1 DEF LogsNest, TermsRise
  <2>3. MessagesTrue
    BY DEF Init, MessagesTrue
  <2>4. MatchesTrue /\ NextsTrue /\ CommitsTrue /\ AppliedTrue
    BY <2>1 DEF Init, MatchesTrue, NextsTrue, CommitsTrue, AppliedTrue, Leader, Follower
  <2> QED
    BY <2>2, <2>3, <2>4 DEF PairInv, IndexesTrue
<1>2. TypeOK /\ TypeOK' /\ VoteInv /\ BallotInv /\ PairInv /\ [Next]_vars => PairInv'
  BY NextVotes, NextPair, PairStepKeeps
<1> QED
  BY <1>1, <1>2, TypeCorrect, VotesCorrect, BallotsCorrect, PTL DEF Spec

\* In a cluster of at most two nodes a leader has whatever any node has committed.
THEOREM LeadersOfTwo ==
  ASSUME Cardinality(Node) <= 2
  PROVE  Spec => []LeaderCompleteness
<1>1. TypeOK /\ PairInv => LeaderCompleteness
  <2> SUFFICES ASSUME TypeOK, PairInv, NEW i \in Node, NEW j \in Node
               PROVE  /\ commitIndex[j] <= Len(log[i])
                      /\ \A n \in 1..commitIndex[j] : log[i][n] = log[j][n]
    BY DEF LeaderCompleteness
  <2>1. /\ commitIndex[j] \in Nat /\ Len(log[i]) \in Nat /\ Len(log[j]) \in Nat
        /\ commitIndex[j] <= Len(log[i]) /\ commitIndex[j] <= Len(log[j])
    BY LogsTyped DEF TypeOK, PairInv, IndexesTrue, CommitsTrue
  <2>2. ASSUME NEW n \in 1..commitIndex[j] PROVE log[i][n] = log[j][n]
    <3>1. n \in 1..Len(log[i]) /\ n <= Len(log[j])
      BY <2>1
    <3> QED
      BY <3>1 DEF PairInv, LogsNest
  <2> QED
    BY <2>1, <2>2
<1> QED
  BY <1>1, TypeCorrect, PairCorrect, PTL

\* There what a node takes as committed is on both, nobody applies what is not
\* committed, both apply the same, and a leader has it all: whatever is lost, repeated
\* or late.  (With three nodes this fails: a follower's stale suffix is counted.)
THEOREM CommitsOfTwo ==
  ASSUME Cardinality(Node) <= 2
  PROVE  Spec => []CommittedSafe
<1>1. TypeOK /\ PairInv => CommittedByQuorum /\ AppliedCommittedHeld /\ StateMachineSafety
  <2> SUFFICES ASSUME TypeOK, PairInv
               PROVE  CommittedByQuorum /\ AppliedCommittedHeld /\ StateMachineSafety
    OBVIOUS
  <2>0. \A i, j \in Node : /\ Len(log[i]) \in Nat /\ commitIndex[i] \in Nat /\ lastApplied[i] \in Nat
                           /\ commitIndex[i] <= Len(log[j]) /\ lastApplied[i] <= commitIndex[i]
    BY LogsTyped DEF TypeOK, PairInv, IndexesTrue, CommitsTrue, AppliedTrue
  <2>1. CommittedByQuorum
    <3> SUFFICES ASSUME NEW i \in Node, NEW n \in 1..SmallerOf(commitIndex[i], Len(log[i]))
                 PROVE  Cardinality(Holders(i, n)) >= Cardinality(Node) \div 2 + 1
      BY DEF CommittedByQuorum
    <3>1. n \in Nat /\ n >= 1 /\ n <= commitIndex[i] /\ n <= Len(log[i])
      BY <2>0 DEF SmallerOf
    <3>2. ASSUME NEW j \in Node PROVE n <= Len(log[j]) /\ log[j][n] = log[i][n]
      <4>1. n <= Len(log[j]) /\ n \in 1..Len(log[j])
        BY <2>0, <3>1
      <4> QED
        BY <3>1, <4>1 DEF PairInv, LogsNest
    <3>3. Holders(i, n) = Node
      BY <3>2 DEF Holders
    <3>4. Cardinality(Node) \in Nat /\ Cardinality(Node) # 0
      BY NodeAssumption, FS_CardinalityType, FS_EmptySet
    <3> QED
      BY <3>3, <3>4
  <2>2. AppliedCommittedHeld
    BY <2>0 DEF AppliedCommittedHeld
  <2>3. StateMachineSafety
    <3> SUFFICES ASSUME NEW i \in Node, NEW j \in Node,
                        NEW n \in 1..SmallerOf(lastApplied[i], lastApplied[j])
                 PROVE  n <= Len(log[i]) /\ n <= Len(log[j]) /\ log[i][n] = log[j][n]
      BY DEF StateMachineSafety
    <3>1. n \in Nat /\ n >= 1 /\ n <= lastApplied[i] /\ n <= lastApplied[j]
      BY <2>0 DEF SmallerOf
    <3>2. n <= Len(log[i]) /\ n <= Len(log[j]) /\ n \in 1..Len(log[i])
      BY <2>0, <3>1
    <3> QED
      BY <3>2 DEF PairInv, LogsNest
  <2> QED
    BY <2>1, <2>2, <2>3
<1> QED
  BY <1>1, TypeCorrect, PairCorrect, LeadersOfTwo, PTL DEF CommittedSafe

\* There no step, not even the merge that cuts a conflicting suffix, takes an entry
\* out of a log.
THEOREM LogsOfTwoGrow ==
  ASSUME Cardinality(Node) <= 2
  PROVE  Spec => [][LogsGrow]_vars
<1>1. TypeOK /\ TypeOK' /\ VoteInv /\ PairInv /\ [Next]_vars => LogsGrow
  BY NextVotes, NextPair DEF PairStep
<1> QED
  BY <1>1, TypeCorrect, VotesCorrect, PairCorrect, PTL DEF Spec

-----------------------------------------------------------------------------
(* The promises of propose(). *)

LEMMA ClientStepsAreEngineSteps ==
  [ClientNext]_<<vars, clientVars>> => [Next]_vars
BY DEF ClientNext, ClientPropose, Timeout, EngineTurn, Next, Deliver, vars, clientVars

\* To the engine, clients are just its proposals.
LEMMA ClientsRunTheEngine == ClientSpec => Spec
<1>1. ClientInit => Init
  BY DEF ClientInit
<1> QED
  BY <1>1, ClientStepsAreEngineSteps, PTL DEF ClientSpec, Spec

Promised(p) == p.node \in Node /\ p.index \in Nat \ {0}

\* Promises are about places in logs; the two parts of PromisesTrue that need no
\* more than their own node.
ClientInv ==
  /\ \A p \in pending : Promised(p)
  /\ \A s \in settled : Promised(s.promise)
  /\ PendingNotYetApplied /\ ResolvedStaysApplied

LEMMA NextApplies ==
  ASSUME TypeOK, [Next]_vars, NEW j \in Node
  PROVE  AppliesCommitted(j)
<1>1. CASE UNCHANGED lastApplied
  BY <1>1 DEF AppliesCommitted
<1>2. ASSUME NEW i \in Node, StartElection(i) \/ Heartbeat(i) PROVE UNCHANGED lastApplied
  BY <1>2 DEF StartElection, Heartbeat, logVars
<1>3. ASSUME NEW i \in Node, NEW v \in Value, Propose(i, v) PROVE AppliesCommitted(j)
  BY <1>3, ProposeApplies
<1>4. ASSUME NEW m \in messages, Deliver(m) PROVE AppliesCommitted(j)
  BY <1>4, DeliverStands
<1>5. CASE UNCHANGED vars
  BY <1>1, <1>5 DEF vars, logVars
<1> QED
  BY <1>1, <1>2, <1>3, <1>4, <1>5 DEF Next

\* What a turn of the engine does for the listeners: what was applied stays so, and
\* is where it was.
ClientStep ==
  \A i \in Node :
    /\ lastApplied[i] \in Nat /\ lastApplied'[i] \in Nat /\ lastApplied[i] <= lastApplied'[i]
    /\ \A k \in 1..lastApplied[i] : log'[i][k] = log[i][k]

LEMMA NextServesClients ==
  ASSUME TypeOK, TypeOK', PairInv, LogsGrow, [Next]_vars
  PROVE  ClientStep
<1> SUFFICES ASSUME NEW i \in Node
             PROVE  /\ lastApplied[i] \in Nat /\ lastApplied'[i] \in Nat
                    /\ lastApplied[i] <= lastApplied'[i]
                    /\ \A k \in 1..lastApplied[i] : log'[i][k] = log[i][k]
  BY DEF ClientStep
<1>1. /\ lastApplied[i] \in Nat /\ lastApplied'[i] \in Nat /\ commitIndex[i] \in Nat
      /\ Len(log[i]) \in Nat
  BY LogsTyped DEF TypeOK
<1>2. lastApplied[i] <= commitIndex[i] /\ commitIndex[i] <= Len(log[i])
  BY DEF PairInv, IndexesTrue, AppliedTrue, CommitsTrue
<1>3. lastApplied[i] <= lastApplied'[i]
  BY <1>1, NextApplies DEF AppliesCommitted
<1>4. \A k \in 1..lastApplied[i] : k \in 1..Len(log[i])
  BY <1>1, <1>2
<1> QED
  BY <1>1, <1>3, <1>4 DEF LogsGrow

LEMMA ListenersServed ==
  ASSUME ClientStep, ClientInv, NEW waiting, NotifyListeners(waiting),
         \A p \in waiting :
           /\ Promised(p)
           /\ p.index <= lastApplied[p.node] => log'[p.node][p.index].cmd \in Poison
  PROVE  ClientInv'
<1> DEFINE done == {p \in waiting : Resolves(p)}
<1>1. /\ pending' = waiting \ done
      /\ settled' = settled \cup {Settle(p, Committed, log'[p.node][p.index]) : p \in done}
  BY DEF NotifyListeners
<1>2. ASSUME NEW p \in pending'
      PROVE  /\ Promised(p)
             /\ p.index <= lastApplied'[p.node] => log'[p.node][p.index].cmd \in Poison
  <2>1. p \in waiting /\ ~Resolves(p) /\ Promised(p)
    BY <1>1, <1>2
  <2>2. p.node \in Node /\ p.index \in Nat
    BY <2>1 DEF Promised
  <2>3. lastApplied[p.node] \in Nat /\ lastApplied'[p.node] \in Nat
    BY <2>2 DEF ClientStep
  <2>4. ASSUME p.index <= lastApplied'[p.node], ~(p.index <= lastApplied[p.node])
        PROVE  log'[p.node][p.index].cmd \in Poison
    <3>1. p.index \in (lastApplied[p.node] + 1)..lastApplied'[p.node]
      BY <2>2, <2>3, <2>4
    <3> QED
      BY <2>1, <3>1 DEF Resolves, Emitted
  <2> QED
    BY <2>1, <2>4
<1>3. ASSUME NEW s \in settled'
      PROVE  /\ Promised(s.promise)
             /\ s.status = Committed =>
                  /\ s.promise.index <= lastApplied'[s.promise.node]
                  /\ log'[s.promise.node][s.promise.index] = s.entry
  <2>1. CASE s \in settled
    <3>1. /\ Promised(s.promise)
          /\ s.status = Committed =>
               /\ s.promise.index <= lastApplied[s.promise.node]
               /\ log[s.promise.node][s.promise.index] = s.entry
      BY <2>1 DEF ClientInv, ResolvedStaysApplied
    <3>2. s.promise.node \in Node /\ s.promise.index \in Nat \ {0}
      BY <3>1 DEF Promised
    <3>3. /\ lastApplied[s.promise.node] \in Nat /\ lastApplied'[s.promise.node] \in Nat
          /\ lastApplied[s.promise.node] <= lastApplied'[s.promise.node]
          /\ \A k \in 1..lastApplied[s.promise.node] :
               log'[s.promise.node][k] = log[s.promise.node][k]
      BY <3>2 DEF ClientStep
    <3>4. s.promise.index <= lastApplied[s.promise.node] =>
            s.promise.index \in 1..lastApplied[s.promise.node]
      BY <3>2, <3>3
    <3> QED
      BY <3>1, <3>2, <3>3, <3>4
  <2>2. CASE \E p \in done : s = Settle(p, Committed, log'[p.node][p.index])
    <3>1. PICK p \in done : s = Settle(p, Committed, log'[p.node][p.index])
      BY <2>2
    <3>2. s.promise = p /\ s.entry = log'[p.node][p.index]
      BY <3>1 DEF Settle
    <3>3. Promised(p) /\ p.index \in Emitted(p.node)
      BY <3>1 DEF Resolves
    <3>4. lastApplied[p.node] \in Nat /\ lastApplied'[p.node] \in Nat
      BY <3>3 DEF ClientStep, Promised
    <3>5. p.index <= lastApplied'[p.node]
      BY <3>3, <3>4 DEF Emitted
    <3> QED
      BY <3>2, <3>3, <3>5
  <2> QED
    BY <1>1, <2>1, <2>2
<1> QED
  BY <1>2, <1>3 DEF ClientInv, PendingNotYetApplied, ResolvedStaysApplied

LEMMA ClientNextKeeps ==
  ASSUME TypeOK, PairInv, ClientStep, ClientInv, [ClientNext]_<<vars, clientVars>>
  PROVE  ClientInv'
<1>1. \A p \in pending :
        /\ Promised(p)
        /\ p.index <= lastApplied[p.node] => log'[p.node][p.index].cmd \in Poison
  <2> SUFFICES ASSUME NEW p \in pending
               PROVE  /\ Promised(p)
                      /\ p.index <= lastApplied[p.node] => log'[p.node][p.index].cmd \in Poison
    OBVIOUS
  <2>1. p.node \in Node /\ p.index \in Nat \ {0} /\ Promised(p)
    BY DEF ClientInv, Promised
  <2>2. lastApplied[p.node] \in Nat
        /\ \A k \in 1..lastApplied[p.node] : log'[p.node][k] = log[p.node][k]
    BY <2>1 DEF ClientStep
  <2>3. p.index <= lastApplied[p.node] => log[p.node][p.index].cmd \in Poison
    BY DEF ClientInv, PendingNotYetApplied
  <2>4. p.index <= lastApplied[p.node] => p.index \in 1..lastApplied[p.node]
    BY <2>1, <2>2
  <2> QED
    BY <2>1, <2>2, <2>3, <2>4
<1>2. ASSUME NEW i \in Node, NEW v \in Value, ClientPropose(i, v) PROVE ClientInv'
  <2> DEFINE p == [node |-> i, index |-> Len(log[i]) + 1,
                   entry |-> [term |-> currentTerm[i], cmd |-> v]]
  <2>1. NotifyListeners(pending \cup {p})
    BY <1>2 DEF ClientPropose
  <2>2. p.node = i /\ p.index = Len(log[i]) + 1
    OBVIOUS
  <2> HIDE DEF p
  <2>3. /\ Len(log[i]) \in Nat /\ lastApplied[i] \in Nat /\ commitIndex[i] \in Nat
        /\ lastApplied[i] <= commitIndex[i] /\ commitIndex[i] <= Len(log[i])
    BY LogsTyped DEF TypeOK, PairInv, IndexesTrue, AppliedTrue, CommitsTrue
  <2>4. Promised(p) /\ ~(p.index <= lastApplied[p.node])
    BY <2>2, <2>3 DEF Promised
  <2>5. \A q \in pending \cup {p} :
          /\ Promised(q)
          /\ q.index <= lastApplied[q.node] => log'[q.node][q.index].cmd \in Poison
    BY <1>1, <2>4
  <2> QED
    BY <2>1, <2>5, ListenersServed
<1>3. ASSUME NEW p \in pending, Timeout(p) PROVE ClientInv'
  <2>1. /\ pending' = pending \ {p}
        /\ settled' = settled \cup {Settle(p, TimedOut, p.entry)}
        /\ UNCHANGED <<log, lastApplied>>
    BY <1>3 DEF Timeout, vars, logVars
  <2>2. /\ Settle(p, TimedOut, p.entry).status # Committed
        /\ Settle(p, TimedOut, p.entry).promise = p /\ Promised(p)
    BY DEF Settle, TimedOut, Committed, ClientInv
  <2> QED
    BY <2>1, <2>2 DEF ClientInv, PendingNotYetApplied, ResolvedStaysApplied
<1>4. CASE EngineTurn
  BY <1>1, <1>4, ListenersServed DEF EngineTurn
<1>5. CASE UNCHANGED <<vars, clientVars>>
  BY <1>5 DEF ClientInv, PendingNotYetApplied, ResolvedStaysApplied, vars, logVars, clientVars
<1> QED
  BY <1>2, <1>3, <1>4, <1>5 DEF ClientNext

LEMMA ClientsServed ==
  ASSUME Cardinality(Node) <= 2
  PROVE  ClientSpec => []ClientInv
<1>1. ClientInit => ClientInv
  BY DEF ClientInit, ClientInv, PendingNotYetApplied, ResolvedStaysApplied
<1>2. TypeOK /\ TypeOK' /\ VoteInv /\ PairInv /\ ClientInv /\ [ClientNext]_<<vars, clientVars>>
        => ClientInv'
  BY ClientStepsAreEngineSteps, NextVotes, NextPair, NextServesClients, ClientNextKeeps
     DEF PairStep
<1> QED
  BY <1>1, <1>2, ClientsRunTheEngine, TypeCorrect, VotesCorrect, PairCorrect, PTL DEF ClientSpec

\* In a cluster of at most two nodes the promises of propose() are kept: who was told
\* COMMITTED has the entry its node applied there, it is never taken back, two such
\* answers for one index agree, and who waits can still be answered.
THEOREM PromisesOfTwo ==
  ASSUME Cardinality(Node) <= 2
  PROVE  ClientSpec => []PromisesTrue
<1>1. TypeOK /\ PairInv /\ ClientInv => PromisesTrue
  <2> SUFFICES ASSUME TypeOK, PairInv, ClientInv, NEW s1 \in settled, NEW s2 \in settled,
                      s1.status = Committed, s2.status = Committed,
                      s1.promise.index = s2.promise.index
               PROVE  s1.entry = s2.entry
    BY DEF PromisesTrue, AnswersAgree, ClientInv
  <2> DEFINE i == s1.promise.node
             j == s2.promise.node
             n == s1.promise.index
  <2>1. i \in Node /\ j \in Node /\ n \in Nat \ {0}
    BY DEF ClientInv, Promised
  <2>2. n <= lastApplied[i] /\ n <= lastApplied[j] /\ log[i][n] = s1.entry /\ log[j][n] = s2.entry
    BY DEF ClientInv, ResolvedStaysApplied
  <2> HIDE DEF i, j, n
  <2>3. ASSUME NEW k \in Node, n <= lastApplied[k] PROVE n \in 1..Len(log[k]) /\ n <= Len(log[k])
    <3>1. /\ lastApplied[k] \in Nat /\ commitIndex[k] \in Nat /\ Len(log[k]) \in Nat
          /\ lastApplied[k] <= commitIndex[k] /\ commitIndex[k] <= Len(log[k])
      BY LogsTyped DEF TypeOK, PairInv, IndexesTrue, AppliedTrue, CommitsTrue
    <3> QED
      BY <2>1, <2>3, <3>1
  <2>4. log[i][n] = log[j][n]
    BY <2>1, <2>2, <2>3 DEF PairInv, LogsNest
  <2> QED
    BY <2>2, <2>4
<1> QED
  BY <1>1, ClientsRunTheEngine, TypeCorrect, PairCorrect, ClientsServed, PTL

-----------------------------------------------------------------------------
(* One log.  In a cluster of two what the nodes have committed is read in any *)
(* log; commit indexes rise, logs only grow, and whoever waits has the entry  *)
(* proposed where it was put, so it is this entry that the answer is about.   *)

CommitsRise == \A i \in Node : commitIndex[i] <= commitIndex'[i]

LEMMA NextRaisesCommits ==
  ASSUME TypeOK, TypeOK', PairInv, LogsGrow, [Next]_vars
  PROVE  CommitsRise
<1> SUFFICES ASSUME NEW j \in Node PROVE commitIndex[j] <= commitIndex'[j]
  BY DEF CommitsRise
<1>1. /\ commitIndex[j] \in Nat /\ Len(log[j]) \in Nat /\ Len(log'[j]) \in Nat
      /\ commitIndex[j] <= Len(log[j]) /\ Len(log[j]) <= Len(log'[j])
  BY LenProperties DEF TypeOK, PairInv, IndexesTrue, CommitsTrue, LogsGrow
<1>2. CASE UNCHANGED commitIndex
  BY <1>1, <1>2
<1>3. ASSUME NEW i \in Node, StartElection(i) \/ Heartbeat(i) PROVE UNCHANGED commitIndex
  BY <1>3 DEF StartElection, Heartbeat, logVars
<1>4. ASSUME NEW i \in Node, NEW v \in Value, Propose(i, v)
      PROVE  commitIndex[j] <= commitIndex'[j]
  <2>1. PICK lg : /\ log' = [log EXCEPT ![i] = lg]
                  /\ \/ commitIndex' = [commitIndex EXCEPT ![i] = Len(lg)]
                     \/ UNCHANGED commitIndex
    BY <1>4 DEF Propose
  <2>2. CASE commitIndex' = [commitIndex EXCEPT ![i] = Len(lg)]
    <3>1. commitIndex'[j] = commitIndex[j] \/ commitIndex'[j] = Len(log'[j])
      BY <2>1, <2>2 DEF TypeOK
    <3> QED
      BY <1>1, <3>1
  <2> QED
    BY <1>2, <2>1, <2>2
<1>5. ASSUME NEW m \in messages, Deliver(m) PROVE commitIndex[j] <= commitIndex'[j]
  <2>1. CASE AcceptEntries(m) /\ m.type = "APPEND_ENTRIES"
    <3>1. PICK lg : /\ log' = [log EXCEPT ![m.to] = lg]
                    /\ commitIndex' = [commitIndex EXCEPT ![m.to] = CommitAfter(m, lg)]
      BY <2>1 DEF AcceptEntries
    <3>2. m.leaderCommit \in Nat
      BY <2>1, MessageFields DEF TypeOK, Message
    <3>3. CASE j = m.to
      <4>1. lg = log'[j] /\ commitIndex'[j] = CommitAfter(m, lg)
        BY <3>1, <3>3 DEF TypeOK
      <4> QED
        BY <1>1, <3>2, <3>3, <4>1 DEF CommitAfter, SmallerOf
    <3>4. CASE j # m.to
      BY <1>1, <3>1, <3>4 DEF TypeOK
    <3> QED
      BY <3>3, <3>4
  <2>2. ASSUME NEW match, AdvanceCommit(m.to, match)
        PROVE  commitIndex[j] <= commitIndex'[j]
    <3> DEFINE set == Committable(m.to, match)
    <3>1. commitIndex' = [commitIndex EXCEPT ![m.to] = IF set = {} THEN @ ELSE Max(set)]
      BY <2>2 DEF AdvanceCommit
    <3>2. CASE j = m.to /\ set # {}
      <4>1. set \in SUBSET Nat /\ \A y \in set : y > commitIndex[j] /\ y <= Len(log[j])
        BY <1>1, <3>2 DEF Committable
      <4>2. commitIndex'[j] = Max(set)
        BY <3>1, <3>2 DEF TypeOK
      <4> HIDE DEF set
      <4>3. PICK new \in set : new = Max(set)
        BY <1>1, <3>2, <4>1, MaxOfBoundedNaturals
      <4>4. new \in Nat /\ new > commitIndex[j]
        BY <4>1
      <4> QED
        BY <1>1, <4>2, <4>3, <4>4
    <3>3. CASE ~(j = m.to /\ set # {})
      <4>1. commitIndex'[j] = commitIndex[j]
        BY <3>1, <3>3 DEF TypeOK
      <4> QED
        BY <1>1, <4>1
    <3> QED
      BY <3>2, <3>3
  <2>3. \/ UNCHANGED commitIndex
        \/ AcceptEntries(m) /\ m.type = "APPEND_ENTRIES"
        \/ \E match : AdvanceCommit(m.to, match)
    BY <1>5 DEF Deliver, HandleRequestVote, HandleRequestVoteReply, HandleAppendEntries,
                HandleAppendEntriesReply, logVars
  <2> QED
    BY <1>2, <2>1, <2>2, <2>3
<1>6. CASE UNCHANGED vars
  BY <1>2, <1>6 DEF vars, logVars
<1> QED
  BY <1>2, <1>3, <1>4, <1>5, <1>6 DEF Next

LEMMA TopNode ==
  ASSUME Cardinality(Node) <= 2, TypeOK
  PROVE  \E t \in Node : \A j \in Node : commitIndex[j] <= commitIndex[t]
<1>1. PICK a \in Node : TRUE
  BY NodeAssumption
<1>2. \A j \in Node : commitIndex[j] \in Nat
  BY DEF TypeOK
<1>3. ASSUME NEW b \in Node, ~(commitIndex[b] <= commitIndex[a])
      PROVE  \A j \in Node : commitIndex[j] <= commitIndex[b]
  <2> SUFFICES ASSUME NEW j \in Node PROVE commitIndex[j] <= commitIndex[b]
    OBVIOUS
  <2>1. a # b /\ (j = a \/ j = b)
    BY <1>1, <1>2, <1>3, TwoNodes
  <2> QED
    BY <1>1, <1>2, <1>3, <2>1
<1> QED
  BY <1>1, <1>3

LEMMA PrefixFacts ==
  ASSUME NEW lg \in Seq(Entry), NEW c \in Nat, c <= Len(lg)
  PROVE  /\ SubSeq(lg, 1, c) \in Seq(Entry) /\ Len(SubSeq(lg, 1, c)) = c
         /\ \A n \in 1..c : SubSeq(lg, 1, c)[n] = lg[n]
<1>1. \A n \in 1..c : lg[n] \in Entry
  BY ElementOfSeq, LenProperties
<1>2. /\ SubSeq(lg, 1, c) \in Seq(Entry)
      /\ Len(SubSeq(lg, 1, c)) = IF 1 <= c THEN c - 1 + 1 ELSE 0
      /\ \A n \in 1..(c - 1 + 1) : SubSeq(lg, 1, c)[n] = lg[1 + n - 1]
  BY <1>1, SubSeqProperties
<1>3. \A n \in 1..c : n \in 1..(c - 1 + 1) /\ 1 + n - 1 = n
  OBVIOUS
<1>4. \A n \in 1..c : SubSeq(lg, 1, c)[n] = lg[n]
  BY <1>2, <1>3
<1> QED
  BY <1>2, <1>4

\* The committed log is as long as the highest commit index, and a prefix of every log.
HistoryKnown ==
  /\ CommittedLog \in Seq(Entry)
  /\ \E t \in Node :
       /\ \A j \in Node : commitIndex[j] <= commitIndex[t]
       /\ Len(CommittedLog) = commitIndex[t]
       /\ \A n \in 1..commitIndex[t], i \in Node : CommittedLog[n] = log[i][n]

LEMMA CommittedLogIsPrefix ==
  ASSUME Cardinality(Node) <= 2, TypeOK, PairInv
  PROVE  HistoryKnown
<1> DEFINE t == CHOOSE i \in Node : \A j \in Node : commitIndex[j] <= commitIndex[i]
<1>1. t \in Node /\ \A j \in Node : commitIndex[j] <= commitIndex[t]
  BY TopNode
<1>2. CommittedLog = SubSeq(log[t], 1, commitIndex[t])
  BY DEF CommittedLog
<1> HIDE DEF t
<1>3. /\ log[t] \in Seq(Entry) /\ commitIndex[t] \in Nat
      /\ \A i \in Node : Len(log[i]) \in Nat /\ commitIndex[t] <= Len(log[i])
  BY <1>1, LogsTyped DEF TypeOK, PairInv, IndexesTrue, CommitsTrue
<1>4. /\ CommittedLog \in Seq(Entry) /\ Len(CommittedLog) = commitIndex[t]
      /\ \A n \in 1..commitIndex[t] : CommittedLog[n] = log[t][n]
  BY <1>1, <1>2, <1>3, PrefixFacts
<1>5. ASSUME NEW n \in 1..commitIndex[t], NEW i \in Node PROVE CommittedLog[n] = log[i][n]
  <2>1. n \in 1..Len(log[t]) /\ n <= Len(log[i])
    BY <1>1, <1>3
  <2>2. log[t][n] = log[i][n]
    BY <1>1, <2>1 DEF PairInv, LogsNest
  <2> QED
    BY <1>4, <2>2
<1> QED
  BY <1>1, <1>4, <1>5 DEF HistoryKnown

\* Whoever waits finds the entry proposed at the index of the promise.
EntryKept(p) == p.index <= Len(log[p.node]) /\ log[p.node][p.index] = p.entry

OwnEntries == \A p \in pending : EntryKept(p)

AnsweredWell ==
  /\ Resolved \subseteq Resolved'
  /\ \A a \in Resolved' \ Resolved :
       /\ a.node \in Node
       /\ a.index \in (lastApplied[a.node] + 1)..lastApplied'[a.node]
       /\ log'[a.node][a.index] = a.entry

LEMMA EntriesStay ==
  ASSUME TypeOK, TypeOK', LogsGrow, ClientInv, OwnEntries, NEW p \in pending
  PROVE  Promised(p) /\ EntryKept(p)'
<1>1. /\ Promised(p) /\ p.node \in Node /\ p.index \in Nat \ {0}
      /\ p.index <= Len(log[p.node]) /\ log[p.node][p.index] = p.entry
  BY DEF ClientInv, Promised, OwnEntries, EntryKept
<1>2. /\ Len(log[p.node]) \in Nat /\ Len(log'[p.node]) \in Nat
      /\ Len(log[p.node]) <= Len(log'[p.node])
      /\ \A q \in 1..Len(log[p.node]) : log'[p.node][q] = log[p.node][q]
  BY <1>1, LenProperties DEF TypeOK, LogsGrow
<1>3. p.index \in 1..Len(log[p.node])
  BY <1>1, <1>2
<1> QED
  BY <1>1, <1>2, <1>3 DEF EntryKept

LEMMA AnswersGiven ==
  ASSUME NEW waiting, NotifyListeners(waiting),
         \A p \in waiting : Promised(p) /\ EntryKept(p)'
  PROVE  OwnEntries' /\ AnsweredWell
<1> DEFINE done == {p \in waiting : Resolves(p)}
<1>1. /\ pending' = waiting \ done
      /\ settled' = settled \cup {Settle(p, Committed, log'[p.node][p.index]) : p \in done}
  BY DEF NotifyListeners
<1>2. OwnEntries'
  BY <1>1 DEF OwnEntries
<1>3. Resolved \subseteq Resolved'
  BY <1>1 DEF Resolved
<1>4. ASSUME NEW a \in Resolved', a \notin Resolved
      PROVE  /\ a.node \in Node
             /\ a.index \in (lastApplied[a.node] + 1)..lastApplied'[a.node]
             /\ log'[a.node][a.index] = a.entry
  <2>1. PICK s \in settled' : s.status = Committed /\ s.promise = a
    BY DEF Resolved
  <2>2. s \notin settled
    BY <1>4, <2>1 DEF Resolved
  <2>3. PICK p \in done : s = Settle(p, Committed, log'[p.node][p.index])
    BY <1>1, <2>2
  <2>4. p = a /\ a \in waiting /\ Resolves(a)
    BY <2>1, <2>3 DEF Settle
  <2> QED
    BY <2>4 DEF Resolves, Emitted, Promised, EntryKept
<1> QED
  BY <1>2, <1>3, <1>4 DEF AnsweredWell

LEMMA ClientNextAnswers ==
  ASSUME TypeOK, TypeOK', LogsGrow, ClientInv, OwnEntries, [ClientNext]_<<vars, clientVars>>
  PROVE  OwnEntries' /\ AnsweredWell
<1>1. \A p \in pending : Promised(p) /\ EntryKept(p)'
  BY EntriesStay
<1>2. ASSUME NEW i \in Node, NEW v \in Value, ClientPropose(i, v)
      PROVE  OwnEntries' /\ AnsweredWell
  <2>1. PICK e : e = [term |-> currentTerm[i], cmd |-> v]
    OBVIOUS
  <2>2. PICK p : p = [node |-> i, index |-> Len(log[i]) + 1, entry |-> e]
    OBVIOUS
  <2>3. /\ NotifyListeners(pending \cup {p})
        /\ e \in Entry /\ log' = [log EXCEPT ![i] = Append(log[i], e)]
        /\ p.node = i /\ p.index = Len(log[i]) + 1 /\ p.entry = e
    BY <1>2, <2>1, <2>2 DEF ClientPropose, Propose, TypeOK, Entry
  <2>4. log[i] \in Seq(Entry) /\ Len(log[i]) \in Nat /\ log'[i] = Append(log[i], e)
    BY <2>3, LogsTyped DEF TypeOK
  <2>5. Len(log'[i]) = Len(log[i]) + 1 /\ log'[i][Len(log[i]) + 1] = e
    BY <2>3, <2>4, AppendProperties
  <2>6. Promised(p) /\ EntryKept(p)'
    BY <2>3, <2>4, <2>5 DEF Promised, EntryKept
  <2> QED
    BY <1>1, <2>3, <2>6, AnswersGiven
<1>3. ASSUME NEW p \in pending, Timeout(p) PROVE OwnEntries' /\ AnsweredWell
  <2>1. /\ pending' = pending \ {p}
        /\ settled' = settled \cup {Settle(p, TimedOut, p.entry)}
    BY <1>3 DEF Timeout
  <2>2. Settle(p, TimedOut, p.entry).status # Committed
    BY DEF Settle, TimedOut, Committed
  <2>3. Resolved' = Resolved
    BY <2>1, <2>2 DEF Resolved
  <2> QED
    BY <1>1, <2>1, <2>3 DEF OwnEntries, AnsweredWell
<1>4. CASE EngineTurn
  BY <1>1, <1>4, AnswersGiven DEF EngineTurn
<1>5. CASE UNCHANGED <<vars, clientVars>>
  <2>1. Resolved' = Resolved /\ pending' = pending
    BY <1>5 DEF Resolved, clientVars
  <2> QED
    BY <1>1, <2>1 DEF OwnEntries, AnsweredWell
<1> QED
  BY <1>2, <1>3, <1>4, <1>5 DEF ClientNext

LEMMA StepOfOneLog ==
  ASSUME TypeOK, TypeOK', PairInv, PairInv', HistoryKnown, HistoryKnown',
         LogsGrow, CommitsRise, ClientStep, AnsweredWell
  PROVE  Clients!LNext
<1>1. PICK t \in Node : /\ \A j \in Node : commitIndex[j] <= commitIndex[t]
                        /\ Len(CommittedLog) = commitIndex[t]
                        /\ \A n \in 1..commitIndex[t], i \in Node : CommittedLog[n] = log[i][n]
  BY DEF HistoryKnown
<1>2. PICK u \in Node :
        /\ \A j \in Node : commitIndex'[j] <= commitIndex'[u]
        /\ Len(CommittedLog') = commitIndex'[u]
        /\ \A n \in 1..commitIndex'[u], i \in Node : CommittedLog'[n] = log'[i][n]
  BY DEF HistoryKnown
<1>3. \A i \in Node :
        /\ commitIndex[i] \in Nat /\ commitIndex'[i] \in Nat /\ commitIndex[i] <= commitIndex'[i]
        /\ lastApplied[i] \in Nat /\ lastApplied'[i] \in Nat
        /\ lastApplied[i] <= lastApplied'[i] /\ lastApplied'[i] <= commitIndex'[i]
  BY DEF TypeOK, CommitsRise, ClientStep, PairInv, IndexesTrue, AppliedTrue
<1>4. commitIndex[t] <= commitIndex'[u]
  <2>1. commitIndex[t] <= commitIndex'[t] /\ commitIndex'[t] <= commitIndex'[u]
    BY <1>2, <1>3
  <2> QED
    BY <1>3, <2>1
<1>5. ASSUME NEW n \in 1..commitIndex[t] PROVE CommittedLog'[n] = CommittedLog[n]
  <2>1. /\ n \in 1..commitIndex'[u] /\ n \in 1..Len(log[t])
    <3>1. Len(log[t]) \in Nat /\ commitIndex[t] <= Len(log[t])
      BY LogsTyped DEF PairInv, IndexesTrue, CommitsTrue
    <3> QED
      BY <1>3, <1>4, <3>1
  <2>2. CommittedLog'[n] = log'[t][n] /\ CommittedLog[n] = log[t][n]
    BY <1>1, <1>2, <2>1
  <2> QED
    BY <2>1, <2>2 DEF LogsGrow
<1>6. Clients!Extended
  BY <1>1, <1>2, <1>4, <1>5 DEF Clients!Extended
<1>7. Clients!Applies
  <2> SUFFICES ASSUME NEW s \in Node
               PROVE  lastApplied[s] <= lastApplied'[s] /\ lastApplied'[s] <= Len(CommittedLog')
    BY DEF Clients!Applies
  <2>1. lastApplied'[s] <= commitIndex'[s] /\ commitIndex'[s] <= commitIndex'[u]
    BY <1>2, <1>3
  <2> QED
    BY <1>2, <1>3, <2>1
<1>8. Clients!Answers
  <2> SUFFICES ASSUME NEW a \in Resolved', a \notin Resolved
               PROVE  /\ a.node \in Node
                      /\ a.index \in (lastApplied[a.node] + 1)..lastApplied'[a.node]
                      /\ CommittedLog'[a.index] = a.entry
    BY DEF Clients!Answers, AnsweredWell
  <2>1. /\ a.node \in Node
        /\ a.index \in (lastApplied[a.node] + 1)..lastApplied'[a.node]
        /\ log'[a.node][a.index] = a.entry
    BY DEF AnsweredWell
  <2>2. lastApplied'[a.node] <= commitIndex'[a.node] /\ commitIndex'[a.node] <= commitIndex'[u]
    BY <1>2, <1>3, <2>1
  <2>3. a.index \in 1..commitIndex'[u]
    BY <1>3, <2>1, <2>2
  <2> QED
    BY <1>2, <2>1, <2>3
<1> QED
  BY <1>6, <1>7, <1>8 DEF Clients!LNext

\* A cluster of at most two nodes is one log to its clients: what is committed is never
\* cut or replaced, each node applies a growing prefix of it, and who is told COMMITTED
\* finds his own command at the index of the promise, though onCommit() compares only
\* the index.  (Of three nodes none of this is true.)
THEOREM OneLogOfTwo ==
  ASSUME Cardinality(Node) <= 2
  PROVE  ClientSpec => OneLog
<1>1. TypeOK /\ PairInv => HistoryKnown
  BY CommittedLogIsPrefix
<1>2. ClientInit => OwnEntries
  BY DEF ClientInit, OwnEntries
<1>3. TypeOK /\ HistoryKnown /\ ClientInit => Clients!LInit
  <2> SUFFICES ASSUME TypeOK, HistoryKnown, ClientInit PROVE Clients!LInit
    OBVIOUS
  <2>1. CommittedLog \in Seq(Entry) /\ Len(CommittedLog) = 0
    BY DEF HistoryKnown, ClientInit, Init
  <2>2. CommittedLog = <<>>
    BY <2>1, EmptySeq
  <2>3. Resolved = {} /\ lastApplied = [s \in Node |-> 0]
    BY DEF Resolved, ClientInit, Init
  <2> QED
    BY <2>2, <2>3 DEF Clients!LInit
<1>4. TypeOK /\ TypeOK' /\ VoteInv /\ PairInv /\ ClientInv /\ OwnEntries
        /\ [ClientNext]_<<vars, clientVars>>
        => OwnEntries'
  BY ClientStepsAreEngineSteps, NextVotes, NextPair, ClientNextAnswers DEF PairStep
<1>5. TypeOK /\ TypeOK' /\ VoteInv /\ PairInv /\ PairInv' /\ ClientInv /\ OwnEntries
        /\ HistoryKnown /\ HistoryKnown' /\ [ClientNext]_<<vars, clientVars>>
        => Clients!LNext
  BY ClientStepsAreEngineSteps, NextVotes, NextPair, NextServesClients, NextRaisesCommits,
     ClientNextAnswers, StepOfOneLog DEF PairStep
<1> QED
  BY <1>1, <1>2, <1>3, <1>4, <1>5, ClientsRunTheEngine, TypeCorrect, VotesCorrect, PairCorrect,
     ClientsServed, PTL DEF ClientSpec, OneLog, Clients!LSpec

=============================================================================

---------------------------- MODULE RaftVotesProofs ----------------------------
(***************************************************************************)
(* The proof of OneLeaderPerTerm, for every set of servers and every       *)
(* number of elections, stops and restarts.  Two leaders of one term would *)
(* each have the votes of a majority (LeaderHasQuorum), and a server in    *)
(* both majorities would have voted twice in the term.                     *)
(*                                                                         *)
(* That no server does is kept by an invariant on what the handlers still  *)
(* have to do (SerialOK): no vote is recorded for a later term than its    *)
(* voter's, one of the voter's term names its voted_for, and what a        *)
(* deciding handler found of term and vote is still so.                    *)
(***************************************************************************)
EXTENDS RaftVotes, RaftElectionProofs

\* A vote is not ahead of its voter, and voted_for is the vote of the term.
VoteOK(v) ==
    /\ v[2] <= currentTerm[v[1]]
    /\ v[2] = currentTerm[v[1]] => votedFor[v[1]] = v[3]

\* What a handler decided from is what the node's fields still say.
DecisionOK(h) ==
    /\ h.pc = "step_down" => h.req.term > currentTerm[h.req.to]
    /\ h.pc = "grant" =>
          /\ h.req.term = currentTerm[h.req.to]
          /\ votedFor[h.req.to] \in {None, h.req.from}

SerialOK ==
    /\ \A v \in votes : VoteOK(v)
    /\ \A h \in handlers : DecisionOK(h)
    /\ OneVotePerTerm

SerialInv == ~interfered => SerialOK

-----------------------------------------------------------------------------
\* The steps of RaftVotes are those of RaftElection.
LEMMA VotesSpecSpec == VotesSpec => Spec
<1>1. VotesInit => Init
  BY DEF VotesInit
<1>2. [VotesNext]_votesVars => [Next]_vars
  BY DEF VotesNext, votesVars
<1> QED BY <1>1, <1>2, PTL DEF VotesSpec, Spec

\* So its invariant holds, and LeaderHasQuorum with it.
LEMMA VotesSpecIInv == VotesSpec => []IInv
<1>1. IInv /\ [Next]_vars => IInv'
  BY NextIInv
<1>2. Spec => []IInv
  BY InitIInv, <1>1, PTL DEF Spec
<1> QED BY VotesSpecSpec, <1>2, PTL

LEMMA InitSerialInv == VotesInit => SerialInv
  BY DEF VotesInit, Init, SerialInv, SerialOK, OneVotePerTerm

-----------------------------------------------------------------------------
\* A step that leaves the terms and the votes alone, and starts only decisions
\* that hold, keeps SerialOK.
LEMMA SameVotes ==
    ASSUME SerialOK, UNCHANGED <<currentTerm, votedFor, votes>>,
           \A h \in handlers' : h \in handlers \/ DecisionOK(h)
    PROVE  SerialOK'
  BY DEF SerialOK, VoteOK, DecisionOK, OneVotePerTerm

\* So does one that takes n into a later term, in which it votes at most once,
\* when no other handler of n is deciding.
LEMMA NewTerm ==
    ASSUME TypeOK, SerialOK, NEW n \in Server, NEW t \in Nat,
           t > currentTerm[n], NEW c \in Server \cup {None},
           currentTerm' = [currentTerm EXCEPT ![n] = t],
           votedFor' = [votedFor EXCEPT ![n] = c],
           votes' = votes \/ votes' = votes \cup {<<n, t, c>>},
           \A h \in handlers' :
              \/ DecisionOK(h)'
              \/ h \in handlers /\ (h.req.to = n => h.pc = "reply")
    PROVE  SerialOK'
<1> USE DEF TypeOK
<1>1. ASSUME NEW v \in votes
      PROVE  VoteOK(v)' /\ ~ (v[1] = n /\ v[2] = t)
  <2>1. v[1] \in Server /\ v[2] \in Nat /\ VoteOK(v)
    BY DEF SerialOK
  <2>2. CASE v[1] = n
    BY <2>1, <2>2 DEF VoteOK
  <2>3. CASE v[1] # n
    BY <2>1, <2>3 DEF VoteOK
  <2> QED BY <2>2, <2>3
<1>2. \A v \in votes' : VoteOK(v)'
  BY <1>1 DEF VoteOK
<1>3. OneVotePerTerm'
  BY <1>1 DEF SerialOK, OneVotePerTerm
<1>4. ASSUME NEW h \in handlers' PROVE DecisionOK(h)'
  <2>1. CASE h \in handlers /\ (h.req.to = n => h.pc = "reply")
    <3>1. h.req.to \in Server /\ DecisionOK(h)
      BY <2>1 DEF Handler, Request, SerialOK
    <3> QED BY <2>1, <3>1 DEF DecisionOK
  <2> QED BY <2>1
<1> QED BY <1>2, <1>3, <1>4 DEF SerialOK

\* A step that changes n's term or vote and does not interfere leaves no other
\* handler of n deciding.
LEMMA NobodyDecides ==
    ASSUME ~Interferes, NEW n \in Server,
           currentTerm'[n] # currentTerm[n] \/ votedFor'[n] # votedFor[n],
           NEW h \in handlers, h \in handlers', h.req.to = n
    PROVE  h.pc = "reply"
  BY DEF Interferes, Deciding

-----------------------------------------------------------------------------
\* Every step that does not interfere keeps SerialOK.
LEMMA NextSerialOK ==
    ASSUME IInv, SerialOK, [Next]_vars, ~Interferes PROVE SerialOK'
<1> USE ServerAssumption DEF IInv
<1>0. /\ currentTerm \in [Server -> Nat]
      /\ votedFor \in [Server -> Server \cup {None}]
      /\ handlers \subseteq Handler /\ requests \subseteq Request
  BY DEF TypeOK
<1>1. ASSUME NEW n \in Server, StartElection(n) PROVE SerialOK'
  <2>1. /\ currentTerm' = [currentTerm EXCEPT ![n] = currentTerm[n] + 1]
        /\ votedFor' = [votedFor EXCEPT ![n] = n]
        /\ votes' = votes \cup {<<n, currentTerm[n] + 1, n>>}
        /\ handlers' = handlers
    BY <1>1 DEF StartElection
  <2>2. \A h \in handlers' : h \in handlers /\ (h.req.to = n => h.pc = "reply")
    BY <1>0, <2>1, NobodyDecides
  <2>3. currentTerm[n] + 1 \in Nat /\ currentTerm[n] + 1 > currentTerm[n]
    BY <1>0
  <2> QED BY <2>1, <2>2, <2>3, NewTerm
<1>2. ASSUME NEW h \in handlers, StepDown(h) PROVE SerialOK'
  <2> DEFINE n == h.req.to
             g == [h EXCEPT !.pc = IF h.granted THEN "grant" ELSE "reply"]
  <2>1. n \in Server /\ h.req.term \in Nat /\ h.req.term > currentTerm[n]
    BY <1>0, <1>2 DEF StepDown, Handler, Request, SerialOK, DecisionOK
  <2>2. /\ currentTerm' = [currentTerm EXCEPT ![n] = h.req.term]
        /\ votedFor' = [votedFor EXCEPT ![n] = None]
        /\ votes' = votes
        /\ handlers' = (handlers \ {h}) \cup {g}
    BY <1>2 DEF StepDown, BecomeFollower, countVars
  <2>3. currentTerm'[n] # currentTerm[n]
    BY <1>0, <2>1, <2>2
  <2>4. DecisionOK(g)'
    <3>1. g.req = h.req /\ g.pc \in {"grant", "reply"}
      BY <1>0 DEF Handler
    <3> HIDE DEF g
    <3> QED BY <1>0, <2>1, <2>2, <3>1 DEF DecisionOK
  <2> HIDE DEF g
  <2>5. ASSUME NEW k \in handlers'
        PROVE  \/ DecisionOK(k)'
               \/ k \in handlers /\ (k.req.to = n => k.pc = "reply")
    BY <2>1, <2>2, <2>3, <2>4, NobodyDecides
  <2> QED BY <2>1, <2>2, <2>5, NewTerm
<1>3. ASSUME NEW h \in handlers, Grant(h) PROVE SerialOK'
  <2> DEFINE n == h.req.to
             c == h.req.from
             g == [h EXCEPT !.pc = "reply"]
  <2>1. /\ n \in Server /\ c \in Server
        /\ h.req.term = currentTerm[n] /\ votedFor[n] \in {None, c}
    BY <1>0, <1>3 DEF Grant, Handler, Request, SerialOK, DecisionOK
  <2>2. /\ currentTerm' = currentTerm
        /\ votedFor' = [votedFor EXCEPT ![n] = c]
        /\ votes' = votes \cup {<<n, currentTerm[n], c>>}
        /\ handlers' = (handlers \ {h}) \cup {g}
    BY <1>3, <2>1 DEF Grant
  <2>3. g.pc = "reply"
    BY <1>0 DEF Handler
  <2> HIDE DEF g
  <2>4. ASSUME NEW v \in votes
        PROVE  /\ VoteOK(v)'
               /\ v[1] = n /\ v[2] = currentTerm[n] => v[3] = c
    <3>1. VoteOK(v) /\ v[1] \in Server /\ v[3] \in Server
      BY DEF SerialOK, TypeOK
    <3> QED BY <1>0, <2>1, <2>2, <3>1 DEF VoteOK
  <2>5. \A v \in votes' : VoteOK(v)'
    BY <1>0, <2>1, <2>2, <2>4 DEF VoteOK
  <2>6. OneVotePerTerm'
    BY <2>2, <2>4 DEF SerialOK, OneVotePerTerm
  <2>7. ASSUME NEW k \in handlers' PROVE DecisionOK(k)'
    <3>1. CASE k = g
      BY <2>3, <3>1 DEF DecisionOK
    <3>2. CASE k \in handlers
      <4>1. DecisionOK(k) /\ k.req.to \in Server
        BY <1>0, <3>2 DEF SerialOK, Handler, Request
      <4>2. CASE votedFor' = votedFor
        BY <2>2, <4>1, <4>2 DEF DecisionOK
      <4>3. CASE votedFor'[n] # votedFor[n]
        <5>1. k.req.to = n => k.pc = "reply"
          BY <2>1, <3>2, <4>3, NobodyDecides
        <5> QED BY <1>0, <2>2, <4>1, <5>1 DEF DecisionOK
      <4> QED BY <1>0, <2>2, <4>2, <4>3
    <3> QED BY <2>2, <3>1, <3>2
  <2> QED BY <2>5, <2>6, <2>7 DEF SerialOK
<1>4. ASSUME NEW n \in Server, Tally(n) PROVE SerialOK'
  <2>1. handlers' = handlers /\ votes' = votes
    BY <1>4 DEF Tally, rpcVars, countVars
  <2>2. CASE UNCHANGED <<currentTerm, votedFor>>
    BY <2>1, <2>2, SameVotes
  <2>3. ASSUME NEW i \in DeposedAt(n, election[n]),
               currentTerm[n] = election[n].term,
               BecomeFollower(n, election[n].results[i].term)
        PROVE  SerialOK'
    <3> DEFINE t == election[n].results[i].term
    <3>1. t \in Nat /\ t > currentTerm[n]
      <4>1. election[n].results \in Seq(Reply)
        BY DEF TypeOK, Election
      <4>2. i \in 1..Len(election[n].results)
        <5>1. DOMAIN election[n].results = 1..Len(election[n].results)
          BY <4>1
        <5> QED BY <5>1 DEF DeposedAt
      <4>3. election[n].results[i] \in Reply
        BY <4>1, <4>2, ElementOfSeq
      <4> QED BY <2>3, <4>3 DEF Reply, DeposedAt
    <3>2. /\ currentTerm' = [currentTerm EXCEPT ![n] = t]
          /\ votedFor' = [votedFor EXCEPT ![n] = None]
      BY <2>3 DEF BecomeFollower
    <3> HIDE DEF t
    <3>3. \A h \in handlers' : h \in handlers /\ (h.req.to = n => h.pc = "reply")
      BY <1>0, <2>1, <3>1, <3>2, NobodyDecides
    <3> QED BY <2>1, <3>1, <3>2, <3>3, NewTerm
  <2> QED BY <1>4, <2>2, <2>3 DEF Tally
<1>5. ASSUME NEW n \in Server, Restart(n) PROVE SerialOK'
  BY <1>5 DEF Interferes
<1>6. ASSUME NEW req \in requests, ReceiveRequestVote(req) PROVE SerialOK'
  <2> DEFINE n == req.to
             newer == req.term > currentTerm[n]
             ok == /\ req.term >= currentTerm[n]
                   /\ newer \/ votedFor[n] \in {None, req.from}
                   /\ UpToDate(req, n)
             h == [req |-> req,
                   pc |-> IF newer THEN "step_down"
                          ELSE IF ok THEN "grant" ELSE "reply",
                   granted |-> ok,
                   term |-> IF newer THEN req.term ELSE currentTerm[n]]
  <2>1. /\ handlers' = handlers \cup {h}
        /\ UNCHANGED <<currentTerm, votedFor, votes>>
    BY <1>6 DEF ReceiveRequestVote, nodeVars, countVars
  <2>2. req.term \in Nat /\ n \in Server
    BY <1>0 DEF Request
  <2>3. /\ h.req = req
        /\ h.pc = "step_down" => req.term > currentTerm[n]
        /\ h.pc = "grant" =>
              req.term = currentTerm[n] /\ votedFor[n] \in {None, req.from}
    BY <1>0, <2>2
  <2> HIDE DEF h
  <2>4. DecisionOK(h)
    BY <2>3 DEF DecisionOK
  <2> QED BY <2>1, <2>4, SameVotes
<1>7. ASSUME NEW h \in handlers, ReplyVote(h) PROVE SerialOK'
  BY <1>7, SameVotes DEF ReplyVote, nodeVars, countVars
<1>8. ASSUME NEW n \in Server,
             \/ DelayFires(n) \/ TimerFires(n) \/ TimerIgnored(n)
             \/ (\E m \in Server : RequestVoteFails(n, m))
             \/ Replicate(n) \/ HeartbeatTick(n) \/ HeartbeatExits(n)
             \/ Propose(n) \/ ProposeReturns(n) \/ Stop(n)
      PROVE  SerialOK'
  <2>1. UNCHANGED <<currentTerm, votedFor, votes, handlers>>
    BY <1>8
       DEF DelayFires, TimerFires, TimerIgnored, RequestVoteFails, Replicate,
           HeartbeatTick, HeartbeatExits, Propose, ProposeReturns, Stop,
           nodeVars, rpcVars, countVars
  <2> QED BY <2>1, SameVotes
<1>9. CASE UNCHANGED vars
  BY <1>9, SameVotes DEF vars, nodeVars, rpcVars, countVars
<1> QED
  BY <1>1, <1>2, <1>3, <1>4, <1>5, <1>6, <1>7, <1>8, <1>9
     DEF Next, ElectionStep, LeaderStep, HandlerStep

THEOREM SpecSerialInv == VotesSpec => []SerialInv
<1>1. IInv /\ SerialInv /\ [VotesNext]_votesVars => SerialInv'
  <2> SUFFICES ASSUME IInv, SerialInv, [VotesNext]_votesVars, ~interfered'
               PROVE  SerialOK'
    BY DEF SerialInv
  <2>1. CASE VotesNext
    <3>1. ~interfered /\ ~Interferes /\ Next
      BY <2>1 DEF VotesNext
    <3> QED BY <3>1, NextSerialOK DEF SerialInv
  <2>2. CASE UNCHANGED votesVars
    <3>1. ~interfered /\ UNCHANGED vars
      BY <2>2 DEF votesVars
    <3> QED
      BY <3>1, SameVotes
         DEF SerialInv, vars, nodeVars, rpcVars, countVars
  <2> QED BY <2>1, <2>2
<1> QED BY InitSerialInv, VotesSpecIInv, <1>1, PTL DEF VotesSpec

-----------------------------------------------------------------------------
\* A node votes for one candidate in a term when nothing interferes.
THEOREM SerialVotesOnce == VotesSpec => [](~interfered => OneVotePerTerm)
<1>1. SerialInv => (~interfered => OneVotePerTerm)
  BY DEF SerialInv, SerialOK
<1> QED BY SpecSerialInv, <1>1, PTL

\* Two sets of servers that are majorities share one.
LEMMA MajoritiesMeet ==
    ASSUME NEW S \in SUBSET Server, NEW T \in SUBSET Server,
           IsMajority(S), IsMajority(T)
    PROVE  \E x \in Server : x \in S /\ x \in T
<1>1. /\ Cardinality(S) \in Nat /\ Cardinality(T) \in Nat
      /\ Cardinality(Server) \in Nat
  BY ServerAssumption, FS_Subset, FS_CardinalityType
<1>2. Cardinality(S) + Cardinality(T) > Cardinality(Server)
  BY <1>1 DEF IsMajority
<1>3. S \cap T # {}
  <2>1. S \subseteq Server /\ T \subseteq Server
    OBVIOUS
  <2> QED
    BY <1>2, <2>1, ServerAssumption, FS_MajoritiesIntersect
<1> QED BY <1>3

\* A term has one leader at most, in a cluster of any size, when no thread
\* changes a vote state that a handler has copied and no node restarts.
THEOREM TermsHaveOneLeader == VotesSpec => []OneLeaderPerTerm
<1>1. LeaderHasQuorum /\ SerialInv => OneLeaderPerTerm
  <2> SUFFICES ASSUME LeaderHasQuorum, OneVotePerTerm,
                      NEW m \in Server, NEW n \in Server,
                      role[m] = "leader", role[n] = "leader",
                      currentTerm[m] = currentTerm[n]
               PROVE  m = n
    BY DEF OneLeaderPerTerm, SerialInv, SerialOK
  <2> DEFINE S == Backers(m, currentTerm[m])
             T == Backers(n, currentTerm[m])
  <2>1. IsMajority(S) /\ IsMajority(T)
    BY DEF LeaderHasQuorum, Backers
  <2>2. S \in SUBSET Server /\ T \in SUBSET Server
    BY DEF Backers
  <2> HIDE DEF S, T
  <2>3. PICK x \in Server : x \in S /\ x \in T
    BY <2>1, <2>2, MajoritiesMeet
  <2>4. <<x, currentTerm[m], m>> \in votes /\ <<x, currentTerm[m], n>> \in votes
    BY <2>3 DEF S, T, Backers
  <2> QED BY <2>4 DEF OneVotePerTerm
<1>2. IInv => LeaderHasQuorum
  BY DEF IInv
<1> QED BY VotesSpecIInv, SpecSerialInv, <1>1, <1>2, PTL
=============================================================================

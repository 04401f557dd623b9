-------------------------- MODULE RaftElectionProofs --------------------------
(***************************************************************************)
(* Proofs about RaftElection, for every set of servers and every number of *)
(* elections, stops and restarts: its types, LeaderHasQuorum and           *)
(* FollowerHasTimer.                                                       *)
(*                                                                         *)
(* That a leader has a quorum is not inductive: it holds because every     *)
(* answer an election counts is a vote recorded for that election's term   *)
(* (ElectionOK), which holds because a handler that answers "granted" has  *)
(* recorded the vote (HandlerOK) and because a call carries the term of    *)
(* the election that made it (CallOK).                                     *)
(***************************************************************************)
EXTENDS RaftElection, FiniteSetTheorems, SequenceTheorems, TLAPS

\* The election of n voted for n, and its granted answers are votes.
ElectionOK(n) ==
    /\ election[n].id <= elections
    /\ Electing(n) => <<n, election[n].term, n>> \in votes
    /\ \A i \in DOMAIN election[n].results :
          election[n].results[i].granted =>
              <<election[n].results[i].peer, election[n].term, n>> \in votes

\* A call that the caller still waits for is of the caller's election.
CallOK(req) ==
    /\ req.id # 0
    /\ req.id <= elections
    /\ req.id = election[req.from].id => req.term = election[req.from].term

\* A handler about to answer "granted" has recorded the vote.
HandlerOK(h) ==
    /\ CallOK(h.req)
    /\ h.pc = "grant" => h.granted
    /\ h.pc = "reply" /\ h.granted =>
           <<h.req.to, h.req.term, h.req.from>> \in votes

IInv ==
    /\ TypeOK
    /\ \A n \in Server : ElectionOK(n)
    /\ \A req \in requests : CallOK(req)
    /\ \A h \in handlers : HandlerOK(h)
    /\ LeaderHasQuorum

-----------------------------------------------------------------------------
(* Types *)

\* Initially every variable has its type.
LEMMA InitTypeOK == Init => TypeOK
  BY ServerAssumption
     DEF Init, TypeOK, Role, Election, NoElection, Reply

\* An election stays one when a call ends.
LEMMA CallEndsType ==
    ASSUME NEW e \in Election, NEW m \in Server, NEW answers \in Seq(Reply)
    PROVE  CallEnds(e, m, answers) \in Election
<1> DEFINE rs == e.results \o answers
<1>1. rs \in Seq(Reply)
  BY DEF Election
<1> HIDE DEF rs
<1> QED BY <1>1 DEF CallEnds, Election

\* Every step keeps the types.
LEMMA NextTypeOK == TypeOK /\ [Next]_vars => TypeOK'
<1> SUFFICES ASSUME TypeOK, [Next]_vars PROVE TypeOK'
  OBVIOUS
<1> USE ServerAssumption, BoundAssumption
<1> USE DEF TypeOK, Role, Election, Reply, NoElection, BecomeFollower,
        nodeVars, timerVars, threadVars, rpcVars, countVars
<1>1. ASSUME NEW n \in Server, DelayFires(n) PROVE TypeOK'
  BY <1>1 DEF DelayFires
<1>2. ASSUME NEW n \in Server, TimerFires(n) PROVE TypeOK'
  BY <1>2 DEF TimerFires
<1>3. ASSUME NEW n \in Server, StartElection(n) PROVE TypeOK'
  BY <1>3 DEF StartElection, Request, Handler, LastTerm
<1>4. ASSUME NEW n \in Server, TimerIgnored(n) PROVE TypeOK'
  BY <1>4 DEF TimerIgnored
<1>5. ASSUME NEW n \in Server, NEW m \in Server, RequestVoteFails(n, m)
      PROVE  TypeOK'
  <2> HIDE DEF Election, Reply
  <2>0. election[n] \in Election /\ <<>> \in Seq(Reply)
    OBVIOUS
  <2>1. CallEnds(election[n], m, <<>>) \in Election
    BY <2>0, CallEndsType
  <2> QED BY <1>5, <2>1 DEF RequestVoteFails
<1>6. ASSUME NEW n \in Server, Tally(n) PROVE TypeOK'
  <2>1. election' \in [Server -> Election]
    BY <1>6 DEF Tally
  <2>2. StartLeading(n) \/ UNCHANGED <<replicating, heartbeat>>
    BY <1>6 DEF Tally
  <2>3. /\ replicating' \in [Server -> BOOLEAN]
        /\ heartbeat' \in [Server -> {"none", "loop", "exiting"}]
    BY <2>2 DEF StartLeading
  <2>4. /\ role' \in [Server -> Role]
        /\ currentTerm' \in [Server -> Nat]
        /\ votedFor' \in [Server -> Server \cup {None}]
        /\ armed' \in [Server -> BOOLEAN]
    <3>1. ASSUME NEW i \in DeposedAt(n, election[n]),
                 BecomeFollower(n, election[n].results[i].term)
          PROVE  /\ role' \in [Server -> Role]
                 /\ currentTerm' \in [Server -> Nat]
                 /\ votedFor' \in [Server -> Server \cup {None}]
                 /\ armed' \in [Server -> BOOLEAN]
      <4>1. election[n].results \in Seq(Reply)
        OBVIOUS
      <4>2. i \in 1..Len(election[n].results)
        <5>1. DOMAIN election[n].results = 1..Len(election[n].results)
          BY <4>1
        <5> QED BY <5>1 DEF DeposedAt
      <4>3. election[n].results[i] \in Reply
        BY <4>1, <4>2, ElementOfSeq
      <4> QED BY <3>1, <4>3
    <3>2. CASE UNCHANGED <<currentTerm, votedFor, armed>>
               /\ (role' = [role EXCEPT ![n] = "leader"] \/ role' = role)
      BY <3>2
    <3> HIDE DEF BecomeFollower
    <3> QED BY <1>6, <3>1, <3>2 DEF Tally
  <2> QED BY <1>6, <2>1, <2>3, <2>4 DEF Tally
<1>7. ASSUME NEW n \in Server, Replicate(n) PROVE TypeOK'
  BY <1>7 DEF Replicate
<1>8. ASSUME NEW n \in Server, HeartbeatTick(n) PROVE TypeOK'
  BY <1>8 DEF HeartbeatTick
<1>9. ASSUME NEW n \in Server, HeartbeatExits(n) PROVE TypeOK'
  BY <1>9 DEF HeartbeatExits
<1>10. ASSUME NEW n \in Server, Propose(n) PROVE TypeOK'
  BY <1>10 DEF Propose
<1>11. ASSUME NEW n \in Server, ProposeReturns(n) PROVE TypeOK'
  BY <1>11 DEF ProposeReturns
<1>12. ASSUME NEW n \in Server, Stop(n) PROVE TypeOK'
  <2>1. faults' \in Nat
    BY <1>12 DEF Stop
  <2>2. running' \in [Server -> BOOLEAN] /\ armed' \in [Server -> BOOLEAN]
    BY <1>12 DEF Stop
  <2> QED BY <1>12, <2>1, <2>2 DEF Stop
<1>13. ASSUME NEW n \in Server, Restart(n) PROVE TypeOK'
  <2>1. /\ role' \in [Server -> Role]
        /\ currentTerm' \in [Server -> Nat]
        /\ votedFor' \in [Server -> Server \cup {None}]
        /\ running' \in [Server -> BOOLEAN]
    BY <1>13 DEF Restart
  <2>2. log' \in [Server -> Seq(Nat)] /\ election' \in [Server -> Election]
    BY <1>13 DEF Restart
  <2>3. /\ delay' \in [Server -> BOOLEAN]
        /\ armed' \in [Server -> BOOLEAN]
        /\ expired' \in [Server -> BOOLEAN]
        /\ wedged' \in [Server -> BOOLEAN]
    BY <1>13 DEF Restart
  <2>4. /\ replicating' \in [Server -> BOOLEAN]
        /\ heartbeat' \in [Server -> {"none", "loop", "exiting"}]
        /\ proposing' \in [Server -> BOOLEAN]
    BY <1>13 DEF Restart
  <2>5. /\ requests' \subseteq Request /\ handlers' \subseteq Handler
        /\ votes' = votes /\ elections' = elections /\ faults' \in Nat
    BY <1>13 DEF Restart
  <2> QED BY <2>1, <2>2, <2>3, <2>4, <2>5
<1>14. ASSUME NEW req \in requests, ReceiveRequestVote(req) PROVE TypeOK'
  <2> DEFINE newer == req.term > currentTerm[req.to]
             ok == /\ req.term >= currentTerm[req.to]
                   /\ newer \/ votedFor[req.to] \in {None, req.from}
                   /\ UpToDate(req, req.to)
             h == [req |-> req,
                   pc |-> IF newer THEN "step_down"
                          ELSE IF ok THEN "grant" ELSE "reply",
                   granted |-> ok,
                   term |-> IF newer THEN req.term ELSE currentTerm[req.to]]
  <2>1. req \in Request /\ req.to \in Server /\ req.term \in Nat
    BY DEF Request
  <2>2. ok \in BOOLEAN
    OBVIOUS
  <2>3. h \in Handler
    BY <2>1, <2>2 DEF Handler
  <2>4. /\ handlers' = handlers \cup {h}
        /\ requests' = requests \ {req}
        /\ UNCHANGED <<nodeVars, timerVars, threadVars, countVars>>
    BY <1>14 DEF ReceiveRequestVote
  <2> HIDE DEF h
  <2> QED BY <2>3, <2>4
<1>15. ASSUME NEW h \in handlers, StepDown(h) PROVE TypeOK'
  BY <1>15 DEF StepDown, Request, Handler, LastTerm
<1>16. ASSUME NEW h \in handlers, Grant(h) PROVE TypeOK'
  <2>1. h.req.to \in Server /\ h.req.from \in Server /\ h.req.term \in Nat
    BY DEF Handler, Request
  <2>2. [h EXCEPT !.pc = "reply"] \in Handler
    BY DEF Handler
  <2>3. handlers' \subseteq Handler
    BY <1>16, <2>2 DEF Grant
  <2>4. votes' \subseteq Server \X Nat \X Server
    <3>1. <<h.req.to, h.req.term, h.req.from>> \in Server \X Nat \X Server
      BY <2>1
    <3> QED BY <1>16, <3>1 DEF Grant
  <2>5. votedFor' \in [Server -> Server \cup {None}]
    BY <1>16, <2>1 DEF Grant
  <2>6. armed' \in [Server -> BOOLEAN]
    BY <1>16, <2>1 DEF Grant
  <2> QED BY <1>16, <2>3, <2>4, <2>5, <2>6 DEF Grant
<1>17. ASSUME NEW h \in handlers, ReplyVote(h) PROVE TypeOK'
  <2> DEFINE n == h.req.from
             reply == [peer |-> h.req.to, term |-> h.term,
                       granted |-> h.granted]
  <2>1. n \in Server /\ h.req.to \in Server /\ reply \in Reply
    BY DEF Handler, Request
  <2>2. CallEnds(election[n], h.req.to, <<reply>>) \in Election
    <3> HIDE DEF Election, Reply, reply, n
    <3>1. election[n] \in Election /\ <<reply>> \in Seq(Reply)
      BY <2>1
    <3> QED BY <2>1, <3>1, CallEndsType
  <2>3. \/ election' = election
        \/ election' =
             [election EXCEPT ![n] = CallEnds(@, h.req.to, <<reply>>)]
    BY <1>17 DEF ReplyVote
  <2>4. election' \in [Server -> Election]
    BY <2>1, <2>2, <2>3
  <2>5. handlers' \subseteq Handler
    BY <1>17 DEF ReplyVote
  <2> QED BY <1>17, <2>4, <2>5 DEF ReplyVote
<1>18. CASE UNCHANGED vars
  BY <1>18 DEF vars
<1> QED
  BY <1>1, <1>2, <1>3, <1>4, <1>5, <1>6, <1>7, <1>8, <1>9, <1>10,
     <1>11, <1>12, <1>13, <1>14, <1>15, <1>16, <1>17, <1>18
     DEF Next, ElectionStep, LeaderStep, HandlerStep

-----------------------------------------------------------------------------
(* FollowerHasTimer *)

\* A follower keeps a timer through every step.
LEMMA NextFollowerHasTimer ==
    TypeOK /\ FollowerHasTimer /\ [Next]_vars => FollowerHasTimer'
<1> SUFFICES ASSUME TypeOK, FollowerHasTimer, [Next]_vars
             PROVE  FollowerHasTimer'
  OBVIOUS
<1> USE DEF TypeOK, Role, FollowerHasTimer, BecomeFollower,
        nodeVars, timerVars, threadVars, rpcVars, countVars
<1>1. ASSUME NEW n \in Server, DelayFires(n) PROVE FollowerHasTimer'
  BY <1>1 DEF DelayFires
<1>2. ASSUME NEW n \in Server, TimerFires(n) PROVE FollowerHasTimer'
  BY <1>2 DEF TimerFires
<1>3. ASSUME NEW n \in Server, StartElection(n) PROVE FollowerHasTimer'
  BY <1>3 DEF StartElection
<1>4. ASSUME NEW n \in Server, TimerIgnored(n) PROVE FollowerHasTimer'
  BY <1>4 DEF TimerIgnored
<1>5. ASSUME NEW n \in Server, NEW m \in Server, RequestVoteFails(n, m)
      PROVE  FollowerHasTimer'
  BY <1>5 DEF RequestVoteFails
<1>6. ASSUME NEW n \in Server, Tally(n) PROVE FollowerHasTimer'
  BY <1>6 DEF Tally
<1>7. ASSUME NEW n \in Server, Replicate(n) PROVE FollowerHasTimer'
  BY <1>7 DEF Replicate
<1>8. ASSUME NEW n \in Server, HeartbeatTick(n) PROVE FollowerHasTimer'
  BY <1>8 DEF HeartbeatTick
<1>9. ASSUME NEW n \in Server, HeartbeatExits(n) PROVE FollowerHasTimer'
  BY <1>9 DEF HeartbeatExits
<1>10. ASSUME NEW n \in Server, Propose(n) PROVE FollowerHasTimer'
  BY <1>10 DEF Propose
<1>11. ASSUME NEW n \in Server, ProposeReturns(n) PROVE FollowerHasTimer'
  BY <1>11 DEF ProposeReturns
<1>12. ASSUME NEW n \in Server, Stop(n) PROVE FollowerHasTimer'
  BY <1>12 DEF Stop
<1>13. ASSUME NEW n \in Server, Restart(n) PROVE FollowerHasTimer'
  BY <1>13 DEF Restart
<1>14. ASSUME NEW req \in requests, ReceiveRequestVote(req)
       PROVE  FollowerHasTimer'
  BY <1>14 DEF ReceiveRequestVote
<1>15. ASSUME NEW h \in handlers, StepDown(h) PROVE FollowerHasTimer'
  BY <1>15 DEF StepDown, Request, Handler
<1>16. ASSUME NEW h \in handlers, Grant(h) PROVE FollowerHasTimer'
  BY <1>16 DEF Grant, Request, Handler
<1>17. ASSUME NEW h \in handlers, ReplyVote(h) PROVE FollowerHasTimer'
  BY <1>17 DEF ReplyVote, Request, Handler
<1>18. CASE UNCHANGED vars
  BY <1>18 DEF vars
<1> QED
  BY <1>1, <1>2, <1>3, <1>4, <1>5, <1>6, <1>7, <1>8, <1>9, <1>10,
     <1>11, <1>12, <1>13, <1>14, <1>15, <1>16, <1>17, <1>18
     DEF Next, ElectionStep, LeaderStep, HandlerStep

-----------------------------------------------------------------------------
(* LeaderHasQuorum *)

\* A set of servers that contains a majority is one.
LEMMA MajorityGrows ==
    ASSUME NEW S \in SUBSET Server, NEW T \in SUBSET Server, S \subseteq T,
           IsMajority(S)
    PROVE  IsMajority(T)
<1>1. IsFiniteSet(T) /\ IsFiniteSet(S) /\ S \in SUBSET T
  BY ServerAssumption, FS_Subset
<1>2. /\ Cardinality(S) <= Cardinality(T)
      /\ Cardinality(S) \in Nat /\ Cardinality(T) \in Nat
      /\ Cardinality(Server) \in Nat
  BY <1>1, ServerAssumption, FS_Subset, FS_CardinalityType
<1> QED BY <1>2 DEF IsMajority

\* The voters of n in a term, as LeaderHasQuorum counts them.
Backers(n, term) == {m \in Server : <<m, term, n>> \in votes}

\* A step that makes no leader, and keeps the terms of those there are,
\* preserves LeaderHasQuorum: no vote is ever removed.
LEMMA LeadersKept ==
    ASSUME LeaderHasQuorum, votes \subseteq votes',
           \A n \in Server : role'[n] = "leader" =>
               role[n] = "leader" /\ currentTerm'[n] = currentTerm[n]
    PROVE  LeaderHasQuorum'
<1> SUFFICES ASSUME NEW n \in Server, role'[n] = "leader"
             PROVE  IsMajority({m \in Server :
                                  <<m, currentTerm'[n], n>> \in votes'})
  BY DEF LeaderHasQuorum, IsMajority
<1>1. IsMajority(Backers(n, currentTerm[n]))
  BY DEF LeaderHasQuorum, Backers
<1>2. Backers(n, currentTerm[n]) \subseteq
          {m \in Server : <<m, currentTerm'[n], n>> \in votes'}
  BY DEF Backers
<1> QED BY <1>1, <1>2, MajorityGrows DEF Backers

\* What an election that is not stale counts is a set of its voters.
LEMMA WonElection ==
    ASSUME NEW n \in Server, TypeOK, ElectionOK(n), Electing(n),
           WonAt(n, election[n]) # {}
    PROVE  IsMajority(Backers(n, election[n].term))
<1> DEFINE e == election[n]
<1>1. PICK i \in DOMAIN e.results : IsMajority({n} \cup Voters(e, i))
  BY DEF WonAt
<1>2. DOMAIN e.results = 1..Len(e.results) /\ Len(e.results) \in Nat
  BY DEF TypeOK, Election
<1>3. ASSUME NEW m \in Voters(e, i) PROVE <<m, e.term, n>> \in votes
  <2>1. PICK j \in 1..i : e.results[j].peer = m /\ e.results[j].granted
    BY DEF Voters
  <2>2. j \in DOMAIN e.results
    BY <1>2
  <2> QED BY <2>1, <2>2 DEF ElectionOK
<1>4. {n} \cup Voters(e, i) \in SUBSET Server
  BY DEF Voters
<1>5. {n} \cup Voters(e, i) \subseteq Backers(n, e.term)
  BY <1>3, <1>4 DEF ElectionOK, Backers
<1>6. Backers(n, e.term) \in SUBSET Server
  BY DEF Backers
<1> QED BY <1>1, <1>4, <1>5, <1>6, MajorityGrows

\* The initial state satisfies the inductive invariant.
LEMMA InitIInv == Init => IInv
<1> SUFFICES ASSUME Init PROVE IInv
  OBVIOUS
<1>1. TypeOK
  BY InitTypeOK
<1> QED
  BY <1>1 DEF Init, IInv, ElectionOK, Electing, NoElection, LeaderHasQuorum

\* Every step of every thread preserves it.
LEMMA NextIInv == IInv /\ [Next]_vars => IInv'
<1> SUFFICES ASSUME IInv, [Next]_vars PROVE IInv'
  OBVIOUS
<1> USE DEF IInv
<1>1. TypeOK /\ TypeOK'
  BY NextTypeOK
<1>q. ASSUME UNCHANGED <<currentTerm, role, election, requests, handlers,
                         votes, elections>>
      PROVE  IInv'
  BY <1>1, <1>q DEF ElectionOK, Electing, CallOK, HandlerOK, LeaderHasQuorum,
                    IsMajority
<1>2. ASSUME NEW n \in Server, StartElection(n) PROVE IInv'
  <2> DEFINE id == elections + 1
             term == currentTerm[n] + 1
             e == [id |-> id, term |-> term, waiting |-> Server \ {n},
                   results |-> <<>>]
  <2>1. /\ election' = [election EXCEPT ![n] = e]
        /\ elections' = id
        /\ votes' = votes \cup {<<n, term, n>>}
        /\ handlers' = handlers
    BY <1>2 DEF StartElection
  <2>2. /\ \A m \in Server : election[m].id <= elections
        /\ elections \in Nat
        /\ \A m \in Server : election[m].id \in Nat
    BY <1>1 DEF ElectionOK, TypeOK, Election
  <2>3. ASSUME NEW m \in Server PROVE ElectionOK(m)'
    <3>1. CASE m = n
      <4>1. election'[m] = e
        BY <1>1, <2>1, <3>1 DEF TypeOK
      <4> QED BY <2>1, <2>2, <3>1, <4>1 DEF ElectionOK, Electing
    <3>2. CASE m # n
      <4>1. election'[m] = election[m]
        BY <1>1, <2>1, <3>2 DEF TypeOK
      <4>2. election'[m].id <= elections'
        BY <2>1, <2>2, <4>1
      <4>3. ElectionOK(m) /\ votes \subseteq votes'
        BY <2>1
      <4> HIDE DEF IInv
      <4> QED BY <4>1, <4>2, <4>3 DEF ElectionOK, Electing
    <3> QED BY <3>1, <3>2
  <2>4. ASSUME NEW req, req.from \in Server, req.id \in Nat, CallOK(req)
        PROVE  CallOK(req)'
    <3>1. req.id <= elections /\ req.id # id
      BY <2>2, <2>4 DEF CallOK
    <3>2. req.from = n => election'[req.from].id # req.id
      BY <1>1, <2>1, <3>1 DEF TypeOK
    <3>3. req.from # n => election'[req.from] = election[req.from]
      BY <1>1, <2>1, <2>4 DEF TypeOK
    <3> QED BY <2>1, <2>2, <2>4, <3>1, <3>2, <3>3 DEF CallOK
  <2>5. ASSUME NEW req \in requests' PROVE CallOK(req)'
    <3>1. CASE req \in requests
      <4>1. req.from \in Server /\ req.id \in Nat
        BY <1>1, <3>1 DEF TypeOK, Request
      <4> QED BY <2>4, <3>1, <4>1
    <3>2. CASE req \notin requests
      <4>1. req.id = id /\ req.term = term /\ req.from = n
        BY <1>2, <3>2 DEF StartElection
      <4>2. election'[n] = e
        BY <1>1, <2>1 DEF TypeOK
      <4> QED BY <2>1, <2>2, <4>1, <4>2 DEF CallOK
    <3> QED BY <3>1, <3>2
  <2>6. ASSUME NEW h \in handlers' PROVE HandlerOK(h)'
    <3>1. h \in handlers /\ h.req.from \in Server /\ h.req.id \in Nat
      BY <1>1, <2>1 DEF TypeOK, Handler, Request
    <3>2. CallOK(h.req)'
      BY <2>4, <3>1 DEF HandlerOK
    <3> QED BY <2>1, <3>1, <3>2 DEF HandlerOK
  <2>7. LeaderHasQuorum'
    BY <1>1, <1>2, LeadersKept DEF StartElection, TypeOK
  <2> QED BY <1>1, <2>3, <2>5, <2>6, <2>7
<1>3. ASSUME NEW n \in Server, NEW m \in Server, RequestVoteFails(n, m)
      PROVE  IInv'
  <2>1. election' = [election EXCEPT ![n] = CallEnds(@, m, <<>>)]
    BY <1>3 DEF RequestVoteFails
  <2>2. election[n].results \o <<>> = election[n].results
    BY <1>1, ConcatEmptySeq DEF TypeOK, Election
  <2>3. ASSUME NEW k \in Server
        PROVE  /\ election'[k].id = election[k].id
               /\ election'[k].term = election[k].term
               /\ election'[k].results = election[k].results
    BY <1>1, <2>1, <2>2 DEF TypeOK, CallEnds
  <2>4. UNCHANGED <<currentTerm, role, requests, handlers, votes, elections>>
    BY <1>3 DEF RequestVoteFails, nodeVars, rpcVars, countVars
  <2>5. ASSUME NEW k \in Server PROVE ElectionOK(k)'
    BY <2>3, <2>4 DEF ElectionOK, Electing
  <2>6. ASSUME NEW req \in Request, CallOK(req) PROVE CallOK(req)'
    BY <2>3, <2>4, <2>6 DEF CallOK, Request
  <2>7. ASSUME NEW req \in requests' PROVE CallOK(req)'
    BY <1>1, <2>4, <2>6 DEF TypeOK
  <2>8. ASSUME NEW h \in handlers' PROVE HandlerOK(h)'
    BY <1>1, <2>4, <2>6 DEF TypeOK, Handler, HandlerOK
  <2>9. LeaderHasQuorum'
    BY <2>4, LeadersKept
  <2> QED BY <1>1, <2>5, <2>7, <2>8, <2>9
<1>4. ASSUME NEW n \in Server, Tally(n) PROVE IInv'
  <2>1. election' = [election EXCEPT ![n] = NoElection]
    BY <1>4 DEF Tally
  <2>2. UNCHANGED <<requests, handlers, votes, elections>>
    BY <1>4 DEF Tally, rpcVars, countVars
  <2>3. ASSUME NEW k \in Server PROVE ElectionOK(k)'
    <3>1. CASE k = n
      <4>1. election'[k] = NoElection /\ elections \in Nat
        BY <1>1, <2>1, <3>1 DEF TypeOK
      <4> QED BY <2>2, <4>1 DEF ElectionOK, Electing, NoElection
    <3>2. CASE k # n
      <4>1. election'[k] = election[k]
        BY <1>1, <2>1, <3>2 DEF TypeOK
      <4> QED BY <2>2, <4>1 DEF ElectionOK, Electing
    <3> QED BY <3>1, <3>2
  <2>4. ASSUME NEW req \in Request, CallOK(req) PROVE CallOK(req)'
    <3>1. req.from = n => election'[req.from].id = 0
      BY <1>1, <2>1 DEF TypeOK, NoElection
    <3>2. req.from # n => election'[req.from] = election[req.from]
      BY <1>1, <2>1 DEF TypeOK, Request
    <3> QED BY <2>2, <2>4, <3>1, <3>2 DEF CallOK
  <2>5. ASSUME NEW req \in requests' PROVE CallOK(req)'
    BY <1>1, <2>2, <2>4 DEF TypeOK
  <2>6. ASSUME NEW h \in handlers' PROVE HandlerOK(h)'
    BY <1>1, <2>2, <2>4 DEF TypeOK, Handler, HandlerOK
  <2>7. LeaderHasQuorum'
    <3>1. CASE role'[n] # "leader" \/ UNCHANGED <<role, currentTerm>>
      <4>1. ASSUME NEW k \in Server, k # n
            PROVE  role'[k] = role[k] /\ currentTerm'[k] = currentTerm[k]
        BY <1>1, <1>4, <4>1 DEF Tally, BecomeFollower, TypeOK
      <4> QED BY <2>2, <3>1, <4>1, LeadersKept
    <3>2. CASE /\ role' = [role EXCEPT ![n] = "leader"]
               /\ currentTerm' = currentTerm
               /\ WonAt(n, election[n]) # {}
               /\ currentTerm[n] = election[n].term
      <4>1. IsMajority(Backers(n, currentTerm[n]))
        BY <1>1, <1>4, <3>2, WonElection DEF Tally
      <4> QED
        BY <1>1, <2>2, <3>2, <4>1
           DEF LeaderHasQuorum, Backers, IsMajority, TypeOK
    <3>3. \/ \E t : BecomeFollower(n, t)
          \/ UNCHANGED <<role, currentTerm>>
          \/ /\ role' = [role EXCEPT ![n] = "leader"]
             /\ currentTerm' = currentTerm
             /\ WonAt(n, election[n]) # {}
             /\ currentTerm[n] = election[n].term
      BY <1>4 DEF Tally
    <3>4. (\E t : BecomeFollower(n, t)) => role'[n] # "leader"
      BY <1>1 DEF BecomeFollower, TypeOK
    <3> QED BY <3>1, <3>2, <3>3, <3>4
  <2> QED BY <1>1, <2>3, <2>5, <2>6, <2>7
<1>5. ASSUME NEW n \in Server, Restart(n) PROVE IInv'
  <2>1. /\ election' = [election EXCEPT ![n] = NoElection]
        /\ requests' \subseteq requests
        /\ handlers' \subseteq handlers
        /\ UNCHANGED <<votes, elections>>
    BY <1>5 DEF Restart
  <2>2. ASSUME NEW k \in Server PROVE ElectionOK(k)'
    <3>1. CASE k = n
      <4>1. election'[k] = NoElection /\ elections \in Nat
        BY <1>1, <2>1, <3>1 DEF TypeOK
      <4> QED BY <2>1, <4>1 DEF ElectionOK, Electing, NoElection
    <3>2. CASE k # n
      <4>1. election'[k] = election[k]
        BY <1>1, <2>1, <3>2 DEF TypeOK
      <4> QED BY <2>1, <4>1 DEF ElectionOK, Electing
    <3> QED BY <3>1, <3>2
  <2>3. ASSUME NEW req \in Request, CallOK(req) PROVE CallOK(req)'
    <3>1. req.from = n => election'[req.from].id = 0
      BY <1>1, <2>1 DEF TypeOK, NoElection
    <3>2. req.from # n => election'[req.from] = election[req.from]
      BY <1>1, <2>1 DEF TypeOK, Request
    <3> QED BY <2>1, <2>3, <3>1, <3>2 DEF CallOK
  <2>4. ASSUME NEW req \in requests' PROVE CallOK(req)'
    BY <1>1, <2>1, <2>3 DEF TypeOK
  <2>5. ASSUME NEW h \in handlers' PROVE HandlerOK(h)'
    BY <1>1, <2>1, <2>3 DEF TypeOK, Handler, HandlerOK
  <2>6. LeaderHasQuorum'
    BY <1>1, <1>5, <2>1, LeadersKept DEF Restart, TypeOK
  <2> QED BY <1>1, <2>2, <2>4, <2>5, <2>6
<1>6. ASSUME NEW req \in requests, ReceiveRequestVote(req) PROVE IInv'
  <2> DEFINE newer == req.term > currentTerm[req.to]
             ok == /\ req.term >= currentTerm[req.to]
                   /\ newer \/ votedFor[req.to] \in {None, req.from}
                   /\ UpToDate(req, req.to)
             h == [req |-> req,
                   pc |-> IF newer THEN "step_down"
                          ELSE IF ok THEN "grant" ELSE "reply",
                   granted |-> ok,
                   term |-> IF newer THEN req.term ELSE currentTerm[req.to]]
  <2>1. /\ handlers' = handlers \cup {h}
        /\ h.req = req
        /\ h.pc = "grant" => h.granted
        /\ h.pc = "reply" => ~h.granted
    BY <1>6 DEF ReceiveRequestVote
  <2> HIDE DEF h
  <2>2. /\ requests' \subseteq requests
        /\ UNCHANGED <<currentTerm, role, election, votes, elections>>
    BY <1>6 DEF ReceiveRequestVote, nodeVars, threadVars, countVars
  <2>3. ASSUME NEW g \in handlers' PROVE HandlerOK(g)'
    BY <2>1, <2>2 DEF HandlerOK, CallOK
  <2>4. LeaderHasQuorum'
    BY <2>2, LeadersKept
  <2> QED BY <1>1, <2>2, <2>3, <2>4 DEF ElectionOK, Electing, CallOK
<1>7. ASSUME NEW h \in handlers, StepDown(h) PROVE IInv'
  <2>1. UNCHANGED <<election, requests, votes, elections>>
    BY <1>7 DEF StepDown, threadVars, countVars
  <2>2. ASSUME NEW g \in handlers' PROVE HandlerOK(g)'
    BY <1>1, <1>7, <2>1 DEF StepDown, HandlerOK, CallOK, TypeOK, Handler
  <2>3. LeaderHasQuorum'
    BY <1>1, <1>7, <2>1, LeadersKept
       DEF StepDown, BecomeFollower, TypeOK, Handler, Request
  <2> QED BY <1>1, <2>1, <2>2, <2>3 DEF ElectionOK, Electing, CallOK
<1>8. ASSUME NEW h \in handlers, Grant(h) PROVE IInv'
  <2>1. /\ UNCHANGED <<currentTerm, role, election, requests, elections>>
        /\ votes' = votes \cup {<<h.req.to, h.req.term, h.req.from>>}
    BY <1>8 DEF Grant, threadVars
  <2> DEFINE r == [h EXCEPT !.pc = "reply"]
  <2>2. ASSUME NEW g \in handlers' PROVE HandlerOK(g)'
    <3>1. g \in handlers \/ g = r
      BY <1>8 DEF Grant
    <3>2. r.req = h.req /\ r.pc = "reply" /\ CallOK(h.req)
      BY <1>1 DEF TypeOK, Handler, HandlerOK
    <3>3. <<h.req.to, h.req.term, h.req.from>> \in votes'
      BY <2>1
    <3> HIDE DEF r
    <3>4. CASE g \in handlers
      BY <2>1, <3>4 DEF HandlerOK, CallOK
    <3>5. CASE g = r
      BY <2>1, <3>2, <3>3, <3>5 DEF HandlerOK, CallOK
    <3> QED BY <3>1, <3>4, <3>5
  <2>3. LeaderHasQuorum'
    BY <2>1, LeadersKept
  <2> QED BY <1>1, <2>1, <2>2, <2>3 DEF ElectionOK, Electing, CallOK
<1>9. ASSUME NEW h \in handlers, ReplyVote(h) PROVE IInv'
  <2> DEFINE n == h.req.from
             m == h.req.to
             reply == [peer |-> m, term |-> h.term, granted |-> h.granted]
  <2>1. /\ UNCHANGED <<currentTerm, role, requests, votes, elections>>
        /\ handlers' = handlers \ {h}
        /\ h.pc = "reply"
    BY <1>9 DEF ReplyVote, nodeVars, countVars
  <2>2. n \in Server /\ m \in Server /\ h.granted \in BOOLEAN
    BY <1>1 DEF TypeOK, Handler, Request
  <2>3. \/ election' = election
        \/ /\ election[n].id = h.req.id
           /\ election' = [election EXCEPT ![n] = CallEnds(@, m, <<reply>>)]
    BY <1>9 DEF ReplyVote
  <2>4. ASSUME NEW k \in Server
        PROVE  /\ election'[k].id = election[k].id
               /\ election'[k].term = election[k].term
               /\ \/ election'[k].results = election[k].results
                  \/ /\ k = n
                     /\ election[n].id = h.req.id
                     /\ election'[k].results = election[k].results \o <<reply>>
    <3> HIDE DEF reply, n, m
    <3>1. CASE election'[k] = election[k]
      BY <3>1
    <3>2. CASE /\ k = n
               /\ election[n].id = h.req.id
               /\ election'[k] = CallEnds(election[k], m, <<reply>>)
      BY <3>2 DEF CallEnds
    <3>3. election'[k] = election[k]
          \/ /\ k = n
             /\ election[n].id = h.req.id
             /\ election'[k] = CallEnds(election[k], m, <<reply>>)
      <4>1. election \in [Server -> Election]
        BY <1>1 DEF TypeOK
      <4> QED BY <2>2, <2>3, <4>1
    <3> QED BY <3>1, <3>2, <3>3
  <2>5. ASSUME NEW k \in Server PROVE ElectionOK(k)'
    <3>1. CASE election'[k].results = election[k].results
      BY <2>1, <2>4, <3>1 DEF ElectionOK, Electing
    <3>2. CASE /\ k = n
               /\ election[n].id = h.req.id
               /\ election'[k].results = election[k].results \o <<reply>>
      <4>1. election[n].results \in Seq(Reply)
        BY <1>1, <2>2 DEF TypeOK, Election
      <4>2. h.granted => <<m, election[n].term, n>> \in votes
        BY <2>1, <3>2 DEF HandlerOK, CallOK
      <4>3. reply.peer = m /\ reply.granted = h.granted
        OBVIOUS
      <4> HIDE DEF reply, n, m
      <4>4. ASSUME NEW i \in DOMAIN election'[k].results
            PROVE  \/ /\ i \in DOMAIN election[k].results
                      /\ election'[k].results[i] = election[k].results[i]
                   \/ election'[k].results[i] = reply
        <5> DEFINE rs == election[n].results
        <5>1. rs \in Seq(Reply)
          BY <4>1
        <5>2. election'[k].results = Append(rs, reply)
          <6> HIDE DEF rs
          <6>1. Append(rs, reply) = rs \o <<reply>>
            BY <5>1
          <6> QED BY <3>2, <6>1 DEF rs
        <5>3. election[k].results = rs
          BY <3>2
        <5> HIDE DEF rs
        <5> QED BY <4>4, <5>1, <5>2, <5>3
      <4>5. ElectionOK(k)
        OBVIOUS
      <4>6. ASSUME NEW i \in DOMAIN election'[k].results,
                   election'[k].results[i].granted
            PROVE  <<election'[k].results[i].peer, election'[k].term, k>>
                       \in votes'
        BY <2>1, <2>4, <3>2, <4>2, <4>3, <4>4, <4>5, <4>6 DEF ElectionOK
      <4>7. /\ election'[k].id <= elections'
            /\ Electing(k)' => <<k, election'[k].term, k>> \in votes'
        BY <2>1, <2>4, <4>5 DEF ElectionOK, Electing
      <4> QED BY <4>6, <4>7 DEF ElectionOK
    <3> QED BY <2>4, <3>1, <3>2
  <2>6. ASSUME NEW req \in Request, CallOK(req) PROVE CallOK(req)'
    BY <2>1, <2>4, <2>6 DEF CallOK, Request
  <2>7. ASSUME NEW req \in requests' PROVE CallOK(req)'
    BY <1>1, <2>1, <2>6 DEF TypeOK
  <2>8. ASSUME NEW g \in handlers' PROVE HandlerOK(g)'
    BY <1>1, <2>1, <2>6 DEF TypeOK, Handler, HandlerOK
  <2>9. LeaderHasQuorum'
    BY <2>1, LeadersKept
  <2> QED BY <1>1, <2>5, <2>7, <2>8, <2>9
<1>10. ASSUME NEW n \in Server,
              \/ DelayFires(n) \/ TimerFires(n) \/ TimerIgnored(n)
              \/ Replicate(n) \/ HeartbeatTick(n) \/ HeartbeatExits(n)
              \/ Propose(n) \/ ProposeReturns(n) \/ Stop(n)
       PROVE  IInv'
  BY <1>10, <1>q
     DEF DelayFires, TimerFires, TimerIgnored, Replicate, HeartbeatTick,
         HeartbeatExits, Propose, ProposeReturns, Stop, nodeVars, threadVars,
         rpcVars, countVars
<1>11. CASE UNCHANGED vars
  BY <1>11, <1>q DEF vars, nodeVars, threadVars, rpcVars, countVars
<1> QED
  BY <1>2, <1>3, <1>4, <1>5, <1>6, <1>7, <1>8, <1>9, <1>10, <1>11
     DEF Next, ElectionStep, LeaderStep, HandlerStep

-----------------------------------------------------------------------------
\* Every state is well typed.
THEOREM TypeCorrect == Spec => []TypeOK
<1>1. TypeOK /\ [Next]_vars => TypeOK'
  BY NextTypeOK
<1> QED BY InitTypeOK, <1>1, PTL DEF Spec

\* No node leads a term that a majority of the nodes did not grant to it,
\* whatever RequestVote handlers, failed calls, stops and restarts interleave.
THEOREM LeadersHaveQuorums == Spec => []LeaderHasQuorum
<1>1. IInv /\ [Next]_vars => IInv'
  BY NextIInv
<1>2. IInv => LeaderHasQuorum
  BY DEF IInv
<1> QED BY InitIInv, <1>1, <1>2, PTL DEF Spec

\* No running follower is left without a timer that will make it a candidate.
THEOREM FollowersHaveTimers == Spec => []FollowerHasTimer
<1>1. Init => FollowerHasTimer
  BY DEF Init, FollowerHasTimer
<1>2. TypeOK /\ FollowerHasTimer /\ [Next]_vars => FollowerHasTimer'
  BY NextFollowerHasTimer
<1> QED BY TypeCorrect, <1>1, <1>2, PTL DEF Spec
=============================================================================

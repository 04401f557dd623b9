----------------------------- MODULE RaftElection -----------------------------
(***************************************************************************)
(* Leader election between the control-plane nodes (raft/node.py), down to *)
(* the critical sections of each node's lock.  Every `with self._lock`     *)
(* block is one step; between two blocks of a thread the node's other      *)
(* threads run, so a handler acts on the vote state it copied earlier.     *)
(*                                                                         *)
(* The threads of a node are its timers, the thread that runs an election  *)
(* (_start_election waits for its RPCs), one thread per RequestVote it is  *)
(* answering, the replication threads of a leader, its heartbeat loop and  *)
(* a caller of propose.  The lock is a threading.Lock, which its owner     *)
(* cannot take twice: wedged[n] says that a thread owns it and waits for   *)
(* it, as _replicate_to_peer does on a leader.                             *)
(*                                                                         *)
(* No AppendEntries request appears: the only call that sends one comes    *)
(* after the second acquisition in _replicate_to_peer.                     *)
(***************************************************************************)
EXTENDS Naturals, Sequences, FiniteSets

CONSTANTS
    Server,         \* the node ids of peers.PEERS
    None,           \* voted_for of a node that has not voted
    MaxElections,   \* bound on the elections started, in all
    MaxLog,         \* bound on the log's length
    MaxFaults       \* bound on the stops and restarts of nodes, in all

ASSUME ServerAssumption == None \notin Server /\ IsFiniteSet(Server)
ASSUME BoundAssumption ==
    MaxElections \in Nat /\ MaxLog \in Nat /\ MaxFaults \in Nat

VARIABLES
    currentTerm, votedFor, role,   \* the fields of RaftNode, by node
    running,       \* _running
    log,           \* the terms of the process' log entries (raft/log.py)
    wedged,        \* the lock is owned by a thread that waits for it
    delay,         \* start()'s initial timer has not fired yet
    armed,         \* _election_timer is started, neither fired nor cancelled
    expired,       \* a fired timer's thread has not taken the lock yet
    election,      \* the thread in _start_election: its term, the peers whose
                   \* answer it waits for, the answers so far; id 0 when none
    replicating,   \* a _replicate_to_peer thread has not taken the lock yet
    heartbeat,     \* the heartbeat thread
    proposing,     \* a caller of propose waits for its entry to commit
    requests,      \* RequestVote calls that reached no handler yet
    handlers,      \* the threads answering a RequestVote
    votes,         \* history: <<voter, term, candidate>>, one for each grant
    elections,     \* number of elections so far, the id of the last one
    faults         \* number of stops and restarts so far

nodeVars == <<currentTerm, votedFor, role, running, log>>
timerVars == <<delay, armed, expired>>
threadVars == <<wedged, election, replicating, heartbeat, proposing>>
rpcVars == <<requests, handlers>>
countVars == <<votes, elections, faults>>
vars == <<nodeVars, timerVars, threadVars, rpcVars, countVars>>

Role == {"follower", "candidate", "leader"}
Reply == [peer : Server, term : Nat, granted : BOOLEAN]
Election == [id : Nat, term : Nat, waiting : SUBSET Server,
             results : Seq(Reply)]
Request == [id : Nat, from : Server, to : Server, term : Nat,
            lastIndex : Nat, lastTerm : Nat]
Handler == [req : Request, pc : {"step_down", "grant", "reply"}, term : Nat,
            granted : BOOLEAN]

TypeOK ==
    /\ currentTerm \in [Server -> Nat]
    /\ votedFor \in [Server -> Server \cup {None}]
    /\ role \in [Server -> Role]
    /\ running \in [Server -> BOOLEAN]
    /\ log \in [Server -> Seq(Nat)]
    /\ delay \in [Server -> BOOLEAN]
    /\ armed \in [Server -> BOOLEAN]
    /\ expired \in [Server -> BOOLEAN]
    /\ wedged \in [Server -> BOOLEAN]
    /\ election \in [Server -> Election]
    /\ replicating \in [Server -> BOOLEAN]
    /\ heartbeat \in [Server -> {"none", "loop", "exiting"}]
    /\ proposing \in [Server -> BOOLEAN]
    /\ requests \in SUBSET Request
    /\ handlers \in SUBSET Handler
    /\ votes \in SUBSET (Server \X Nat \X Server)
    /\ elections \in Nat
    /\ faults \in Nat

NoElection == [id |-> 0, term |-> 0, waiting |-> {}, results |-> <<>>]

Init ==
    /\ currentTerm = [n \in Server |-> 0]
    /\ votedFor = [n \in Server |-> None]
    /\ role = [n \in Server |-> "follower"]
    /\ running = [n \in Server |-> TRUE]
    /\ log = [n \in Server |-> <<>>]
    /\ delay = [n \in Server |-> TRUE]
    /\ armed = [n \in Server |-> FALSE]
    /\ expired = [n \in Server |-> FALSE]
    /\ wedged = [n \in Server |-> FALSE]
    /\ election = [n \in Server |-> NoElection]
    /\ replicating = [n \in Server |-> FALSE]
    /\ heartbeat = [n \in Server |-> "none"]
    /\ proposing = [n \in Server |-> FALSE]
    /\ requests = {}
    /\ handlers = {}
    /\ votes = {}
    /\ elections = 0
    /\ faults = 0

Electing(n) == election[n].id # 0

\* The RequestVote call to m of election e ended, with an answer or without.
CallEnds(e, m, answers) ==
    [id |-> e.id, term |-> e.term, waiting |-> e.waiting \ {m},
     results |-> e.results \o answers]

IsMajority(S) == 2 * Cardinality(S) > Cardinality(Server)
LastTerm(n) == IF log[n] = <<>> THEN 0 ELSE log[n][Len(log[n])]

\* Mutant: the new term lands in voted_for.
BecomeFollowerSwapped(n, term) ==
    /\ role' = [role EXCEPT ![n] = "follower"]
    /\ currentTerm' = [currentTerm EXCEPT ![n] = term]
    /\ votedFor' = [votedFor EXCEPT ![n] = term]
    /\ armed' = [armed EXCEPT ![n] = TRUE]

\* Mutant: the role is kept.
BecomeFollowerNoRole(n, term) ==
    /\ currentTerm' = [currentTerm EXCEPT ![n] = term]
    /\ votedFor' = [votedFor EXCEPT ![n] = None]
    /\ armed' = [armed EXCEPT ![n] = TRUE]
    /\ UNCHANGED role

\* Mutant: the election timer is not started.
BecomeFollowerNoTimer(n, term) ==
    /\ role' = [role EXCEPT ![n] = "follower"]
    /\ currentTerm' = [currentTerm EXCEPT ![n] = term]
    /\ votedFor' = [votedFor EXCEPT ![n] = None]
    /\ UNCHANGED armed

\* _become_follower_locked: a new term, no vote, and the timer started anew.
BecomeFollower(n, term) ==
    /\ role' = [role EXCEPT ![n] = "follower"]
    /\ currentTerm' = [currentTerm EXCEPT ![n] = term]
    /\ votedFor' = [votedFor EXCEPT ![n] = None]
    /\ armed' = [armed EXCEPT ![n] = TRUE]

-----------------------------------------------------------------------------
(* Timers and elections *)

\* start()'s timer calls _reset_election_timer, without the lock.
DelayFires(n) ==
    /\ delay[n]
    /\ delay' = [delay EXCEPT ![n] = FALSE]
    /\ armed' = [armed EXCEPT ![n] = TRUE]
    /\ UNCHANGED <<nodeVars, expired, threadVars, rpcVars, countVars>>

\* The election timer fires: its thread goes on to take the lock, and a later
\* cancel() has no effect on it.  A timer runs for at least a second, and an
\* election ends soon after its RPCs' deadline of 0.1 s: so no timer fires
\* during an election of its node, or before the last timer's thread ran.
TimerFires(n) ==
    /\ armed[n]
    /\ ~expired[n]
    /\ ~Electing(n)
    /\ armed' = [armed EXCEPT ![n] = FALSE]
    /\ expired' = [expired EXCEPT ![n] = TRUE]
    /\ UNCHANGED <<nodeVars, delay, threadVars, rpcVars, countVars>>

\* _start_election: a new term, a vote for itself, and a RequestVote to every
\* peer.  (The log, read after the lock is released, is the same: only a
\* leader's grows.)
StartElection(n) ==
    /\ expired[n]
    /\ ~wedged[n]
    /\ running[n] /\ role[n] # "leader"
    /\ elections < MaxElections
    /\ LET id == elections + 1
           term == currentTerm[n] + 1
           peers == Server \ {n}
       IN  /\ role' = [role EXCEPT ![n] = "candidate"]
           /\ currentTerm' = [currentTerm EXCEPT ![n] = term]
           /\ votedFor' = [votedFor EXCEPT ![n] = n]
           /\ votes' = votes \cup {<<n, term, n>>}
           /\ elections' = id
           /\ election' = [election EXCEPT ![n] =
                [id |-> id, term |-> term, waiting |-> peers,
                 results |-> <<>>]]
           /\ requests' = requests \cup
                {[id |-> id, from |-> n, to |-> m, term |-> term,
                  lastIndex |-> Len(log[n]), lastTerm |-> LastTerm(n)] :
                 m \in peers}
    /\ expired' = [expired EXCEPT ![n] = FALSE]
    /\ UNCHANGED <<running, log, delay, armed, wedged, replicating, heartbeat,
                   proposing, handlers, faults>>

\* The fired timer of a leader, or of a node that was stopped, does nothing.
TimerIgnored(n) ==
    /\ expired[n]
    /\ ~wedged[n]
    /\ ~running[n] \/ role[n] = "leader"
    /\ expired' = [expired EXCEPT ![n] = FALSE]
    /\ UNCHANGED <<nodeVars, delay, armed, threadVars, rpcVars, countVars>>

\* Mutant: the call has no deadline, and a blocked handler never ends it.
RequestVoteWaits(n, m) ==
    /\ m \in election[n].waiting
    /\ ~wedged[m]
    /\ election' = [election EXCEPT ![n] = CallEnds(@, m, <<>>)]
    /\ UNCHANGED <<nodeVars, timerVars, wedged, replicating, heartbeat,
                   proposing, rpcVars, countVars>>

\* The call to m fails: no connection, or no answer before the deadline.  The
\* request may still reach m.
RequestVoteFails(n, m) ==
    /\ m \in election[n].waiting
    /\ election' = [election EXCEPT ![n] = CallEnds(@, m, <<>>)]
    /\ UNCHANGED <<nodeVars, timerVars, wedged, replicating, heartbeat,
                   proposing, rpcVars, countVars>>

-----------------------------------------------------------------------------
(* The RequestVote handler *)

\* The candidate's log is at least as up to date as n's.
UpToDate(req, n) ==
    \/ req.lastTerm > LastTerm(n)
    \/ req.lastTerm = LastTerm(n) /\ req.lastIndex >= Len(log[n])

\* Mutant: the vote already given is not looked at.
ReceiveRequestVoteAgain(req) ==
    LET n == req.to
        newer == req.term > currentTerm[n]
        granted == req.term >= currentTerm[n] /\ UpToDate(req, n)
        next == IF newer THEN "step_down"
                ELSE IF granted THEN "grant" ELSE "reply"
    IN  /\ ~wedged[n]
        /\ requests' = requests \ {req}
        /\ handlers' = handlers \cup
             {[req |-> req, pc |-> next, granted |-> granted,
               term |-> IF newer THEN req.term ELSE currentTerm[n]]}
        /\ UNCHANGED <<nodeVars, timerVars, threadVars, countVars>>

\* _get_vote_state copies term, vote and log; all that the handler does later
\* is decided from this copy.
ReceiveRequestVote(req) ==
    LET n == req.to
        newer == req.term > currentTerm[n]
        granted == /\ req.term >= currentTerm[n]
                   /\ newer \/ votedFor[n] \in {None, req.from}
                   /\ UpToDate(req, n)
        next == IF newer THEN "step_down"
                ELSE IF granted THEN "grant" ELSE "reply"
    IN  /\ ~wedged[n]
        /\ requests' = requests \ {req}
        /\ handlers' = handlers \cup
             {[req |-> req, pc |-> next, granted |-> granted,
               term |-> IF newer THEN req.term ELSE currentTerm[n]]}
        /\ UNCHANGED <<nodeVars, timerVars, threadVars, countVars>>

\* The request's term was newer than the copy: become a follower in it,
\* whatever the node's term is by now.
StepDown(h) ==
    /\ h.pc = "step_down"
    /\ ~wedged[h.req.to]
    /\ BecomeFollower(h.req.to, h.req.term)
    /\ handlers' = (handlers \ {h}) \cup
         {[h EXCEPT !.pc = IF h.granted THEN "grant" ELSE "reply"]}
    /\ UNCHANGED <<running, log, delay, expired, threadVars, requests,
                   countVars>>

\* _record_vote_locked, whatever the node's term and vote are by now.
Grant(h) ==
    /\ h.pc = "grant"
    /\ ~wedged[h.req.to]
    /\ votedFor' = [votedFor EXCEPT ![h.req.to] = h.req.from]
    /\ armed' = [armed EXCEPT ![h.req.to] = TRUE]
    /\ votes' = votes \cup {<<h.req.to, h.req.term, h.req.from>>}
    /\ handlers' = (handlers \ {h}) \cup {[h EXCEPT !.pc = "reply"]}
    /\ UNCHANGED <<currentTerm, role, running, log, delay, expired, threadVars,
                   requests, elections, faults>>

\* The answer reaches the candidate, unless its call has failed by now.
ReplyVote(h) ==
    LET n == h.req.from
        m == h.req.to
        reply == [peer |-> m, term |-> h.term, granted |-> h.granted]
    IN  /\ h.pc = "reply"
        /\ handlers' = handlers \ {h}
        /\ IF election[n].id = h.req.id /\ m \in election[n].waiting
           THEN election' = [election EXCEPT ![n] = CallEnds(@, m, <<reply>>)]
           ELSE UNCHANGED election
        /\ UNCHANGED <<nodeVars, timerVars, wedged, replicating, heartbeat,
                       proposing, requests, countVars>>

-----------------------------------------------------------------------------
(* The end of an election *)

\* Mutant: every answer counts as a vote.
VotersAny(e, i) == {m \in Server : \E j \in 1..i : e.results[j].peer = m}

\* The loop over the answers in their order of arrival.  It ends at the first
\* answer with a higher term; a majority makes the node leader on the way, and
\* the loop then looks at one more answer's term only.
Voters(e, i) ==
    {m \in Server :
        \E j \in 1..i : e.results[j].peer = m /\ e.results[j].granted}

WonAt(n, e) ==
    {i \in DOMAIN e.results :
        /\ \A j \in 1..i : e.results[j].term = e.term
        /\ IsMajority({n} \cup Voters(e, i))}

DeposedAt(n, e) ==
    {i \in DOMAIN e.results :
        /\ e.results[i].term > e.term
        /\ \A j \in 1..(i - 1) : e.results[j].term = e.term
        /\ \A w \in WonAt(n, e) : w >= i - 1}

\* What _become_leader_locked, _send_append_entries_locked and
\* _start_heartbeat_loop_locked start on a node that won.
StartLeading(n) ==
    /\ replicating' = [replicating EXCEPT ![n] = Server # {n}]
    /\ heartbeat' = [heartbeat EXCEPT ![n] = IF @ = "none" THEN "loop" ELSE @]

\* All calls ended: the answers are processed under the lock, unless the node
\* has since left the candidate role or the term, or was stopped.  A candidate
\* without a majority stays one, and no timer is started.
Tally(n) ==
    LET e == election[n]
        stale == \/ ~running[n]
                 \/ role[n] # "candidate"
                 \/ currentTerm[n] # e.term
        won == ~stale /\ WonAt(n, e) # {}
        deposed == ~stale /\ DeposedAt(n, e) # {}
    IN  /\ Electing(n)
        /\ e.waiting = {}
        /\ ~wedged[n]
        /\ election' = [election EXCEPT ![n] = NoElection]
        /\ IF won THEN StartLeading(n)
                  ELSE UNCHANGED <<replicating, heartbeat>>
        /\ \/ /\ deposed
              /\ \E i \in DeposedAt(n, e) :
                    BecomeFollower(n, e.results[i].term)
           \/ /\ won /\ ~deposed
              /\ role' = [role EXCEPT ![n] = "leader"]
              /\ UNCHANGED <<currentTerm, votedFor, armed>>
           \/ /\ ~won /\ ~deposed
              /\ UNCHANGED <<currentTerm, votedFor, role, armed>>
        /\ UNCHANGED <<running, log, delay, expired, wedged, proposing,
                       rpcVars, countVars>>

-----------------------------------------------------------------------------
(* A leader's threads *)

\* _replicate_to_peer takes the lock and, on a leader, calls
\* _get_leader_replicate_state, which takes it again.
Replicate(n) ==
    /\ replicating[n]
    /\ ~wedged[n]
    /\ wedged' = [wedged EXCEPT ![n] = (role[n] = "leader")]
    /\ replicating' = [replicating EXCEPT ![n] = (role[n] = "leader")]
    /\ UNCHANGED <<nodeVars, timerVars, election, heartbeat, proposing,
                   rpcVars, countVars>>

\* The heartbeat loop starts replication threads, or breaks.
HeartbeatTick(n) ==
    /\ heartbeat[n] = "loop"
    /\ ~wedged[n]
    /\ \/ /\ running[n] /\ role[n] = "leader"
          /\ replicating' = [replicating EXCEPT ![n] = Server # {n}]
          /\ UNCHANGED heartbeat
       \/ /\ ~running[n] \/ role[n] # "leader"
          /\ heartbeat' = [heartbeat EXCEPT ![n] = "exiting"]
          /\ UNCHANGED replicating
    /\ UNCHANGED <<nodeVars, timerVars, wedged, election, proposing, rpcVars,
                   countVars>>

\* The thread ends; until then is_alive() holds and no new loop is started.
HeartbeatExits(n) ==
    /\ heartbeat[n] = "exiting"
    /\ heartbeat' = [heartbeat EXCEPT ![n] = "none"]
    /\ UNCHANGED <<nodeVars, timerVars, wedged, election, replicating,
                   proposing, rpcVars, countVars>>

\* propose on a leader appends the entry and starts replication threads.
\* (On another node it returns False at once.)
Propose(n) ==
    /\ ~proposing[n]
    /\ ~wedged[n]
    /\ role[n] = "leader"
    /\ Len(log[n]) < MaxLog
    /\ log' = [log EXCEPT ![n] = Append(@, currentTerm[n])]
    /\ proposing' = [proposing EXCEPT ![n] = TRUE]
    /\ replicating' = [replicating EXCEPT ![n] = Server # {n}]
    /\ UNCHANGED <<currentTerm, votedFor, role, running, timerVars, wedged,
                   election, heartbeat, rpcVars, countVars>>

\* The wait ends with False after 20 looks at commit_index under the lock: it
\* is 0, and only the answer to an AppendEntries would advance it.
ProposeReturns(n) ==
    /\ proposing[n]
    /\ ~wedged[n]
    /\ proposing' = [proposing EXCEPT ![n] = FALSE]
    /\ UNCHANGED <<nodeVars, timerVars, wedged, election, replicating,
                   heartbeat, rpcVars, countVars>>

-----------------------------------------------------------------------------
(* The process *)

\* stop(): no lock is taken, the initial timer is not cancelled, and the gRPC
\* server goes on answering.
Stop(n) ==
    /\ faults < MaxFaults
    /\ faults' = faults + 1
    /\ running[n]
    /\ running' = [running EXCEPT ![n] = FALSE]
    /\ armed' = [armed EXCEPT ![n] = FALSE]
    /\ UNCHANGED <<currentTerm, votedFor, role, log, delay, expired,
                   threadVars, rpcVars, votes, elections>>

\* The process is killed and started again.  Nothing was saved: term, vote and
\* log are lost.  Its handlers and the calls to it end.
Restart(n) ==
    /\ faults < MaxFaults
    /\ faults' = faults + 1
    /\ role' = [role EXCEPT ![n] = "follower"]
    /\ currentTerm' = [currentTerm EXCEPT ![n] = 0]
    /\ votedFor' = [votedFor EXCEPT ![n] = None]
    /\ running' = [running EXCEPT ![n] = TRUE]
    /\ log' = [log EXCEPT ![n] = <<>>]
    /\ delay' = [delay EXCEPT ![n] = TRUE]
    /\ armed' = [armed EXCEPT ![n] = FALSE]
    /\ expired' = [expired EXCEPT ![n] = FALSE]
    /\ wedged' = [wedged EXCEPT ![n] = FALSE]
    /\ election' = [election EXCEPT ![n] = NoElection]
    /\ replicating' = [replicating EXCEPT ![n] = FALSE]
    /\ heartbeat' = [heartbeat EXCEPT ![n] = "none"]
    /\ proposing' = [proposing EXCEPT ![n] = FALSE]
    /\ requests' = {r \in requests : r.to # n}
    /\ handlers' = {h \in handlers : h.req.to # n}
    /\ UNCHANGED <<votes, elections>>

-----------------------------------------------------------------------------
ElectionStep(n) ==
    \/ DelayFires(n) \/ TimerFires(n) \/ StartElection(n) \/ TimerIgnored(n)
    \/ \E m \in Server : RequestVoteFails(n, m)
    \/ Tally(n)

HandlerStep ==
    \/ \E req \in requests : ReceiveRequestVote(req)
    \/ \E h \in handlers : StepDown(h) \/ Grant(h) \/ ReplyVote(h)

LeaderStep(n) ==
    Replicate(n) \/ HeartbeatTick(n) \/ HeartbeatExits(n) \/ ProposeReturns(n)

Next ==
    \/ \E n \in Server :
          \/ ElectionStep(n) \/ LeaderStep(n)
          \/ Propose(n) \/ Stop(n) \/ Restart(n)
    \/ HandlerStep

Spec == Init /\ [][Next]_vars

\* Every thread that can go on does so, and a call ends by its deadline.
\* Nothing makes a client propose, or a node stop or restart.
Fairness ==
    /\ \A n \in Server :
          /\ WF_vars(DelayFires(n)) /\ WF_vars(TimerFires(n))
          /\ WF_vars(StartElection(n)) /\ WF_vars(TimerIgnored(n))
          /\ \A m \in Server : WF_vars(RequestVoteFails(n, m))
          /\ WF_vars(Tally(n))
          /\ WF_vars(Replicate(n)) /\ WF_vars(HeartbeatTick(n))
          /\ WF_vars(HeartbeatExits(n)) /\ WF_vars(ProposeReturns(n))
    /\ WF_vars(HandlerStep)

FairSpec == Spec /\ Fairness

-----------------------------------------------------------------------------
\* A majority has voted for the leader of a term in that term: the answers that
\* _start_election counts are grants of the term, by different peers, and the
\* node did not move to another term before it counted them.
LeaderHasQuorum ==
    \A n \in Server :
        role[n] = "leader" =>
            IsMajority({m \in Server : <<m, currentTerm[n], n>> \in votes})

\* A follower that was not stopped will start an election: every path on which
\* a node ends as a follower leaves a timer behind, also when the timer whose
\* thread is running has just been replaced.  (A candidate need not have one:
\* see Tally.)
FollowerHasTimer ==
    \A n \in Server :
        running[n] /\ role[n] = "follower" =>
            delay[n] \/ armed[n] \/ expired[n]

\* A node votes for one candidate in a term (manual_raft_check.py: "Follower
\* rejects vote if already voted for another in same term").
OneVotePerTerm ==
    \A v, w \in votes : v[1] = w[1] /\ v[2] = w[2] => v[3] = w[3]

\* An election ends, unless its node's lock is never released again.
ElectionEnds ==
    \A n \in Server : Electing(n) ~> ~Electing(n) \/ wedged[n]

\* propose returns: its wait for replication is bounded.
ProposeEnds == \A n \in Server : proposing[n] ~> ~proposing[n]
=============================================================================

------------------------------- MODULE RaftVotes -------------------------------
(***************************************************************************)
(* RaftElection with one more history variable, which tells the schedules  *)
(* in which RequestVote decides on what is true from those in which it     *)
(* does not.  The handler copies the node's term and vote under the lock,  *)
(* decides without it, and takes it again to act (raft/node.py); and a     *)
(* process that is restarted has forgotten both.  In every other schedule  *)
(* elections are safe: OneLeaderPerTerm.                                   *)
(*                                                                         *)
(* The variable changes no behaviour of RaftElection.                      *)
(***************************************************************************)
EXTENDS RaftElection

VARIABLE interfered   \* history: a term or a vote was not what a handler, or
                      \* a restarted process, took it to be

votesVars == <<vars, interfered>>

\* Handlers that copied n's term and vote and have not acted on the copy.
Deciding(n) == {h \in handlers : h.req.to = n /\ h.pc # "reply"}

\* This step changes the term or the vote of a node while a handler that does
\* not take the step is deciding, or is a restart.
Interferes ==
    \E n \in Server :
        \/ /\ <<currentTerm[n], votedFor[n]>>' # <<currentTerm[n], votedFor[n]>>
           /\ Deciding(n) \cap handlers' # {}
        \/ Restart(n)

VotesInit == Init /\ interfered = FALSE

VotesNext == Next /\ interfered' = (interfered \/ Interferes)

VotesSpec == VotesInit /\ [][VotesNext]_votesVars

VotesFairSpec == VotesSpec /\ Fairness

-----------------------------------------------------------------------------
\* A term has one leader at most, in a cluster of any size, as long as no
\* thread of a node changes the vote state that a RequestVote handler of the
\* node has copied, and no node restarts.  (manual_raft_check.py tests the
\* handler that rejects a second vote, with no other thread running.)  Without
\* the condition it is false, and with it no node votes twice in a term.
OneLeaderPerTerm ==
    ~interfered =>
        \A m, n \in Server :
            /\ role[m] = "leader" /\ role[n] = "leader"
            /\ currentTerm[m] = currentTerm[n]
            => m = n
=============================================================================

------------------------------ MODULE RaftAppend ------------------------------
(***************************************************************************)
(* The AppendEntries handler of a control-plane node (raft/node.py, rpc    *)
(* service Raft), with the commit index, the applied entries and the log   *)
(* they refer to, beside everything of RaftElection.  Like RequestVote it  *)
(* copies the node's state first and takes the lock again for every change,*)
(* so elections, other handlers and propose run in between.                *)
(*                                                                         *)
(* The nodes themselves send no AppendEntries (see RaftElection); the      *)
(* service accepts one from any caller of rpc.proto, and so does the model.*)
(***************************************************************************)
EXTENDS RaftElection, Bags

CONSTANTS
    MaxTerm,      \* bound on the term of a request
    MaxAppends,   \* bound on the requests, in all
    Commits       \* the values of leader_commit in the requests

ASSUME AppendAssumption ==
    MaxTerm \in Nat /\ MaxAppends \in Nat /\ Commits \subseteq Nat

VARIABLES
    commitIndex, lastApplied,   \* the fields of RaftNode, by node
    appends,       \* the threads answering an AppendEntries (a bag)
    received,      \* number of requests so far
    proposed,      \* history: number of entries the process has proposed
    entries,       \* history: the numbers of the entries in its log
    applied,       \* history: the numbers of the entries applied, in order
    applyRaised,   \* history: an apply raised
    cutApplied     \* history: a request cut the log below last_applied

historyVars == <<proposed, entries, applied, applyRaised, cutApplied>>
stateVars == <<commitIndex, lastApplied, historyVars>>
appendVars == <<stateVars, appends, received>>
allVars == <<vars, appendVars>>

\* What a handler has still to act on: the roles and the timer, and, when the
\* check of the log succeeded (update), the log and the commit index.
AppendHandler ==
    [to : Server, term : Nat, demote : BOOLEAN, update : BOOLEAN,
     prevIndex : Nat, commit : Nat,
     pc : {"step_down", "reset", "demote", "update"}]

AppendTypeOK ==
    /\ TypeOK
    /\ commitIndex \in [Server -> Nat]
    /\ lastApplied \in [Server -> Nat]
    /\ IsABag(appends) /\ BagToSet(appends) \subseteq AppendHandler
    /\ received \in 0..MaxAppends
    /\ proposed \in [Server -> Nat]
    /\ entries \in [Server -> Seq(Nat)]
    /\ applied \in [Server -> Seq(Nat)]
    /\ applyRaised \in [Server -> BOOLEAN]
    /\ cutApplied \in [Server -> BOOLEAN]

AppendInit ==
    /\ Init
    /\ commitIndex = [n \in Server |-> 0]
    /\ lastApplied = [n \in Server |-> 0]
    /\ appends = EmptyBag
    /\ received = 0
    /\ proposed = [n \in Server |-> 0]
    /\ entries = [n \in Server |-> <<>>]
    /\ applied = [n \in Server |-> <<>>]
    /\ applyRaised = [n \in Server |-> FALSE]
    /\ cutApplied = [n \in Server |-> FALSE]

-----------------------------------------------------------------------------
(* The handler *)

\* log_entries holds prev_log_index with prev_log_term, or nothing is asked.
Consistent(n, prevIndex, prevTerm) ==
    \/ prevIndex = 0
    \/ prevIndex <= Len(log[n]) /\ log[n][prevIndex] = prevTerm

\* _get_append_entries_state copies term, role and log; the check is made on
\* the copy.  A request of an older term is refused, and changes nothing.  One
\* with entries that passes the check raises after the roles and the timer: it
\* reads the entries' term, which the message rpc.LogEntry does not have.
ReceiveAppend(n, term, prevIndex, prevTerm, empty, commit) ==
    LET newer == term > currentTerm[n]
        update == Consistent(n, prevIndex, prevTerm) /\ empty
    IN
    /\ ~wedged[n]
    /\ term >= currentTerm[n]
    /\ received < MaxAppends
    /\ received' = received + 1
    /\ appends' = appends (+) SetToBag(
         {[to |-> n, update |-> update,
           term |-> IF newer THEN term ELSE 0,
           demote |-> ~newer /\ role[n] = "candidate",
           prevIndex |-> IF update THEN prevIndex ELSE 0,
           commit |-> IF update THEN commit ELSE 0,
           pc |-> IF newer THEN "step_down" ELSE "reset"]})
    /\ UNCHANGED <<vars, stateVars>>

\* The handler goes on at pc, or returns.  Only step_down reads the term, and
\* only reset whether to demote.
Goes(h, pc) == [h EXCEPT !.pc = pc, !.term = 0, !.demote = FALSE]

Becomes(h, pc) ==
    /\ appends' = (appends (-) SetToBag({h})) (+) SetToBag({Goes(h, pc)})
    /\ UNCHANGED received

Returns(h) ==
    /\ appends' = appends (-) SetToBag({h})
    /\ UNCHANGED received

AfterRoles(h) == IF h.update THEN Becomes(h, "update") ELSE Returns(h)

\* Mutant: the newer term is adopted, the role is kept.
AppendStepDownKeepsRole(h) ==
    /\ h.pc = "step_down"
    /\ ~wedged[h.to]
    /\ currentTerm' = [currentTerm EXCEPT ![h.to] = h.term]
    /\ Becomes(h, "reset")
    /\ UNCHANGED <<votedFor, role, running, log, timerVars, threadVars,
                   rpcVars, countVars, stateVars>>

\* The term was newer than the copy: become a follower in it, whatever the
\* node's term is by now.
AppendStepDown(h) ==
    /\ h.pc = "step_down"
    /\ ~wedged[h.to]
    /\ BecomeFollower(h.to, h.term)
    /\ Becomes(h, "reset")
    /\ UNCHANGED <<running, log, delay, expired, threadVars, rpcVars,
                   countVars, stateVars>>

\* Mutant: the timer of a candidate is left alone, for it has none.
AppendResetFollower(h) ==
    /\ h.pc = "reset"
    /\ ~wedged[h.to]
    /\ armed' = [armed EXCEPT ![h.to] = @ \/ role[h.to] = "follower"]
    /\ IF h.demote THEN Becomes(h, "demote") ELSE AfterRoles(h)
    /\ UNCHANGED <<nodeVars, delay, expired, threadVars, rpcVars, countVars,
                   stateVars>>

\* _reset_election_timer under the lock: also on a leader.
AppendReset(h) ==
    /\ h.pc = "reset"
    /\ ~wedged[h.to]
    /\ armed' = [armed EXCEPT ![h.to] = TRUE]
    /\ IF h.demote THEN Becomes(h, "demote") ELSE AfterRoles(h)
    /\ UNCHANGED <<nodeVars, delay, expired, threadVars, rpcVars, countVars,
                   stateVars>>

\* The node was a candidate when the copy was made: it is a follower now, even
\* if it has become leader meanwhile.
AppendDemote(h) ==
    /\ h.pc = "demote"
    /\ ~wedged[h.to]
    /\ role' = [role EXCEPT ![h.to] = "follower"]
    /\ AfterRoles(h)
    /\ UNCHANGED <<currentTerm, votedFor, running, log, timerVars, threadVars,
                   rpcVars, countVars, stateVars>>

Least(i, j) == IF i < j THEN i ELSE j

\* Mutant: the loop starts from the first entry each time.
AppliesFromStart(n, l, last, at) ==
    /\ applied' = [applied EXCEPT ![n] = @ \o SubSeq(l, 1, Least(last, Len(l)))]
    /\ lastApplied' = [lastApplied EXCEPT ![n] = at]

\* The loop applied the entries of l up to last, and last_applied, which is
\* advanced before each apply, is at.
Applies(n, l, last, at) ==
    /\ applied' = [applied EXCEPT ![n] =
                       @ \o SubSeq(l, lastApplied[n] + 1, last)]
    /\ lastApplied' = [lastApplied EXCEPT ![n] = at]

\* The loop that applies the entries l up to commit index c: it ends there, or
\* at an entry k that raises, because apply does (an unknown command, the
\* database) or because l has no such entry.
ApplyUpTo(n, l, c) ==
    \/ /\ c <= lastApplied[n]
       /\ UNCHANGED <<applied, lastApplied, applyRaised>>
    \/ /\ lastApplied[n] < c /\ c <= Len(l)
       /\ Applies(n, l, c, c)
       /\ UNCHANGED applyRaised
    \/ \E k \in (lastApplied[n] + 1)..c :
       /\ \A i \in (lastApplied[n] + 1)..(k - 1) : i <= Len(l)
       /\ Applies(n, l, k - 1, k)
       /\ applyRaised' = [applyRaised EXCEPT ![n] = @ \/ k <= Len(l)]

\* Mutant: the leader's commit index is taken as it is.
CommitTo(commit, old, length) == IF commit > old THEN commit ELSE old

\* min(leader_commit, len(log)): after a truncation it may be less than before.
NewCommit(commit, old, length) ==
    IF commit > old THEN Least(commit, length) ELSE old

\* A request without entries: the log, whatever it is by now, ends at
\* prev_log_index, committed and applied entries included.
AppendUpdate(h) ==
    LET n == h.to
        kept == Least(h.prevIndex, Len(log[n]))
        c == NewCommit(h.commit, commitIndex[n], kept)
    IN  /\ h.pc = "update"
        /\ ~wedged[n]
        /\ log' = [log EXCEPT ![n] = SubSeq(@, 1, kept)]
        /\ entries' = [entries EXCEPT ![n] = SubSeq(@, 1, kept)]
        /\ cutApplied' = [cutApplied EXCEPT ![n] = @ \/ kept < lastApplied[n]]
        /\ commitIndex' = [commitIndex EXCEPT ![n] = c]
        /\ ApplyUpTo(n, entries'[n], c)
        /\ Returns(h)
        /\ UNCHANGED <<proposed, currentTerm, votedFor, role, running,
                       timerVars, threadVars, rpcVars, countVars>>

-----------------------------------------------------------------------------
\* propose numbers its entries 1, 2, 3, ...; an entry keeps its number, also when
\* another takes its index.
ProposeEntry(n) ==
    /\ Propose(n)
    /\ proposed' = [proposed EXCEPT ![n] = @ + 1]
    /\ entries' = [entries EXCEPT ![n] = Append(@, proposed[n] + 1)]
    /\ UNCHANGED <<commitIndex, lastApplied, appends, received, applied,
                   applyRaised, cutApplied>>

\* A restart loses commit_index and last_applied with the log.
RestartAppend(n) ==
    /\ Restart(n)
    /\ commitIndex' = [commitIndex EXCEPT ![n] = 0]
    /\ lastApplied' = [lastApplied EXCEPT ![n] = 0]
    /\ appends' = [h \in {g \in BagToSet(appends) : g.to # n} |-> appends[h]]
    /\ proposed' = [proposed EXCEPT ![n] = 0]
    /\ entries' = [entries EXCEPT ![n] = <<>>]
    /\ applied' = [applied EXCEPT ![n] = <<>>]
    /\ applyRaised' = [applyRaised EXCEPT ![n] = FALSE]
    /\ cutApplied' = [cutApplied EXCEPT ![n] = FALSE]
    /\ UNCHANGED received

\* The timer started by AppendReset runs for at least a second: it does not
\* fire before the same handler has taken the lock for its next step.  (Nor
\* does any when the bound on elections is reached.)
Demoting(n) == \E h \in BagToSet(appends) : h.to = n /\ h.pc = "demote"

\* The terms a request can name for the entry before its own: those in n's log,
\* and one that matches none.
PrevTerm(n) == {0} \cup {log[n][i] : i \in DOMAIN log[n]}

AppendStep ==
    \/ \E n \in Server, term \in 1..MaxTerm, prevIndex \in 0..MaxLog,
          empty \in BOOLEAN, commit \in Commits :
          \E prevTerm \in PrevTerm(n) :
             ReceiveAppend(n, term, prevIndex, prevTerm, empty, commit)
    \/ \E h \in BagToSet(appends) :
          \/ AppendStepDown(h) \/ AppendReset(h) \/ AppendDemote(h)
          \/ AppendUpdate(h)

\* The steps of RaftElection that leave the new variables alone.
OtherStep ==
    \/ \E n \in Server :
          \/ DelayFires(n)
          \/ ~Demoting(n) /\ elections < MaxElections /\ TimerFires(n)
          \/ StartElection(n) \/ TimerIgnored(n)
          \/ \E m \in Server : RequestVoteFails(n, m)
          \/ Tally(n) \/ LeaderStep(n) \/ Stop(n)
    \/ HandlerStep

AppendNext ==
    \/ AppendStep
    \/ OtherStep /\ UNCHANGED appendVars
    \/ \E n \in Server : ProposeEntry(n) \/ RestartAppend(n)

AppendSpec == AppendInit /\ [][AppendNext]_allVars

-----------------------------------------------------------------------------
\* An entry is applied at most once, and the entries in the order in which they
\* were proposed: although requests in any order cut the log, below what was
\* applied too, the commit index falls, an apply raises, and new entries take
\* the indexes of applied ones.
AppliedOnceInOrder ==
    \A n \in Server : \A i, j \in DOMAIN applied[n] :
        i < j => applied[n][i] < applied[n][j]

\* As long as no apply raised and no applied entry was cut, what a node has
\* applied when the lock is free is the beginning of its log, and reaches to
\* the commit index: no committed entry waits, and the loop never runs past the
\* end of the log a request has just cut.
AppliedToCommitIndex ==
    \A n \in Server :
        ~applyRaised[n] /\ ~cutApplied[n] =>
            /\ Len(applied[n]) \in commitIndex[n]..Len(entries[n])
            /\ \A i \in DOMAIN applied[n] : applied[n][i] = entries[n][i]

\* Committed entries are applied (manual_raft_check.py: "Log replication: entries
\* committed and applied on majority"): on a node where no apply raised, every
\* entry of the log up to commit_index has been applied when the lock is free.
CommittedAreApplied ==
    \A n \in Server :
        ~applyRaised[n] =>
            \A i \in DOMAIN entries[n] : i <= commitIndex[n] =>
                \E j \in DOMAIN applied[n] : applied[n][j] = entries[n][i]
=============================================================================

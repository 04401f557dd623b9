-------------------------------- MODULE Auction --------------------------------
(***************************************************************************)
(* How put_object chooses the nodes it writes to: check_all probes every   *)
(* node of list_nodes() in turn, collect_all asks the ones found alive for *)
(* their free space in turn, and compute_bids and select_winners rank the  *)
(* answers.  Every probe is a step: between two of them nodes go down and  *)
(* come back and disks fill and empty.  VaultStore takes from here that    *)
(* any ReplicationFactor nodes, or all the bidders, may win.               *)
(*                                                                         *)
(* A bid is the position, in collect_all's list, of the snapshot it is     *)
(* made from; the list of bids has their order.                            *)
(***************************************************************************)
EXTENDS Naturals, FiniteSets, Sequences, SequencesExt

CONSTANTS
    Node,
    Nodes,               \* node_registry.NODES: the nodes in their order
    Size,                \* the sizes of disks, in some unit
    ReplicationFactor

ASSUME AuctionAssumption ==
    /\ Nodes \in Seq(Node)
    /\ IsInjective(Nodes)
    /\ Size \subseteq Nat
    /\ ReplicationFactor \in Nat \ {0}

VARIABLES
    up,          \* up[n]: n's process answers
    total, free, \* the size of n's disk and the part of it that is free
    pc,          \* where the call is
    todo,        \* the nodes still to probe, in order
    alive,       \* _get_alive_nodes: the nodes whose health probe was answered
    snapshots,   \* what collect_all has heard so far
    bids,        \* what compute_bids made of it
    winners,     \* the result of select_winners
    unavailable  \* history: nodes down, or whose probe timed out, since the
                 \* call began

nodeVars == <<up, total, free>>
callVars == <<pc, todo, alive, snapshots, bids, winners>>
vars == <<nodeVars, callVars, unavailable>>

Snapshot ==
    {s \in [node : Node, free : Nat, total : Nat] : s.free <= s.total}
Pc == {"check", "collect", "bid", "won", "raised"}

TypeOK ==
    /\ up \in [Node -> BOOLEAN]
    /\ total \in [Node -> Size]
    /\ free \in [Node -> Nat]
    /\ \A n \in Node : free[n] <= total[n]
    /\ pc \in Pc
    /\ todo \in Seq(Node)
    /\ alive \in Seq(Node)
    /\ snapshots \in Seq(Snapshot)
    /\ bids \subseteq DOMAIN snapshots
    /\ winners \in Seq(Snapshot)
    /\ unavailable \in SUBSET Node

Down == {n \in Node : ~up[n]}

Init ==
    /\ up \in [Node -> BOOLEAN]
    /\ total \in [Node -> Size]
    /\ free \in {f \in [Node -> UNION {0..s : s \in Size}] :
                   \A n \in Node : f[n] <= total[n]}
    /\ pc = "check"
    /\ todo = Nodes
    /\ alive = <<>>
    /\ snapshots = <<>>
    /\ bids = {}
    /\ winners = <<>>
    /\ unavailable = Down

-----------------------------------------------------------------------------
(* The auction proper (control_plane/auction.py) *)

\* The score of a bid is disk_free_bytes / disk_total_bytes.
Higher(a, b) == a.free * b.total > b.free * a.total

\* Mutant: an empty disk is not left out.
ComputeBidsOfAny(snaps, nodes) ==
    {i \in DOMAIN snaps : Contains(nodes, snaps[i].node)}

ComputeBids(snaps, nodes) ==
    {i \in DOMAIN snaps : Contains(nodes, snaps[i].node) /\ snaps[i].total # 0}

\* max keeps the first of the highest scores.
SelectWinner(snaps, bs) ==
    snaps[CHOOSE i \in bs : \A j \in bs :
            /\ ~Higher(snaps[j], snaps[i])
            /\ j < i => Higher(snaps[i], snaps[j])]

\* Mutant: reverse=True is the reversal of the ascending order.
AheadUnstable(snaps, bs, i) ==
    {j \in bs : \/ Higher(snaps[j], snaps[i])
                \/ j > i /\ ~Higher(snaps[i], snaps[j])}

\* The bids that sorted(..., reverse=True) puts before i: the higher ones, and
\* those that score as much and came first.
Ahead(snaps, bs, i) ==
    {j \in bs : \/ Higher(snaps[j], snaps[i])
                \/ j < i /\ ~Higher(snaps[i], snaps[j])}

Least(a, b) == IF a < b THEN a ELSE b

SelectWinners(snaps, bs, count) ==
    [k \in 1..Least(Cardinality(bs), count) |->
        snaps[CHOOSE i \in bs : Cardinality(Ahead(snaps, bs, i)) = k - 1]]

-----------------------------------------------------------------------------
(* One call *)

\* A put of another object begins when the last one has its winners.
Begin ==
    /\ pc \in {"won", "raised"}
    /\ pc' = "check"
    /\ todo' = Nodes
    /\ alive' = <<>>
    /\ snapshots' = <<>>
    /\ bids' = {}
    /\ winners' = <<>>
    /\ unavailable' = Down
    /\ UNCHANGED nodeVars

\* check_all: a node that is up may still exceed HEALTH_CHECK_TIMEOUT.
CheckNode ==
    /\ pc = "check" /\ todo # <<>>
    /\ todo' = Tail(todo)
    /\ \/ /\ up[Head(todo)]
          /\ alive' = Append(alive, Head(todo))
          /\ UNCHANGED unavailable
       \/ /\ unavailable' = unavailable \cup {Head(todo)}
          /\ UNCHANGED alive
    /\ UNCHANGED <<nodeVars, pc, snapshots, bids, winners>>

\* With no node alive put_object raises RuntimeError.
CheckEnds ==
    /\ pc = "check" /\ todo = <<>>
    /\ pc' = IF alive = <<>> THEN "raised" ELSE "collect"
    /\ todo' = alive
    /\ UNCHANGED <<nodeVars, alive, snapshots, bids, winners, unavailable>>

\* Mutant: the two sizes are swapped.
CollectNodeSwaps ==
    /\ pc = "collect" /\ todo # <<>>
    /\ todo' = Tail(todo)
    /\ \/ /\ up[Head(todo)]
          /\ snapshots' = Append(snapshots,
               [node |-> Head(todo), free |-> total[Head(todo)],
                total |-> free[Head(todo)]])
       \/ /\ ~up[Head(todo)]
          /\ UNCHANGED snapshots
    /\ UNCHANGED <<nodeVars, pc, alive, bids, winners, unavailable>>

\* Mutant: the except clause of collect_all leaves the loop.
CollectNodeBreaks ==
    /\ pc = "collect" /\ todo # <<>>
    /\ \/ /\ up[Head(todo)]
          /\ todo' = Tail(todo)
          /\ snapshots' = Append(snapshots,
               [node |-> Head(todo), free |-> free[Head(todo)],
                total |-> total[Head(todo)]])
       \/ /\ ~up[Head(todo)]
          /\ todo' = <<>>
          /\ UNCHANGED snapshots
    /\ UNCHANGED <<nodeVars, pc, alive, bids, winners, unavailable>>

\* collect_all: the call has no deadline; a node that went down is left out.
CollectNode ==
    /\ pc = "collect" /\ todo # <<>>
    /\ todo' = Tail(todo)
    /\ \/ /\ up[Head(todo)]
          /\ snapshots' = Append(snapshots,
               [node |-> Head(todo), free |-> free[Head(todo)],
                total |-> total[Head(todo)]])
       \/ /\ ~up[Head(todo)]
          /\ UNCHANGED snapshots
    /\ UNCHANGED <<nodeVars, pc, alive, bids, winners, unavailable>>

CollectEnds ==
    /\ pc = "collect" /\ todo = <<>>
    /\ bids' = ComputeBids(snapshots, alive)
    /\ pc' = "bid"
    /\ UNCHANGED <<nodeVars, todo, alive, snapshots, winners, unavailable>>

\* With no bids select_winners raises ValueError.
Award ==
    /\ pc = "bid"
    /\ \/ /\ bids # {}
          /\ winners' = SelectWinners(snapshots, bids, ReplicationFactor)
          /\ pc' = "won"
       \/ /\ bids = {}
          /\ pc' = "raised"
          /\ UNCHANGED winners
    /\ UNCHANGED <<nodeVars, todo, alive, snapshots, bids, unavailable>>

-----------------------------------------------------------------------------
(* The nodes *)

Crash(n) ==
    /\ up[n]
    /\ up' = [up EXCEPT ![n] = FALSE]
    /\ unavailable' = unavailable \cup {n}
    /\ UNCHANGED <<total, free, callVars>>

Restart(n) ==
    /\ ~up[n]
    /\ up' = [up EXCEPT ![n] = TRUE]
    /\ UNCHANGED <<total, free, callVars, unavailable>>

\* Anyone may write to the file system that holds n's data directory.
DiskChanges(n) ==
    /\ \E f \in 0..total[n] : free' = [free EXCEPT ![n] = f]
    /\ UNCHANGED <<up, total, callVars, unavailable>>

Next ==
    \/ Begin \/ CheckNode \/ CheckEnds \/ CollectNode \/ CollectEnds \/ Award
    \/ \E n \in Node : Crash(n) \/ Restart(n) \/ DiskChanges(n)

Spec == Init /\ [][Next]_vars

-----------------------------------------------------------------------------
IsWinner(n) == \E w \in ToSet(winners) : w.node = n

\* A node that stayed up and answered in time is passed over only for
\* ReplicationFactor others, none of which had less of its disk free when it
\* was asked; the put does not fail while there is such a node.  Nodes that
\* fail between the two rounds of probes cost no other node its place.
SteadyNodesCompete ==
    \A n \in ToSet(Nodes) \ unavailable :
        pc \in {"won", "raised"} /\ total[n] # 0 =>
            \/ IsWinner(n)
            \/ /\ Len(winners) = ReplicationFactor
               /\ \E s \in ToSet(snapshots) :
                     /\ s.node = n
                     /\ \A w \in ToSet(winners) : ~Higher(s, w)

\* The winners are different nodes, so that ReplicationFactor Puts make as
\* many replicas, and every one of them answered both rounds of this call and
\* has a disk.
WinnersAnswered ==
    /\ \A i, j \in DOMAIN winners :
          winners[i].node = winners[j].node => i = j
    /\ \A w \in ToSet(winners) :
          Contains(alive, w.node) /\ Contains(snapshots, w) /\ w.total # 0

\* The two ways to end an auction agree: the node select_winner returns is the
\* first that select_winners does, bids with the same score included.
WinnersAgree == pc = "won" => winners[1] = SelectWinner(snapshots, bids)
=============================================================================

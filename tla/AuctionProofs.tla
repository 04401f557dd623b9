---------------------------- MODULE AuctionProofs ----------------------------
(***************************************************************************)
(* Proofs about Auction, for any nodes, any sizes of disks and any         *)
(* replication factor: its types, that the nodes that stay up are passed   *)
(* over only for others with no less space, that the winners are different *)
(* nodes that answered, and that the two ways to end an auction agree.     *)
(*                                                                         *)
(* The first part is about the ranking alone: the bids that come before a  *)
(* bid number 0, 1, 2, ... without gap or repetition, since the scores     *)
(* order the bids.  The second follows the two rounds of probes.           *)
(***************************************************************************)
EXTENDS Auction, FiniteSetTheorems, SequenceTheorems, TLAPS

-----------------------------------------------------------------------------
(* The order of the scores *)

\* Scores are fractions of natural numbers with a denominator that is not 0.
Bid == {s \in Snapshot : s.total # 0}

\* A factor that is not 0 cancels.
LEMMA Cancel ==
    ASSUME NEW a \in Nat, NEW b \in Nat, NEW c \in Nat, c # 0, a * c <= b * c
    PROVE  a <= b
  OBVIOUS

LEMMA TimesMonotonic ==
    ASSUME NEW a \in Nat, NEW b \in Nat, NEW c \in Nat, a <= b
    PROVE  a * c <= b * c
  OBVIOUS

\* What does not beat a bid does not beat what that bid does not beat.
LEMMA NotHigherTransitive ==
    ASSUME NEW a \in Bid, NEW b \in Bid, NEW c \in Bid,
           ~Higher(a, b), ~Higher(b, c)
    PROVE  ~Higher(a, c)
<1> DEFINE af == a.free  at == a.total
           bf == b.free  bt == b.total
           cf == c.free  ct == c.total
<1>1. /\ af \in Nat /\ at \in Nat /\ bf \in Nat /\ bt \in Nat
      /\ cf \in Nat /\ ct \in Nat /\ bt # 0
  BY DEF Bid, Snapshot
<1>2. af * bt <= bf * at /\ bf * ct <= cf * bt
  BY <1>1 DEF Higher
<1> HIDE DEF af, at, bf, bt, cf, ct
<1>3. (af * bt) * ct <= (bf * at) * ct
  BY <1>1, <1>2, TimesMonotonic
<1>4. (bf * ct) * at <= (cf * bt) * at
  BY <1>1, <1>2, TimesMonotonic
<1>5. (af * ct) * bt <= (cf * at) * bt
  BY <1>1, <1>3, <1>4
<1>6. af * ct <= cf * at
  BY <1>1, <1>5, Cancel
<1> QED BY <1>1, <1>6 DEF Higher, af, at, cf, ct

\* Of two bids one at most is higher, and none is higher than itself.
LEMMA HigherAsymmetric ==
    ASSUME NEW a \in Bid, NEW b \in Bid, Higher(a, b)
    PROVE  ~Higher(b, a)
<1>1. a.free \in Nat /\ a.total \in Nat /\ b.free \in Nat /\ b.total \in Nat
  BY DEF Bid, Snapshot
<1> QED BY <1>1 DEF Higher

-----------------------------------------------------------------------------
(* The ranking *)

\* Bids on disks that are not empty, as compute_bids makes them.
AreBids(snaps, bs) ==
    /\ snaps \in Seq(Snapshot)
    /\ bs \in SUBSET (DOMAIN snaps)
    /\ \A i \in bs : snaps[i].total # 0

LEMMA BidTypes ==
    ASSUME NEW snaps, NEW bs, AreBids(snaps, bs)
    PROVE  /\ \A i \in bs : snaps[i] \in Bid /\ i \in Nat
           /\ IsFiniteSet(bs) /\ Cardinality(bs) \in Nat
<1>1. /\ Len(snaps) \in Nat /\ DOMAIN snaps = 1..Len(snaps)
      /\ \A i \in 1..Len(snaps) : snaps[i] \in Snapshot
  BY DEF AreBids
<1>2. IsFiniteSet(1..Len(snaps))
  BY <1>1, FS_Interval
<1>3. IsFiniteSet(bs)
  BY <1>1, <1>2, FS_Subset DEF AreBids
<1> QED BY <1>1, <1>3, FS_CardinalityType DEF AreBids, Bid

\* What is ahead of a bid that is ahead of i, is ahead of i.
LEMMA AheadTransitive ==
    ASSUME NEW snaps, NEW bs, AreBids(snaps, bs), NEW i \in bs,
           NEW j \in Ahead(snaps, bs, i), NEW k \in Ahead(snaps, bs, j)
    PROVE  k \in Ahead(snaps, bs, i)
<1>1. /\ j \in bs /\ k \in bs /\ i \in Nat /\ j \in Nat /\ k \in Nat
      /\ snaps[i] \in Bid /\ snaps[j] \in Bid /\ snaps[k] \in Bid
  BY BidTypes DEF Ahead
<1>2. ~Higher(snaps[i], snaps[j]) /\ ~Higher(snaps[j], snaps[k])
  BY <1>1, HigherAsymmetric DEF Ahead
<1>3. ~Higher(snaps[i], snaps[k])
  BY <1>1, <1>2, NotHigherTransitive
<1>4. CASE j < i /\ k < j
  <2>1. k < i
    BY <1>1, <1>4
  <2> QED BY <1>1, <1>3, <2>1 DEF Ahead
<1>5. CASE Higher(snaps[j], snaps[i])
  <2>1. Higher(snaps[k], snaps[i])
    BY <1>1, <1>2, <1>5, NotHigherTransitive
  <2> QED BY <1>1, <2>1 DEF Ahead
<1>6. CASE Higher(snaps[k], snaps[j])
  <2>1. Higher(snaps[k], snaps[i])
    BY <1>1, <1>2, <1>6, NotHigherTransitive
  <2> QED BY <1>1, <2>1 DEF Ahead
<1> QED BY <1>1, <1>4, <1>5, <1>6 DEF Ahead

\* No bid is ahead of itself, and of two bids one is ahead of the other.
LEMMA AheadTotal ==
    ASSUME NEW snaps, NEW bs, AreBids(snaps, bs), NEW i \in bs, NEW j \in bs
    PROVE  /\ i \notin Ahead(snaps, bs, i)
           /\ i # j => i \in Ahead(snaps, bs, j) \/ j \in Ahead(snaps, bs, i)
<1>1. i \in Nat /\ j \in Nat /\ snaps[i] \in Bid /\ snaps[j] \in Bid
  BY BidTypes
<1>2. ~Higher(snaps[i], snaps[i])
  BY <1>1, HigherAsymmetric
<1>3. i # j => i < j \/ j < i
  BY <1>1
<1>4. ~(i < i)
  BY <1>1
<1> QED BY <1>2, <1>3, <1>4 DEF Ahead

\* The number of bids ahead of a bid.
Rank(snaps, bs, i) == Cardinality(Ahead(snaps, bs, i))

LEMMA RankType ==
    ASSUME NEW snaps, NEW bs, AreBids(snaps, bs), NEW i \in bs
    PROVE  /\ IsFiniteSet(Ahead(snaps, bs, i))
           /\ Rank(snaps, bs, i) \in 0..(Cardinality(bs) - 1)
<1>1. IsFiniteSet(bs) /\ Cardinality(bs) \in Nat
  BY BidTypes
<1>2. /\ IsFiniteSet(bs \ {i})
      /\ Cardinality(bs \ {i}) = Cardinality(bs) - 1
  BY <1>1, FS_RemoveElement
<1>3. Ahead(snaps, bs, i) \in SUBSET (bs \ {i})
  BY AheadTotal DEF Ahead
<1>4. /\ IsFiniteSet(Ahead(snaps, bs, i))
      /\ Cardinality(Ahead(snaps, bs, i)) <= Cardinality(bs) - 1
  BY <1>2, <1>3, FS_Subset
<1>5. Cardinality(Ahead(snaps, bs, i)) \in Nat
  BY <1>4, FS_CardinalityType
<1> QED BY <1>1, <1>4, <1>5 DEF Rank

LEMMA RankLess ==
    ASSUME NEW snaps, NEW bs, AreBids(snaps, bs), NEW i \in bs,
           NEW j \in Ahead(snaps, bs, i)
    PROVE  Rank(snaps, bs, j) < Rank(snaps, bs, i)
<1> DEFINE A == Ahead(snaps, bs, i)
           B == Ahead(snaps, bs, j)
<1>1. j \in bs
  BY DEF Ahead
<1>2. B \in SUBSET A /\ j \in A /\ j \notin B
  BY <1>1, AheadTransitive, AheadTotal
<1>3. IsFiniteSet(A) /\ IsFiniteSet(B)
  BY <1>1, RankType
<1>4. Cardinality(A) \in Nat /\ Cardinality(B) \in Nat
  BY <1>3, FS_CardinalityType
<1>5. Cardinality(B) <= Cardinality(A) /\ Cardinality(B) # Cardinality(A)
  BY <1>2, <1>3, FS_Subset
<1> QED BY <1>4, <1>5 DEF Rank

\* The ranks are 0, 1, 2, ..., one bid to each.
LEMMA RankBijective ==
    ASSUME NEW snaps, NEW bs, AreBids(snaps, bs)
    PROVE  /\ \A i, j \in bs : Rank(snaps, bs, i) = Rank(snaps, bs, j) => i = j
           /\ \A r \in 0..(Cardinality(bs) - 1) :
                 \E i \in bs : Rank(snaps, bs, i) = r
<1> DEFINE T == 0..(Cardinality(bs) - 1)
           f == [i \in bs |-> Rank(snaps, bs, i)]
<1>1. IsFiniteSet(bs) /\ Cardinality(bs) \in Nat
  BY BidTypes
<1>2. IsFiniteSet(T) /\ Cardinality(T) = Cardinality(bs)
  BY <1>1, FS_Interval
<1>3. ASSUME NEW i \in bs, NEW j \in bs,
             Rank(snaps, bs, i) = Rank(snaps, bs, j)
      PROVE  i = j
  <2>1. \A x \in bs : Rank(snaps, bs, x) \in Int
    BY <1>1, RankType
  <2>2. CASE i \in Ahead(snaps, bs, j)
    BY <1>3, <2>1, <2>2, RankLess
  <2>3. CASE j \in Ahead(snaps, bs, i)
    BY <1>3, <2>1, <2>3, RankLess
  <2> QED BY <2>2, <2>3, AheadTotal
<1>4. f \in [bs -> T]
  BY RankType
<1>5. f \in Injection(bs, T)
  BY <1>3, <1>4 DEF Injection, IsInjective
<1>6. f \in Surjection(bs, T)
  BY <1>1, <1>2, <1>5, FS_Injection
<1>7. \A r \in T : \E i \in bs : f[i] = r
  BY <1>6 DEF Surjection
<1> QED BY <1>3, <1>7

\* What select_winners returns: place k holds the bid of rank k - 1.
LEMMA WinnersRanked ==
    ASSUME NEW snaps, NEW bs, AreBids(snaps, bs), NEW count \in Nat
    PROVE  LET W == SelectWinners(snaps, bs, count)
               L == Least(Cardinality(bs), count)
           IN  /\ L \in Nat /\ W \in Seq(Snapshot)
               /\ DOMAIN W = 1..L /\ Len(W) = L
               /\ \A k \in 1..L : \E i \in bs :
                     W[k] = snaps[i] /\ Rank(snaps, bs, i) = k - 1
<1> DEFINE W == SelectWinners(snaps, bs, count)
           L == Least(Cardinality(bs), count)
           at(k) == CHOOSE i \in bs : Cardinality(Ahead(snaps, bs, i)) = k - 1
<1>1. Cardinality(bs) \in Nat /\ L \in Nat /\ L <= Cardinality(bs)
  BY BidTypes DEF Least
<1>2. W = [k \in 1..L |-> snaps[at(k)]]
  BY DEF SelectWinners
<1>3. ASSUME NEW k \in 1..L
      PROVE  at(k) \in bs /\ Rank(snaps, bs, at(k)) = k - 1
  <2>1. k - 1 \in 0..(Cardinality(bs) - 1)
    BY <1>1
  <2>2. \E i \in bs : Cardinality(Ahead(snaps, bs, i)) = k - 1
    BY <2>1, RankBijective DEF Rank
  <2> QED BY <2>2 DEF Rank
<1> HIDE DEF at, W, L
<1>4. \A k \in 1..L : W[k] = snaps[at(k)] /\ W[k] \in Snapshot
  BY <1>2, <1>3, BidTypes DEF Bid
<1>5. W \in [1..L -> Snapshot]
  BY <1>2, <1>4
<1>6. W \in Seq(Snapshot) /\ Len(W) = L
  BY <1>1, <1>5
<1> QED BY <1>1, <1>2, <1>3, <1>4, <1>6 DEF W, L

\* A bid that does not win is passed over for count others, none of which it
\* beats.
LEMMA LoserIsBeaten ==
    ASSUME NEW snaps, NEW bs, AreBids(snaps, bs), NEW count \in Nat,
           NEW i \in bs
    PROVE  LET W == SelectWinners(snaps, bs, count)
           IN  \/ \E k \in DOMAIN W : W[k] = snaps[i]
               \/ /\ Len(W) = count
                  /\ \A k \in DOMAIN W : ~Higher(snaps[i], W[k])
<1> DEFINE W == SelectWinners(snaps, bs, count)
           L == Least(Cardinality(bs), count)
           r == Rank(snaps, bs, i)
<1>1. /\ L \in Nat /\ DOMAIN W = 1..L /\ Len(W) = L
      /\ \A k \in 1..L : \E j \in bs :
            W[k] = snaps[j] /\ Rank(snaps, bs, j) = k - 1
  BY WinnersRanked
<1>2. Cardinality(bs) \in Nat /\ r \in 0..(Cardinality(bs) - 1)
  BY BidTypes, RankType
<1> HIDE DEF W, r
<1>3. CASE r < L
  <2>1. r + 1 \in 1..L /\ (r + 1) - 1 = r
    BY <1>1, <1>2, <1>3
  <2>2. PICK j \in bs : W[r + 1] = snaps[j] /\ Rank(snaps, bs, j) = r
    BY <1>1, <2>1
  <2>3. j = i
    BY <2>2, RankBijective DEF r
  <2> QED BY <1>1, <2>1, <2>2, <2>3 DEF W
<1>4. CASE r >= L
  <2>1. L = count
    BY <1>2, <1>4 DEF Least
  <2>2. ASSUME NEW k \in 1..L PROVE ~Higher(snaps[i], W[k])
    <3>1. PICK j \in bs : W[k] = snaps[j] /\ Rank(snaps, bs, j) = k - 1
      BY <1>1
    <3>2. Rank(snaps, bs, j) < r
      BY <1>1, <1>2, <1>4, <3>1
    <3>3. i \notin Ahead(snaps, bs, j)
      <4>1. ASSUME i \in Ahead(snaps, bs, j) PROVE FALSE
        <5>1. r < Rank(snaps, bs, j)
          BY <4>1, RankLess DEF r
        <5> QED BY <1>2, <3>1, <3>2, <5>1
      <4> QED BY <4>1
    <3> QED BY <3>1, <3>3 DEF Ahead
  <2> QED BY <1>1, <2>1, <2>2 DEF W
<1> QED BY <1>1, <1>2, <1>3, <1>4

\* The first winner is the one select_winner returns.
LEMMA FirstIsWinner ==
    ASSUME NEW snaps, NEW bs, AreBids(snaps, bs), bs # {},
           NEW count \in Nat \ {0}
    PROVE  SelectWinners(snaps, bs, count)[1] = SelectWinner(snaps, bs)
<1> DEFINE Best(i) == \A j \in bs :
                        /\ ~Higher(snaps[j], snaps[i])
                        /\ j < i => Higher(snaps[i], snaps[j])
<1>1. Cardinality(bs) \in Nat \ {0} /\ IsFiniteSet(bs)
  BY BidTypes, FS_EmptySet
<1>2. 1 \in 1..Least(Cardinality(bs), count)
  BY <1>1 DEF Least
<1>3. PICK i \in bs : /\ SelectWinners(snaps, bs, count)[1] = snaps[i]
                      /\ Rank(snaps, bs, i) = 0
  BY <1>2, WinnersRanked
<1>4. ASSUME NEW j \in bs
      PROVE  Best(j) <=> Rank(snaps, bs, j) = 0
  <2>1. Best(j) <=> Ahead(snaps, bs, j) = {}
    BY DEF Ahead
  <2>2. Ahead(snaps, bs, j) = {} <=> Rank(snaps, bs, j) = 0
    BY RankType, FS_EmptySet DEF Rank
  <2> QED BY <2>1, <2>2
<1>5. \A j \in bs : Best(j) <=> j = i
  BY <1>3, <1>4, RankBijective
<1>6. SelectWinner(snaps, bs) = snaps[CHOOSE j \in bs : Best(j)]
  BY DEF SelectWinner
<1> HIDE DEF Best
<1>7. (CHOOSE j \in bs : Best(j)) = i
  BY <1>5
<1> QED BY <1>3, <1>6, <1>7

-----------------------------------------------------------------------------
(* Sequences as sets *)

LEMMA ToSetHeadTail ==
    ASSUME NEW S, NEW s \in Seq(S), s # <<>>
    PROVE  /\ Head(s) \in ToSet(s) /\ Head(s) \in S
           /\ ToSet(s) = {Head(s)} \cup ToSet(Tail(s))
           /\ Tail(s) \in Seq(S)
           /\ IsInjective(s) =>
                IsInjective(Tail(s)) /\ Head(s) \notin ToSet(Tail(s))
<1>1. /\ Len(s) \in Nat \ {0} /\ DOMAIN s = 1..Len(s)
      /\ Tail(s) \in Seq(S) /\ Len(Tail(s)) = Len(s) - 1
      /\ DOMAIN Tail(s) = 1..(Len(s) - 1)
      /\ \A i \in 1..(Len(s) - 1) : Tail(s)[i] = s[i + 1]
      /\ Head(s) = s[1] /\ Head(s) \in S
  OBVIOUS
<1>2. \A i \in 1..(Len(s) - 1) :
         i + 1 \in 1..Len(s) /\ i + 1 # 1 /\ i \in Int
  BY <1>1
<1>3. \A j \in 1..Len(s) :
         j = 1 \/ (j - 1 \in 1..(Len(s) - 1) /\ (j - 1) + 1 = j)
  BY <1>1
<1>4. 1 \in 1..Len(s)
  BY <1>1
<1>5. ToSet(Tail(s)) \subseteq ToSet(s)
  BY <1>1, <1>2 DEF ToSet
<1>6. ASSUME NEW x \in ToSet(s), x # Head(s) PROVE x \in ToSet(Tail(s))
  <2>1. PICK j \in 1..Len(s) : s[j] = x
    BY <1>1, <1>6 DEF ToSet
  <2>2. j - 1 \in 1..(Len(s) - 1) /\ (j - 1) + 1 = j
    BY <1>1, <1>3, <1>6, <2>1
  <2>3. Tail(s)[j - 1] = x
    BY <1>1, <2>1, <2>2
  <2> QED BY <1>1, <2>2, <2>3 DEF ToSet
<1>7. ASSUME IsInjective(s) PROVE IsInjective(Tail(s))
  <2> SUFFICES ASSUME NEW i \in 1..(Len(s) - 1), NEW j \in 1..(Len(s) - 1),
                      Tail(s)[i] = Tail(s)[j]
               PROVE  i = j
    BY <1>1 DEF IsInjective
  <2>1. s[i + 1] = s[j + 1]
    BY <1>1
  <2>2. i + 1 = j + 1
    BY <1>1, <1>2, <1>7, <2>1 DEF IsInjective
  <2> QED BY <1>2, <2>2
<1>8. ASSUME IsInjective(s), Head(s) \in ToSet(Tail(s)) PROVE FALSE
  <2>1. PICK i \in 1..(Len(s) - 1) : s[i + 1] = s[1]
    BY <1>1, <1>8 DEF ToSet
  <2> QED BY <1>1, <1>2, <1>4, <1>8, <2>1 DEF IsInjective
<1>9. Head(s) \in ToSet(s)
  BY <1>1, <1>4 DEF ToSet
<1> QED BY <1>1, <1>5, <1>6, <1>7, <1>8, <1>9

LEMMA ToSetAppend ==
    ASSUME NEW S, NEW s \in Seq(S), NEW x \in S
    PROVE  /\ Append(s, x) \in Seq(S)
           /\ ToSet(Append(s, x)) = ToSet(s) \cup {x}
           /\ IsInjective(s) /\ x \notin ToSet(s) => IsInjective(Append(s, x))
<1>1. /\ Len(s) \in Nat /\ DOMAIN s = 1..Len(s)
      /\ Append(s, x) \in Seq(S)
      /\ DOMAIN Append(s, x) = 1..(Len(s) + 1)
      /\ \A i \in 1..Len(s) : Append(s, x)[i] = s[i]
      /\ Append(s, x)[Len(s) + 1] = x
  OBVIOUS
<1>2. 1..(Len(s) + 1) = (1..Len(s)) \cup {Len(s) + 1}
  BY <1>1
<1> QED BY <1>1, <1>2 DEF ToSet, IsInjective

LEMMA ContainsIsIn ==
    ASSUME NEW S, NEW s \in Seq(S), NEW x
    PROVE  Contains(s, x) <=> x \in ToSet(s)
  BY DEF Contains, ToSet

LEMMA ToSetEmpty == ToSet(<<>>) = {}
  BY DEF ToSet

-----------------------------------------------------------------------------
(* The two rounds of probes *)

\* collect_all has the answer of n.
Heard(n) == \E s \in ToSet(snapshots) : s.node = n

\* No node is probed twice in a round.
OneProbeEach ==
    /\ IsInjective(todo) /\ IsInjective(alive)
    /\ \A i, j \in DOMAIN snapshots :
          snapshots[i].node = snapshots[j].node => i = j
    /\ pc = "check" => ToSet(alive) \cap ToSet(todo) = {} /\ snapshots = <<>>
    /\ pc = "collect" => \A n \in ToSet(todo) : ~Heard(n)

\* A node that stayed up and answered is still to probe or has answered.
SteadyProbed ==
    \A n \in ToSet(Nodes) \ unavailable :
        /\ up[n]
        /\ pc = "check" => n \in ToSet(alive) \cup ToSet(todo)
        /\ pc = "collect" =>
              n \in ToSet(alive) /\ (n \in ToSet(todo) \/ Heard(n))
        /\ pc \in {"bid", "won"} => n \in ToSet(alive) /\ Heard(n)
        /\ pc = "raised" => total[n] = 0

\* What the last two steps compute is computed from what was heard.
Outcome ==
    /\ \A s \in ToSet(snapshots) : s.total = total[s.node]
    /\ pc \in {"bid", "won"} => bids = ComputeBids(snapshots, alive)
    /\ pc = "won" =>
          /\ bids # {}
          /\ winners = SelectWinners(snapshots, bids, ReplicationFactor)
    /\ pc # "won" => winners = <<>>

AuctionInv == TypeOK /\ OneProbeEach /\ SteadyProbed /\ Outcome

LEMMA NodesFacts ==
    Nodes \in Seq(Node) /\ IsInjective(Nodes) /\ ToSet(Nodes) \subseteq Node
<1>1. Nodes \in Seq(Node) /\ IsInjective(Nodes)
  BY AuctionAssumption
<1>2. \A i \in DOMAIN Nodes : Nodes[i] \in Node
  BY <1>1
<1> QED BY <1>1, <1>2 DEF ToSet

LEMMA BidsAreBids ==
    ASSUME snapshots \in Seq(Snapshot)
    PROVE  AreBids(snapshots, ComputeBids(snapshots, alive))
  BY DEF AreBids, ComputeBids

LEMMA EmptyFacts ==
    /\ \A S : <<>> \in Seq(S)
    /\ IsInjective(<<>>) /\ DOMAIN <<>> = {} /\ ToSet(<<>>) = {}
  BY DEF IsInjective, ToSet

LEMMA InitInv == Init => AuctionInv
<1> SUFFICES ASSUME Init PROVE AuctionInv
  OBVIOUS
<1> USE DEF Init
<1>1. TypeOK
  <2>1. free \in [Node -> Nat]
    <3>1. (UNION {0..s : s \in Size}) \subseteq Nat
      BY AuctionAssumption
    <3> QED BY <3>1
  <2> QED BY <2>1, NodesFacts, EmptyFacts DEF TypeOK, Pc, Down
<1>2. OneProbeEach
  BY NodesFacts, EmptyFacts DEF OneProbeEach
<1>3. SteadyProbed
  BY NodesFacts DEF SteadyProbed, Down
<1>4. Outcome
  BY EmptyFacts DEF Outcome
<1> QED BY <1>1, <1>2, <1>3, <1>4 DEF AuctionInv

\* A new call forgets the last one.
LEMMA BeginInv == ASSUME AuctionInv, Begin PROVE AuctionInv'
<1>1. /\ pc' = "check" /\ todo' = Nodes /\ alive' = <<>>
      /\ snapshots' = <<>> /\ bids' = {} /\ winners' = <<>>
      /\ unavailable' = Down /\ UNCHANGED <<up, total, free>>
  BY DEF Begin, nodeVars
<1>2. TypeOK'
  BY <1>1, NodesFacts, EmptyFacts DEF AuctionInv, TypeOK, Pc, Down
<1>3. OneProbeEach'
  BY <1>1, NodesFacts, EmptyFacts DEF OneProbeEach
<1>4. SteadyProbed'
  BY <1>1, NodesFacts DEF SteadyProbed, Down
<1>5. Outcome'
  BY <1>1, EmptyFacts DEF Outcome
<1> QED BY <1>2, <1>3, <1>4, <1>5 DEF AuctionInv

\* check_all's probe moves a node from todo to alive or to unavailable.
LEMMA CheckNodeInv == ASSUME AuctionInv, CheckNode PROVE AuctionInv'
<1> DEFINE n == Head(todo)
<1>1. /\ pc = "check" /\ todo # <<>> /\ todo' = Tail(todo)
      /\ \/ up[n] /\ alive' = Append(alive, n) /\ unavailable' = unavailable
         \/ unavailable' = unavailable \cup {n} /\ alive' = alive
      /\ UNCHANGED <<up, total, free, pc, snapshots, bids, winners>>
  BY DEF CheckNode, nodeVars
<1>2. /\ n \in Node /\ Tail(todo) \in Seq(Node)
      /\ ToSet(todo) = {n} \cup ToSet(Tail(todo))
      /\ IsInjective(Tail(todo)) /\ n \notin ToSet(Tail(todo))
      /\ n \notin ToSet(alive)
  BY <1>1, ToSetHeadTail DEF AuctionInv, TypeOK, OneProbeEach
<1>3. /\ Append(alive, n) \in Seq(Node)
      /\ ToSet(Append(alive, n)) = ToSet(alive) \cup {n}
      /\ IsInjective(Append(alive, n))
  BY <1>2, ToSetAppend DEF AuctionInv, TypeOK, OneProbeEach
<1> HIDE DEF n
<1>4. TypeOK'
  BY <1>1, <1>2, <1>3 DEF AuctionInv, TypeOK
<1>5. OneProbeEach'
  BY <1>1, <1>2, <1>3 DEF AuctionInv, OneProbeEach, Heard
<1>6. SteadyProbed'
  BY <1>1, <1>2, <1>3 DEF AuctionInv, SteadyProbed, Heard
<1>7. Outcome'
  BY <1>1 DEF AuctionInv, Outcome
<1> QED BY <1>4, <1>5, <1>6, <1>7 DEF AuctionInv

LEMMA CheckEndsInv == ASSUME AuctionInv, CheckEnds PROVE AuctionInv'
<1>1. /\ pc = "check" /\ todo = <<>> /\ todo' = alive
      /\ pc' = IF alive = <<>> THEN "raised" ELSE "collect"
      /\ UNCHANGED <<up, total, free, alive, snapshots, bids, winners,
                     unavailable>>
  BY DEF CheckEnds, nodeVars
<1>2. snapshots = <<>>
  BY <1>1 DEF AuctionInv, OneProbeEach
<1>3. TypeOK'
  BY <1>1 DEF AuctionInv, TypeOK, Pc
<1>4. OneProbeEach'
  BY <1>1, <1>2, EmptyFacts DEF AuctionInv, OneProbeEach, Heard
<1>5. SteadyProbed'
  BY <1>1, EmptyFacts DEF AuctionInv, SteadyProbed, Heard
<1>6. Outcome'
  BY <1>1 DEF AuctionInv, Outcome
<1> QED BY <1>3, <1>4, <1>5, <1>6 DEF AuctionInv

\* collect_all's call adds the answer of a node that is up.
LEMMA CollectNodeInv == ASSUME AuctionInv, CollectNode PROVE AuctionInv'
<1> DEFINE n == Head(todo)
           s == [node |-> n, free |-> free[n], total |-> total[n]]
<1>1. /\ pc = "collect" /\ todo # <<>> /\ todo' = Tail(todo)
      /\ \/ up[n] /\ snapshots' = Append(snapshots, s)
         \/ ~up[n] /\ snapshots' = snapshots
      /\ UNCHANGED <<up, total, free, pc, alive, bids, winners, unavailable>>
  BY DEF CollectNode, nodeVars
<1>2. /\ n \in Node /\ Tail(todo) \in Seq(Node)
      /\ ToSet(todo) = {n} \cup ToSet(Tail(todo))
      /\ IsInjective(Tail(todo)) /\ n \notin ToSet(Tail(todo))
      /\ ~Heard(n)
  BY <1>1, ToSetHeadTail DEF AuctionInv, TypeOK, OneProbeEach
<1>3. s \in Snapshot /\ s.node = n /\ s.total = total[s.node]
  BY <1>2, AuctionAssumption DEF AuctionInv, TypeOK, Snapshot
<1>4. /\ Append(snapshots, s) \in Seq(Snapshot)
      /\ ToSet(Append(snapshots, s)) = ToSet(snapshots) \cup {s}
  BY <1>3, ToSetAppend DEF AuctionInv, TypeOK
<1>5. /\ Len(snapshots) \in Nat /\ DOMAIN snapshots = 1..Len(snapshots)
      /\ DOMAIN Append(snapshots, s) = 1..(Len(snapshots) + 1)
      /\ \A i \in 1..Len(snapshots) : Append(snapshots, s)[i] = snapshots[i]
      /\ Append(snapshots, s)[Len(snapshots) + 1] = s
      /\ 1..(Len(snapshots) + 1) = (1..Len(snapshots)) \cup {Len(snapshots) + 1}
  BY DEF AuctionInv, TypeOK
<1>6. \A i \in DOMAIN snapshots : snapshots[i].node # n
  BY <1>2 DEF Heard, ToSet
<1> HIDE DEF n, s
<1>7. CASE ~up[n] /\ snapshots' = snapshots
  <2>1. TypeOK'
    BY <1>1, <1>2, <1>7 DEF AuctionInv, TypeOK
  <2>2. OneProbeEach'
    BY <1>1, <1>2, <1>7 DEF AuctionInv, OneProbeEach, Heard
  <2>3. SteadyProbed'
    BY <1>1, <1>2, <1>7 DEF AuctionInv, SteadyProbed, Heard
  <2>4. Outcome'
    BY <1>1, <1>7 DEF AuctionInv, Outcome
  <2> QED BY <2>1, <2>2, <2>3, <2>4 DEF AuctionInv
<1>8. CASE up[n] /\ snapshots' = Append(snapshots, s)
  <2>1. TypeOK'
    <3>1. bids' \subseteq DOMAIN snapshots'
      BY <1>1, <1>5, <1>8 DEF AuctionInv, TypeOK
    <3> QED BY <1>1, <1>2, <1>4, <1>8, <3>1 DEF AuctionInv, TypeOK
  <2>2. OneProbeEach'
    <3>1. \A i, j \in DOMAIN snapshots' :
             snapshots'[i].node = snapshots'[j].node => i = j
      BY <1>3, <1>5, <1>6, <1>8 DEF AuctionInv, OneProbeEach
    <3>2. \A m \in ToSet(todo') : ~Heard(m)'
      BY <1>1, <1>2, <1>3, <1>4, <1>8 DEF AuctionInv, OneProbeEach, Heard
    <3> QED BY <1>1, <1>2, <3>1, <3>2 DEF AuctionInv, OneProbeEach
  <2>3. SteadyProbed'
    <3>1. \A m : m = n \/ Heard(m) => Heard(m)'
      BY <1>3, <1>4, <1>8 DEF Heard
    <3> QED BY <1>1, <1>2, <3>1 DEF AuctionInv, SteadyProbed
  <2>4. Outcome'
    BY <1>1, <1>3, <1>4, <1>8 DEF AuctionInv, Outcome
  <2> QED BY <2>1, <2>2, <2>3, <2>4 DEF AuctionInv
<1> QED BY <1>1, <1>7, <1>8

LEMMA CollectEndsInv == ASSUME AuctionInv, CollectEnds PROVE AuctionInv'
<1>1. /\ pc = "collect" /\ todo = <<>> /\ pc' = "bid"
      /\ bids' = ComputeBids(snapshots, alive)
      /\ UNCHANGED <<up, total, free, todo, alive, snapshots, winners,
                     unavailable>>
  BY DEF CollectEnds, nodeVars
<1>2. TypeOK'
  <2>1. bids' \subseteq DOMAIN snapshots
    BY <1>1 DEF ComputeBids
  <2> QED BY <1>1, <2>1 DEF AuctionInv, TypeOK, Pc
<1>3. OneProbeEach'
  BY <1>1 DEF AuctionInv, OneProbeEach, Heard
<1>4. SteadyProbed'
  BY <1>1, EmptyFacts DEF AuctionInv, SteadyProbed, Heard
<1>5. Outcome'
  BY <1>1 DEF AuctionInv, Outcome
<1> QED BY <1>2, <1>3, <1>4, <1>5 DEF AuctionInv

\* A node that has answered both rounds bids, unless its disk is empty.
LEMMA SteadyBids ==
    ASSUME AuctionInv, bids = ComputeBids(snapshots, alive),
           NEW n, n \in ToSet(alive), Heard(n), total[n] # 0
    PROVE  \E i \in bids : snapshots[i].node = n
<1>1. PICK i \in DOMAIN snapshots : snapshots[i].node = n
  BY DEF Heard, ToSet
<1>2. snapshots[i].total = total[n]
  BY <1>1 DEF AuctionInv, Outcome, ToSet
<1>3. Contains(alive, n)
  BY ContainsIsIn DEF AuctionInv, TypeOK
<1> QED BY <1>1, <1>2, <1>3 DEF ComputeBids

\* With no bids there is no node left that stayed up and has a disk.
LEMMA AwardInv == ASSUME AuctionInv, Award PROVE AuctionInv'
<1>1. /\ pc = "bid"
      /\ \/ /\ bids # {} /\ pc' = "won"
            /\ winners' = SelectWinners(snapshots, bids, ReplicationFactor)
         \/ bids = {} /\ pc' = "raised" /\ winners' = winners
      /\ UNCHANGED <<up, total, free, todo, alive, snapshots, bids,
                     unavailable>>
  BY DEF Award, nodeVars
<1>2. /\ bids = ComputeBids(snapshots, alive) /\ AreBids(snapshots, bids)
      /\ ReplicationFactor \in Nat
  BY <1>1, BidsAreBids, AuctionAssumption DEF AuctionInv, Outcome, TypeOK
<1>3. SelectWinners(snapshots, bids, ReplicationFactor) \in Seq(Snapshot)
  BY <1>2, WinnersRanked
<1>4. TypeOK'
  BY <1>1, <1>3 DEF AuctionInv, TypeOK, Pc
<1>5. OneProbeEach'
  BY <1>1 DEF AuctionInv, OneProbeEach, Heard
<1>6. SteadyProbed'
  <2>1. ASSUME bids = {}, NEW n \in ToSet(Nodes) \ unavailable
        PROVE  total[n] = 0
    BY <1>1, <1>2, <2>1, SteadyBids DEF AuctionInv, SteadyProbed
  <2> QED BY <1>1, <2>1 DEF AuctionInv, SteadyProbed, Heard
<1>7. Outcome'
  BY <1>1, <1>2 DEF AuctionInv, Outcome
<1> QED BY <1>4, <1>5, <1>6, <1>7 DEF AuctionInv

\* Nodes fail and return, and disks fill, between any two probes.
LEMMA NodeStepInv ==
    ASSUME AuctionInv, NEW n \in Node, Crash(n) \/ Restart(n) \/ DiskChanges(n)
    PROVE  AuctionInv'
<1>1. /\ UNCHANGED <<total, pc, todo, alive, snapshots, bids, winners>>
      /\ \/ /\ up' = [up EXCEPT ![n] = FALSE] /\ free' = free
            /\ unavailable' = unavailable \cup {n}
         \/ /\ up' = [up EXCEPT ![n] = TRUE] /\ free' = free
            /\ unavailable' = unavailable
         \/ /\ \E f \in 0..total[n] : free' = [free EXCEPT ![n] = f]
            /\ up' = up /\ unavailable' = unavailable
  BY DEF Crash, Restart, DiskChanges, callVars
<1>2. total[n] \in Nat
  BY AuctionAssumption DEF AuctionInv, TypeOK
<1>3. up' \in [Node -> BOOLEAN]
  BY <1>1 DEF AuctionInv, TypeOK
<1>4. free' \in [Node -> Nat] /\ \A m \in Node : free'[m] <= total[m]
  <2>1. free \in [Node -> Nat] /\ \A m \in Node : free[m] <= total[m]
    BY DEF AuctionInv, TypeOK
  <2>2. CASE free' = free
    BY <2>1, <2>2
  <2>3. ASSUME NEW f \in 0..total[n], free' = [free EXCEPT ![n] = f]
        PROVE  /\ free' \in [Node -> Nat]
               /\ \A m \in Node : free'[m] <= total[m]
    <3>1. f \in Nat /\ f <= total[n]
      BY <1>2
    <3>2. \A m \in Node : free'[m] = IF m = n THEN f ELSE free[m]
      BY <2>1, <2>3
    <3> QED BY <2>1, <2>3, <3>1, <3>2
  <2> QED BY <1>1, <2>2, <2>3
<1>5. TypeOK'
  BY <1>1, <1>3, <1>4 DEF AuctionInv, TypeOK
<1>6. OneProbeEach'
  BY <1>1 DEF AuctionInv, OneProbeEach, Heard
<1>7. SteadyProbed'
  BY <1>1, NodesFacts DEF AuctionInv, SteadyProbed, Heard, TypeOK
<1>8. Outcome'
  BY <1>1 DEF AuctionInv, Outcome
<1> QED BY <1>5, <1>6, <1>7, <1>8 DEF AuctionInv

\* The invariant holds in every state.
THEOREM SpecAuctionInv == Spec => []AuctionInv
<1>1. ASSUME AuctionInv, Next PROVE AuctionInv'
  BY <1>1, BeginInv, CheckNodeInv, CheckEndsInv, CollectNodeInv,
     CollectEndsInv, AwardInv, NodeStepInv DEF Next
<1>2. ASSUME AuctionInv, UNCHANGED vars PROVE AuctionInv'
  BY <1>2 DEF vars, nodeVars, callVars, AuctionInv, TypeOK, OneProbeEach,
              SteadyProbed, Outcome, Heard
<1>3. AuctionInv /\ [Next]_vars => AuctionInv'
  BY <1>1, <1>2
<1> QED BY InitInv, <1>3, PTL DEF Spec

-----------------------------------------------------------------------------
(* The theorems *)

\* Every reachable state is well typed; no snapshot has more free than there
\* is.
THEOREM TypeCorrect == Spec => []TypeOK
<1>1. AuctionInv => TypeOK
  BY DEF AuctionInv
<1> QED BY SpecAuctionInv, <1>1, PTL

\* The facts about the winners that the ranking gives.
LEMMA WonFacts ==
    ASSUME AuctionInv, pc = "won"
    PROVE  /\ AreBids(snapshots, bids) /\ bids # {}
           /\ bids = ComputeBids(snapshots, alive)
           /\ winners = SelectWinners(snapshots, bids, ReplicationFactor)
           /\ ReplicationFactor \in Nat \ {0}
  BY BidsAreBids, AuctionAssumption DEF AuctionInv, Outcome, TypeOK

\* Every winner is a bid, and different winners are different bids.
LEMMA WinnersAreBids ==
    ASSUME AuctionInv, pc = "won"
    PROVE  \A k \in DOMAIN winners : \E i \in bids :
              winners[k] = snapshots[i] /\ Rank(snapshots, bids, i) = k - 1
<1>1. /\ AreBids(snapshots, bids) /\ ReplicationFactor \in Nat
      /\ winners = SelectWinners(snapshots, bids, ReplicationFactor)
  BY WonFacts
<1> DEFINE L == Least(Cardinality(bids), ReplicationFactor)
<1>2. /\ DOMAIN winners = 1..L
      /\ \A k \in 1..L : \E i \in bids :
            winners[k] = snapshots[i] /\ Rank(snapshots, bids, i) = k - 1
  BY <1>1, WinnersRanked
<1> QED BY <1>2

\* The winners are different nodes that answered both rounds and have a disk
\* (put_object makes one replica on each).
THEOREM WinnersHaveAnswered == Spec => []WinnersAnswered
<1>1. ASSUME AuctionInv PROVE WinnersAnswered
  <2>1. CASE pc # "won"
    BY <1>1, <2>1, EmptyFacts DEF AuctionInv, Outcome, WinnersAnswered
  <2>2. CASE pc = "won"
    <3>1. \A i \in bids : /\ i \in DOMAIN snapshots
                          /\ Contains(alive, snapshots[i].node)
                          /\ snapshots[i].total # 0
      BY <1>1, <2>2, WonFacts DEF ComputeBids
    <3>2. ASSUME NEW k \in DOMAIN winners, NEW l \in DOMAIN winners,
                 winners[k].node = winners[l].node
          PROVE  k = l
      <4>1. PICK i \in bids : /\ winners[k] = snapshots[i]
                              /\ Rank(snapshots, bids, i) = k - 1
        BY <1>1, <2>2, WinnersAreBids
      <4>2. PICK j \in bids : /\ winners[l] = snapshots[j]
                              /\ Rank(snapshots, bids, j) = l - 1
        BY <1>1, <2>2, WinnersAreBids
      <4>3. i = j
        BY <1>1, <3>1, <3>2, <4>1, <4>2 DEF AuctionInv, OneProbeEach
      <4>4. k \in Int /\ l \in Int
        BY <1>1 DEF AuctionInv, TypeOK
      <4> QED BY <4>1, <4>2, <4>3, <4>4
    <3>3. ASSUME NEW w \in ToSet(winners)
          PROVE  Contains(alive, w.node) /\ Contains(snapshots, w) /\ w.total # 0
      <4>1. PICK i \in bids : w = snapshots[i]
        BY <1>1, <2>2, WinnersAreBids DEF ToSet
      <4>2. w \in ToSet(snapshots)
        BY <3>1, <4>1 DEF ToSet
      <4>3. Contains(snapshots, w)
        BY <1>1, <4>2, ContainsIsIn DEF AuctionInv, TypeOK
      <4> QED BY <3>1, <4>1, <4>3
    <3> QED BY <3>2, <3>3 DEF WinnersAnswered
  <2> QED BY <2>1, <2>2
<1> QED BY SpecAuctionInv, <1>1, PTL

\* A node that stayed up and answered in time wins, or is passed over for
\* ReplicationFactor others with no less of their disks free; a put does not
\* fail while there is one.
THEOREM SteadyNodesAreServed == Spec => []SteadyNodesCompete
<1>1. ASSUME AuctionInv PROVE SteadyNodesCompete
  <2> SUFFICES ASSUME NEW n \in ToSet(Nodes) \ unavailable,
                      pc \in {"won", "raised"}, total[n] # 0
               PROVE  \/ IsWinner(n)
                      \/ /\ Len(winners) = ReplicationFactor
                         /\ \E s \in ToSet(snapshots) :
                               /\ s.node = n
                               /\ \A w \in ToSet(winners) : ~Higher(s, w)
    BY DEF SteadyNodesCompete
  <2>1. pc = "won" /\ n \in ToSet(alive) /\ Heard(n)
    BY <1>1 DEF AuctionInv, SteadyProbed
  <2>2. PICK i \in bids : snapshots[i].node = n
    BY <1>1, <2>1, WonFacts, SteadyBids
  <2>3. snapshots[i] \in ToSet(snapshots)
    BY <1>1, <2>1, WonFacts DEF AreBids, ToSet
  <2>4. \/ \E k \in DOMAIN winners : winners[k] = snapshots[i]
        \/ /\ Len(winners) = ReplicationFactor
           /\ \A k \in DOMAIN winners : ~Higher(snapshots[i], winners[k])
    BY <1>1, <2>1, WonFacts, LoserIsBeaten
  <2> QED BY <2>2, <2>3, <2>4 DEF IsWinner, ToSet
<1> QED BY SpecAuctionInv, <1>1, PTL

\* select_winner returns the first of the nodes that select_winners does.
THEOREM FirstWinnersAgree == Spec => []WinnersAgree
<1>1. AuctionInv => WinnersAgree
  BY WonFacts, FirstIsWinner DEF WinnersAgree
<1> QED BY SpecAuctionInv, <1>1, PTL

-----------------------------------------------------------------------------
(* What VaultStore takes from the auction *)

\* An image has as many elements as there are arguments, if it repeats none.
LEMMA ImageCardinality ==
    ASSUME NEW S, NEW T, IsFiniteSet(S), NEW f \in [S -> T],
           T = {f[x] : x \in S}, IsInjective(f)
    PROVE  IsFiniteSet(T) /\ Cardinality(T) = Cardinality(S)
<1>1. f \in Bijection(S, T)
  BY DEF Bijection, Injection, Surjection
<1>2. ExistsBijection(S, T)
  BY <1>1 DEF ExistsBijection
<1> QED BY <1>2, FS_Bijection

WinnerNodes == {winners[k].node : k \in DOMAIN winners}
BidderNodes == {snapshots[i].node : i \in bids}

\* put_object writes to REPLICATION_FACTOR of the bidders, or to all of them if
\* there are fewer, and every bidder was found alive: VaultStore!PutAuction lets
\* any such set win.
StoreMayChoose ==
    pc = "won" =>
        /\ WinnerNodes # {} /\ WinnerNodes \subseteq BidderNodes
        /\ BidderNodes \subseteq ToSet(alive)
        /\ \/ Cardinality(WinnerNodes) = ReplicationFactor
           \/ /\ WinnerNodes = BidderNodes
              /\ Cardinality(WinnerNodes) < ReplicationFactor

\* The auction chooses a set of nodes that VaultStore allows.
THEOREM AuctionServesStore == Spec => []StoreMayChoose
<1>1. ASSUME AuctionInv, pc = "won", WinnersAnswered PROVE StoreMayChoose
  <2> DEFINE L == Least(Cardinality(bids), ReplicationFactor)
             f == [k \in DOMAIN winners |-> winners[k].node]
             g == [i \in bids |-> snapshots[i].node]
  <2>1. /\ AreBids(snapshots, bids) /\ bids # {}
        /\ bids = ComputeBids(snapshots, alive)
        /\ winners = SelectWinners(snapshots, bids, ReplicationFactor)
        /\ ReplicationFactor \in Nat \ {0}
    BY <1>1, WonFacts
  <2>2. /\ IsFiniteSet(bids) /\ Cardinality(bids) \in Nat \ {0}
    BY <2>1, BidTypes, FS_EmptySet
  <2>3. L \in Nat \ {0} /\ DOMAIN winners = 1..L
    BY <2>1, <2>2, WinnersRanked DEF Least
  <2>4. IsFiniteSet(DOMAIN winners) /\ Cardinality(DOMAIN winners) = L
    BY <2>3, FS_Interval
  <2> HIDE DEF L
  <2>5. IsFiniteSet(WinnerNodes) /\ Cardinality(WinnerNodes) = L
    <3>1. f \in [DOMAIN winners -> WinnerNodes] /\ IsInjective(f)
      BY <1>1 DEF WinnerNodes, IsInjective, WinnersAnswered
    <3>2. WinnerNodes = {f[k] : k \in DOMAIN winners}
      BY DEF WinnerNodes
    <3> HIDE DEF f
    <3> QED BY <2>4, <3>1, <3>2, ImageCardinality
  <2>6. IsFiniteSet(BidderNodes) /\ Cardinality(BidderNodes) = Cardinality(bids)
    <3>1. g \in [bids -> BidderNodes] /\ IsInjective(g)
      BY <1>1, <2>1 DEF BidderNodes, IsInjective, AreBids, AuctionInv,
                        OneProbeEach
    <3>2. BidderNodes = {g[i] : i \in bids}
      BY DEF BidderNodes
    <3> HIDE DEF g
    <3> QED BY <2>2, <3>1, <3>2, ImageCardinality
  <2>7. WinnerNodes \subseteq BidderNodes
    BY <1>1, WinnersAreBids DEF WinnerNodes, BidderNodes
  <2>8. WinnerNodes # {}
    <3>1. 1 \in DOMAIN winners
      BY <2>3
    <3> QED BY <3>1 DEF WinnerNodes
  <2>9. BidderNodes \subseteq ToSet(alive)
    BY <1>1, <2>1, ContainsIsIn
       DEF BidderNodes, ComputeBids, AuctionInv, TypeOK
  <2>10. CASE Cardinality(bids) < ReplicationFactor
    <3>1. L = Cardinality(bids)
      BY <2>10 DEF L, Least
    <3>2. WinnerNodes = BidderNodes
      BY <2>5, <2>6, <2>7, <3>1, FS_Subset
    <3> QED BY <2>5, <2>7, <2>8, <2>9, <2>10, <3>1, <3>2 DEF StoreMayChoose
  <2>11. CASE ~(Cardinality(bids) < ReplicationFactor)
    <3>1. L = ReplicationFactor
      BY <2>11 DEF L, Least
    <3> QED BY <2>5, <2>7, <2>8, <2>9, <3>1 DEF StoreMayChoose
  <2> QED BY <2>10, <2>11
<1>2. AuctionInv /\ WinnersAnswered => StoreMayChoose
  BY <1>1 DEF StoreMayChoose
<1> QED BY SpecAuctionInv, WinnersHaveAnswered, <1>2, PTL
=============================================================================

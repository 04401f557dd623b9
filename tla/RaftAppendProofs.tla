--------------------------- MODULE RaftAppendProofs ---------------------------
(***************************************************************************)
(* Proofs about RaftAppend, for every set of servers and every bound: its  *)
(* types, what it applies of the log and in which order, and that the      *)
(* AppendEntries handler breaks neither LeaderHasQuorum nor                *)
(* FollowerHasTimer of RaftElection.                                       *)
(*                                                                         *)
(* The steps of RaftElection keep the invariant of RaftElectionProofs by   *)
(* the lemmas of that module; what is proved here is the handler's part.   *)
(***************************************************************************)
EXTENDS RaftAppend, RaftElectionProofs

\* A handler that goes on to make the node a follower has left a timer behind.
DemoteOK ==
    \A h \in BagToSet(appends) :
        h.pc = "demote" /\ running[h.to] => armed[h.to]

\* The entries of the log are numbered in the order of their proposals, and
\* those beyond last_applied later than all that were applied.
Numbered(n) ==
    /\ Len(entries[n]) = Len(log[n])
    /\ \A i, j \in DOMAIN entries[n] : i < j => entries[n][i] < entries[n][j]
    /\ \A i \in DOMAIN entries[n] : entries[n][i] <= proposed[n]
    /\ \A i \in DOMAIN applied[n] : applied[n][i] <= proposed[n]
    /\ \A i \in DOMAIN applied[n], j \in DOMAIN entries[n] :
          lastApplied[n] < j => applied[n][i] < entries[n][j]
    /\ \A i, j \in DOMAIN applied[n] : i < j => applied[n][i] < applied[n][j]

\* No apply raised and no applied entry was cut.
Undisturbed(n) == ~applyRaised[n] /\ ~cutApplied[n]

\* Then the entries applied are those of the log up to last_applied, and the
\* commit index is not beyond it.
AppliedPrefix(n) ==
    Undisturbed(n) =>
        /\ Len(applied[n]) = lastApplied[n]
        /\ commitIndex[n] <= lastApplied[n]
        /\ lastApplied[n] <= Len(entries[n])
        /\ \A i \in 1..lastApplied[n] : applied[n][i] = entries[n][i]

AppendInv ==
    /\ AppendTypeOK
    /\ IInv
    /\ FollowerHasTimer
    /\ DemoteOK
    /\ \A n \in Server : Numbered(n)
    /\ \A n \in Server : AppliedPrefix(n)

\* A node whose log and history a step leaves alone is as it was.
LEMMA NodeKept ==
    ASSUME NEW n \in Server, Numbered(n), AppliedPrefix(n),
           log'[n] = log[n], entries'[n] = entries[n],
           proposed'[n] = proposed[n], applied'[n] = applied[n],
           lastApplied'[n] = lastApplied[n], commitIndex'[n] = commitIndex[n],
           applyRaised'[n] = applyRaised[n], cutApplied'[n] = cutApplied[n]
    PROVE  Numbered(n)' /\ AppliedPrefix(n)'
  BY DEF Numbered, AppliedPrefix, Undisturbed

\* A step that changes neither keeps both parts of the invariant.
LEMMA NodesKept ==
    ASSUME AppendInv, UNCHANGED <<log, stateVars>>
    PROVE  \A n \in Server : Numbered(n)' /\ AppliedPrefix(n)'
  BY NodeKept DEF AppendInv, stateVars, historyVars

-----------------------------------------------------------------------------
\* One handler more in the bag, or one less.
LEMMA OneMore ==
    ASSUME NEW B, IsABag(B), NEW e
    PROVE  /\ IsABag(B (+) SetToBag({e}))
           /\ BagToSet(B (+) SetToBag({e})) = BagToSet(B) \cup {e}
  BY DEF IsABag, BagToSet, SetToBag, (+)

LEMMA OneLess ==
    ASSUME NEW B, IsABag(B), NEW e
    PROVE  /\ IsABag(B (-) SetToBag({e}))
           /\ BagToSet(B (-) SetToBag({e})) \subseteq BagToSet(B)
<1> DEFINE D == [x \in DOMAIN B |->
                    IF x \in {e} THEN B[x] - 1 ELSE B[x]]
<1>1. B (-) SetToBag({e}) = [x \in {d \in DOMAIN D : D[d] > 0} |-> D[x]]
  BY DEF SetToBag, (-)
<1>2. \A x \in DOMAIN D : x \in DOMAIN B /\ D[x] \in Nat
  BY DEF IsABag
<1> HIDE DEF D
<1> QED BY <1>1, <1>2 DEF IsABag, BagToSet

-----------------------------------------------------------------------------
\* The initial state satisfies the invariant.
LEMMA AppendInitInv == AppendInit => AppendInv
<1> SUFFICES ASSUME AppendInit PROVE AppendInv
  OBVIOUS
<1>1. Init /\ IInv
  BY InitIInv DEF AppendInit
<1>2. FollowerHasTimer
  BY <1>1 DEF Init, FollowerHasTimer
<1>3. IsABag(appends) /\ BagToSet(appends) = {}
  BY DEF AppendInit, EmptyBag, SetToBag, IsABag, BagToSet
<1>4. AppendTypeOK
  BY <1>1, <1>3, AppendAssumption DEF AppendInit, AppendTypeOK, IInv
<1>5. DemoteOK
  BY <1>3 DEF DemoteOK
<1>6. ASSUME NEW n \in Server PROVE Numbered(n) /\ AppliedPrefix(n)
  BY <1>1 DEF AppendInit, Init, Numbered, AppliedPrefix
<1> QED BY <1>1, <1>2, <1>4, <1>5, <1>6 DEF AppendInv

-----------------------------------------------------------------------------
(* The steps of RaftElection *)

\* A step of RaftElection beside the handlers keeps the invariant.
LEMMA OtherStepInv == AppendInv /\ OtherStep /\ UNCHANGED appendVars => AppendInv'
<1> SUFFICES ASSUME AppendInv, OtherStep, UNCHANGED appendVars PROVE AppendInv'
  OBVIOUS
<1> USE DEF AppendInv
<1>1. Next
  BY DEF OtherStep, Next, ElectionStep
<1>2. IInv' /\ FollowerHasTimer'
  BY <1>1, NextIInv, NextFollowerHasTimer DEF IInv
<1>3. AppendTypeOK'
  BY <1>2 DEF AppendTypeOK, IInv, appendVars, stateVars, historyVars
<1>4. \A n \in Server : Numbered(n)' /\ AppliedPrefix(n)'
  <2>1. ASSUME NEW n \in Server,
               \/ DelayFires(n) \/ TimerFires(n)
               \/ StartElection(n) \/ TimerIgnored(n)
               \/ \E m \in Server : RequestVoteFails(n, m)
               \/ Tally(n) \/ LeaderStep(n) \/ Stop(n)
        PROVE  UNCHANGED log
    BY <2>1 DEF DelayFires, TimerFires, StartElection, TimerIgnored,
                RequestVoteFails, Tally, LeaderStep, Replicate, HeartbeatTick,
                HeartbeatExits, ProposeReturns, Stop, nodeVars
  <2>2. HandlerStep => UNCHANGED log
    BY DEF HandlerStep, ReceiveRequestVote, StepDown, Grant, ReplyVote,
           nodeVars
  <2>3. UNCHANGED log
    BY <2>1, <2>2 DEF OtherStep
  <2> QED BY <2>3, NodesKept DEF appendVars
<1>5. DemoteOK'
  <2> SUFFICES ASSUME NEW h \in BagToSet(appends), h.pc = "demote",
                      running'[h.to]
               PROVE  armed'[h.to]
    BY DEF DemoteOK, appendVars
  <2> DEFINE m == h.to
  <2>1. m \in Server /\ Demoting(m)
    BY DEF AppendTypeOK, AppendHandler, Demoting
  <2>2. /\ armed \in [Server -> BOOLEAN]
        /\ running \in [Server -> BOOLEAN]
        /\ running[m] => armed[m]
    BY DEF DemoteOK, IInv, TypeOK
  <2> HIDE DEF m
  <2> SUFFICES armed'[m]
    BY DEF m
  <2>3. running'[m]
    BY DEF m
  <2> USE DEF nodeVars, timerVars
  <2>4. CASE UNCHANGED <<running, armed>>
    BY <2>2, <2>3, <2>4
  <2>5. ASSUME NEW n \in Server, DelayFires(n) PROVE armed'[m]
    BY <2>1, <2>2, <2>3, <2>5 DEF DelayFires
  <2>6. ASSUME NEW n \in Server, ~Demoting(n), TimerFires(n) PROVE armed'[m]
    BY <2>1, <2>2, <2>3, <2>6 DEF TimerFires
  <2>7. ASSUME NEW n \in Server, Tally(n) PROVE armed'[m]
    BY <2>1, <2>2, <2>3, <2>7 DEF Tally, BecomeFollower
  <2>8. ASSUME NEW n \in Server, Stop(n) PROVE armed'[m]
    BY <2>1, <2>2, <2>3, <2>8 DEF Stop
  <2>9. ASSUME HandlerStep PROVE armed'[m]
    <3>1. ASSUME NEW req \in requests, ReceiveRequestVote(req)
          PROVE  armed'[m]
      BY <2>2, <2>3, <3>1 DEF ReceiveRequestVote
    <3>2. ASSUME NEW g \in handlers, StepDown(g) PROVE armed'[m]
      BY <2>1, <2>2, <2>3, <3>2 DEF StepDown, BecomeFollower
    <3>3. ASSUME NEW g \in handlers, Grant(g) PROVE armed'[m]
      BY <2>1, <2>2, <2>3, <3>3 DEF Grant
    <3>4. ASSUME NEW g \in handlers, ReplyVote(g) PROVE armed'[m]
      BY <2>2, <2>3, <3>4 DEF ReplyVote
    <3> QED BY <2>9, <3>1, <3>2, <3>3, <3>4 DEF HandlerStep
  <2>10. ASSUME NEW n \in Server,
                \/ StartElection(n) \/ TimerIgnored(n)
                \/ \E k \in Server : RequestVoteFails(n, k)
                \/ LeaderStep(n)
         PROVE  UNCHANGED <<running, armed>>
    BY <2>10 DEF StartElection, TimerIgnored, RequestVoteFails, LeaderStep,
                 Replicate, HeartbeatTick, HeartbeatExits, ProposeReturns
  <2> QED
    BY <2>4, <2>5, <2>6, <2>7, <2>8, <2>9, <2>10 DEF OtherStep
<1> QED BY <1>2, <1>3, <1>4, <1>5

\* A new entry has the next number, so it was applied by no one, and it is
\* beyond what was applied unless an applied entry was cut.
LEMMA ProposeInv ==
    ASSUME AppendInv, NEW n \in Server, ProposeEntry(n)
    PROVE  AppendInv'
<1> USE DEF AppendInv
<1>1. Propose(n) /\ Next
  BY DEF ProposeEntry, Next
<1>2. IInv' /\ FollowerHasTimer'
  BY <1>1, NextIInv, NextFollowerHasTimer DEF IInv
<1>3. /\ log \in [Server -> Seq(Nat)] /\ log[n] \in Seq(Nat)
      /\ entries \in [Server -> Seq(Nat)] /\ entries[n] \in Seq(Nat)
      /\ proposed \in [Server -> Nat] /\ proposed[n] \in Nat
      /\ applied[n] \in Seq(Nat) /\ lastApplied[n] \in Nat
  BY DEF AppendTypeOK, IInv, TypeOK
<1> DEFINE new == proposed[n] + 1
<1>4. /\ log' = [log EXCEPT ![n] = Append(@, currentTerm[n])]
      /\ entries' = [entries EXCEPT ![n] = Append(@, new)]
      /\ proposed' = [proposed EXCEPT ![n] = new]
      /\ UNCHANGED <<commitIndex, lastApplied, appends, received, applied,
                     applyRaised, cutApplied, running, armed>>
  BY <1>1 DEF ProposeEntry, Propose, timerVars
<1>5. entries'[n] = Append(entries[n], new) /\ new \in Nat
  BY <1>3, <1>4
<1>6. AppendTypeOK'
  <2>1. entries' \in [Server -> Seq(Nat)] /\ proposed' \in [Server -> Nat]
    BY <1>3, <1>4
  <2> QED BY <1>2, <1>4, <2>1 DEF AppendTypeOK, IInv
<1>7. DemoteOK'
  BY <1>4 DEF DemoteOK
<1>8. /\ Len(entries'[n]) = Len(entries[n]) + 1
      /\ \A i \in 1..Len(entries[n]) : entries'[n][i] = entries[n][i]
      /\ entries'[n][Len(entries[n]) + 1] = new
  BY <1>3, <1>5
<1>9. Numbered(n)'
  <2>1. Len(log'[n]) = Len(log[n]) + 1
    <3>1. currentTerm[n] \in Nat
      BY DEF IInv, TypeOK
    <3>2. log'[n] = Append(log[n], currentTerm[n])
      BY <1>3, <1>4
    <3> QED BY <1>3, <3>1, <3>2
  <2>2. proposed'[n] = new
    BY <1>3, <1>4
  <2>3. DOMAIN entries'[n] = 1..(Len(entries[n]) + 1)
    BY <1>3, <1>5
  <2>4. \A i \in DOMAIN entries[n] : entries[n][i] \in Nat
    BY <1>3
  <2>5. \A i \in DOMAIN applied[n] : applied[n][i] \in Nat
    BY <1>3
  <2>6. DOMAIN entries[n] = 1..Len(entries[n]) /\ Len(entries[n]) \in Nat
    BY <1>3
  <2>7. UNCHANGED <<applied, lastApplied>>
    BY <1>4
  <2> HIDE DEF new
  <2>8. new = proposed[n] + 1 /\ proposed[n] \in Nat
    BY <1>3 DEF new
  <2> DEFINE k == Len(entries[n])
  <2>9. \A i \in 1..(k + 1) : i \in 1..k \/ i = k + 1
    BY <2>6
  <2>10. /\ \A i \in 1..k : entries[n][i] < new
         /\ \A i \in DOMAIN applied[n] : applied[n][i] < new
    BY <2>4, <2>5, <2>6, <2>8 DEF Numbered
  <2>11. \A i \in 1..(k + 1) : entries'[n][i] <= new
    BY <1>8, <2>4, <2>6, <2>8, <2>9, <2>10
  <2>12. ASSUME NEW i \in 1..(k + 1), NEW j \in 1..(k + 1), i < j
         PROVE  entries'[n][i] < entries'[n][j]
    <3>1. i \in 1..k
      BY <2>6, <2>12
    <3>2. CASE j \in 1..k
      BY <1>8, <2>6, <2>12, <3>1, <3>2 DEF Numbered
    <3>3. CASE j = k + 1
      BY <1>8, <2>10, <3>1, <3>3
    <3> QED BY <2>9, <3>2, <3>3
  <2>13. ASSUME NEW i \in DOMAIN applied[n], NEW j \in 1..(k + 1),
                lastApplied[n] < j
         PROVE  applied[n][i] < entries'[n][j]
    <3>1. CASE j \in 1..k
      BY <1>8, <2>6, <2>13, <3>1 DEF Numbered
    <3>2. CASE j = k + 1
      BY <1>8, <2>10, <3>2
    <3> QED BY <2>9, <3>1, <3>2
  <2>14. \A i \in DOMAIN applied[n] : applied[n][i] <= new
    BY <2>5, <2>8, <2>10
  <2>15. \A i, j \in DOMAIN applied[n] : i < j => applied[n][i] < applied[n][j]
    BY DEF Numbered
  <2>16. Len(log'[n]) = k + 1
    BY <2>1 DEF Numbered
  <2>17. Len(entries'[n]) = k + 1
    BY <1>8
  <2> HIDE DEF k
  <2>18. DOMAIN entries'[n] = 1..(k + 1)
    BY <2>3 DEF k
  <2> QED BY <2>2, <2>7, <2>11, <2>12, <2>13, <2>14, <2>15, <2>16, <2>17,
             <2>18 DEF Numbered
<1>10. AppliedPrefix(n)'
  <2> SUFFICES ASSUME Undisturbed(n)
               PROVE  /\ Len(applied[n]) = lastApplied[n]
                      /\ commitIndex[n] <= lastApplied[n]
                      /\ lastApplied[n] <= Len(entries'[n])
                      /\ \A i \in 1..lastApplied[n] :
                            applied[n][i] = entries'[n][i]
    BY <1>4 DEF AppliedPrefix, Undisturbed
  <2>1. /\ Len(applied[n]) = lastApplied[n]
        /\ commitIndex[n] <= lastApplied[n]
        /\ lastApplied[n] <= Len(entries[n])
        /\ \A i \in 1..lastApplied[n] : applied[n][i] = entries[n][i]
    BY Zenon DEF AppliedPrefix
  <2>2. Len(entries[n]) \in Nat /\ lastApplied[n] \in Nat
    BY <1>3
  <2>3. lastApplied[n] <= Len(entries'[n])
    BY <1>8, <2>1, <2>2
  <2>4. \A i \in 1..lastApplied[n] : i \in 1..Len(entries[n])
    BY <2>1, <2>2
  <2>5. \A i \in 1..lastApplied[n] : applied[n][i] = entries'[n][i]
    BY <1>8, <2>1, <2>4
  <2> QED BY <2>1, <2>3, <2>5
<1>11. ASSUME NEW m \in Server \ {n} PROVE Numbered(m)' /\ AppliedPrefix(m)'
  <2>1. /\ log'[m] = log[m] /\ entries'[m] = entries[m]
        /\ proposed'[m] = proposed[m]
    BY <1>3, <1>4
  <2> QED BY <1>4, <2>1, NodeKept
<1> QED BY <1>2, <1>6, <1>7, <1>9, <1>10, <1>11

\* A restart keeps it: the node's handlers, log and applied entries are gone.
LEMMA RestartInv ==
    ASSUME AppendInv, NEW n \in Server, RestartAppend(n)
    PROVE  AppendInv'
<1> USE DEF AppendInv
<1>1. Restart(n) /\ Next
  BY DEF RestartAppend, Next
<1>2. IInv' /\ FollowerHasTimer'
  BY <1>1, NextIInv, NextFollowerHasTimer DEF IInv
<1>3. /\ IsABag(appends')
      /\ BagToSet(appends') = {h \in BagToSet(appends) : h.to # n}
  BY DEF RestartAppend, AppendTypeOK, IsABag, BagToSet
<1>4. AppendTypeOK'
  <2>1. /\ commitIndex' \in [Server -> Nat] /\ lastApplied' \in [Server -> Nat]
        /\ proposed' \in [Server -> Nat] /\ received' \in 0..MaxAppends
    BY DEF AppendTypeOK, RestartAppend
  <2>2. entries' \in [Server -> Seq(Nat)] /\ applied' \in [Server -> Seq(Nat)]
    <3>1. <<>> \in Seq(Nat)
      OBVIOUS
    <3> QED BY <3>1 DEF AppendTypeOK, RestartAppend
  <2>3. applyRaised' \in [Server -> BOOLEAN] /\ cutApplied' \in [Server -> BOOLEAN]
    BY DEF AppendTypeOK, RestartAppend
  <2>4. BagToSet(appends') \subseteq AppendHandler
    BY <1>3 DEF AppendTypeOK
  <2>5. TypeOK'
    BY <1>2 DEF IInv
  <2> QED BY <1>3, <2>1, <2>2, <2>3, <2>4, <2>5 DEF AppendTypeOK
<1>5. Numbered(n)' /\ AppliedPrefix(n)'
  <2>1. /\ log'[n] = <<>> /\ entries'[n] = <<>> /\ applied'[n] = <<>>
        /\ lastApplied'[n] = 0 /\ commitIndex'[n] = 0
    BY <1>1 DEF RestartAppend, Restart, AppendTypeOK, IInv, TypeOK
  <2> QED BY <2>1 DEF Numbered, AppliedPrefix
<1>6. ASSUME NEW m \in Server \ {n} PROVE Numbered(m)' /\ AppliedPrefix(m)'
  <2>1. /\ log'[m] = log[m] /\ entries'[m] = entries[m]
        /\ proposed'[m] = proposed[m] /\ applied'[m] = applied[m]
        /\ lastApplied'[m] = lastApplied[m]
        /\ commitIndex'[m] = commitIndex[m]
        /\ applyRaised'[m] = applyRaised[m]
        /\ cutApplied'[m] = cutApplied[m]
    BY <1>1 DEF RestartAppend, Restart, AppendTypeOK, IInv, TypeOK
  <2> QED BY <2>1, NodeKept
<1>7. DemoteOK'
  <2> SUFFICES ASSUME NEW h \in BagToSet(appends), h.to # n,
                      h.pc = "demote", running'[h.to]
               PROVE  armed'[h.to]
    BY <1>3 DEF DemoteOK
  <2>1. h.to \in Server
    BY DEF AppendTypeOK, AppendHandler
  <2> QED BY <1>1, <2>1 DEF Restart, DemoteOK, IInv, TypeOK
<1> QED BY <1>2, <1>4, <1>5, <1>6, <1>7

-----------------------------------------------------------------------------
(* The handler *)

\* The nodes' types need no more than this of a handler's step.
LEMMA TypeOKKept ==
    ASSUME TypeOK,
           currentTerm' \in [Server -> Nat],
           votedFor' \in [Server -> Server \cup {None}],
           role' \in [Server -> Role],
           log' \in [Server -> Seq(Nat)],
           armed' \in [Server -> BOOLEAN],
           UNCHANGED <<running, delay, expired, threadVars, rpcVars, countVars>>
    PROVE  TypeOK'
  BY DEF TypeOK, threadVars, rpcVars, countVars

\* A step that casts no vote, touches no election and makes no leader keeps
\* the invariant of RaftElectionProofs.
LEMMA IInvKept ==
    ASSUME IInv, TypeOK',
           UNCHANGED <<threadVars, rpcVars, countVars>>,
           \A n \in Server : role'[n] = "leader" =>
               role[n] = "leader" /\ currentTerm'[n] = currentTerm[n]
    PROVE  IInv'
<1> USE DEF IInv, threadVars, rpcVars, countVars
<1>1. LeaderHasQuorum'
  BY LeadersKept
<1>2. ASSUME NEW n \in Server PROVE ElectionOK(n)'
  BY DEF ElectionOK, Electing
<1>3. ASSUME NEW req \in requests PROVE CallOK(req)'
  BY DEF CallOK
<1>4. ASSUME NEW h \in handlers PROVE HandlerOK(h)'
  BY DEF HandlerOK, CallOK
<1> QED BY <1>1, <1>2, <1>3, <1>4

\* A handler that goes on or returns keeps the others as they are.
LEMMA HandlersKept ==
    ASSUME AppendTypeOK, NEW h \in BagToSet(appends),
           NEW pc \in {"reset", "demote", "update"},
           Becomes(h, pc) \/ Returns(h)
    PROVE  /\ IsABag(appends') /\ BagToSet(appends') \subseteq AppendHandler
           /\ received' \in 0..MaxAppends
           /\ \A g \in BagToSet(appends') : g.pc = "demote" =>
                  \/ g \in BagToSet(appends)
                  \/ g.to = h.to /\ pc = "demote"
<1>1. /\ Goes(h, pc) \in AppendHandler
      /\ Goes(h, pc).to = h.to
      /\ Goes(h, pc).pc = pc
  BY DEF AppendTypeOK, AppendHandler, Goes
<1> DEFINE rest == appends (-) SetToBag({h})
<1>2. IsABag(rest) /\ BagToSet(rest) \subseteq BagToSet(appends)
  BY OneLess DEF AppendTypeOK
<1>3. /\ IsABag(rest (+) SetToBag({Goes(h, pc)}))
      /\ BagToSet(rest (+) SetToBag({Goes(h, pc)}))
            = BagToSet(rest) \cup {Goes(h, pc)}
  BY <1>2, OneMore
<1>4. received' = received
  BY DEF Becomes, Returns
<1>5. CASE Returns(h)
  <2>1. appends' = rest
    BY <1>5 DEF Returns
  <2> QED BY <1>2, <1>4, <2>1 DEF AppendTypeOK
<1>6. CASE Becomes(h, pc)
  <2>1. appends' = rest (+) SetToBag({Goes(h, pc)})
    BY <1>6 DEF Becomes
  <2> QED BY <1>1, <1>2, <1>3, <1>4, <2>1 DEF AppendTypeOK
<1> QED BY <1>5, <1>6

\* What remains of a log that is cut at k.
LEMMA CutAt ==
    ASSUME NEW s \in Seq(Nat), NEW k \in Nat, k <= Len(s)
    PROVE  LET t == SubSeq(s, 1, k)
           IN  /\ t \in Seq(Nat) /\ Len(t) = k
               /\ \A i \in 1..k : t[i] = s[i]
<1>1. \A i \in 1..k : s[i] \in Nat
  <2>1. \A i \in 1..k : i \in 1..Len(s)
    OBVIOUS
  <2> QED BY <2>1, ElementOfSeq
<1> QED BY <1>1, SubSeqProperties

\* What Applies appends to a: the entries of l after the p-th, up to last.
LEMMA AppliedGrows ==
    ASSUME NEW a \in Seq(Nat), NEW l \in Seq(Nat),
           NEW p \in Nat, NEW last \in Nat, p <= last,
           last = p \/ last <= Len(l)
    PROVE  \E b \in Seq(Nat) :
              /\ b = a \o SubSeq(l, p + 1, last)
              /\ Len(b) = Len(a) + (last - p)
              /\ \A i \in 1..Len(a) : b[i] = a[i]
              /\ \A i \in (Len(a) + 1)..Len(b) : b[i] = l[p + (i - Len(a))]
<1> DEFINE t == SubSeq(l, p + 1, last)
<1>1. /\ t \in Seq(Nat) /\ Len(t) = last - p
      /\ \A i \in 1..(last - p) : t[i] = l[p + i]
  <2>1. CASE last = p
    BY <2>1
  <2>2. CASE last # p
    <3>1. p + 1 >= 1 /\ last <= Len(l) /\ p + 1 <= last + 1
      BY <2>2
    <3> QED BY <3>1
  <2> QED BY <2>1, <2>2
<1> DEFINE b == a \o t
<1> HIDE DEF t
<1>2. b = a \o t
  OBVIOUS
<1> HIDE DEF b
<1>3. /\ b \in Seq(Nat) /\ Len(b) = Len(a) + Len(t)
      /\ \A i \in 1..(Len(a) + Len(t)) :
            b[i] = IF i <= Len(a) THEN a[i] ELSE t[i - Len(a)]
  <2>1. /\ a \o t \in Seq(Nat) /\ Len(a \o t) = Len(a) + Len(t)
        /\ \A i \in 1..(Len(a) + Len(t)) :
              (a \o t)[i] = IF i <= Len(a) THEN a[i] ELSE t[i - Len(a)]
    BY <1>1, ConcatProperties, Zenon
  <2> QED BY <1>2, <2>1
<1>4. Len(a) \in Nat /\ last - p \in Nat
  OBVIOUS
<1>5. ASSUME NEW i \in 1..Len(a) PROVE b[i] = a[i]
  <2>1. i \in 1..(Len(a) + Len(t)) /\ i <= Len(a)
    BY <1>1, <1>4
  <2> QED BY <1>3, <2>1
<1>6. ASSUME NEW i \in (Len(a) + 1)..(Len(a) + (last - p))
      PROVE  b[i] = l[p + (i - Len(a))]
  <2>1. /\ i - Len(a) \in 1..(last - p)
        /\ i \in 1..(Len(a) + (last - p)) /\ ~(i <= Len(a))
    BY <1>4
  <2>2. b[i] = t[i - Len(a)]
    BY <1>1, <1>3, <2>1
  <2> QED BY <1>1, <2>1, <2>2
<1>7. b = a \o SubSeq(l, p + 1, last)
  BY <1>2 DEF t
<1>8. /\ Len(b) = Len(a) + (last - p)
      /\ \A i \in (Len(a) + 1)..Len(b) : b[i] = l[p + (i - Len(a))]
  BY <1>1, <1>3, <1>6
<1> QED BY <1>3, <1>5, <1>7, <1>8, Zenon

\* n has applied the entries of l after last_applied, up to last.  If nothing
\* has disturbed the node, also not this request, then last_applied is there and
\* the commit index c is reached.
HasApplied(n, l, c, last) ==
    /\ lastApplied[n] <= last
    /\ last = lastApplied[n] \/ last <= Len(l)
    /\ lastApplied' \in [Server -> Nat]
    /\ last <= lastApplied'[n]
    /\ applied' = [applied EXCEPT ![n] =
                      @ \o SubSeq(l, lastApplied[n] + 1, last)]
    /\ \A m \in Server \ {n} : /\ lastApplied'[m] = lastApplied[m]
                               /\ applyRaised'[m] = applyRaised[m]
    /\ applyRaised' \in [Server -> BOOLEAN]
    /\ Undisturbed(n)' => /\ Undisturbed(n)
                          /\ lastApplied[n] <= Len(l)
                          /\ lastApplied'[n] = last
                          /\ c <= last

LEMMA ApplyUpToApplies ==
    ASSUME AppendTypeOK, NEW n \in Server, AppliedPrefix(n),
           NEW l \in Seq(Nat), NEW c \in Nat,
           c <= Len(l) \/ c = commitIndex[n],
           cutApplied' = [cutApplied EXCEPT ![n] =
                             @ \/ Len(l) < lastApplied[n]],
           ApplyUpTo(n, l, c)
    PROVE  \E last \in Nat : HasApplied(n, l, c, last)
<1> DEFINE p == lastApplied[n]
<1>1. /\ lastApplied \in [Server -> Nat] /\ p \in Nat
      /\ applied \in [Server -> Seq(Nat)] /\ applied[n] \in Seq(Nat)
      /\ applyRaised \in [Server -> BOOLEAN] /\ Len(l) \in Nat
      /\ cutApplied \in [Server -> BOOLEAN] /\ commitIndex[n] \in Nat
  BY DEF AppendTypeOK
<1>2. ~cutApplied'[n] => ~cutApplied[n] /\ p <= Len(l)
  <2>1. cutApplied'[n] = (cutApplied[n] \/ Len(l) < p)
    BY <1>1, Zenon
  <2>2. CASE Len(l) < p
    BY <2>1, <2>2, Zenon
  <2>3. CASE ~(Len(l) < p)
    <3>1. p <= Len(l)
      BY <1>1, <2>3
    <3> QED BY <2>1, <3>1, Zenon
  <2> QED BY <2>2, <2>3, Zenon
<1>3. CASE /\ c <= p
           /\ UNCHANGED <<applied, lastApplied, applyRaised>>
  <2>1. SubSeq(l, p + 1, p) = <<>>
    BY <1>1
  <2>2. applied[n] \o <<>> = applied[n]
    BY <1>1
  <2>3. applied = [applied EXCEPT ![n] = @ \o SubSeq(l, p + 1, p)]
    BY <1>1, <2>1, <2>2
  <2>4. Undisturbed(n)' => Undisturbed(n) /\ p <= Len(l)
    BY <1>2, <1>3, Zenon DEF Undisturbed
  <2>5. HasApplied(n, l, c, p)
    BY <1>1, <1>3, <2>3, <2>4 DEF HasApplied
  <2> QED BY <1>1, <2>5
<1>4. CASE /\ p < c /\ c <= Len(l)
           /\ Applies(n, l, c, c)
           /\ UNCHANGED applyRaised
  <2>1. /\ lastApplied' = [lastApplied EXCEPT ![n] = c]
        /\ applied' = [applied EXCEPT ![n] = @ \o SubSeq(l, p + 1, c)]
    BY <1>4, Zenon DEF Applies
  <2>2. /\ lastApplied' \in [Server -> Nat] /\ lastApplied'[n] = c
        /\ \A m \in Server \ {n} : lastApplied'[m] = lastApplied[m]
    BY <1>1, <2>1
  <2>3. Undisturbed(n)' => Undisturbed(n) /\ p <= Len(l)
    BY <1>2, <1>4, Zenon DEF Undisturbed
  <2>4. p <= c /\ c <= Len(l) /\ c <= c
    BY <1>1, <1>4
  <2>5. applyRaised' = applyRaised
    BY <1>4
  <2>6. HasApplied(n, l, c, c)
    BY <1>1, <2>1, <2>2, <2>3, <2>4, <2>5, Zenon DEF HasApplied
  <2> QED BY <2>6
<1>5. ASSUME NEW k \in (p + 1)..c,
             \A i \in (p + 1)..(k - 1) : i <= Len(l),
             Applies(n, l, k - 1, k),
             applyRaised' = [applyRaised EXCEPT ![n] = @ \/ k <= Len(l)]
      PROVE  \E last \in Nat : HasApplied(n, l, c, last)
  <2>1. k \in Nat /\ k - 1 \in Nat /\ p <= k - 1 /\ k - 1 <= k /\ k <= c
    BY <1>1
  <2>2. k - 1 = p \/ k - 1 <= Len(l)
    <3>1. CASE k - 1 # p
      <4>1. k - 1 \in (p + 1)..(k - 1)
        BY <1>1, <2>1, <3>1
      <4> QED BY <1>5, <4>1
    <3> QED BY <3>1
  <2>3. /\ lastApplied' = [lastApplied EXCEPT ![n] = k]
        /\ applied' = [applied EXCEPT ![n] = @ \o SubSeq(l, p + 1, k - 1)]
    BY <1>5, Zenon DEF Applies
  <2>4. /\ lastApplied' \in [Server -> Nat] /\ k - 1 <= lastApplied'[n]
        /\ \A m \in Server \ {n} : lastApplied'[m] = lastApplied[m]
    BY <1>1, <2>1, <2>3
  <2>5. /\ applyRaised' \in [Server -> BOOLEAN]
        /\ \A m \in Server \ {n} : applyRaised'[m] = applyRaised[m]
    BY <1>1, <1>5
  <2>6. applyRaised'[n] = (applyRaised[n] \/ k <= Len(l))
    BY <1>1, <1>5, Zenon
  <2>7. ~Undisturbed(n)'
    <3>1. CASE k <= Len(l)
      BY <2>6, <3>1, Zenon DEF Undisturbed
    <3>2. CASE c = commitIndex[n]
      <4>1. ~(commitIndex[n] <= p)
        BY <1>1, <2>1, <3>2
      <4>2. applyRaised[n] \/ cutApplied[n]
        BY <4>1, Zenon DEF AppliedPrefix, Undisturbed
      <4> QED BY <1>2, <2>6, <4>2, Zenon DEF Undisturbed
    <3>3. c <= Len(l) => k <= Len(l)
      BY <1>1, <2>1
    <3> QED BY <3>1, <3>2, <3>3, Zenon
  <2>8. HasApplied(n, l, c, k - 1)
    BY <2>1, <2>2, <2>3, <2>4, <2>5, <2>7, Zenon DEF HasApplied
  <2> QED BY <2>1, <2>8
<1> QED BY <1>3, <1>4, <1>5, Zenon DEF ApplyUpTo

\* An AppendEntries arrives: nothing of the node has changed yet.
LEMMA ReceiveAppendInv ==
    ASSUME AppendInv, NEW n \in Server, NEW term \in Nat,
           NEW prevIndex \in Nat, NEW prevTerm \in Nat,
           NEW empty \in BOOLEAN, NEW commit \in Nat,
           ReceiveAppend(n, term, prevIndex, prevTerm, empty, commit)
    PROVE  AppendInv'
<1> USE DEF AppendInv
<1>1. UNCHANGED <<vars, stateVars>>
  BY DEF ReceiveAppend
<1>2. Next \/ UNCHANGED vars
  BY <1>1
<1>3. IInv' /\ FollowerHasTimer'
  BY <1>2, NextIInv, NextFollowerHasTimer DEF IInv
<1>4. received' \in 0..MaxAppends
  BY AppendAssumption DEF ReceiveAppend, AppendTypeOK
<1>5. PICK h \in AppendHandler : /\ appends' = appends (+) SetToBag({h})
                                 /\ h.pc # "demote"
  <2> DEFINE newer == term > currentTerm[n]
             update == Consistent(n, prevIndex, prevTerm) /\ empty
             demote == ~newer /\ role[n] = "candidate"
             ti == IF newer THEN term ELSE 0
             pi == IF update THEN prevIndex ELSE 0
             ci == IF update THEN commit ELSE 0
             pc == IF newer THEN "step_down" ELSE "reset"
             h == [to |-> n, update |-> update, term |-> ti,
                   demote |-> demote, prevIndex |-> pi, commit |-> ci,
                   pc |-> pc]
  <2>1. /\ update \in BOOLEAN /\ demote \in BOOLEAN
        /\ ti \in Nat /\ pi \in Nat /\ ci \in Nat
        /\ pc \in {"step_down", "reset"}
    BY DEF Consistent
  <2>2. appends' = appends (+) SetToBag({h})
    BY DEF ReceiveAppend
  <2> HIDE DEF newer, update, demote, ti, pi, ci, pc
  <2>3. h \in AppendHandler
    BY <2>1 DEF AppendHandler
  <2>4. h.pc # "demote"
    BY <2>1
  <2> QED BY <2>2, <2>3, <2>4
<1>6. /\ IsABag(appends')
      /\ BagToSet(appends') = BagToSet(appends) \cup {h}
  BY <1>5, OneMore DEF AppendTypeOK
<1>7. AppendTypeOK'
  BY <1>1, <1>3, <1>4, <1>6
     DEF AppendTypeOK, IInv, stateVars, historyVars
<1>8. DemoteOK'
  BY <1>1, <1>5, <1>6 DEF DemoteOK, vars, nodeVars, timerVars
<1>9. \A m \in Server : Numbered(m)' /\ AppliedPrefix(m)'
  BY <1>1, NodesKept DEF vars, nodeVars
<1> QED BY <1>3, <1>7, <1>8, <1>9

\* A step on the role and the timer keeps the invariant when it makes no leader,
\* stops no timer, and leaves one on a node that becomes a follower.
LEMMA RoleStepInv ==
    ASSUME AppendInv, NEW h \in BagToSet(appends),
           NEW pc \in {"reset", "demote", "update"},
           Becomes(h, pc) \/ Returns(h),
           UNCHANGED <<running, log, delay, expired, threadVars, rpcVars,
                       countVars, stateVars>>,
           currentTerm' \in [Server -> Nat],
           votedFor' \in [Server -> Server \cup {None}],
           role' \in [Server -> Role],
           armed' \in [Server -> BOOLEAN],
           \A n \in Server :
               /\ role'[n] = "leader" =>
                      role[n] = "leader" /\ currentTerm'[n] = currentTerm[n]
               /\ armed[n] => armed'[n]
               /\ role'[n] = "follower" => \/ role[n] = "follower"
                                           \/ running[n] => armed'[n],
           pc = "demote" => armed'[h.to]
    PROVE  AppendInv'
<1> USE DEF AppendInv
<1>1. TypeOK'
  <2>1. log' \in [Server -> Seq(Nat)]
    BY DEF IInv, TypeOK
  <2> QED BY <2>1, TypeOKKept DEF IInv
<1>2. IInv'
  BY <1>1, IInvKept
<1>3. FollowerHasTimer'
  BY DEF FollowerHasTimer
<1>4. /\ IsABag(appends') /\ BagToSet(appends') \subseteq AppendHandler
      /\ received' \in 0..MaxAppends
      /\ \A g \in BagToSet(appends') : g.pc = "demote" =>
             \/ g \in BagToSet(appends)
             \/ g.to = h.to /\ pc = "demote"
  BY HandlersKept
<1>5. AppendTypeOK'
  BY <1>1, <1>4 DEF AppendTypeOK, stateVars, historyVars
<1>6. DemoteOK'
  <2> SUFFICES ASSUME NEW g \in BagToSet(appends'), g.pc = "demote",
                      running[g.to]
               PROVE  armed'[g.to]
    BY DEF DemoteOK
  <2>1. CASE g \in BagToSet(appends)
    <3>1. g.to \in Server /\ armed[g.to]
      BY <2>1 DEF DemoteOK, AppendTypeOK, AppendHandler
    <3> QED BY <3>1
  <2>2. CASE g.to = h.to /\ pc = "demote"
    BY <2>2
  <2> QED BY <1>4, <2>1, <2>2
<1>7. \A n \in Server : Numbered(n)' /\ AppliedPrefix(n)'
  BY NodesKept
<1> QED BY <1>2, <1>3, <1>5, <1>6, <1>7

\* The four steps of a handler keep the invariant.
LEMMA AppendStepDownInv ==
    ASSUME AppendInv, NEW h \in BagToSet(appends), AppendStepDown(h)
    PROVE  AppendInv'
<1>1. h.to \in Server /\ h.term \in Nat
  BY DEF AppendInv, AppendTypeOK, AppendHandler
<1>2. TypeOK
  BY DEF AppendInv, IInv
<1>3. /\ currentTerm' \in [Server -> Nat]
      /\ votedFor' \in [Server -> Server \cup {None}]
      /\ role' \in [Server -> Role]
      /\ armed' \in [Server -> BOOLEAN]
  BY <1>1, <1>2 DEF AppendStepDown, BecomeFollower, TypeOK, Role
<1>4. \A n \in Server :
        /\ role'[n] = "leader" =>
               role[n] = "leader" /\ currentTerm'[n] = currentTerm[n]
        /\ armed[n] => armed'[n]
        /\ role'[n] = "follower" => \/ role[n] = "follower"
                                    \/ running[n] => armed'[n]
  BY <1>1, <1>2 DEF AppendStepDown, BecomeFollower, TypeOK
<1>5. Becomes(h, "reset") \/ Returns(h)
  BY DEF AppendStepDown
<1>6. UNCHANGED <<running, log, delay, expired, threadVars, rpcVars,
                  countVars, stateVars>>
  BY DEF AppendStepDown
<1> QED BY <1>3, <1>4, <1>5, <1>6, RoleStepInv

\* The timer is started before a candidate is made a follower.
LEMMA AppendResetInv ==
    ASSUME AppendInv, NEW h \in BagToSet(appends), AppendReset(h)
    PROVE  AppendInv'
<1>1. h.to \in Server
  BY DEF AppendInv, AppendTypeOK, AppendHandler
<1>2. TypeOK
  BY DEF AppendInv, IInv
<1>3. /\ currentTerm' \in [Server -> Nat]
      /\ votedFor' \in [Server -> Server \cup {None}]
      /\ role' \in [Server -> Role]
      /\ armed' \in [Server -> BOOLEAN]
  BY <1>1, <1>2 DEF AppendReset, nodeVars, TypeOK
<1>4. \A n \in Server :
        /\ role'[n] = "leader" =>
               role[n] = "leader" /\ currentTerm'[n] = currentTerm[n]
        /\ armed[n] => armed'[n]
        /\ role'[n] = "follower" => \/ role[n] = "follower"
                                    \/ running[n] => armed'[n]
  BY <1>1, <1>2 DEF AppendReset, nodeVars, TypeOK
<1>5. armed'[h.to]
  BY <1>1, <1>2 DEF AppendReset, TypeOK
<1>6. UNCHANGED <<running, log, delay, expired, threadVars, rpcVars,
                  countVars, stateVars>>
  BY DEF AppendReset, nodeVars
<1>7. CASE Becomes(h, "demote")
  BY <1>3, <1>4, <1>5, <1>6, <1>7, RoleStepInv
<1>8. CASE Becomes(h, "update") \/ Returns(h)
  BY <1>3, <1>4, <1>5, <1>6, <1>8, RoleStepInv
<1> QED BY <1>7, <1>8 DEF AppendReset, AfterRoles

\* It was started, so the new follower has it.
LEMMA AppendDemoteInv ==
    ASSUME AppendInv, NEW h \in BagToSet(appends), AppendDemote(h)
    PROVE  AppendInv'
<1>1. h.to \in Server
  BY DEF AppendInv, AppendTypeOK, AppendHandler
<1>2. TypeOK /\ (running[h.to] => armed[h.to])
  BY DEF AppendInv, IInv, AppendDemote, DemoteOK
<1>3. /\ currentTerm' \in [Server -> Nat]
      /\ votedFor' \in [Server -> Server \cup {None}]
      /\ role' \in [Server -> Role]
      /\ armed' \in [Server -> BOOLEAN]
  BY <1>1, <1>2 DEF AppendDemote, timerVars, TypeOK, Role
<1>4. \A n \in Server :
        /\ role'[n] = "leader" =>
               role[n] = "leader" /\ currentTerm'[n] = currentTerm[n]
        /\ armed[n] => armed'[n]
        /\ role'[n] = "follower" => \/ role[n] = "follower"
                                    \/ running[n] => armed'[n]
  BY <1>1, <1>2 DEF AppendDemote, timerVars, TypeOK
<1>5. UNCHANGED <<running, log, delay, expired, threadVars, rpcVars,
                  countVars, stateVars>>
  BY DEF AppendDemote, timerVars
<1>6. Becomes(h, "update") \/ Returns(h)
  BY DEF AppendDemote, AfterRoles
<1> QED BY <1>3, <1>4, <1>5, <1>6, RoleStepInv

\* The log is cut, and the entries committed are applied as far as it reaches.
\* The entries applied are beyond last_applied, so they come after those applied
\* before; and they are the next ones of the log if none applied was cut.
LEMMA LogCut ==
    ASSUME AppendInv, NEW h \in BagToSet(appends), AppendUpdate(h)
    PROVE  /\ log' \in [Server -> Seq(Nat)]
           /\ entries' \in [Server -> Seq(Nat)]
           /\ applied' \in [Server -> Seq(Nat)]
           /\ lastApplied' \in [Server -> Nat]
           /\ commitIndex' \in [Server -> Nat]
           /\ applyRaised' \in [Server -> BOOLEAN]
           /\ cutApplied' \in [Server -> BOOLEAN]
           /\ \A n \in Server : Numbered(n)' /\ AppliedPrefix(n)'
<1> USE DEF AppendInv
<1> DEFINE n == h.to
           kept == Least(h.prevIndex, Len(log[n]))
           l == SubSeq(entries[n], 1, kept)
           p == lastApplied[n]
           c == NewCommit(h.commit, commitIndex[n], kept)
<1>1. n \in Server /\ h.prevIndex \in Nat /\ h.commit \in Nat
  BY DEF AppendTypeOK, AppendHandler
<1>2. /\ log \in [Server -> Seq(Nat)] /\ log[n] \in Seq(Nat)
      /\ entries \in [Server -> Seq(Nat)] /\ entries[n] \in Seq(Nat)
      /\ applied \in [Server -> Seq(Nat)] /\ applied[n] \in Seq(Nat)
      /\ lastApplied \in [Server -> Nat] /\ p \in Nat
      /\ commitIndex \in [Server -> Nat] /\ commitIndex[n] \in Nat
      /\ cutApplied \in [Server -> BOOLEAN]
  BY <1>1 DEF AppendTypeOK, IInv, TypeOK
<1>3. Numbered(n) /\ AppliedPrefix(n)
  BY <1>1
<1>4. kept \in Nat /\ kept <= Len(log[n]) /\ kept <= Len(entries[n])
  BY <1>1, <1>2, <1>3 DEF Least, Numbered
<1>5. c \in Nat /\ (c <= kept \/ c = commitIndex[n])
  BY <1>1, <1>2, <1>4 DEF NewCommit, Least
<1>6. /\ log' = [log EXCEPT ![n] = SubSeq(@, 1, kept)]
      /\ entries' = [entries EXCEPT ![n] = SubSeq(@, 1, kept)]
      /\ cutApplied' = [cutApplied EXCEPT ![n] = @ \/ kept < lastApplied[n]]
      /\ commitIndex' = [commitIndex EXCEPT ![n] = c]
      /\ ApplyUpTo(n, entries'[n], c)
      /\ UNCHANGED proposed
  BY DEF AppendUpdate
<1> HIDE DEF n, kept, c
<1>7. /\ l \in Seq(Nat) /\ Len(l) = kept
      /\ \A i \in 1..kept : l[i] = entries[n][i]
  BY <1>2, <1>4, CutAt
<1>8. /\ SubSeq(log[n], 1, kept) \in Seq(Nat)
      /\ Len(SubSeq(log[n], 1, kept)) = kept
  BY <1>2, <1>4, CutAt
<1>9. /\ entries' \in [Server -> Seq(Nat)] /\ entries'[n] = l
      /\ log' \in [Server -> Seq(Nat)]
      /\ log'[n] = SubSeq(log[n], 1, kept)
      /\ commitIndex' \in [Server -> Nat] /\ commitIndex'[n] = c
      /\ cutApplied' \in [Server -> BOOLEAN]
  BY <1>1, <1>2, <1>5, <1>6, <1>7, <1>8
<1> HIDE DEF l
<1>10. ApplyUpTo(n, l, c)
  BY <1>6, <1>9
<1>11. /\ cutApplied' = [cutApplied EXCEPT ![n] =
                           @ \/ Len(l) < lastApplied[n]]
       /\ c <= Len(l) \/ c = commitIndex[n]
  BY <1>5, <1>6, <1>7
<1>12. PICK last \in Nat : HasApplied(n, l, c, last)
  BY <1>1, <1>3, <1>5, <1>7, <1>10, <1>11, ApplyUpToApplies
<1> DEFINE a == applied[n]
           b == a \o SubSeq(l, p + 1, last)
<1>13. /\ p <= last
       /\ last = p \/ last <= kept
       /\ last <= lastApplied'[n]
       /\ applied' = [applied EXCEPT ![n] = b]
       /\ lastApplied' \in [Server -> Nat]
       /\ applyRaised' \in [Server -> BOOLEAN]
  BY <1>7, <1>12, Zenon DEF HasApplied
<1>14. /\ b \in Seq(Nat)
       /\ Len(b) = Len(a) + (last - p)
       /\ \A i \in 1..Len(a) : b[i] = a[i]
       /\ \A i \in (Len(a) + 1)..Len(b) : b[i] = l[p + (i - Len(a))]
  <2> HIDE DEF b, a, p
  <2>1. /\ a \in Seq(Nat) /\ p \in Nat /\ p <= last
        /\ b = a \o SubSeq(l, p + 1, last)
        /\ last = p \/ last <= Len(l)
    BY <1>2, <1>7, <1>13 DEF a, b, p
  <2>2. l \in Seq(Nat)
    BY <1>7
  <2>3. \E d \in Seq(Nat) :
           /\ d = a \o SubSeq(l, p + 1, last)
           /\ Len(d) = Len(a) + (last - p)
           /\ \A i \in 1..Len(a) : d[i] = a[i]
           /\ \A i \in (Len(a) + 1)..Len(d) : d[i] = l[p + (i - Len(a))]
    BY <2>1, <2>2, AppliedGrows
  <2> QED BY <2>1, <2>3, Zenon
<1> HIDE DEF b
<1>15. applied' \in [Server -> Seq(Nat)] /\ applied'[n] = b
  BY <1>1, <1>2, <1>13, <1>14
<1>16. Numbered(n)'
  <2>1. /\ Len(log'[n]) = kept /\ DOMAIN l = 1..kept
        /\ DOMAIN b = 1..Len(b) /\ DOMAIN a = 1..Len(a)
        /\ Len(a) \in Nat /\ Len(b) \in Nat
    BY <1>2, <1>7, <1>8, <1>9, <1>14
  <2>2. /\ \A i \in 1..kept : l[i] \in Nat
        /\ \A i, j \in 1..kept : i < j => l[i] < l[j]
        /\ \A i \in 1..kept : l[i] <= proposed[n]
        /\ \A i \in 1..Len(a), j \in 1..kept : p < j => a[i] < l[j]
    <3>1. \A i \in 1..kept : i \in DOMAIN entries[n]
      BY <1>2, <1>4
    <3>2. \A i \in 1..kept : l[i] \in Nat
      BY <1>7, <2>1, ElementOfSeq
    <3>3. \A i, j \in 1..kept : i < j => l[i] < l[j]
      BY <1>3, <1>7, <3>1 DEF Numbered
    <3>4. \A i \in 1..kept : l[i] <= proposed[n]
      BY <1>3, <1>7, <3>1 DEF Numbered
    <3>5. ASSUME NEW i \in 1..Len(a), NEW j \in 1..kept, p < j
          PROVE  a[i] < l[j]
      BY <1>3, <1>7, <2>1, <3>1, <3>5 DEF Numbered
    <3> QED BY <3>2, <3>3, <3>4, <3>5
  <2>3. /\ \A i \in 1..Len(a) : a[i] \in Nat /\ a[i] <= proposed[n]
        /\ \A i, j \in 1..Len(a) : i < j => a[i] < a[j]
    <3>1. \A i \in 1..Len(a) : a[i] \in Nat
      BY <1>2, <2>1, ElementOfSeq
    <3>2. \A i \in 1..Len(a) : a[i] <= proposed[n]
      BY <1>3, <2>1 DEF Numbered
    <3>3. \A i, j \in 1..Len(a) : i < j => a[i] < a[j]
      BY <1>3, <2>1 DEF Numbered
    <3> QED BY <3>1, <3>2, <3>3
  <2>4. ASSUME NEW i \in (Len(a) + 1)..Len(b)
        PROVE  /\ p + (i - Len(a)) \in 1..kept
               /\ p < p + (i - Len(a)) /\ p + (i - Len(a)) <= last
    <3>1. /\ p \in Nat /\ kept \in Nat /\ Len(a) \in Nat
          /\ p <= last /\ (last = p \/ last <= kept)
          /\ Len(b) = Len(a) + (last - p)
      BY <1>2, <1>4, <1>13, <1>14, <2>1
    <3> HIDE DEF p, a
    <3> QED BY <3>1
  <2>5. \A i \in 1..Len(b) :
          i \in 1..Len(a) \/ i \in (Len(a) + 1)..Len(b)
    BY <2>1
  <2>6. \A i \in 1..Len(b) : b[i] <= proposed[n]
    BY <1>14, <2>2, <2>3, <2>4, <2>5
  <2>7. \A i, j \in 1..Len(b) : i < j => b[i] < b[j]
    <3> SUFFICES ASSUME NEW i \in 1..Len(b), NEW j \in 1..Len(b), i < j
                 PROVE  b[i] < b[j]
      OBVIOUS
    <3>1. CASE j \in 1..Len(a)
      <4>1. i \in 1..Len(a)
        BY <2>1, <3>1
      <4> QED BY <1>14, <2>3, <3>1, <4>1
    <3>2. CASE i \in 1..Len(a) /\ j \in (Len(a) + 1)..Len(b)
      BY <1>14, <2>2, <2>4, <3>2
    <3>3. CASE /\ i \in (Len(a) + 1)..Len(b)
               /\ j \in (Len(a) + 1)..Len(b)
      <4> DEFINE x == p + (i - Len(a))
                 y == p + (j - Len(a))
      <4>1. x \in 1..kept /\ y \in 1..kept
        BY <2>4, <3>3
      <4>2. x < y
        BY <1>2, <2>1, <3>3
      <4>3. b[i] = l[x] /\ b[j] = l[y]
        BY <1>14, <3>3
      <4> HIDE DEF x, y
      <4> QED BY <2>2, <4>1, <4>2, <4>3
    <3> QED BY <2>5, <3>1, <3>2, <3>3, <2>1
  <2>8. \A i \in 1..Len(b), j \in 1..kept :
          lastApplied'[n] < j => b[i] < l[j]
    <3> SUFFICES ASSUME NEW i \in 1..Len(b), NEW j \in 1..kept,
                        lastApplied'[n] < j
                 PROVE  b[i] < l[j]
      OBVIOUS
    <3>1. last < j /\ p < j
      BY <1>1, <1>2, <1>4, <1>13
    <3>2. CASE i \in 1..Len(a)
      BY <1>14, <2>2, <3>1, <3>2
    <3>3. CASE i \in (Len(a) + 1)..Len(b)
      <4> DEFINE x == p + (i - Len(a))
      <4>1. x \in 1..kept /\ x <= last /\ b[i] = l[x]
        BY <1>14, <2>4, <3>3
      <4> HIDE DEF x
      <4>2. x < j
        BY <1>4, <3>1, <4>1
      <4> QED BY <2>2, <4>1, <4>2
    <3> QED BY <2>5, <3>2, <3>3
  <2>9. Len(l) = kept /\ proposed'[n] = proposed[n]
    BY <1>7, <1>6
  <2> QED BY <1>9, <1>15, <2>1, <2>2, <2>6, <2>7, <2>8, <2>9 DEF Numbered
<1>17. AppliedPrefix(n)'
  <2> SUFFICES ASSUME Undisturbed(n)'
               PROVE  /\ Len(b) = last
                      /\ c <= last
                      /\ last <= kept
                      /\ \A i \in 1..last : b[i] = l[i]
    BY <1>7, <1>9, <1>12, <1>15 DEF AppliedPrefix, HasApplied
  <2>1. Undisturbed(n) /\ p <= kept /\ c <= last /\ last <= kept
    <3>1. Undisturbed(n) /\ p <= Len(l) /\ c <= last
      BY <1>12, Zenon DEF HasApplied
    <3> QED BY <1>2, <1>4, <1>7, <1>13, <3>1
  <2>2. Len(a) = p /\ \A i \in 1..p : a[i] = entries[n][i]
    BY <1>3, <2>1 DEF AppliedPrefix
  <2>3. Len(b) = last
    BY <1>2, <1>13, <1>14, <2>2
  <2>4. ASSUME NEW i \in 1..last PROVE b[i] = l[i]
    <3>1. CASE i <= p
      <4>1. i \in 1..p /\ i \in 1..kept
        BY <1>2, <1>4, <2>1, <3>1
      <4> QED BY <1>7, <1>14, <2>2, <4>1
    <3>2. CASE i > p
      <4>1. i \in (Len(a) + 1)..Len(b) /\ p + (i - Len(a)) = i
        BY <1>2, <2>2, <2>3, <3>2
      <4> QED BY <1>14, <4>1
    <3> QED BY <1>2, <3>1, <3>2
  <2> QED BY <2>1, <2>3, <2>4
<1>18. ASSUME NEW m \in Server \ {n} PROVE Numbered(m)' /\ AppliedPrefix(m)'
  <2>1. /\ log'[m] = log[m] /\ entries'[m] = entries[m]
        /\ proposed'[m] = proposed[m] /\ applied'[m] = applied[m]
        /\ lastApplied'[m] = lastApplied[m]
        /\ commitIndex'[m] = commitIndex[m]
        /\ applyRaised'[m] = applyRaised[m]
        /\ cutApplied'[m] = cutApplied[m]
    BY <1>2, <1>6, <1>12, <1>13 DEF HasApplied
  <2> QED BY <2>1, NodeKept
<1> QED BY <1>9, <1>13, <1>15, <1>16, <1>17, <1>18

LEMMA AppendUpdateInv ==
    ASSUME AppendInv, NEW h \in BagToSet(appends), AppendUpdate(h)
    PROVE  AppendInv'
<1> USE DEF AppendInv
<1>1. /\ log' \in [Server -> Seq(Nat)]
      /\ entries' \in [Server -> Seq(Nat)]
      /\ applied' \in [Server -> Seq(Nat)]
      /\ lastApplied' \in [Server -> Nat]
      /\ commitIndex' \in [Server -> Nat]
      /\ applyRaised' \in [Server -> BOOLEAN]
      /\ cutApplied' \in [Server -> BOOLEAN]
      /\ \A n \in Server : Numbered(n)' /\ AppliedPrefix(n)'
  BY LogCut
<1>2. /\ Returns(h)
      /\ UNCHANGED <<proposed, currentTerm, votedFor, role, running,
                     timerVars, threadVars, rpcVars, countVars>>
  BY DEF AppendUpdate
<1>3. TypeOK'
  <2>1. TypeOK
    BY DEF IInv
  <2>2. /\ currentTerm' \in [Server -> Nat]
        /\ votedFor' \in [Server -> Server \cup {None}]
        /\ role' \in [Server -> Role]
        /\ armed' \in [Server -> BOOLEAN]
    BY <1>2, <2>1 DEF TypeOK, timerVars
  <2> QED BY <1>1, <1>2, <2>1, <2>2, TypeOKKept DEF timerVars
<1>4. IInv'
  BY <1>2, <1>3, IInvKept
<1>5. FollowerHasTimer'
  BY <1>2 DEF FollowerHasTimer, timerVars
<1>6. /\ IsABag(appends') /\ BagToSet(appends') \subseteq BagToSet(appends)
      /\ received' = received
  BY <1>2, OneLess DEF Returns, AppendTypeOK
<1>7. AppendTypeOK'
  BY <1>1, <1>2, <1>3, <1>6 DEF AppendTypeOK
<1>8. DemoteOK'
  BY <1>2, <1>6 DEF DemoteOK, timerVars
<1> QED BY <1>1, <1>4, <1>5, <1>7, <1>8

\* Every step keeps the invariant.
LEMMA AppendNextInv == AppendInv /\ [AppendNext]_allVars => AppendInv'
<1> SUFFICES ASSUME AppendInv, [AppendNext]_allVars PROVE AppendInv'
  OBVIOUS
<1>1. CASE UNCHANGED allVars
  <2>1. UNCHANGED vars /\ UNCHANGED appendVars
    BY <1>1 DEF allVars
  <2>2. IInv' /\ FollowerHasTimer'
    BY <2>1, NextIInv, NextFollowerHasTimer DEF AppendInv, IInv
  <2>3. AppendTypeOK'
    BY <2>1, <2>2
       DEF AppendInv, AppendTypeOK, IInv, appendVars, stateVars, historyVars
  <2>4. DemoteOK'
    BY <2>1 DEF AppendInv, DemoteOK, vars, nodeVars, timerVars, appendVars
  <2>5. \A n \in Server : Numbered(n)' /\ AppliedPrefix(n)'
    BY <2>1, NodesKept DEF vars, nodeVars, appendVars
  <2> QED BY <2>2, <2>3, <2>4, <2>5 DEF AppendInv
<1>2. CASE AppendStep
  <2>1. CASE \E h \in BagToSet(appends) :
                \/ AppendStepDown(h) \/ AppendReset(h) \/ AppendDemote(h)
                \/ AppendUpdate(h)
    BY <2>1, AppendStepDownInv, AppendResetInv, AppendDemoteInv,
       AppendUpdateInv
  <2>2. ASSUME NEW n \in Server, NEW term \in 1..MaxTerm,
               NEW prevIndex \in 0..MaxLog, NEW empty \in BOOLEAN,
               NEW commit \in Commits, NEW prevTerm \in PrevTerm(n),
               ReceiveAppend(n, term, prevIndex, prevTerm, empty, commit)
        PROVE  AppendInv'
    <3>1. term \in Nat /\ prevIndex \in Nat /\ commit \in Nat
      BY AppendAssumption
    <3>2. prevTerm \in Nat
      BY DEF PrevTerm, AppendInv, IInv, TypeOK
    <3> QED BY <2>2, <3>1, <3>2, ReceiveAppendInv
  <2> QED BY <1>2, <2>1, <2>2 DEF AppendStep
<1>3. CASE OtherStep /\ UNCHANGED appendVars
  BY <1>3, OtherStepInv
<1>4. ASSUME NEW n \in Server, ProposeEntry(n) PROVE AppendInv'
  BY <1>4, ProposeInv
<1>5. ASSUME NEW n \in Server, RestartAppend(n) PROVE AppendInv'
  BY <1>5, RestartInv
<1> QED BY <1>1, <1>2, <1>3, <1>4, <1>5 DEF AppendNext

-----------------------------------------------------------------------------
\* The invariant, and with it the five theorems below.
LEMMA AppendInvariant == AppendSpec => []AppendInv
<1> QED BY AppendInitInv, AppendNextInv, PTL DEF AppendSpec

\* Every state is well typed.
THEOREM AppendTypeCorrect == AppendSpec => []AppendTypeOK
<1>1. AppendInv => AppendTypeOK
  BY DEF AppendInv
<1> QED BY AppendInvariant, <1>1, PTL

\* A node applies no entry twice, and entries in the order of their proposals:
\* whatever the requests truncate, however handlers, elections and restarts
\* interleave, and also when an apply raises.
THEOREM EntriesAppliedOnce == AppendSpec => []AppliedOnceInOrder
<1>1. AppendInv => AppliedOnceInOrder
  BY DEF AppendInv, Numbered, AppliedOnceInOrder
<1> QED BY AppendInvariant, <1>1, PTL

\* As long as no apply raises and no applied entry is cut, a node has applied
\* the beginning of its log, up to the commit index at least.
THEOREM CommittedEntriesApplied == AppendSpec => []AppliedToCommitIndex
<1>1. ASSUME AppendInv PROVE AppliedToCommitIndex
  <2> SUFFICES ASSUME NEW n \in Server, ~applyRaised[n], ~cutApplied[n]
               PROVE  /\ Len(applied[n]) \in commitIndex[n]..Len(entries[n])
                      /\ \A i \in DOMAIN applied[n] :
                            applied[n][i] = entries[n][i]
    BY DEF AppliedToCommitIndex
  <2>1. /\ applied[n] \in Seq(Nat) /\ entries[n] \in Seq(Nat)
        /\ commitIndex[n] \in Nat
    BY <1>1 DEF AppendInv, AppendTypeOK
  <2>2. AppliedPrefix(n) /\ Undisturbed(n)
    BY <1>1 DEF AppendInv, Undisturbed
  <2>3. /\ Len(applied[n]) = lastApplied[n]
        /\ commitIndex[n] <= lastApplied[n]
        /\ lastApplied[n] <= Len(entries[n])
        /\ \A i \in 1..lastApplied[n] : applied[n][i] = entries[n][i]
    BY <2>2, Zenon DEF AppliedPrefix
  <2>4. /\ DOMAIN applied[n] = 1..Len(applied[n])
        /\ Len(applied[n]) \in Nat /\ Len(entries[n]) \in Nat
    BY <2>1
  <2> QED BY <2>1, <2>3, <2>4
<1> QED BY AppendInvariant, <1>1, PTL

\* The handler acts on a stale copy of the role and the term, and still no node
\* leads a term without the votes of a majority.
THEOREM LeadersKeepQuorums == AppendSpec => []LeaderHasQuorum
<1>1. AppendInv => LeaderHasQuorum
  BY DEF AppendInv, IInv
<1> QED BY AppendInvariant, <1>1, PTL

\* Nor does a node become a follower without a timer, although the handler sets
\* the role and starts the timer in two steps.
THEOREM FollowersKeepTimers == AppendSpec => []FollowerHasTimer
<1>1. AppendInv => FollowerHasTimer
  BY DEF AppendInv
<1> QED BY AppendInvariant, <1>1, PTL
=============================================================================

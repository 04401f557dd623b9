--------------------------- MODULE VaultStoreProofs ---------------------------
(***************************************************************************)
(* Proofs about VaultStore, for every set of nodes, objects, payloads and  *)
(* clients, every replication factor and every number of faults: its types,*)
(* RowsBacked, RegisteredHasReplica and, in the last part, LatestStored.   *)
(*                                                                         *)
(* None of these is inductive.  A row is backed because the Put it         *)
(* records was answered "done" after the node created the file, so the     *)
(* proof follows the outstanding Puts (PutsBacked); a registered object    *)
(* has a row because the client that registers it recorded one before, so  *)
(* the proof follows each client's acks (AcksRecorded).                    *)
(***************************************************************************)
EXTENDS VaultStore, TLAPS

\* What p's locals hold, by where p is in the code.
LocalsOK(p) ==
    /\ pc[p] \in PutState => data[p] \in Version
    /\ pc[p] \in {"repair_pick", "repair_send", "repair_await"} =>
           data[p] \in File
    /\ pc[p] \in PutState \cup {"read", "repair_read", "repair_pick",
                                "repair_send", "repair_await"} =>
           obj[p] \in Object
    /\ pc[p] \in {"await", "repair_send", "repair_await"} => target[p] \in Node
    /\ rpc[p] # "none" => pc[p] \in {"await", "repair_await", "dead"}
    /\ acks[p] # {} => pc[p] \in {"replicate", "await", "dead"}

\* A Put that a node accepted has created the file.
PutBacked(p) ==
    rpc[p] \in {"writing", "done"} =>
        /\ target[p] \in Node
        /\ obj[p] \in Object
        /\ data[p] \in File
        /\ disk[target[p]][obj[p]] # NoFile

\* The nodes a put_object counted as successes are recorded.
AcksRecorded(p) == \A n \in acks[p] : <<obj[p], n>> \in replicas

ClientOK(p) == LocalsOK(p) /\ PutBacked(p) /\ AcksRecorded(p)

\* RegisteredHasReplica without its set of nodes, as the proof uses it.
RowsExist ==
    \A o \in Object :
        objects[o] # None => \E n \in Node : <<o, n>> \in replicas

IInv ==
    /\ TypeOK
    /\ \A p \in Client : ClientOK(p)
    /\ RowsBacked
    /\ RowsExist

-----------------------------------------------------------------------------
\* What the call of a Put does, on a node that is up or down: it removes no
\* file, and if it is accepted the file exists.
PutCallPost(p, n, o) ==
    /\ NodeTypeOK'
    /\ \A q \in Client \ {p} : rpc'[q] = rpc[q]
    /\ rpc'[p] \in {"writing", "error"}
    /\ \A m \in Node, x \in Object :
          disk[m][x] # NoFile => disk'[m][x] # NoFile
    /\ rpc'[p] = "writing" => disk'[n][o] # NoFile

\* A Put call has the effect PutCallPost on well-typed nodes.
LEMMA PutCallLemma ==
    ASSUME NodeTypeOK, NEW p \in Client, NEW n \in Node, NEW o \in Object,
           PutCall(p, n, o)
    PROVE  PutCallPost(p, n, o)
<1> USE ContentAssumption DEF PutCall, PutCallPost, NodeTypeOK, Content, File,
                              RpcState
<1>1. CASE up[n]
  <2>1. /\ disk' = [disk EXCEPT ![n][o] = Torn]
        /\ rpc' = [rpc EXCEPT ![p] = "writing"]
        /\ up' = up
    BY <1>1
  <2>2. NodeTypeOK'
    BY <2>1
  <2>3. /\ \A q \in Client \ {p} : rpc'[q] = rpc[q]
        /\ rpc'[p] = "writing"
    BY <2>1
  <2>4. /\ \A m \in Node, x \in Object :
              disk[m][x] # NoFile => disk'[m][x] # NoFile
        /\ disk'[n][o] # NoFile
    BY <2>1
  <2> QED BY <2>2, <2>3, <2>4
<1>2. CASE ~up[n]
  BY <1>2
<1> QED BY <1>1, <1>2

\* A call starts on an idle client.
LEMMA StartLemma ==
    ASSUME NEW p \in Client, overlapped \in BOOLEAN, Start(p)
    PROVE  pc[p] = "idle" /\ overlapped' \in BOOLEAN
  BY DEF Start

\* The initial state satisfies the inductive invariant.
LEMMA InitIInv == Init => IInv
<1> SUFFICES ASSUME Init PROVE IInv
  OBVIOUS
<1> USE ContentAssumption, StoreAssumption
    DEF Init, NodeInit, RegistryInit, Content, File
<1>1. NodeTypeOK /\ RegistryTypeOK
  BY DEF NodeTypeOK, RegistryTypeOK, RpcState
<1>2. ClientTypeOK
  BY DEF ClientTypeOK, Pc, RepairQueue
<1>3. HistoryTypeOK
  <2>1. latest \in [Object -> Version \cup {None}] /\ faults \in 0..MaxFaults
    OBVIOUS
  <2>2. issued \in SUBSET (Object \X Version) /\ overlapped \in BOOLEAN
    OBVIOUS
  <2> QED BY <2>1, <2>2 DEF HistoryTypeOK
<1>4. ASSUME NEW p \in Client PROVE ClientOK(p)
  BY <1>4 DEF ClientOK, LocalsOK, PutBacked, AcksRecorded, PutState
<1>5. RowsBacked /\ RowsExist
  BY DEF RowsBacked, RowsExist
<1> QED BY <1>1, <1>2, <1>3, <1>4, <1>5 DEF IInv, TypeOK

\* Every step of put_object, get_object, the repair pass, the nodes and the
\* faults preserves it.
LEMMA NextIInv == IInv /\ [Next]_vars => IInv'
<1> SUFFICES ASSUME IInv, [Next]_vars PROVE IInv'
  OBVIOUS
<1> USE ContentAssumption
<1> USE DEF IInv, TypeOK, NodeTypeOK, RegistryTypeOK, ClientTypeOK,
        HistoryTypeOK, Pc, PutState, RepairState, RpcState, Content, File,
        nodeVars, registryVars, clientVars, historyVars
<1>1. ASSUME NEW p \in Client, NEW o \in Object, NEW v \in Version,
             PutStart(p, o, v)
      PROVE  IInv'
  <2>0. pc[p] = "idle" /\ overlapped' \in BOOLEAN
    BY <1>1, StartLemma DEF PutStart
  <2> USE <1>1, <2>0 DEF PutStart
  <2>1. TypeOK'
    <3>1. PICK alive \in CheckAll :
            \/ alive = {} /\ Return(p, "idle")
            \/ /\ todo' = [todo EXCEPT ![p] = alive]
               /\ data' = [data EXCEPT ![p] = v]
               /\ UNCHANGED acks
               /\ Goto(p, "auction")
      OBVIOUS
    <3>2. alive \in SUBSET Node
      BY DEF CheckAll
    <3>3. ClientTypeOK'
      <4>1. CASE alive = {} /\ Return(p, "idle")
        BY <4>1 DEF Return, Goto
      <4>2. CASE /\ todo' = [todo EXCEPT ![p] = alive]
                 /\ data' = [data EXCEPT ![p] = v]
                 /\ UNCHANGED acks
                 /\ Goto(p, "auction")
        BY <3>2, <4>2 DEF Goto
      <4> QED BY <3>1, <4>1, <4>2
    <3>4. HistoryTypeOK'
      OBVIOUS
    <3> QED BY <3>3, <3>4
  <2>2. ASSUME NEW q \in Client PROVE ClientOK(q)'
    BY DEF Return, Goto, ClientOK, LocalsOK, PutBacked, AcksRecorded
  <2> QED BY <2>1, <2>2 DEF RowsBacked, RowsExist
<1>2. ASSUME NEW p \in Client, PutAuction(p) PROVE IInv'
  <2> USE <1>2 DEF PutAuction
  <2>1. TypeOK'
    <3>1. PICK w \in SUBSET todo[p] :
            \/ w = {} /\ Return(p, "idle")
            \/ /\ todo' = [todo EXCEPT ![p] = w]
               /\ UNCHANGED <<data, acks>>
               /\ Goto(p, "replicate")
      BY DEF Winners, Bidders
    <3>2. w \in SUBSET Node
      OBVIOUS
    <3> QED BY <3>1, <3>2 DEF Return, Goto
  <2>2. ASSUME NEW q \in Client PROVE ClientOK(q)'
    BY DEF Return, Goto, ClientOK, LocalsOK, PutBacked, AcksRecorded
  <2> QED BY <2>1, <2>2 DEF RowsBacked, RowsExist
<1>3. ASSUME NEW p \in Client, PutSend(p) PROVE IInv'
  <2>1. PICK n \in Node :
          /\ PutCall(p, n, obj[p])
          /\ target' = [target EXCEPT ![p] = n]
          /\ todo' = [todo EXCEPT ![p] = @ \ {n}]
    BY <1>3 DEF PutSend
  <2>2. obj[p] \in Object /\ data[p] \in Version
    BY <1>3 DEF PutSend, ClientOK, LocalsOK
  <2>3. PutCallPost(p, n, obj[p])
    BY <2>1, <2>2, PutCallLemma
  <2>4. TypeOK'
    BY <1>3, <2>1, <2>3 DEF PutSend, Goto, PutCallPost
  <2>5. ASSUME NEW q \in Client PROVE ClientOK(q)'
    BY <1>3, <2>1, <2>2, <2>3
       DEF PutSend, Goto, PutCallPost, ClientOK, LocalsOK, PutBacked,
           AcksRecorded
  <2>6. RowsBacked' /\ RowsExist'
    BY <1>3, <2>3 DEF PutSend, PutCallPost, RowsBacked, RowsExist
  <2> QED BY <2>4, <2>5, <2>6
<1>4. ASSUME NEW p \in Client, PutAcked(p) PROVE IInv'
  <2> USE <1>4 DEF PutAcked, RecordReplica, Goto
  <2>1. TypeOK'
    BY DEF ClientOK, LocalsOK, PutBacked
  <2>2. ASSUME NEW q \in Client PROVE ClientOK(q)'
    BY DEF ClientOK, LocalsOK, PutBacked, AcksRecorded
  <2>3. RowsBacked'
    BY DEF RowsBacked, ClientOK, LocalsOK, PutBacked
  <2>4. RowsExist'
    BY DEF RowsExist, ClientOK, LocalsOK, AcksRecorded
  <2> QED BY <2>1, <2>2, <2>3, <2>4
<1>5. ASSUME NEW p \in Client, PutFailed(p) PROVE IInv'
  <2> USE <1>5 DEF PutFailed, Goto
  <2>1. TypeOK'
    BY DEF ClientOK, LocalsOK, PutBacked
  <2>2. ASSUME NEW q \in Client PROVE ClientOK(q)'
    BY DEF ClientOK, LocalsOK, PutBacked, AcksRecorded
  <2>3. RowsBacked'
    BY DEF RowsBacked, ClientOK, LocalsOK, PutBacked
  <2>4. RowsExist'
    BY DEF RowsExist, ClientOK, LocalsOK, AcksRecorded
  <2> QED BY <2>1, <2>2, <2>3, <2>4
<1>6. ASSUME NEW p \in Client, PutFinish(p) PROVE IInv'
  <2> USE <1>6 DEF PutFinish, Register, Return, Goto
  <2>1. TypeOK'
    BY DEF ClientOK, LocalsOK, PutBacked
  <2>2. ASSUME NEW q \in Client PROVE ClientOK(q)'
    BY DEF ClientOK, LocalsOK, PutBacked, AcksRecorded
  <2>3. RowsBacked'
    BY DEF RowsBacked, ClientOK, LocalsOK, PutBacked
  <2>4. RowsExist'
    BY DEF RowsExist, ClientOK, LocalsOK, AcksRecorded
  <2> QED BY <2>1, <2>2, <2>3, <2>4
<1>7. ASSUME NEW p \in Client, NEW o \in Object, GetStart(p, o) PROVE IInv'
  <2>0. pc[p] = "idle" /\ overlapped' \in BOOLEAN
    BY <1>7, StartLemma DEF GetStart
  <2> USE <1>7, <2>0, StoreAssumption DEF GetStart, GetReplicaNodes, Goto
  <2>1. TypeOK'
    BY DEF ClientOK, LocalsOK
  <2>2. ASSUME NEW q \in Client PROVE ClientOK(q)'
    BY DEF ClientOK, LocalsOK, PutBacked, AcksRecorded
  <2> QED BY <2>1, <2>2 DEF RowsBacked, RowsExist
<1>8. ASSUME NEW p \in Client, GetAnswered(p) PROVE IInv'
  <2> USE <1>8 DEF GetAnswered, Readable, Goto
  <2>1. TypeOK'
    BY DEF ClientOK, LocalsOK
  <2>2. ASSUME NEW q \in Client PROVE ClientOK(q)'
    BY DEF ClientOK, LocalsOK, PutBacked, AcksRecorded
  <2> QED BY <2>1, <2>2 DEF RowsBacked, RowsExist
<1>9. ASSUME NEW p \in Client, GetFailed(p) PROVE IInv'
  <2> USE <1>9, StoreAssumption DEF GetFailed, Goto
  <2>1. TypeOK'
    <3>1. todo' \in [Client -> SUBSET Node]
      OBVIOUS
    <3>2. /\ pc' \in [Client -> Pc]
          /\ result' \in [Client -> File \cup {NotFound, None}]
      OBVIOUS
    <3> QED BY <3>1, <3>2
  <2>2. ASSUME NEW q \in Client PROVE ClientOK(q)'
    BY DEF ClientOK, LocalsOK, PutBacked, AcksRecorded
  <2> QED BY <2>1, <2>2 DEF RowsBacked, RowsExist
<1>10. ASSUME NEW p \in Client, RepairStart(p) PROVE IInv'
  <2>0. pc[p] = "idle" /\ overlapped' \in BOOLEAN
    BY <1>10, StartLemma DEF RepairStart
  <2> USE <1>10, <2>0, StoreAssumption DEF RepairStart, CheckAll, Goto
  <2>1. TypeOK'
    BY DEF ClientOK, LocalsOK
  <2>2. ASSUME NEW q \in Client PROVE ClientOK(q)'
    BY DEF ClientOK, LocalsOK, PutBacked, AcksRecorded
  <2> QED BY <2>1, <2>2 DEF RowsBacked, RowsExist
<1>25. ASSUME NEW p \in Client, RepairList(p) PROVE IInv'
  <2> USE <1>25 DEF RepairList, RepairQueue, ListAll, Goto, Return
  <2>1. TypeOK'
    <3>1. queue' \in [Client -> RepairQueue]
      OBVIOUS
    <3>2. pc' \in [Client -> Pc] /\ data' \in [Client -> File \cup {None}]
      OBVIOUS
    <3>3. /\ todo' \in [Client -> SUBSET Node]
          /\ acks' \in [Client -> SUBSET Node]
      OBVIOUS
    <3> HIDE DEF RepairQueue
    <3> QED BY <3>1, <3>2, <3>3
  <2>2. ASSUME NEW q \in Client PROVE ClientOK(q)'
    BY DEF ClientOK, LocalsOK, PutBacked, AcksRecorded
  <2> QED BY <2>1, <2>2 DEF RowsBacked, RowsExist
<1>11. ASSUME NEW p \in Client, RepairScan(p) PROVE IInv'
  <2> USE <1>11 DEF RepairScan, RepairQueue, Goto, Return
  <2>1. TypeOK'
    <3>1. PICK o \in queue[p].listed :
            queue' = [queue EXCEPT ![p] =
              [listed |-> @.listed \ {o},
               under |-> @.under \cup
                           {x \in {o} : UnderReplicated(x, todo[p])}]]
      OBVIOUS
    <3>2. queue' \in [Client -> RepairQueue]
      BY <3>1
    <3>3. pc' \in [Client -> Pc] /\ data' \in [Client -> File \cup {None}]
      OBVIOUS
    <3>4. /\ todo' \in [Client -> SUBSET Node]
          /\ acks' \in [Client -> SUBSET Node]
      OBVIOUS
    <3> HIDE DEF RepairQueue
    <3> QED BY <3>2, <3>3, <3>4
  <2>2. ASSUME NEW q \in Client PROVE ClientOK(q)'
    BY DEF ClientOK, LocalsOK, PutBacked, AcksRecorded
  <2> QED BY <2>1, <2>2 DEF RowsBacked, RowsExist
<1>12. ASSUME NEW p \in Client, RepairNext(p) PROVE IInv'
  <2> USE <1>12 DEF RepairNext, RepairQueue, GetReplicaNodes, Goto
  <2>1. TypeOK'
    <3>1. PICK o \in Object :
            /\ obj' = [obj EXCEPT ![p] = o]
            /\ queue' = [queue EXCEPT ![p] = [listed |-> @.listed,
                                              under |-> @.under \ {o}]]
            /\ todo' = [todo EXCEPT ![p] = GetReplicaNodes(o)]
      OBVIOUS
    <3>2. queue' \in [Client -> RepairQueue]
      BY <3>1
    <3>3. /\ obj' \in [Client -> Object \cup {None}]
          /\ todo' \in [Client -> SUBSET Node]
      BY <3>1
    <3>4. pc' \in [Client -> Pc]
      OBVIOUS
    <3> HIDE DEF RepairQueue
    <3> QED BY <3>2, <3>3, <3>4
  <2>2. ASSUME NEW q \in Client PROVE ClientOK(q)'
    BY DEF ClientOK, LocalsOK, PutBacked, AcksRecorded
  <2> QED BY <2>1, <2>2 DEF RowsBacked, RowsExist
<1>13. ASSUME NEW p \in Client, RepairDone(p) PROVE IInv'
  <2> USE <1>13 DEF RepairDone, Goto, Return
  <2>1. TypeOK'
    BY DEF ClientOK, LocalsOK
  <2>2. ASSUME NEW q \in Client PROVE ClientOK(q)'
    BY DEF ClientOK, LocalsOK, PutBacked, AcksRecorded
  <2> QED BY <2>1, <2>2 DEF RowsBacked, RowsExist
<1>14. ASSUME NEW p \in Client, RepairRead(p) PROVE IInv'
  <2> USE <1>14 DEF RepairRead, Readable, Goto
  <2>1. TypeOK'
    BY DEF ClientOK, LocalsOK
  <2>2. ASSUME NEW q \in Client PROVE ClientOK(q)'
    BY DEF ClientOK, LocalsOK, PutBacked, AcksRecorded
  <2> QED BY <2>1, <2>2 DEF RowsBacked, RowsExist
<1>15. ASSUME NEW p \in Client, RepairReadFailed(p) PROVE IInv'
  <2> USE <1>15 DEF RepairReadFailed, Goto
  <2>1. TypeOK'
    BY DEF ClientOK, LocalsOK
  <2>2. ASSUME NEW q \in Client PROVE ClientOK(q)'
    BY DEF ClientOK, LocalsOK, PutBacked, AcksRecorded
  <2> QED BY <2>1, <2>2 DEF RowsBacked, RowsExist
<1>16. ASSUME NEW p \in Client, RepairPick(p) PROVE IInv'
  <2> USE <1>16 DEF RepairPick
  <2>1. TypeOK'
    <3>1. CASE UNCHANGED target /\ Return(p, "next")
      BY <3>1 DEF Return, Goto
    <3>2. CASE \E n \in Node : /\ target' = [target EXCEPT ![p] = n]
                              /\ UNCHANGED <<data, todo, acks>>
                              /\ Goto(p, "repair_send")
      BY <3>2 DEF Goto
    <3> QED BY <3>1, <3>2 DEF CheckAll
  <2>2. ASSUME NEW q \in Client PROVE ClientOK(q)'
    BY DEF Return, Goto, CheckAll, ClientOK, LocalsOK, PutBacked,
           AcksRecorded
  <2> QED BY <2>1, <2>2 DEF RowsBacked, RowsExist
<1>17. ASSUME NEW p \in Client, RepairSend(p) PROVE IInv'
  <2>1. PutCall(p, target[p], obj[p])
    BY <1>17 DEF RepairSend
  <2>2. target[p] \in Node /\ obj[p] \in Object /\ data[p] \in File
    BY <1>17 DEF RepairSend, ClientOK, LocalsOK
  <2>3. PutCallPost(p, target[p], obj[p])
    BY <2>1, <2>2, PutCallLemma
  <2>4. TypeOK'
    BY <1>17, <2>3 DEF RepairSend, Goto, PutCallPost
  <2>5. ASSUME NEW q \in Client PROVE ClientOK(q)'
    BY <1>17, <2>2, <2>3
       DEF RepairSend, Goto, PutCallPost, ClientOK, LocalsOK, PutBacked,
           AcksRecorded
  <2>6. RowsBacked' /\ RowsExist'
    BY <1>17, <2>3 DEF RepairSend, PutCallPost, RowsBacked, RowsExist
  <2> QED BY <2>4, <2>5, <2>6
<1>18. ASSUME NEW p \in Client, RepairAcked(p) PROVE IInv'
  <2> USE <1>18 DEF RepairAcked, RecordReplica, Return, Goto
  <2>1. TypeOK'
    BY DEF ClientOK, LocalsOK, PutBacked
  <2>2. ASSUME NEW q \in Client PROVE ClientOK(q)'
    BY DEF ClientOK, LocalsOK, PutBacked, AcksRecorded
  <2>3. RowsBacked'
    BY DEF RowsBacked, ClientOK, LocalsOK, PutBacked
  <2>4. RowsExist'
    BY DEF RowsExist, ClientOK, LocalsOK, AcksRecorded
  <2> QED BY <2>1, <2>2, <2>3, <2>4
<1>19. ASSUME NEW p \in Client, RepairFailed(p) PROVE IInv'
  <2> USE <1>19 DEF RepairFailed, Return, Goto
  <2>1. TypeOK'
    BY DEF ClientOK, LocalsOK, PutBacked
  <2>2. ASSUME NEW q \in Client PROVE ClientOK(q)'
    BY DEF ClientOK, LocalsOK, PutBacked, AcksRecorded
  <2>3. RowsBacked'
    BY DEF RowsBacked, ClientOK, LocalsOK, PutBacked
  <2>4. RowsExist'
    BY DEF RowsExist, ClientOK, LocalsOK, AcksRecorded
  <2> QED BY <2>1, <2>2, <2>3, <2>4
<1>20. ASSUME NEW p \in Client, Serve(p) PROVE IInv'
  <2> USE <1>20 DEF Serve, PutWrite, AfterWrite
  <2>1. TypeOK'
    BY DEF ClientOK, LocalsOK, PutBacked
  <2>2. ASSUME NEW q \in Client PROVE ClientOK(q)'
    BY DEF ClientOK, LocalsOK, PutBacked, AcksRecorded
  <2>3. RowsBacked'
    BY DEF RowsBacked, ClientOK, LocalsOK, PutBacked
  <2>4. RowsExist'
    BY DEF RowsExist, ClientOK, LocalsOK, AcksRecorded
  <2> QED BY <2>1, <2>2, <2>3, <2>4
<1>21. ASSUME NEW p \in Client, Kill(p) PROVE IInv'
  <2> USE <1>21, StoreAssumption DEF Kill, Goto
  <2>1. TypeOK'
    BY DEF ClientOK, LocalsOK
  <2>2. ASSUME NEW q \in Client PROVE ClientOK(q)'
    BY DEF ClientOK, LocalsOK, PutBacked, AcksRecorded
  <2> QED BY <2>1, <2>2 DEF RowsBacked, RowsExist
<1>22. ASSUME NEW n \in Node, Crash(n) PROVE IInv'
  <2> USE <1>22, StoreAssumption DEF Crash, NodeCrash
  <2>1. TypeOK'
    BY DEF ClientOK, LocalsOK, PutBacked
  <2>2. ASSUME NEW q \in Client PROVE ClientOK(q)'
    BY DEF ClientOK, LocalsOK, PutBacked, AcksRecorded
  <2>3. RowsBacked'
    BY DEF RowsBacked, ClientOK, LocalsOK, PutBacked
  <2>4. RowsExist'
    BY DEF RowsExist, ClientOK, LocalsOK, AcksRecorded
  <2> QED BY <2>1, <2>2, <2>3, <2>4
<1>23. ASSUME NEW n \in Node, Restart(n) PROVE IInv'
  <2> USE <1>23 DEF Restart, NodeRestart
  <2>1. TypeOK'
    BY DEF ClientOK, LocalsOK, PutBacked
  <2>2. ASSUME NEW q \in Client PROVE ClientOK(q)'
    BY DEF ClientOK, LocalsOK, PutBacked, AcksRecorded
  <2>3. RowsBacked'
    BY DEF RowsBacked, ClientOK, LocalsOK, PutBacked
  <2>4. RowsExist'
    BY DEF RowsExist, ClientOK, LocalsOK, AcksRecorded
  <2> QED BY <2>1, <2>2, <2>3, <2>4
<1>24. CASE UNCHANGED vars
  BY <1>24
     DEF vars, ClientOK, LocalsOK, PutBacked, AcksRecorded, RowsBacked,
         RowsExist
<1> QED
  BY <1>1, <1>2, <1>3, <1>4, <1>5, <1>6, <1>7, <1>8, <1>9, <1>10,
     <1>11, <1>12, <1>13, <1>14, <1>15, <1>16, <1>17, <1>18, <1>19, <1>20,
     <1>21, <1>22, <1>23, <1>24, <1>25
     DEF Next, Continue

\* The inductive invariant holds in every reachable state.
THEOREM SpecIInv == Spec => []IInv
<1>1. IInv /\ [Next]_vars => IInv'
  BY NextIInv
<1> QED BY InitIInv, <1>1, PTL DEF Spec

-----------------------------------------------------------------------------
\* Every state is well typed.
THEOREM TypeCorrect == Spec => []TypeOK
<1>1. IInv => TypeOK
  BY DEF IInv
<1> QED BY SpecIInv, <1>1, PTL

\* No replica row (record_replica) names a node without a file of the object,
\* whatever puts, repairs, crashes and kills interleave.
THEOREM RowsAreBacked == Spec => []RowsBacked
<1>1. IInv => RowsBacked
  BY DEF IInv
<1> QED BY SpecIInv, <1>1, PTL

\* No object is listed (list_all) without a replica row for get_object to try.
THEOREM RegisteredObjectsHaveReplicas == Spec => []RegisteredHasReplica
<1>1. IInv => RegisteredHasReplica
  <2>1. ASSUME IInv, NEW o \in ListAll PROVE GetReplicaNodes(o) # {}
    BY <2>1 DEF IInv, RowsExist, ListAll, Lookup, GetReplicaNodes
  <2> QED BY <2>1 DEF RegisteredHasReplica
<1> QED BY SpecIInv, <1>1, PTL
-----------------------------------------------------------------------------
(***************************************************************************)
(* LatestStored: while no two calls overlap, the payload of an object's    *)
(* last put, once the put has succeeded, stays on some node that a row     *)
(* names.  Nodes may crash and the caller be killed between any two steps. *)
(*                                                                         *)
(* It is not inductive: a put that has not registered yet must already     *)
(* have its payload on the nodes it counted (acks), and a repair must not  *)
(* truncate a replica that a row names.  CallerS says both of the one      *)
(* client that is in a call.  The rest is a fact of every schedule: a      *)
(* registered payload was put (IssuedOK), so the payload of a new put      *)
(* differs from it.                                                        *)
(***************************************************************************)

\* What is registered, or about to be, was put.
IssuedOK ==
    /\ \A o \in Object : objects[o] # None => <<o, objects[o]>> \in issued
    /\ \A p \in Client :
          pc[p] \in PutState => <<obj[p], data[p]>> \in issued

OneCaller ==
    \A p, q \in Client : pc[p] # "idle" /\ pc[q] # "idle" => p = q

\* The client in a call: a put replaces the registered payload and has its own
\* on the nodes it counted; a Put under way has left a torn file; a repair
\* writes to a node without a row.
CallerS(p) ==
    /\ pc[p] \in PutState =>
          /\ latest[obj[p]] = data[p]
          /\ objects[obj[p]] # data[p]
          /\ \A n \in acks[p] : disk[n][obj[p]] = data[p] /\ n \notin todo[p]
    /\ pc[p] = "await" => target[p] \notin acks[p] \cup todo[p]
    /\ pc[p] \in {"repair_send", "repair_await"} =>
          <<obj[p], target[p]>> \notin replicas
    /\ rpc[p] = "writing" => disk[target[p]][obj[p]] = Torn
    /\ rpc[p] = "done" /\ pc[p] = "await" => disk[target[p]][obj[p]] = data[p]

\* LatestStored of one object, without its sets of rows.
StoredOn(o) ==
    objects[o] # None /\ latest[o] = objects[o] =>
        \E n \in Node : <<o, n>> \in replicas /\ disk[n][o] = objects[o]

Sequential ==
    /\ OneCaller
    /\ \A p \in Client : CallerS(p)
    /\ \A o \in Object : StoredOn(o)

SInv == IssuedOK /\ (~overlapped => Sequential)

-----------------------------------------------------------------------------
\* The initial state satisfies the invariant.
LEMMA InitSInv == Init => SInv
  BY ContentAssumption
     DEF Init, NodeInit, RegistryInit, SInv, IssuedOK, Sequential, OneCaller,
         CallerS, StoredOn, PutState

\* A step that puts and registers nothing, and starts no put.
StartsNoPut ==
    /\ UNCHANGED <<objects, issued>>
    /\ \A q \in Client :
          pc'[q] \in PutState =>
              pc[q] \in PutState /\ obj'[q] = obj[q] /\ data'[q] = data[q]

\* Every step keeps IssuedOK.
LEMMA NextIssuedOK == ASSUME IInv, IssuedOK, [Next]_vars PROVE IssuedOK'
<1> USE ContentAssumption
<1> USE DEF IInv, TypeOK, RegistryTypeOK, ClientTypeOK, PutState, Goto, Return,
        registryVars, clientVars, historyVars
<1>0. StartsNoPut => IssuedOK'
  BY DEF StartsNoPut, IssuedOK
<1>1. ASSUME NEW p \in Client, NEW o \in Object, NEW v \in Version,
             PutStart(p, o, v)
      PROVE  IssuedOK'
  <2>1. /\ UNCHANGED objects /\ issued' = issued \cup {<<o, v>>}
        /\ obj' = [obj EXCEPT ![p] = o]
        /\ \A q \in Client : q # p => pc'[q] = pc[q] /\ data'[q] = data[q]
        /\ pc'[p] = "idle" \/ data'[p] = v
    BY <1>1 DEF PutStart
  <2> QED BY <2>1 DEF IssuedOK
<1>2. ASSUME NEW p \in Client, PutFinish(p) PROVE IssuedOK'
  <2>1. /\ UNCHANGED <<issued, obj>>
        /\ pc' = [pc EXCEPT ![p] = "idle"]
        /\ data' = [data EXCEPT ![p] = None]
        /\ objects' = objects \/ objects' = [objects EXCEPT ![obj[p]] = data[p]]
    BY <1>2 DEF PutFinish, Register
  <2>2. <<obj[p], data[p]>> \in issued
    BY <1>2 DEF PutFinish, IssuedOK
  <2> QED BY <2>1, <2>2 DEF IssuedOK
<1>3. ASSUME NEW p \in Client, (\E o \in Object : GetStart(p, o)) \/ RepairStart(p)
      PROVE  StartsNoPut
  BY <1>3 DEF GetStart, RepairStart, Start, StartsNoPut
<1>4. ASSUME NEW p \in Client, Serve(p) \/ Kill(p) PROVE StartsNoPut
  BY <1>4 DEF Serve, Kill, StartsNoPut
<1>5. ASSUME NEW p \in Client,
             \/ PutAuction(p) \/ PutSend(p) \/ PutAcked(p) \/ PutFailed(p)
             \/ GetAnswered(p) \/ GetFailed(p)
      PROVE  StartsNoPut
  BY <1>5 DEF PutAuction, PutSend, PutAcked, PutFailed, GetAnswered, GetFailed,
              StartsNoPut
<1>6. ASSUME NEW p \in Client,
             \/ RepairList(p) \/ RepairScan(p) \/ RepairNext(p)
             \/ RepairDone(p) \/ RepairRead(p) \/ RepairReadFailed(p)
      PROVE  StartsNoPut
  BY <1>6 DEF RepairList, RepairScan, RepairNext, RepairDone, RepairRead,
              RepairReadFailed, StartsNoPut
<1>7. ASSUME NEW p \in Client,
             \/ RepairPick(p) \/ RepairSend(p) \/ RepairAcked(p)
             \/ RepairFailed(p)
      PROVE  StartsNoPut
  BY <1>7 DEF RepairPick, RepairSend, RepairAcked, RepairFailed, StartsNoPut
<1>8. ASSUME NEW n \in Node, Crash(n) \/ Restart(n) PROVE StartsNoPut
  BY <1>8 DEF Crash, Restart, StartsNoPut
<1>9. ASSUME UNCHANGED vars PROVE StartsNoPut
  <2>1. UNCHANGED <<objects, issued, pc, obj, data>>
    BY <1>9 DEF vars
  <2> QED BY <2>1 DEF StartsNoPut
<1> QED
  BY <1>0, <1>1, <1>2, <1>3, <1>4, <1>5, <1>6, <1>7, <1>8, <1>9
     DEF Next, Continue

-----------------------------------------------------------------------------
(* The steps of the client in a call *)

\* p is the one client that is in a call, before and after its step.
Alone(p) ==
    \A q \in Client \ {p} :
        pc[q] = "idle" /\ pc'[q] = "idle"

\* A client that is in no call has nothing to keep.
LEMMA AloneKeeps ==
    ASSUME IInv', NEW p \in Client, Alone(p), CallerS(p)'
    PROVE  OneCaller' /\ \A q \in Client : CallerS(q)'
<1>1. ASSUME NEW q \in Client, q # p PROVE CallerS(q)'
  <2>1. pc'[q] = "idle"
    BY <1>1 DEF Alone
  <2>2. rpc'[q] = "none"
    BY <2>1 DEF IInv, ClientOK, LocalsOK
  <2> QED BY <2>1, <2>2 DEF CallerS, PutState
<1> QED BY <1>1 DEF Alone, OneCaller

\* What is stored stays stored when a step registers and puts nothing, removes
\* no row, and truncates no file that is whole, has a row and is the last put.
LEMMA StoredKept ==
    ASSUME IInv, \A o \in Object : StoredOn(o),
           UNCHANGED <<objects, latest>>, replicas \subseteq replicas',
           \A o \in Object, n \in Node :
              \/ disk'[n][o] = disk[n][o]
              \/ disk[n][o] = Torn
              \/ <<o, n>> \notin replicas
              \/ latest[o] # objects[o]
    PROVE  \A o \in Object : StoredOn(o)'
<1> SUFFICES ASSUME NEW o \in Object, objects[o] # None,
                    latest[o] = objects[o]
             PROVE  \E n \in Node :
                       <<o, n>> \in replicas' /\ disk'[n][o] = objects[o]
  BY DEF StoredOn
<1>1. PICK n \in Node : <<o, n>> \in replicas /\ disk[n][o] = objects[o]
  BY DEF StoredOn
<1>2. objects[o] # Torn
  BY ContentAssumption DEF IInv, TypeOK, RegistryTypeOK
<1> QED BY <1>1, <1>2

\* The steps that touch neither a file nor a table.
LEMMA QuietSequential ==
    ASSUME IInv, NEW p \in Client, CallerS(p),
           \/ PutAuction(p) \/ PutFailed(p)
           \/ (\E o \in Object : GetStart(p, o))
           \/ GetAnswered(p) \/ GetFailed(p)
           \/ RepairStart(p) \/ RepairList(p) \/ RepairScan(p)
           \/ RepairNext(p) \/ RepairDone(p) \/ RepairRead(p)
           \/ RepairReadFailed(p) \/ RepairPick(p) \/ RepairFailed(p)
           \/ Kill(p)
    PROVE  UNCHANGED <<disk, objects, replicas, latest>> /\ CallerS(p)'
<1> USE DEF IInv, TypeOK, NodeTypeOK, ClientTypeOK, PutState, Goto, Return,
        nodeVars, registryVars, clientVars, historyVars
<1>0. LocalsOK(p)
  BY DEF ClientOK
<1>1. CASE PutAuction(p)
  <2>1. acks[p] = {}
    BY <1>0, <1>1 DEF PutAuction, LocalsOK
  <2>2. /\ UNCHANGED <<disk, rpc, objects, replicas, latest, obj, target>>
        /\ pc'[p] \in {"idle", "replicate"} /\ acks'[p] = {}
        /\ pc'[p] = "replicate" => data'[p] = data[p]
    BY <1>1, <2>1 DEF PutAuction
  <2>3. rpc[p] = "none"
    BY <1>0, <1>1 DEF PutAuction, LocalsOK
  <2> QED BY <1>1, <2>2, <2>3 DEF CallerS, PutAuction
<1>2. CASE PutFailed(p)
  BY <1>2 DEF PutFailed, CallerS
<1>3. CASE \E o \in Object : GetStart(p, o)
  <2>1. pc[p] = "idle" /\ rpc[p] = "none"
    BY <1>0, <1>3 DEF GetStart, Start, LocalsOK
  <2> QED BY <1>3, <2>1 DEF GetStart, CallerS
<1>4. CASE GetAnswered(p) \/ GetFailed(p)
  <2>1. rpc[p] = "none" /\ pc'[p] \in {"read", "idle"}
    BY <1>0, <1>4 DEF GetAnswered, GetFailed, LocalsOK
  <2> QED BY <1>4, <2>1 DEF GetAnswered, GetFailed, CallerS
<1>5. CASE RepairStart(p)
  <2>1. rpc[p] = "none"
    BY <1>0, <1>5 DEF RepairStart, Start, LocalsOK
  <2> QED BY <1>5, <2>1 DEF RepairStart, CallerS
<1>6. CASE \/ RepairList(p) \/ RepairScan(p) \/ RepairNext(p)
           \/ RepairDone(p) \/ RepairRead(p) \/ RepairReadFailed(p)
  <2>1. /\ rpc[p] = "none"
        /\ pc'[p] \in {"idle", "list", "scan", "next", "repair_read",
                       "repair_pick"}
    BY <1>0, <1>6 DEF RepairList, RepairScan, RepairNext, RepairDone,
                      RepairRead, RepairReadFailed, LocalsOK
  <2>2. UNCHANGED <<disk, rpc, objects, replicas, latest>>
    BY <1>6 DEF RepairList, RepairScan, RepairNext, RepairDone, RepairRead,
                RepairReadFailed
  <2> QED BY <2>1, <2>2 DEF CallerS
<1>7. CASE RepairPick(p)
  <2>1. rpc[p] = "none"
    BY <1>0, <1>7 DEF RepairPick, LocalsOK
  <2>2. UNCHANGED <<disk, rpc, objects, replicas, latest, obj>>
    BY <1>7 DEF RepairPick
  <2>3. \/ pc'[p] = "next"
        \/ /\ pc'[p] = "repair_send"
           /\ target'[p] \in Node \ GetReplicaNodes(obj[p])
    BY <1>7 DEF RepairPick, CheckAll
  <2> QED BY <2>1, <2>2, <2>3 DEF CallerS, GetReplicaNodes
<1>8. CASE RepairFailed(p)
  BY <1>8 DEF RepairFailed, CallerS
<1>9. CASE Kill(p)
  BY <1>9 DEF Kill, CallerS
<1> QED BY <1>1, <1>2, <1>3, <1>4, <1>5, <1>6, <1>7, <1>8, <1>9

\* A put that starts replaces what is registered: nothing is to be kept of it.
LEMMA StartPutSequential ==
    ASSUME IInv, IssuedOK, \A o \in Object : StoredOn(o), NEW p \in Client,
           NEW o \in Object, NEW v \in Version, PutStart(p, o, v)
    PROVE  CallerS(p)' /\ \A x \in Object : StoredOn(x)'
<1> USE DEF IInv, TypeOK, NodeTypeOK, ClientTypeOK, HistoryTypeOK, nodeVars,
        registryVars
<1>1. /\ pc[p] = "idle" /\ rpc[p] = "none" /\ acks[p] = {}
      /\ <<o, v>> \notin issued
  BY DEF PutStart, Start, ClientOK, LocalsOK
<1>2. /\ UNCHANGED <<disk, rpc, objects, replicas>>
      /\ latest' = [latest EXCEPT ![o] = v]
      /\ obj' = [obj EXCEPT ![p] = o]
  BY DEF PutStart
<1>3. \/ pc'[p] = "idle"
      \/ pc'[p] = "auction" /\ data'[p] = v /\ acks'[p] = {}
  BY <1>1 DEF PutStart, Goto, Return
<1>4. objects[o] # v
  BY <1>1, ContentAssumption DEF IssuedOK
<1>5. CallerS(p)'
  BY <1>1, <1>2, <1>3, <1>4 DEF CallerS, PutState
<1>6. ASSUME NEW x \in Object PROVE StoredOn(x)'
  <2>1. CASE x = o
    BY <1>2, <1>4, <2>1 DEF StoredOn
  <2>2. CASE x # o
    BY <1>2, <2>2 DEF StoredOn
  <2> QED BY <2>1, <2>2
<1> QED BY <1>5, <1>6

\* The Put of a put_object truncates a file of an object that is being
\* replaced; that of a repair, a file without a row.
LEMMA SendSequential ==
    ASSUME IInv, \A o \in Object : StoredOn(o), NEW p \in Client, CallerS(p),
           PutSend(p) \/ RepairSend(p)
    PROVE  CallerS(p)' /\ \A o \in Object : StoredOn(o)'
<1> USE DEF IInv, TypeOK, NodeTypeOK, ClientTypeOK, registryVars, historyVars,
        Goto
<1>0. LocalsOK(p)
  BY DEF ClientOK
<1>1. CASE PutSend(p)
  <2>1. PICK n \in Node :
          /\ n \in todo[p]
          /\ PutCall(p, n, obj[p])
          /\ target' = [target EXCEPT ![p] = n]
          /\ todo' = [todo EXCEPT ![p] = @ \ {n}]
    BY <1>1 DEF PutSend
  <2>2. /\ pc[p] = "replicate" /\ pc' = [pc EXCEPT ![p] = "await"]
        /\ UNCHANGED <<objects, replicas, latest, obj, data, acks>>
    BY <1>1 DEF PutSend
  <2>3. /\ obj[p] \in Object /\ n \notin acks[p]
        /\ latest[obj[p]] # objects[obj[p]]
    BY <1>0, <2>1, <2>2 DEF LocalsOK, CallerS, PutState
  <2>4. /\ \A m \in Node, x \in Object :
              (m = n /\ x = obj[p]) \/ disk'[m][x] = disk[m][x]
        /\ \/ rpc'[p] = "writing" /\ disk'[n][obj[p]] = Torn
           \/ rpc'[p] = "error"
    BY <2>1, <2>3 DEF PutCall
  <2>5. CallerS(p)'
    BY <2>1, <2>2, <2>3, <2>4 DEF CallerS, PutState
  <2>6. \A o \in Object : StoredOn(o)'
    BY <2>2, <2>3, <2>4, StoredKept
  <2> QED BY <2>5, <2>6
<1>2. CASE RepairSend(p)
  <2>1. /\ pc[p] = "repair_send" /\ pc' = [pc EXCEPT ![p] = "repair_await"]
        /\ PutCall(p, target[p], obj[p])
        /\ UNCHANGED <<objects, replicas, latest, obj, data, acks, target>>
    BY <1>2 DEF RepairSend
  <2>2. /\ obj[p] \in Object /\ target[p] \in Node
        /\ <<obj[p], target[p]>> \notin replicas
    BY <1>0, <2>1 DEF LocalsOK, CallerS
  <2>3. /\ \A m \in Node, x \in Object :
              (m = target[p] /\ x = obj[p]) \/ disk'[m][x] = disk[m][x]
        /\ \/ rpc'[p] = "writing" /\ disk'[target[p]][obj[p]] = Torn
           \/ rpc'[p] = "error"
    BY <2>1, <2>2 DEF PutCall
  <2>4. CallerS(p)'
    BY <2>1, <2>2, <2>3 DEF CallerS, PutState
  <2>5. \A o \in Object : StoredOn(o)'
    BY <2>1, <2>2, <2>3, StoredKept
  <2> QED BY <2>4, <2>5
<1> QED BY <1>1, <1>2

\* An answered Put of a put_object counts a node that has the payload; one of
\* a repair adds a row.
LEMMA AckedSequential ==
    ASSUME IInv, \A o \in Object : StoredOn(o), NEW p \in Client, CallerS(p),
           PutAcked(p) \/ RepairAcked(p)
    PROVE  CallerS(p)' /\ \A o \in Object : StoredOn(o)'
<1> USE DEF IInv, TypeOK, NodeTypeOK, ClientTypeOK, historyVars, Goto, Return,
        RecordReplica, PutState
<1>1. UNCHANGED <<disk, objects, latest>> /\ replicas \subseteq replicas'
  BY DEF PutAcked, RepairAcked
<1>2. \A o \in Object : StoredOn(o)'
  BY <1>1, StoredKept
<1>3. CASE PutAcked(p)
  <2>1. /\ pc[p] = "await" /\ rpc[p] = "done"
        /\ pc'[p] = "replicate" /\ rpc'[p] = "none"
        /\ acks'[p] = acks[p] \cup {target[p]}
        /\ UNCHANGED <<obj, data, todo>>
    BY <1>3 DEF PutAcked
  <2> QED BY <1>1, <1>2, <2>1 DEF CallerS
<1>4. CASE RepairAcked(p)
  <2>1. pc'[p] = "next" /\ rpc'[p] = "none"
    BY <1>4 DEF RepairAcked
  <2> QED BY <1>2, <2>1 DEF CallerS
<1> QED BY <1>3, <1>4

\* The put that registers has its payload on a node it counted, and recorded.
LEMMA FinishSequential ==
    ASSUME IInv, \A o \in Object : StoredOn(o), NEW p \in Client, CallerS(p),
           PutFinish(p)
    PROVE  CallerS(p)' /\ \A o \in Object : StoredOn(o)'
<1> USE DEF IInv, TypeOK, NodeTypeOK, RegistryTypeOK, ClientTypeOK, nodeVars,
        historyVars, Goto, Return, PutState
<1>0. LocalsOK(p) /\ AcksRecorded(p) /\ pc[p] = "replicate"
  BY DEF ClientOK, PutFinish
<1>1. /\ UNCHANGED <<disk, rpc, replicas, latest, obj, target>>
      /\ pc' = [pc EXCEPT ![p] = "idle"]
      /\ \/ UNCHANGED objects
         \/ acks[p] # {} /\ objects' = [objects EXCEPT ![obj[p]] = data[p]]
  BY DEF PutFinish, Register
<1>2. CallerS(p)'
  <2>1. rpc[p] = "none"
    BY <1>0 DEF LocalsOK
  <2> QED BY <1>1, <2>1 DEF CallerS
<1>3. ASSUME NEW o \in Object PROVE StoredOn(o)'
  <2>1. CASE objects'[o] = objects[o]
    BY <1>1, <2>1 DEF StoredOn
  <2>2. CASE objects'[o] # objects[o]
    <3>1. acks[p] # {} /\ o = obj[p] /\ objects'[o] = data[p]
      BY <1>1, <2>2
    <3>2. PICK n \in Node : n \in acks[p]
      BY <3>1
    <3>3. <<o, n>> \in replicas /\ disk[n][o] = data[p]
      BY <1>0, <3>1, <3>2 DEF AcksRecorded, CallerS
    <3> QED BY <1>1, <3>1, <3>3 DEF StoredOn
  <2> QED BY <2>1, <2>2
<1> QED BY <1>2, <1>3

\* A node completes a file that was torn.
LEMMA ServeSequential ==
    ASSUME IInv, \A o \in Object : StoredOn(o), NEW p \in Client, CallerS(p),
           Serve(p)
    PROVE  CallerS(p)' /\ \A o \in Object : StoredOn(o)'
<1> USE DEF IInv, TypeOK, NodeTypeOK, ClientTypeOK, registryVars, clientVars,
        historyVars
<1>1. /\ rpc[p] = "writing" /\ target[p] \in Node /\ obj[p] \in Object
      /\ disk[target[p]][obj[p]] = Torn
  BY DEF Serve, PutWrite, ClientOK, PutBacked, CallerS
<1>2. /\ disk' = [disk EXCEPT ![target[p]][obj[p]] = data[p]]
      /\ rpc' = [rpc EXCEPT ![p] = "done"]
      /\ UNCHANGED <<objects, replicas, latest, pc, obj, data, todo, target,
                     acks>>
  BY <1>1 DEF Serve, PutWrite, AfterWrite
<1>3. /\ disk'[target[p]][obj[p]] = data[p]
      /\ \A n \in Node, o \in Object :
            \/ disk'[n][o] = disk[n][o]
            \/ n = target[p] /\ o = obj[p]
  BY <1>1, <1>2
<1>4. \A o \in Object : StoredOn(o)'
  BY <1>1, <1>2, <1>3, StoredKept
<1>5. CallerS(p)'
  <2>1. ASSUME pc[p] \in PutState, NEW n \in acks[p]
        PROVE  disk'[n][obj[p]] = data[p]
    BY <1>1, <1>3, <2>1 DEF CallerS
  <2> QED BY <1>2, <1>3, <2>1 DEF CallerS
<1> QED BY <1>4, <1>5

-----------------------------------------------------------------------------
\* The next step of a sequential use keeps it, unless calls overlap.
LEMMA NextSequential ==
    ASSUME IInv, IInv', IssuedOK, Sequential, ~overlapped', [Next]_vars
    PROVE  Sequential'
<1> USE DEF IInv, TypeOK, ClientTypeOK
<1>1. ASSUME NEW p \in Client, pc[p] # "idle",
             \A q \in Client \ {p} : pc'[q] = pc[q]
      PROVE  Alone(p)
  BY <1>1 DEF Sequential, OneCaller, Alone
<1>2. ASSUME NEW p \in Client, Start(p),
             \A q \in Client \ {p} : pc'[q] = pc[q]
      PROVE  Alone(p)
  BY <1>2 DEF Start, Alone
<1>3. ASSUME NEW p \in Client, Alone(p), CallerS(p)',
             \A o \in Object : StoredOn(o)'
      PROVE  Sequential'
  BY <1>3, AloneKeeps DEF Sequential
<1>4. ASSUME UNCHANGED <<disk, objects, replicas, latest>>
      PROVE  \A o \in Object : StoredOn(o)'
  BY <1>4 DEF Sequential, StoredOn
<1>5. ASSUME NEW p \in Client, NEW o \in Object, NEW v \in Version,
             PutStart(p, o, v)
      PROVE  Sequential'
  <2>1. Alone(p)
    BY <1>2, <1>5 DEF PutStart, Goto, Return
  <2> QED BY <1>3, <1>5, <2>1, StartPutSequential DEF Sequential
<1>6. ASSUME NEW p \in Client, (\E o \in Object : GetStart(p, o)) \/ RepairStart(p)
      PROVE  Sequential'
  <2>1. Alone(p)
    BY <1>2, <1>6 DEF GetStart, RepairStart, Goto
  <2> QED BY <1>3, <1>4, <1>6, <2>1, QuietSequential DEF Sequential
<1>7. ASSUME NEW p \in Client, Continue(p) \/ Kill(p) PROVE Sequential'
  <2>1. pc[p] # "idle" /\ \A q \in Client \ {p} : pc'[q] = pc[q]
    <3>1. CASE \/ PutAuction(p) \/ PutSend(p) \/ PutAcked(p) \/ PutFailed(p)
               \/ PutFinish(p) \/ GetAnswered(p) \/ GetFailed(p) \/ Kill(p)
      BY <3>1 DEF PutAuction, PutSend, PutAcked, PutFailed, PutFinish,
                  GetAnswered, GetFailed, Kill, Goto, Return
    <3>2. CASE \/ RepairList(p) \/ RepairScan(p) \/ RepairNext(p)
               \/ RepairDone(p) \/ RepairRead(p) \/ RepairReadFailed(p)
      BY <3>2 DEF RepairList, RepairScan, RepairNext, RepairDone, RepairRead,
                  RepairReadFailed, Goto, Return
    <3>3. CASE \/ RepairPick(p) \/ RepairSend(p) \/ RepairAcked(p)
               \/ RepairFailed(p)
      BY <3>3 DEF RepairPick, RepairSend, RepairAcked, RepairFailed, Goto,
                  Return
    <3> QED BY <1>7, <3>1, <3>2, <3>3 DEF Continue
  <2>2. Alone(p)
    BY <1>1, <2>1
  <2>3. CASE PutSend(p) \/ RepairSend(p)
    BY <1>3, <2>2, <2>3, SendSequential DEF Sequential
  <2>4. CASE PutAcked(p) \/ RepairAcked(p)
    BY <1>3, <2>2, <2>4, AckedSequential DEF Sequential
  <2>5. CASE PutFinish(p)
    BY <1>3, <2>2, <2>5, FinishSequential DEF Sequential
  <2>6. CASE ~ (\/ PutSend(p) \/ RepairSend(p) \/ PutAcked(p)
                \/ RepairAcked(p) \/ PutFinish(p))
    BY <1>3, <1>4, <1>7, <2>2, <2>6, QuietSequential DEF Sequential, Continue
  <2> QED BY <2>3, <2>4, <2>5, <2>6
<1>8. ASSUME NEW p \in Client, Serve(p) PROVE Sequential'
  <2>1. pc[p] # "idle" /\ UNCHANGED pc
    BY <1>8 DEF Serve, PutWrite, clientVars, ClientOK, LocalsOK
  <2>2. Alone(p)
    BY <1>1, <2>1
  <2> QED BY <1>3, <1>8, <2>2, ServeSequential DEF Sequential
<1>9. ASSUME NEW n \in Node, Crash(n) \/ Restart(n) PROVE Sequential'
  <2>1. /\ UNCHANGED <<disk, objects, replicas, latest, pc, obj, data, todo,
                       target, acks>>
        /\ \A p \in Client : rpc'[p] = rpc[p] \/ rpc'[p] = "error"
    BY <1>9 DEF NodeTypeOK, Crash, Restart, NodeCrash, NodeRestart,
                registryVars, clientVars, historyVars
  <2>2. OneCaller' /\ \A p \in Client : CallerS(p)'
    BY <2>1 DEF Sequential, OneCaller, CallerS
  <2> QED BY <1>4, <2>1, <2>2 DEF Sequential
<1>10. CASE UNCHANGED vars
  BY <1>10
     DEF vars, nodeVars, registryVars, clientVars, historyVars, Sequential,
         OneCaller, CallerS, StoredOn
<1> QED BY <1>5, <1>6, <1>7, <1>8, <1>9, <1>10 DEF Next

\* Calls that have overlapped have overlapped for good.
LEMMA OverlapStays ==
    ASSUME IInv, [Next]_vars PROVE overlapped => overlapped'
<1> USE DEF historyVars
<1>1. ASSUME NEW p \in Client, NEW o \in Object, NEW v \in Version,
             PutStart(p, o, v)
      PROVE  overlapped => overlapped'
  BY <1>1 DEF PutStart, Start
<1>2. ASSUME NEW p \in Client, (\E o \in Object : GetStart(p, o)) \/ RepairStart(p)
      PROVE  overlapped => overlapped'
  BY <1>2 DEF GetStart, RepairStart, Start
<1>3. ASSUME NEW p \in Client, Continue(p) \/ Serve(p) \/ Kill(p)
      PROVE  UNCHANGED overlapped
  BY <1>3
     DEF Serve, Kill, Continue, PutAuction, PutSend, PutAcked, PutFailed,
         PutFinish, GetAnswered, GetFailed, RepairList, RepairScan,
         RepairNext, RepairDone, RepairRead, RepairReadFailed, RepairPick,
         RepairSend, RepairAcked, RepairFailed
<1>4. ASSUME NEW n \in Node, Crash(n) \/ Restart(n) PROVE UNCHANGED overlapped
  BY <1>4 DEF Crash, Restart
<1>5. UNCHANGED vars => UNCHANGED overlapped
  BY DEF vars
<1> QED BY <1>1, <1>2, <1>3, <1>4, <1>5 DEF Next

\* The invariant holds in every state.
THEOREM SpecSInv == Spec => []SInv
<1>1. IInv /\ IInv' /\ SInv /\ [Next]_vars => SInv'
  BY NextIssuedOK, NextSequential, OverlapStays DEF SInv
<1> QED BY InitSInv, SpecIInv, <1>1, PTL DEF Spec

\* The last successful put of an object is on a node that a row names, as long
\* as no two calls overlap.
THEOREM LatestIsStored == Spec => []LatestStored
<1>1. IInv /\ SInv => LatestStored
  BY DEF SInv, Sequential, StoredOn, LatestStored, ListAll, Lookup,
         GetReplicaNodes
<1> QED BY SpecIInv, SpecSInv, <1>1, PTL
=============================================================================

---------------------------- MODULE WriteOnceProofs ----------------------------
(***************************************************************************)
(* Proofs about VaultStore used as a write-once store: of a caller that    *)
(* never puts two payloads under one id, and of repair passes that do not  *)
(* run at the same time.  Both are conditions on the callers (WriteOnce),  *)
(* not on the constants: any number of clients, repairers and payloads.    *)
(*                                                                         *)
(* Then every row names a whole file, reads return what was put, a repair  *)
(* truncates no recorded replica, and VaultStore implements WriteOnceStore.*)
(* The invariant (WInv) says why: a put of an object whose id is new finds *)
(* no row of it, and while it runs the object is not registered, so no     *)
(* repair looks at it; a repair finds it registered, so no put of it runs. *)
(***************************************************************************)
EXTENDS VaultStoreProofs

\* No id is put with two payloads.
PutsOnce ==
    \A o \in Object, v, w \in Version :
        <<o, v>> \in issued /\ <<o, w>> \in issued => v = w

\* Two repair passes do not overlap (one that was killed may be followed).
RepairsAlone ==
    \A p, q \in Client :
        pc[p] \in RepairState /\ pc[q] \in RepairState => p = q

WriteOnce == PutsOnce /\ RepairsAlone

-----------------------------------------------------------------------------
(* The invariant *)

\* A put works on an object nobody has registered and writes only to nodes
\* without a row.
PutOK(p) ==
    /\ pc[p] \in PutState =>
          /\ data[p] = latest[obj[p]]
          /\ objects[obj[p]] = None
          /\ \A n \in todo[p] : <<obj[p], n>> \notin replicas
    /\ pc[p] = "await" =>
          /\ target[p] \notin todo[p]
          /\ <<obj[p], target[p]>> \notin replicas

\* A repair works on a registered object and writes only to a node without
\* a row.
RepairOK(p) ==
    /\ \A o \in queue[p].listed \cup queue[p].under : objects[o] # None
    /\ pc[p] \in {"repair_read", "repair_pick", "repair_send",
                  "repair_await"} => objects[obj[p]] # None
    /\ pc[p] \in {"repair_pick", "repair_send", "repair_await"} =>
          data[p] = latest[obj[p]]
    /\ pc[p] \in {"repair_send", "repair_await"} =>
          <<obj[p], target[p]>> \notin replicas

\* A Put that a node accepted carries the object's payload; an answered one
\* that its caller still waits for has left the file whole.
RpcOK(p) ==
    /\ rpc[p] \in {"writing", "done"} => data[p] = latest[obj[p]]
    /\ rpc[p] = "done" /\ pc[p] # "dead" =>
          disk[target[p]][obj[p]] = latest[obj[p]]

\* A read asks nodes that have a row.
ReadOK(p) ==
    /\ pc[p] \in {"read", "repair_read"} =>
          \A n \in todo[p] : <<obj[p], n>> \in replicas
    /\ result[p] \in File => result[p] = latest[obj[p]]
    /\ pc[p] \in RepairState => result[p] = None

ClientW(p) == PutOK(p) /\ RepairOK(p) /\ RpcOK(p) /\ ReadOK(p)

\* An object has one put under way at most.
OnePutter ==
    \A p, q \in Client :
        pc[p] \in PutState /\ pc[q] \in PutState /\ obj[p] = obj[q] => p = q

\* Whatever is registered or stored of an object comes from its one put.
FromOnePut ==
    /\ \A o \in Object : latest[o] # None => <<o, latest[o]>> \in issued
    /\ \A o \in Object : objects[o] # None => objects[o] = latest[o]
    /\ \A o \in Object, n \in Node : disk[n][o] \in {NoFile, Torn, latest[o]}

WInv ==
    /\ FromOnePut
    /\ RowsWhole
    /\ OnePutter
    /\ \A p \in Client : ClientW(p)

-----------------------------------------------------------------------------
\* The initial state satisfies the invariant.
LEMMA InitWInv == Init => WInv
<1> SUFFICES ASSUME Init PROVE WInv
  OBVIOUS
<1> USE ContentAssumption, StoreAssumption DEF Init, NodeInit, RegistryInit
<1>1. FromOnePut /\ RowsWhole
  BY DEF FromOnePut, RowsWhole
<1>2. OnePutter
  BY DEF OnePutter, PutState
<1>3. ASSUME NEW p \in Client PROVE ClientW(p)
  BY DEF ClientW, PutOK, RepairOK, RpcOK, ReadOK, PutState, RepairState, File,
         Content
<1> QED BY <1>1, <1>2, <1>3 DEF WInv

\* A step of p that leaves the files, the tables, the puts and the locals of
\* the other clients alone, and starts no put.
LocalTo(p) ==
    /\ UNCHANGED <<disk, objects, replicas, latest, issued>>
    /\ pc'[p] \in PutState => pc[p] \in PutState /\ obj'[p] = obj[p]
    /\ \A q \in Client \ {p} :
          /\ pc'[q] = pc[q] /\ obj'[q] = obj[q] /\ data'[q] = data[q]
          /\ todo'[q] = todo[q] /\ target'[q] = target[q]
          /\ queue'[q] = queue[q] /\ result'[q] = result[q]
          /\ rpc'[q] = rpc[q]

\* Such a step keeps the invariant if it keeps p's part of it.
LEMMA LocalStep ==
    ASSUME WInv, NEW p \in Client, LocalTo(p), ClientW(p)'
    PROVE  WInv'
<1>1. FromOnePut' /\ RowsWhole'
  BY DEF WInv, FromOnePut, RowsWhole, LocalTo
<1>2. OnePutter'
  <2> SUFFICES ASSUME NEW q \in Client, NEW r \in Client,
                      pc'[q] \in PutState, pc'[r] \in PutState,
                      obj'[q] = obj'[r]
               PROVE  q = r
    BY DEF OnePutter
  <2>1. /\ pc[q] \in PutState /\ obj[q] = obj'[q]
        /\ pc[r] \in PutState /\ obj[r] = obj'[r]
    BY DEF LocalTo
  <2> QED BY <2>1 DEF WInv, OnePutter
<1>3. ASSUME NEW q \in Client, q # p PROVE ClientW(q)'
  <2>1. ClientW(q)
    BY DEF WInv
  <2> QED
    BY <1>3, <2>1 DEF LocalTo, ClientW, PutOK, RepairOK, RpcOK, ReadOK
<1> QED BY <1>1, <1>2, <1>3 DEF WInv

-----------------------------------------------------------------------------
(* The steps that leave the files and the tables alone *)

\* The steps of put_object, get_object, the repair pass and a kill that touch
\* neither a file nor a table keep the invariant.
LEMMA QuietSteps ==
    ASSUME IInv, WInv, NEW p \in Client,
           \/ PutAuction(p) \/ PutFailed(p)
           \/ (\E o \in Object : GetStart(p, o))
           \/ GetAnswered(p) \/ GetFailed(p)
           \/ RepairStart(p) \/ RepairList(p) \/ RepairScan(p)
           \/ RepairNext(p) \/ RepairDone(p) \/ RepairRead(p)
           \/ RepairReadFailed(p) \/ RepairPick(p) \/ RepairFailed(p)
           \/ Kill(p)
    PROVE  LocalTo(p) /\ ClientW(p)'
<1> USE ContentAssumption, StoreAssumption
<1> USE DEF IInv, TypeOK, NodeTypeOK, RegistryTypeOK, ClientTypeOK, Content,
        File, nodeVars, registryVars, clientVars, historyVars, Goto, Return
<1>0. ClientW(p) /\ LocalsOK(p) /\ RowsWhole
  BY DEF WInv, ClientOK
<1> USE DEF LocalTo, ClientW, PutOK, RepairOK, RpcOK, ReadOK, LocalsOK,
        PutState, RepairState
<1>1. CASE PutAuction(p)
  <2>1. PICK w \in SUBSET todo[p] :
          \/ w = {} /\ Return(p, "idle")
          \/ /\ todo' = [todo EXCEPT ![p] = w]
             /\ UNCHANGED <<data, acks>>
             /\ Goto(p, "replicate")
    BY <1>1 DEF PutAuction, Winners, Bidders
  <2>2. LocalTo(p)
    BY <1>1, <2>1 DEF PutAuction
  <2>3. ClientW(p)'
    BY <1>0, <1>1, <2>1 DEF PutAuction
  <2> QED BY <2>2, <2>3
<1>2. CASE PutFailed(p)
  <2>1. LocalTo(p)
    BY <1>2 DEF PutFailed
  <2>2. ClientW(p)'
    BY <1>0, <1>2 DEF PutFailed
  <2> QED BY <2>1, <2>2
<1>3. ASSUME NEW o \in Object, GetStart(p, o) PROVE LocalTo(p) /\ ClientW(p)'
  <2>0. pc[p] = "idle"
    BY <1>3 DEF GetStart, Start
  <2>1. LocalTo(p)
    BY <1>3 DEF GetStart
  <2>2. ClientW(p)'
    BY <1>0, <1>3, <2>0 DEF GetStart, GetReplicaNodes
  <2> QED BY <2>1, <2>2
<1>4. CASE GetAnswered(p)
  <2>1. LocalTo(p)
    BY <1>4 DEF GetAnswered
  <2>2. ClientW(p)'
    <3>1. PICK n \in todo[p] :
            result' = [result EXCEPT ![p] = disk[n][obj[p]]]
      BY <1>4 DEF GetAnswered
    <3>2. <<obj[p], n>> \in replicas /\ n \in Node /\ obj[p] \in Object
      BY <1>0, <1>4 DEF GetAnswered
    <3>3. disk[n][obj[p]] = latest[obj[p]]
      BY <1>0, <3>2 DEF RowsWhole
    <3> QED BY <1>0, <1>4, <3>1, <3>3 DEF GetAnswered
  <2> QED BY <2>1, <2>2
<1>5. CASE GetFailed(p)
  <2>1. LocalTo(p)
    BY <1>5 DEF GetFailed
  <2>2. ClientW(p)'
    <3>1. PICK n \in todo[p] : todo' = [todo EXCEPT ![p] = todo[p] \ {n}]
      BY <1>5 DEF GetFailed
    <3>2. /\ result'[p] = result[p] \/ result'[p] = NotFound
          /\ pc'[p] = pc[p] \/ pc'[p] = "idle"
      BY <1>5 DEF GetFailed
    <3> QED BY <1>0, <1>5, <3>1, <3>2 DEF GetFailed
  <2> QED BY <2>1, <2>2
<1>6. CASE RepairStart(p)
  <2>0. pc[p] = "idle"
    BY <1>6 DEF RepairStart, Start
  <2>1. LocalTo(p)
    BY <1>6 DEF RepairStart
  <2>2. ClientW(p)'
    BY <1>0, <1>6, <2>0 DEF RepairStart
  <2> QED BY <2>1, <2>2
<1>7. CASE RepairList(p)
  <2>1. LocalTo(p)
    BY <1>7 DEF RepairList
  <2>2. ClientW(p)'
    BY <1>0, <1>7 DEF RepairList, ListAll, Lookup, RepairQueue
  <2> QED BY <2>1, <2>2
<1>8. CASE RepairScan(p)
  <2>1. LocalTo(p)
    BY <1>8 DEF RepairScan
  <2>2. ClientW(p)'
    BY <1>0, <1>8 DEF RepairScan, RepairQueue
  <2> QED BY <2>1, <2>2
<1>9. CASE RepairNext(p)
  <2>1. LocalTo(p)
    BY <1>9 DEF RepairNext
  <2>2. ClientW(p)'
    BY <1>0, <1>9 DEF RepairNext, RepairQueue, GetReplicaNodes
  <2> QED BY <2>1, <2>2
<1>10. CASE RepairDone(p)
  <2>1. LocalTo(p)
    BY <1>10 DEF RepairDone
  <2>2. ClientW(p)'
    BY <1>0, <1>10 DEF RepairDone
  <2> QED BY <2>1, <2>2
<1>11. CASE RepairRead(p)
  <2>1. LocalTo(p)
    BY <1>11 DEF RepairRead
  <2>2. ClientW(p)'
    <3>1. PICK n \in todo[p] :
            data' = [data EXCEPT ![p] = disk[n][obj[p]]]
      BY <1>11 DEF RepairRead
    <3>2. <<obj[p], n>> \in replicas /\ n \in Node /\ obj[p] \in Object
      BY <1>0, <1>11 DEF RepairRead
    <3>3. disk[n][obj[p]] = latest[obj[p]]
      BY <1>0, <3>2 DEF RowsWhole
    <3> QED BY <1>0, <1>11, <3>1, <3>3 DEF RepairRead
  <2> QED BY <2>1, <2>2
<1>12. CASE RepairReadFailed(p)
  <2>1. LocalTo(p)
    BY <1>12 DEF RepairReadFailed
  <2>2. ClientW(p)'
    <3>1. PICK n \in todo[p] : todo' = [todo EXCEPT ![p] = todo[p] \ {n}]
      BY <1>12 DEF RepairReadFailed
    <3>2. pc'[p] \in {"next", "repair_read"}
      BY <1>12 DEF RepairReadFailed
    <3> QED BY <1>0, <1>12, <3>1, <3>2 DEF RepairReadFailed
  <2> QED BY <2>1, <2>2
<1>13. CASE RepairPick(p)
  <2>1. LocalTo(p)
    BY <1>13 DEF RepairPick
  <2>2. ClientW(p)'
    BY <1>0, <1>13 DEF RepairPick, CheckAll, GetReplicaNodes
  <2> QED BY <2>1, <2>2
<1>14. CASE RepairFailed(p)
  <2>1. LocalTo(p)
    BY <1>14 DEF RepairFailed
  <2>2. ClientW(p)'
    BY <1>0, <1>14 DEF RepairFailed
  <2> QED BY <2>1, <2>2
<1>15. CASE Kill(p)
  <2>1. LocalTo(p)
    BY <1>15 DEF Kill
  <2>2. ClientW(p)'
    BY <1>0, <1>15 DEF Kill
  <2> QED BY <2>1, <2>2
<1> QED
  BY <1>1, <1>2, <1>3, <1>4, <1>5, <1>6, <1>7, <1>8, <1>9, <1>10, <1>11,
     <1>12, <1>13, <1>14, <1>15

-----------------------------------------------------------------------------
(* The steps that change the puts, the files or the tables *)

\* The put that starts is the first one of its object.
LEMMA FirstPut ==
    ASSUME IInv, WInv, PutsOnce', NEW p \in Client, NEW o \in Object,
           NEW v \in Version, PutStart(p, o, v)
    PROVE  latest[o] = None
<1>1. latest[o] \in Version \cup {None}
  BY DEF IInv, TypeOK, HistoryTypeOK
<1>2. ASSUME latest[o] # None PROVE FALSE
  <2>1. latest[o] \in Version /\ <<o, latest[o]>> \in issued
    BY <1>1, <1>2 DEF WInv, FromOnePut
  <2>2. <<o, v>> \notin issued /\ issued' = issued \cup {<<o, v>>}
    BY DEF PutStart
  <2>3. <<o, v>> \in issued' /\ <<o, latest[o]>> \in issued'
    BY <2>1, <2>2
  <2>4. v = latest[o]
    BY <2>1, <2>3 DEF PutsOnce
  <2> QED BY <2>1, <2>2, <2>4
<1> QED BY <1>2

\* The start of a put keeps the invariant.
LEMMA PutStartStep ==
    ASSUME IInv, IInv', WInv, PutsOnce', NEW p \in Client, NEW o \in Object,
           NEW v \in Version, PutStart(p, o, v)
    PROVE  WInv'
<1> USE ContentAssumption, StoreAssumption
<1> USE DEF IInv, TypeOK, NodeTypeOK, RegistryTypeOK, ClientTypeOK,
        HistoryTypeOK, Content, File, nodeVars, registryVars
<1>1. latest[o] = None /\ pc[p] = "idle"
  BY FirstPut DEF PutStart, Start
<1>2. /\ latest' = [latest EXCEPT ![o] = v]
      /\ issued' = issued \cup {<<o, v>>}
      /\ UNCHANGED <<disk, objects, replicas, rpc, target, queue>>
      /\ obj' = [obj EXCEPT ![p] = o]
      /\ result' = [result EXCEPT ![p] = None]
  BY DEF PutStart
<1>3. /\ \A n \in Node : <<o, n>> \notin replicas /\ disk[n][o] \in {NoFile, Torn}
      /\ objects[o] = None
  <2>1. ASSUME NEW n \in Node PROVE disk[n][o] \in {NoFile, Torn}
    BY <1>1, <2>1 DEF WInv, FromOnePut
  <2>2. ASSUME NEW n \in Node, <<o, n>> \in replicas PROVE FALSE
    BY <1>1, <2>1, <2>2 DEF WInv, RowsWhole
  <2> QED BY <1>1, <2>1, <2>2 DEF WInv, FromOnePut
<1>4. FromOnePut'
  <2>1. \A x \in Object : latest'[x] # None => <<x, latest'[x]>> \in issued'
    BY <1>2 DEF WInv, FromOnePut
  <2>2. \A x \in Object : objects'[x] # None => objects'[x] = latest'[x]
    BY <1>2, <1>3 DEF WInv, FromOnePut
  <2>3. ASSUME NEW x \in Object, NEW n \in Node
        PROVE  disk'[n][x] \in {NoFile, Torn, latest'[x]}
    <3>1. x # o => latest'[x] = latest[x]
      BY <1>2
    <3>2. disk[n][x] \in {NoFile, Torn, latest[x]}
      BY DEF WInv, FromOnePut
    <3> QED BY <1>2, <1>3, <3>1, <3>2
  <2> QED BY <2>1, <2>2, <2>3 DEF FromOnePut
<1>5. RowsWhole'
  BY <1>2, <1>3 DEF WInv, RowsWhole
<1>6. ASSUME NEW q \in Client, q # p
      PROVE  /\ pc'[q] = pc[q] /\ obj'[q] = obj[q] /\ data'[q] = data[q]
             /\ todo'[q] = todo[q] /\ result'[q] = result[q]
             /\ ~ (pc[q] \in PutState /\ obj[q] = o)
             /\ latest[obj[q]] # None => latest'[obj[q]] = latest[obj[q]]
             /\ latest'[obj[q]] = latest[obj[q]] \/ latest[obj[q]] = None
  <2>1. /\ pc'[q] = pc[q] /\ obj'[q] = obj[q] /\ data'[q] = data[q]
        /\ todo'[q] = todo[q] /\ result'[q] = result[q]
    BY <1>6 DEF PutStart, Goto, Return
  <2>2. ASSUME pc[q] \in PutState, obj[q] = o PROVE FALSE
    <3>1. data[q] = latest[o] /\ data[q] \in Version
      BY <2>2 DEF WInv, ClientW, PutOK, ClientOK, LocalsOK
    <3> QED BY <1>1, <3>1
  <2> QED BY <1>1, <1>2, <2>1, <2>2
<1>7. OnePutter'
  <2> SUFFICES ASSUME NEW q \in Client, NEW r \in Client,
                      pc'[q] \in PutState, pc'[r] \in PutState,
                      obj'[q] = obj'[r], q # r
               PROVE  FALSE
    BY DEF OnePutter
  <2>1. CASE q = p
    BY <1>2, <1>6, <2>1
  <2>2. CASE r = p
    BY <1>2, <1>6, <2>2
  <2>3. CASE q # p /\ r # p
    BY <1>6, <2>3 DEF WInv, OnePutter
  <2> QED BY <2>1, <2>2, <2>3
<1>8. ASSUME NEW q \in Client PROVE ClientW(q)'
  <2>0. ClientW(q) /\ LocalsOK(q) /\ PutBacked(q)
    BY DEF WInv, ClientOK
  <2>1. CASE q = p
    <3>1. \/ pc'[p] = "idle"
          \/ pc'[p] = "auction" /\ data'[p] = v /\ todo'[p] \subseteq Node
      BY DEF PutStart, Goto, Return, CheckAll
    <3>2. rpc'[p] = "none"
      BY <1>1, <1>2, <2>0, <2>1 DEF LocalsOK, RpcState
    <3> QED
      BY <1>1, <1>2, <1>3, <2>0, <2>1, <3>1, <3>2
         DEF ClientW, PutOK, RepairOK, RpcOK, ReadOK, PutState, RepairState
  <2>2. CASE q # p
    <3>1. PutOK(q)'
      BY <1>2, <1>6, <2>0, <2>2 DEF ClientW, PutOK
    <3>2. RepairOK(q)'
      BY <1>2, <1>6, <2>0, <2>2 DEF ClientW, RepairOK, LocalsOK
    <3>3. RpcOK(q)'
      <4>1. ASSUME rpc[q] \in {"writing", "done"}
            PROVE  /\ data[q] = latest[obj[q]]
                   /\ latest[obj[q]] # None
        BY <2>0, <4>1 DEF ClientW, RpcOK, PutBacked
      <4>2. ASSUME rpc[q] \in {"writing", "done"}
            PROVE  latest'[obj[q]] = latest[obj[q]]
        BY <1>6, <2>2, <4>1, <4>2
      <4> QED
        BY <1>2, <1>6, <2>0, <2>2, <4>1, <4>2 DEF ClientW, RpcOK
    <3>4. ReadOK(q)'
      BY <1>2, <1>6, <2>0, <2>2 DEF ClientW, ReadOK
    <3> QED BY <3>1, <3>2, <3>3, <3>4 DEF ClientW
  <2> QED BY <2>1, <2>2
<1> QED BY <1>4, <1>5, <1>7, <1>8 DEF WInv

\* No other client waits for an answer about p's object.
AloneOn(p) ==
    \A q \in Client \ {p} :
        rpc[q] = "done" /\ pc[q] # "dead" => obj[q] # obj[p]

\* The part of a step that sends a Put of p besides the call itself.
Sends(p) ==
    /\ UNCHANGED <<objects, replicas, latest, issued, obj, data, queue, result>>
    /\ \A q \in Client \ {p} :
          pc'[q] = pc[q] /\ todo'[q] = todo[q] /\ target'[q] = target[q]
    /\ \/ pc[p] = "replicate" /\ pc'[p] = "await"
       \/ pc[p] = "repair_send" /\ pc'[p] = "repair_await"

\* A Put call of p to a node without a row keeps the invariant, when p is alone
\* on its object.
LEMMA SendStep ==
    ASSUME IInv, WInv, NEW p \in Client, NEW n \in Node,
           obj[p] \in Object, PutCall(p, n, obj[p]),
           <<obj[p], n>> \notin replicas, data[p] = latest[obj[p]],
           AloneOn(p), Sends(p), PutOK(p)', RepairOK(p)'
    PROVE  WInv'
<1> USE ContentAssumption
<1> USE DEF IInv, TypeOK, NodeTypeOK, RegistryTypeOK, ClientTypeOK,
        HistoryTypeOK, Content, File, Sends
<1>1. /\ \A m \in Node, x \in Object :
            \/ disk'[m][x] = disk[m][x]
            \/ m = n /\ x = obj[p] /\ disk'[m][x] = Torn
      /\ \A q \in Client \ {p} : rpc'[q] = rpc[q]
      /\ rpc'[p] \in {"writing", "error"}
  BY DEF PutCall
<1>2. FromOnePut'
  <2>1. ASSUME NEW x \in Object, NEW m \in Node
        PROVE  disk'[m][x] \in {NoFile, Torn, latest'[x]}
    BY <1>1 DEF WInv, FromOnePut
  <2> QED BY <2>1 DEF WInv, FromOnePut
<1>3. RowsWhole'
  <2> SUFFICES ASSUME NEW x \in Object, NEW m \in Node, <<x, m>> \in replicas
               PROVE  disk'[m][x] = latest[x]
    BY DEF RowsWhole
  <2>1. disk[m][x] = latest[x]
    BY DEF WInv, RowsWhole
  <2>2. ~ (m = n /\ x = obj[p])
    OBVIOUS
  <2> QED BY <1>1, <2>1, <2>2
<1>4. OnePutter'
  <2> SUFFICES ASSUME NEW q \in Client, NEW r \in Client,
                      pc'[q] \in PutState, pc'[r] \in PutState,
                      obj'[q] = obj'[r]
               PROVE  q = r
    BY DEF OnePutter
  <2>1. /\ pc[q] \in PutState /\ obj[q] = obj'[q]
        /\ pc[r] \in PutState /\ obj[r] = obj'[r]
    BY DEF PutState
  <2> QED BY <2>1 DEF WInv, OnePutter
<1>5. ASSUME NEW q \in Client PROVE ClientW(q)'
  <2>0. ClientW(q) /\ LocalsOK(q) /\ PutBacked(q)
    BY DEF WInv, ClientOK
  <2>1. CASE q = p
    <3>1. RpcOK(p)'
      BY <1>1 DEF RpcOK
    <3>2. ReadOK(p)'
      BY <2>0, <2>1 DEF ClientW, ReadOK, RepairState
    <3> QED BY <2>1, <3>1, <3>2 DEF ClientW
  <2>2. CASE q # p
    <3>1. PutOK(q)' /\ RepairOK(q)' /\ ReadOK(q)'
      BY <2>0, <2>2 DEF ClientW, PutOK, RepairOK, ReadOK
    <3>2. RpcOK(q)'
      <4>1. ASSUME rpc[q] = "done", pc[q] # "dead"
            PROVE  /\ target[q] \in Node /\ obj[q] \in Object
                   /\ obj[q] # obj[p]
        BY <2>0, <2>2, <4>1 DEF PutBacked, AloneOn
      <4> QED BY <1>1, <2>0, <2>2, <4>1 DEF ClientW, RpcOK
    <3> QED BY <3>1, <3>2 DEF ClientW
  <2> QED BY <2>1, <2>2
<1> QED BY <1>2, <1>3, <1>4, <1>5 DEF WInv

\* No other client writes the object of a running put.
LEMMA PutterAlone ==
    ASSUME IInv, WInv, NEW p \in Client, pc[p] \in PutState,
           NEW q \in Client, q # p, rpc[q] = "done", pc[q] # "dead"
    PROVE  obj[q] # obj[p]
<1>1. pc[q] \in {"await", "repair_await"}
  BY DEF IInv, ClientOK, LocalsOK
<1>2. CASE pc[q] = "await"
  BY <1>2 DEF WInv, OnePutter, PutState
<1>3. CASE pc[q] = "repair_await"
  <2>1. objects[obj[q]] # None
    BY <1>3 DEF WInv, ClientW, RepairOK
  <2>2. objects[obj[p]] = None
    BY DEF WInv, ClientW, PutOK
  <2> QED BY <2>1, <2>2
<1> QED BY <1>1, <1>2, <1>3

\* Nor the object of a running repair pass.
LEMMA RepairerAlone ==
    ASSUME IInv, WInv, RepairsAlone, NEW p \in Client,
           pc[p] \in {"repair_send", "repair_await"},
           NEW q \in Client, q # p, rpc[q] = "done", pc[q] # "dead"
    PROVE  obj[q] # obj[p]
<1>1. pc[q] \in {"await", "repair_await"}
  BY DEF IInv, ClientOK, LocalsOK
<1>2. CASE pc[q] = "await"
  <2>1. objects[obj[p]] # None
    BY DEF WInv, ClientW, RepairOK
  <2>2. objects[obj[q]] = None
    BY <1>2 DEF WInv, ClientW, PutOK, PutState
  <2> QED BY <2>1, <2>2
<1>3. CASE pc[q] = "repair_await"
  BY <1>3 DEF RepairsAlone, RepairState
<1> QED BY <1>1, <1>2, <1>3

\* The Put of a put_object keeps the invariant.
LEMMA PutSendStep ==
    ASSUME IInv, WInv, NEW p \in Client, PutSend(p)
    PROVE  WInv'
<1>0. ClientW(p) /\ LocalsOK(p) /\ pc[p] = "replicate"
  BY DEF WInv, IInv, ClientOK, PutSend
<1>1. PICK n \in Node :
        /\ n \in todo[p]
        /\ PutCall(p, n, obj[p])
        /\ target' = [target EXCEPT ![p] = n]
        /\ todo' = [todo EXCEPT ![p] = @ \ {n}]
  BY DEF PutSend, IInv, TypeOK, ClientTypeOK
<1>2. /\ obj[p] \in Object
      /\ <<obj[p], n>> \notin replicas /\ data[p] = latest[obj[p]]
  BY <1>0, <1>1
     DEF IInv, TypeOK, ClientTypeOK, LocalsOK, ClientW, PutOK, PutState
<1>3. /\ UNCHANGED <<objects, replicas, latest, issued, obj, data, queue, result>>
      /\ pc' = [pc EXCEPT ![p] = "await"]
  BY DEF PutSend, Goto, registryVars, historyVars
<1>4. Sends(p)
  BY <1>0, <1>1, <1>3 DEF IInv, TypeOK, ClientTypeOK, Sends
<1>5. PutOK(p)'
  BY <1>0, <1>1, <1>2, <1>3
     DEF IInv, TypeOK, ClientTypeOK, ClientW, PutOK, PutState
<1>6. RepairOK(p)'
  BY <1>0, <1>3 DEF IInv, TypeOK, ClientTypeOK, ClientW, RepairOK
<1>7. AloneOn(p)
  BY <1>0, PutterAlone DEF PutState, AloneOn
<1> QED BY <1>1, <1>2, <1>4, <1>5, <1>6, <1>7, SendStep

\* The Put of a repair keeps it: nobody else repairs.
LEMMA RepairSendStep ==
    ASSUME IInv, WInv, RepairsAlone, NEW p \in Client, RepairSend(p)
    PROVE  WInv'
<1>0. ClientW(p) /\ LocalsOK(p) /\ pc[p] = "repair_send"
  BY DEF WInv, IInv, ClientOK, RepairSend
<1>1. /\ PutCall(p, target[p], obj[p])
      /\ pc' = [pc EXCEPT ![p] = "repair_await"]
      /\ UNCHANGED <<objects, replicas, latest, issued, obj, data, queue, result,
                     todo, target>>
  BY DEF RepairSend, Goto, registryVars, historyVars
<1>2. /\ target[p] \in Node /\ obj[p] \in Object
      /\ <<obj[p], target[p]>> \notin replicas /\ data[p] = latest[obj[p]]
  BY <1>0 DEF LocalsOK, ClientW, RepairOK
<1>3. Sends(p)
  BY <1>0, <1>1 DEF IInv, TypeOK, ClientTypeOK, Sends
<1>4. PutOK(p)'
  BY <1>1 DEF IInv, TypeOK, ClientTypeOK, PutOK, PutState
<1>5. RepairOK(p)'
  BY <1>0, <1>1, <1>2 DEF ClientW, RepairOK
<1>6. AloneOn(p)
  BY <1>0, RepairerAlone DEF AloneOn
<1> QED BY <1>1, <1>2, <1>3, <1>4, <1>5, <1>6, SendStep

\* The record of an answered Put of put_object keeps the invariant.
LEMMA PutAckedStep ==
    ASSUME IInv, WInv, NEW p \in Client, PutAcked(p)
    PROVE  WInv'
<1> USE ContentAssumption
<1> USE DEF IInv, TypeOK, NodeTypeOK, RegistryTypeOK, ClientTypeOK, PutState
<1>0. /\ ClientW(p) /\ LocalsOK(p) /\ PutBacked(p)
      /\ pc[p] = "await" /\ rpc[p] = "done"
  BY DEF WInv, ClientOK, PutAcked
<1>1. /\ replicas' = replicas \cup {<<obj[p], target[p]>>}
      /\ target' = [target EXCEPT ![p] = None]
      /\ rpc' = [rpc EXCEPT ![p] = "none"]
      /\ pc' = [pc EXCEPT ![p] = "replicate"]
      /\ UNCHANGED <<disk, objects, latest, issued, obj, data, todo, queue,
                     result>>
  BY DEF PutAcked, RecordReplica, Goto, historyVars
<1>2. FromOnePut'
  BY <1>1 DEF WInv, FromOnePut
<1>3. RowsWhole'
  <2>1. disk[target[p]][obj[p]] = latest[obj[p]]
    BY <1>0 DEF ClientW, RpcOK
  <2> QED BY <1>1, <2>1 DEF WInv, RowsWhole
<1>4. OnePutter'
  BY <1>0, <1>1 DEF WInv, OnePutter
<1>5. ASSUME NEW q \in Client PROVE ClientW(q)'
  <2>0. ClientW(q)
    BY DEF WInv
  <2>1. CASE q = p
    BY <1>0, <1>1, <2>1
       DEF ClientW, PutOK, RepairOK, RpcOK, ReadOK, RepairState
  <2>2. CASE q # p
    <3>1. /\ pc'[q] = pc[q] /\ obj'[q] = obj[q] /\ data'[q] = data[q]
          /\ todo'[q] = todo[q] /\ target'[q] = target[q]
          /\ rpc'[q] = rpc[q]
      BY <1>1, <2>2
    <3>2. pc[q] \in PutState => obj[q] # obj[p]
      BY <1>0, <2>2 DEF WInv, OnePutter
    <3>3. PutOK(q)'
      BY <1>1, <2>0, <3>1, <3>2 DEF ClientW, PutOK
    <3>4. RepairOK(q)'
      <4>1. pc[q] \in {"repair_send", "repair_await"} => obj[q] # obj[p]
        BY <1>0, <2>0 DEF ClientW, PutOK, RepairOK
      <4> QED BY <1>1, <2>0, <3>1, <4>1 DEF ClientW, RepairOK
    <3>5. RpcOK(q)' /\ ReadOK(q)'
      BY <1>1, <2>0, <3>1 DEF ClientW, RpcOK, ReadOK
    <3> QED BY <3>3, <3>4, <3>5 DEF ClientW
  <2> QED BY <2>1, <2>2
<1> QED BY <1>2, <1>3, <1>4, <1>5 DEF WInv

\* So does the record of a repaired replica, when nobody else repairs.
LEMMA RepairAckedStep ==
    ASSUME IInv, WInv, RepairsAlone, NEW p \in Client, RepairAcked(p)
    PROVE  WInv'
<1> USE ContentAssumption
<1> USE DEF IInv, TypeOK, NodeTypeOK, RegistryTypeOK, ClientTypeOK, RepairState
<1>0. /\ ClientW(p) /\ LocalsOK(p) /\ PutBacked(p)
      /\ pc[p] = "repair_await" /\ rpc[p] = "done"
  BY DEF WInv, ClientOK, RepairAcked
<1>1. /\ replicas' = replicas \cup {<<obj[p], target[p]>>}
      /\ target' = [target EXCEPT ![p] = None]
      /\ rpc' = [rpc EXCEPT ![p] = "none"]
      /\ pc' = [pc EXCEPT ![p] = "next"]
      /\ data' = [data EXCEPT ![p] = None]
      /\ todo' = [todo EXCEPT ![p] = {}]
      /\ UNCHANGED <<disk, objects, latest, issued, obj, queue, result>>
  BY DEF RepairAcked, RecordReplica, Return, Goto, historyVars
<1>2. FromOnePut'
  BY <1>1 DEF WInv, FromOnePut
<1>3. RowsWhole'
  <2>1. disk[target[p]][obj[p]] = latest[obj[p]]
    BY <1>0 DEF ClientW, RpcOK
  <2> QED BY <1>1, <2>1 DEF WInv, RowsWhole
<1>4. OnePutter'
  BY <1>0, <1>1 DEF WInv, OnePutter, PutState
<1>5. ASSUME NEW q \in Client PROVE ClientW(q)'
  <2>0. ClientW(q)
    BY DEF WInv
  <2>1. CASE q = p
    BY <1>0, <1>1, <2>1
       DEF ClientW, PutOK, RepairOK, RpcOK, ReadOK, PutState
  <2>2. CASE q # p
    <3>1. /\ pc'[q] = pc[q] /\ obj'[q] = obj[q] /\ data'[q] = data[q]
          /\ todo'[q] = todo[q] /\ target'[q] = target[q]
          /\ rpc'[q] = rpc[q]
      BY <1>1, <2>2
    <3>2. PutOK(q)'
      <4>1. pc[q] \in PutState => obj[q] # obj[p]
        BY <1>0, <2>0 DEF ClientW, PutOK, RepairOK
      <4> QED BY <1>1, <2>0, <3>1, <4>1 DEF ClientW, PutOK, PutState
    <3>3. RepairOK(q)'
      <4>1. pc[q] \notin {"repair_send", "repair_await"}
        BY <1>0, <2>2 DEF RepairsAlone
      <4> QED BY <1>1, <2>0, <3>1, <4>1 DEF ClientW, RepairOK
    <3>4. RpcOK(q)' /\ ReadOK(q)'
      BY <1>1, <2>0, <3>1 DEF ClientW, RpcOK, ReadOK
    <3> QED BY <3>2, <3>3, <3>4 DEF ClientW
  <2> QED BY <2>1, <2>2
<1> QED BY <1>2, <1>3, <1>4, <1>5 DEF WInv

\* So does the registration.
LEMMA PutFinishStep ==
    ASSUME IInv, WInv, NEW p \in Client, PutFinish(p)
    PROVE  WInv'
<1> USE ContentAssumption
<1> USE DEF IInv, TypeOK, NodeTypeOK, RegistryTypeOK, ClientTypeOK, PutState
<1>0. ClientW(p) /\ LocalsOK(p) /\ pc[p] = "replicate"
  BY DEF WInv, ClientOK, PutFinish
<1>1. /\ UNCHANGED <<disk, rpc, replicas, latest, issued, obj, target, queue,
                     result>>
      /\ pc' = [pc EXCEPT ![p] = "idle"]
      /\ data' = [data EXCEPT ![p] = None]
      /\ todo' = [todo EXCEPT ![p] = {}]
      /\ objects' = objects \/ objects' = [objects EXCEPT ![obj[p]] = data[p]]
  BY DEF PutFinish, Register, Return, Goto, nodeVars, historyVars
<1>2. data[p] = latest[obj[p]] /\ data[p] \in Version /\ obj[p] \in Object
  BY <1>0 DEF ClientW, PutOK, LocalsOK
<1>3. /\ \A o \in Object : objects[o] # None => objects'[o] # None
      /\ \A o \in Object : o # obj[p] => objects'[o] = objects[o]
  BY <1>1, <1>2
<1>4. FromOnePut'
  BY <1>1, <1>2 DEF WInv, FromOnePut
<1>5. RowsWhole'
  BY <1>1 DEF WInv, RowsWhole
<1>6. OnePutter'
  BY <1>0, <1>1 DEF WInv, OnePutter
<1>7. ASSUME NEW q \in Client PROVE ClientW(q)'
  <2>0. ClientW(q) /\ LocalsOK(q) /\ queue[q] \in RepairQueue
    BY DEF WInv, ClientOK
  <2>1. CASE q = p
    <3>1. rpc[p] = "none"
      BY <1>0 DEF LocalsOK
    <3> QED
      BY <1>0, <1>1, <1>3, <2>0, <2>1, <3>1
         DEF ClientW, PutOK, RepairOK, RpcOK, ReadOK, RepairState, RepairQueue
  <2>2. CASE q # p
    <3>1. /\ pc'[q] = pc[q] /\ obj'[q] = obj[q] /\ data'[q] = data[q]
          /\ todo'[q] = todo[q]
      BY <1>1, <2>2
    <3>2. PutOK(q)'
      <4>1. pc[q] \in PutState => obj[q] # obj[p] /\ obj[q] \in Object
        BY <1>0, <2>0, <2>2 DEF WInv, OnePutter, LocalsOK
      <4> QED BY <1>1, <1>3, <2>0, <3>1, <4>1 DEF ClientW, PutOK
    <3>3. RepairOK(q)'
      BY <1>1, <1>3, <2>0, <3>1 DEF ClientW, RepairOK, LocalsOK, RepairQueue
    <3>4. RpcOK(q)' /\ ReadOK(q)'
      BY <1>1, <2>0, <3>1 DEF ClientW, RpcOK, ReadOK
    <3> QED BY <3>2, <3>3, <3>4 DEF ClientW
  <2> QED BY <2>1, <2>2
<1> QED BY <1>4, <1>5, <1>6, <1>7 DEF WInv

\* A node that completes a Put makes the file whole.
LEMMA ServeStep ==
    ASSUME IInv, WInv, NEW p \in Client, Serve(p)
    PROVE  WInv'
<1> USE ContentAssumption
<1> USE DEF IInv, TypeOK, NodeTypeOK, RegistryTypeOK, ClientTypeOK, Content,
        File
<1>0. ClientW(p) /\ LocalsOK(p) /\ PutBacked(p) /\ rpc[p] = "writing"
  BY DEF WInv, ClientOK, Serve, PutWrite
<1>1. /\ target[p] \in Node /\ obj[p] \in Object
      /\ data[p] = latest[obj[p]]
      /\ disk[target[p]][obj[p]] \in {Torn, data[p]}
  BY <1>0 DEF ClientW, RpcOK, PutBacked, WInv, FromOnePut
<1>2. /\ disk' = [disk EXCEPT ![target[p]][obj[p]] = latest[obj[p]]]
      /\ rpc' = [rpc EXCEPT ![p] = "done"]
      /\ UNCHANGED <<objects, replicas, latest, issued, pc, obj, data, todo,
                     target, queue, result>>
  BY <1>1
     DEF Serve, PutWrite, AfterWrite, registryVars, clientVars, historyVars
<1>3. /\ \A n \in Node, o \in Object :
            disk'[n][o] = disk[n][o] \/ disk'[n][o] = latest[o]
      /\ disk'[target[p]][obj[p]] = latest[obj[p]]
  BY <1>1, <1>2
<1>4. FromOnePut'
  BY <1>2, <1>3 DEF WInv, FromOnePut
<1>5. RowsWhole'
  BY <1>2, <1>3 DEF WInv, RowsWhole
<1>6. OnePutter'
  BY <1>2 DEF WInv, OnePutter
<1>7. ASSUME NEW q \in Client PROVE ClientW(q)'
  <2>0. ClientW(q) /\ PutBacked(q)
    BY DEF WInv, ClientOK
  <2>1. PutOK(q)' /\ RepairOK(q)' /\ ReadOK(q)'
    BY <1>2, <2>0 DEF ClientW, PutOK, RepairOK, ReadOK
  <2>2. RpcOK(q)'
    <3>1. CASE q = p
      BY <1>1, <1>2, <1>3, <3>1 DEF RpcOK
    <3>2. CASE q # p
      BY <1>2, <1>3, <2>0, <3>2 DEF ClientW, RpcOK, PutBacked
    <3> QED BY <3>1, <3>2
  <2> QED BY <2>1, <2>2 DEF ClientW
<1> QED BY <1>4, <1>5, <1>6, <1>7 DEF WInv

\* Nodes that crash or come back change no file; calls end, none is answered.
LEMMA NodeStep ==
    ASSUME IInv, WInv, NEW n \in Node, Crash(n) \/ Restart(n)
    PROVE  WInv'
<1>1. /\ UNCHANGED <<disk, objects, replicas, latest, issued, pc, obj, data,
                     todo, target, queue, result>>
      /\ \A q \in Client : rpc'[q] = rpc[q] \/ rpc'[q] = "error"
  BY DEF IInv, TypeOK, NodeTypeOK, Crash, Restart, NodeCrash, NodeRestart,
         registryVars, clientVars, historyVars
<1>2. FromOnePut' /\ RowsWhole' /\ OnePutter'
  BY <1>1 DEF WInv, FromOnePut, RowsWhole, OnePutter
<1>3. ASSUME NEW q \in Client PROVE ClientW(q)'
  BY <1>1 DEF WInv, ClientW, PutOK, RepairOK, RpcOK, ReadOK
<1> QED BY <1>2, <1>3 DEF WInv

\* Every step keeps the invariant while the store is used as a write-once
\* store.
LEMMA NextWInv ==
    IInv /\ WInv /\ WriteOnce /\ WriteOnce' /\ [Next]_vars => WInv'
<1> SUFFICES ASSUME IInv, WInv, WriteOnce, WriteOnce', [Next]_vars PROVE WInv'
  OBVIOUS
<1>1. ASSUME NEW p \in Client, NEW o \in Object, NEW v \in Version,
             PutStart(p, o, v)
      PROVE  WInv'
  BY <1>1, NextIInv, PutStartStep DEF WriteOnce
<1>2. ASSUME NEW p \in Client, NEW o \in Object, GetStart(p, o) PROVE WInv'
  BY <1>2, QuietSteps, LocalStep
<1>3. ASSUME NEW p \in Client, RepairStart(p) \/ Kill(p) PROVE WInv'
  BY <1>3, QuietSteps, LocalStep
<1>4. ASSUME NEW p \in Client, Continue(p) PROVE WInv'
  <2>1. CASE PutSend(p) \/ RepairSend(p)
    BY <2>1, PutSendStep, RepairSendStep DEF WriteOnce
  <2>2. CASE PutAcked(p) \/ RepairAcked(p) \/ PutFinish(p)
    BY <2>2, PutAckedStep, RepairAckedStep, PutFinishStep DEF WriteOnce
  <2>3. CASE ~ (\/ PutSend(p) \/ RepairSend(p) \/ PutAcked(p)
                \/ RepairAcked(p) \/ PutFinish(p))
    BY <1>4, <2>3, QuietSteps, LocalStep DEF Continue
  <2> QED BY <2>1, <2>2, <2>3
<1>5. ASSUME NEW p \in Client, Serve(p) PROVE WInv'
  BY <1>5, ServeStep
<1>6. ASSUME NEW n \in Node, Crash(n) \/ Restart(n) PROVE WInv'
  BY <1>6, NodeStep
<1>7. CASE UNCHANGED vars
  BY <1>7
     DEF vars, nodeVars, registryVars, clientVars, historyVars, WInv,
         FromOnePut, RowsWhole, OnePutter, ClientW, PutOK, RepairOK, RpcOK,
         ReadOK
<1> QED BY <1>1, <1>2, <1>3, <1>4, <1>5, <1>6, <1>7 DEF Next

\* The invariant holds as long as the store is used as a write-once store.
THEOREM SpecWInv == Spec /\ []WriteOnce => []WInv
<1>1. IInv /\ WInv /\ WriteOnce /\ WriteOnce' /\ [Next]_vars => WInv'
  BY NextWInv
<1> QED BY InitWInv, SpecIInv, <1>1, PTL DEF Spec

\* Every row names a node with the whole payload, whatever crashes.
THEOREM RowsAreWhole == Spec /\ []WriteOnce => []RowsWhole
<1>1. WInv => RowsWhole
  BY DEF WInv
<1> QED BY <1>1, SpecWInv, PTL

\* get_object answers with what was put, or not at all.
THEOREM ReadsAreWhole == Spec /\ []WriteOnce => []ReadsWhole
<1>1. WInv => ReadsWhole
  BY DEF WInv, ClientW, ReadOK, ReadsWhole
<1> QED BY <1>1, SpecWInv, PTL

\* A repair adds a replica and truncates none.
THEOREM RepairTargetsAreNew == Spec /\ []WriteOnce => []RepairTargetIsNew
<1>1. WInv => RepairTargetIsNew
  BY StoreAssumption
     DEF WInv, ClientW, RepairOK, RepairTargetIsNew, GetReplicaNodes
<1> QED BY <1>1, SpecWInv, PTL

-----------------------------------------------------------------------------
(* The refinement of WriteOnceStore *)

\* The abstract state of the initial state is initial.
LEMMA InitAbstract == Init => Abstract!Init
<1> SUFFICES ASSUME Init PROVE Abstract!Init
  OBVIOUS
<1> QED BY DEF Init, RegistryInit, Abstract!Init, GetReplicaNodes, ListAll,
               Lookup

\* The objects a get can find: those with a row.
HaveRows == {o \in Object : GetReplicaNodes(o) # {}}

\* They change with the rows, and the listed ones with the table of objects.
LEMMA RowsUnchanged == UNCHANGED replicas => UNCHANGED HaveRows
  BY DEF HaveRows, GetReplicaNodes

LEMMA ListUnchanged == UNCHANGED objects => UNCHANGED ListAll
  BY DEF ListAll, Lookup

\* Recording a replica makes its object readable.
LEMMA RowAdded ==
    ASSUME NEW o \in Object, NEW n \in Node,
           replicas' = replicas \cup {<<o, n>>}
    PROVE  HaveRows' = HaveRows \cup {o}
<1>1. ASSUME NEW x \in Object
      PROVE  GetReplicaNodes(x)' =
                GetReplicaNodes(x) \cup (IF x = o THEN {n} ELSE {})
  BY DEF GetReplicaNodes
<1> QED BY <1>1 DEF HaveRows

\* A step that leaves the puts, the tables and the answers alone stutters.
LEMMA Stutters ==
    ASSUME UNCHANGED <<latest, objects, replicas, result>>
    PROVE  UNCHANGED Abstract!vars
  BY RowsUnchanged, ListUnchanged DEF Abstract!vars, HaveRows

\* Every step of the store is a step of WriteOnceStore, or stutters.
LEMMA NextAbstract ==
    IInv /\ WInv /\ WriteOnce' /\ [Next]_vars => [Abstract!Next]_Abstract!vars
<1> SUFFICES ASSUME IInv, WInv, WriteOnce', [Next]_vars
             PROVE  Abstract!Next \/ UNCHANGED Abstract!vars
  OBVIOUS
<1> USE ContentAssumption, StoreAssumption
<1>0. /\ objects \in [Object -> Version \cup {None}]
      /\ result \in [Client -> File \cup {NotFound, None}]
      /\ todo \in [Client -> SUBSET Node]
      /\ \A p \in Client : ClientOK(p) /\ ClientW(p)
  BY DEF IInv, WInv, TypeOK, RegistryTypeOK, ClientTypeOK
<1> USE DEF registryVars, clientVars, historyVars
<1>1. ASSUME NEW p \in Client, NEW o \in Object, NEW v \in Version,
             PutStart(p, o, v)
      PROVE  Abstract!Next
  <2>1. latest[o] = None
    BY <1>1, FirstPut DEF WriteOnce
  <2>2. Abstract!Put(p, o, v)
    BY <1>1, <2>1, RowsUnchanged, ListUnchanged
       DEF PutStart, Abstract!Put, HaveRows
  <2> QED BY <2>2 DEF Abstract!Next
<1>2. ASSUME NEW p \in Client, NEW o \in Object, GetStart(p, o)
      PROVE  Abstract!Next
  <2>1. UNCHANGED <<latest, HaveRows, ListAll>>
    BY <1>2, RowsUnchanged, ListUnchanged DEF GetStart
  <2>2. \/ result' = [result EXCEPT ![p] = None]
        \/ result' = [result EXCEPT ![p] = NotFound]
    BY <1>2 DEF GetStart
  <2>3. Abstract!Call(p) \/ Abstract!AnswerNotFound(p)
    BY <2>1, <2>2 DEF Abstract!Call, Abstract!AnswerNotFound, HaveRows
  <2> QED BY <2>3 DEF Abstract!Next
<1>3. ASSUME NEW p \in Client, RepairStart(p) PROVE Abstract!Next
  <2>1. Abstract!Call(p)
    BY <1>3, RowsUnchanged, ListUnchanged
       DEF RepairStart, Abstract!Call, HaveRows
  <2> QED BY <2>1 DEF Abstract!Next
<1>4. ASSUME NEW p \in Client, GetAnswered(p) PROVE Abstract!Next
  <2>1. PICK n \in Node :
          /\ n \in todo[p]
          /\ result' = [result EXCEPT ![p] = disk[n][obj[p]]]
    BY <1>0, <1>4 DEF GetAnswered
  <2>2. <<obj[p], n>> \in replicas /\ obj[p] \in Object
    BY <1>0, <1>4, <2>1 DEF GetAnswered, ClientW, ReadOK, ClientOK, LocalsOK
  <2>3. disk[n][obj[p]] = latest[obj[p]]
    BY <2>2 DEF WInv, RowsWhole
  <2>4. UNCHANGED <<latest, HaveRows, ListAll>>
    BY <1>4, RowsUnchanged, ListUnchanged DEF GetAnswered
  <2>5. obj[p] \in HaveRows
    BY <2>1, <2>2 DEF HaveRows, GetReplicaNodes
  <2>6. \E o \in Object : Abstract!AnswerPayload(p, o)
    BY <2>1, <2>2, <2>3, <2>4, <2>5 DEF Abstract!AnswerPayload, HaveRows
  <2> QED BY <2>6 DEF Abstract!Next
<1>5. ASSUME NEW p \in Client, GetFailed(p)
      PROVE  Abstract!Next \/ UNCHANGED Abstract!vars
  <2>1. CASE UNCHANGED result
    BY <1>5, <2>1, Stutters DEF GetFailed
  <2>2. CASE result' = [result EXCEPT ![p] = NotFound]
    <3>1. Abstract!AnswerNotFound(p)
      BY <1>5, <2>2, RowsUnchanged, ListUnchanged
         DEF GetFailed, Abstract!AnswerNotFound, HaveRows
    <3> QED BY <3>1 DEF Abstract!Next
  <2> QED BY <1>5, <2>1, <2>2 DEF GetFailed
<1>6. ASSUME NEW p \in Client, PutAcked(p) \/ RepairAcked(p)
      PROVE  Abstract!Next
  <2>1. /\ rpc[p] = "done" /\ pc[p] # "dead"
        /\ replicas' = replicas \cup {<<obj[p], target[p]>>}
        /\ UNCHANGED <<latest, objects, result>>
    BY <1>6 DEF PutAcked, RepairAcked, RecordReplica
  <2>2. target[p] \in Node /\ obj[p] \in Object /\ data[p] = latest[obj[p]]
        /\ data[p] \in File
    BY <1>0, <2>1 DEF ClientW, RpcOK, ClientOK, PutBacked
  <2>3. latest[obj[p]] # None
    BY <2>2 DEF File
  <2>4. HaveRows' = HaveRows \cup {obj[p]} /\ UNCHANGED ListAll
    BY <2>1, <2>2, RowAdded, ListUnchanged
  <2>5. \E o \in Object : Abstract!BecomesReadable(o)
    BY <2>1, <2>2, <2>3, <2>4 DEF Abstract!BecomesReadable, HaveRows
  <2> QED BY <2>5 DEF Abstract!Next
<1>7. ASSUME NEW p \in Client, PutFinish(p)
      PROVE  Abstract!Next \/ UNCHANGED Abstract!vars
  <2>1. UNCHANGED <<latest, replicas, result>>
    BY <1>7 DEF PutFinish
  <2>2. CASE UNCHANGED objects
    BY <2>1, <2>2, Stutters
  <2>3. CASE acks[p] # {} /\ Register(obj[p], data[p])
    <3>1. obj[p] \in Object /\ data[p] \in Version
      BY <1>0, <1>7 DEF PutFinish, ClientOK, LocalsOK, PutState
    <3>2. PICK n \in Node : n \in acks[p]
      BY <2>3 DEF IInv, TypeOK, ClientTypeOK
    <3>3. obj[p] \in HaveRows
      BY <1>0, <3>1, <3>2 DEF ClientOK, AcksRecorded, HaveRows, GetReplicaNodes
    <3>4. objects' = [objects EXCEPT ![obj[p]] = data[p]]
      BY <2>3 DEF Register
    <3>5. ListAll' = ListAll \cup {obj[p]} /\ UNCHANGED HaveRows
      BY <1>0, <2>1, <3>1, <3>4, RowsUnchanged DEF ListAll, Lookup
    <3>6. \E o \in Object : Abstract!BecomesListed(o)
      BY <2>1, <3>1, <3>3, <3>5 DEF Abstract!BecomesListed, HaveRows
    <3> QED BY <3>6 DEF Abstract!Next
  <2> QED BY <1>7, <2>2, <2>3 DEF PutFinish
<1>8. ASSUME NEW p \in Client,
             \/ PutAuction(p) \/ PutSend(p) \/ PutFailed(p)
             \/ RepairList(p) \/ RepairScan(p) \/ RepairNext(p)
             \/ RepairDone(p) \/ RepairRead(p) \/ RepairReadFailed(p)
             \/ RepairPick(p) \/ RepairSend(p) \/ RepairFailed(p)
             \/ Serve(p) \/ Kill(p)
      PROVE  UNCHANGED Abstract!vars
  <2>1. UNCHANGED <<latest, objects, replicas, result>>
    BY <1>8
       DEF PutAuction, PutSend, PutFailed, RepairList, RepairScan, RepairNext,
           RepairDone, RepairRead, RepairReadFailed, RepairPick, RepairSend,
           RepairFailed, Serve, Kill
  <2> QED BY <2>1, Stutters
<1>9. ASSUME NEW n \in Node, Crash(n) \/ Restart(n)
      PROVE  UNCHANGED Abstract!vars
  <2>1. UNCHANGED <<latest, objects, replicas, result>>
    BY <1>9 DEF Crash, Restart
  <2> QED BY <2>1, Stutters
<1>10. CASE UNCHANGED vars
  BY <1>10, Stutters DEF vars
<1> QED
  BY <1>1, <1>2, <1>3, <1>4, <1>5, <1>6, <1>7, <1>8, <1>9, <1>10
     DEF Next, Continue

\* To callers that put every id once, the store is the write-once register of
\* WriteOnceStore, crashes, killed callers and repairs included.
THEOREM StoreIsWriteOnce == Spec /\ []WriteOnce => IsWriteOnceStore
<1>1. IInv /\ WInv /\ WriteOnce' /\ [Next]_vars
        => [Abstract!Next]_Abstract!vars
  BY NextAbstract
<1> QED
  BY InitAbstract, SpecIInv, SpecWInv, <1>1, PTL
     DEF Spec, IsWriteOnceStore, Abstract!Spec

-----------------------------------------------------------------------------
(* Constants that make the condition hold *)

\* Only the repairers run repair passes.
RepairersRepair == \A p \in Client : pc[p] \in RepairState => p \in Repairer

\* Every step keeps that.
LEMMA NextRepairers ==
    IInv /\ RepairersRepair /\ [Next]_vars => RepairersRepair'
<1> SUFFICES ASSUME IInv, RepairersRepair, [Next]_vars PROVE RepairersRepair'
  OBVIOUS
<1>0. pc \in [Client -> Pc]
  BY DEF IInv, TypeOK, ClientTypeOK
<1> USE <1>0 DEF RepairersRepair, RepairState, Goto, Return
<1>1. ASSUME NEW p \in Client, NEW o \in Object, NEW v \in Version,
             PutStart(p, o, v)
      PROVE  RepairersRepair'
  BY <1>1 DEF PutStart
<1>2. ASSUME NEW p \in Client, NEW o \in Object, GetStart(p, o)
      PROVE  RepairersRepair'
  BY <1>2 DEF GetStart
<1>3. ASSUME NEW p \in Client, RepairStart(p) \/ Kill(p)
      PROVE  RepairersRepair'
  BY <1>3 DEF RepairStart, Kill
<1>4. ASSUME NEW p \in Client, Continue(p) PROVE RepairersRepair'
  <2>1. CASE \/ PutAuction(p) \/ PutSend(p) \/ PutAcked(p) \/ PutFailed(p)
             \/ PutFinish(p) \/ GetAnswered(p) \/ GetFailed(p)
    BY <2>1 DEF PutAuction, PutSend, PutAcked, PutFailed, PutFinish,
                GetAnswered, GetFailed
  <2>2. CASE \/ RepairList(p) \/ RepairScan(p) \/ RepairNext(p)
             \/ RepairDone(p) \/ RepairRead(p) \/ RepairReadFailed(p)
    BY <2>2 DEF RepairList, RepairScan, RepairNext, RepairDone, RepairRead,
                RepairReadFailed
  <2>3. CASE \/ RepairPick(p) \/ RepairSend(p) \/ RepairAcked(p)
             \/ RepairFailed(p)
    BY <2>3 DEF RepairPick, RepairSend, RepairAcked, RepairFailed
  <2> QED BY <1>4, <2>1, <2>2, <2>3 DEF Continue
<1>5. ASSUME NEW p \in Client, Serve(p) PROVE RepairersRepair'
  BY <1>5 DEF Serve, clientVars
<1>6. ASSUME NEW n \in Node, Crash(n) \/ Restart(n) PROVE RepairersRepair'
  BY <1>6 DEF Crash, Restart, clientVars
<1>7. CASE UNCHANGED vars
  BY <1>7 DEF vars, clientVars
<1> QED BY <1>1, <1>2, <1>3, <1>4, <1>5, <1>6, <1>7 DEF Next

\* A control plane with one repairing thread, whose callers have one payload
\* per id, uses the store as a write-once store (the instance the runs check).
THEOREM OneRepairerWritesOnce ==
    ASSUME \A p, q \in Repairer : p = q, \A v, w \in Version : v = w
    PROVE  Spec => []WriteOnce
<1>1. Init => RepairersRepair
  BY DEF Init, RepairersRepair, RepairState
<1>2. IInv /\ RepairersRepair /\ [Next]_vars => RepairersRepair'
  BY NextRepairers
<1>3. RepairersRepair => WriteOnce
  BY DEF WriteOnce, PutsOnce, RepairsAlone, RepairersRepair
<1> QED BY SpecIInv, <1>1, <1>2, <1>3, PTL DEF Spec
=============================================================================

---------------------------- MODULE AdminAPIProofs ----------------------------
(***************************************************************************)
(* Proofs about AdminAPI, for every instance: its types, and that a        *)
(* response reports no object without a replica; and, of a store used as a *)
(* write-once store (WriteOnce), that the nodes it reports hold what it    *)
(* says of the object.                                                     *)
(*                                                                         *)
(* A response joins two reads made at different times.  That is harmless   *)
(* because what it has read of the tables stays true: rows are never       *)
(* removed (RegistryGrows), and the payload of an id put once never        *)
(* changes (PutsStay).                                                     *)
(***************************************************************************)
EXTENDS AdminAPI, WriteOnceProofs

\* A listing in progress takes the store's steps, and no other.
LEMMA ApiSpecSpec == ApiSpec => Spec
<1>1. ApiInit => Init
  BY DEF ApiInit
<1>2. [ApiNext]_allVars => [Next]_vars
  BY DEF ApiNext, allVars, GetObjects, GetObjectSummary, Fetch, JoinReplicas
<1> QED BY <1>1, <1>2, PTL DEF ApiSpec, Spec

-----------------------------------------------------------------------------
(* What the steps of the store leave in the tables *)

\* Rows are never removed, neither of objects nor of replicas.
RegistryGrows ==
    /\ replicas \subseteq replicas'
    /\ \A o \in Object : objects[o] # None => objects'[o] # None

LEMMA NextGrows == ASSUME IInv, [Next]_vars PROVE RegistryGrows
<1> USE DEF RegistryGrows, registryVars
<1>1. ASSUME NEW p \in Client, NEW o \in Object, NEW v \in Version,
             PutStart(p, o, v)
      PROVE  RegistryGrows
  BY <1>1 DEF PutStart
<1>2. ASSUME NEW p \in Client, NEW o \in Object, GetStart(p, o)
      PROVE  RegistryGrows
  BY <1>2 DEF GetStart
<1>3. ASSUME NEW p \in Client, RepairStart(p) \/ Serve(p) \/ Kill(p)
      PROVE  RegistryGrows
  BY <1>3 DEF RepairStart, Serve, Kill
<1>4. ASSUME NEW p \in Client, PutAcked(p) \/ RepairAcked(p)
      PROVE  RegistryGrows
  BY <1>4 DEF PutAcked, RepairAcked, RecordReplica
<1>5. ASSUME NEW p \in Client, PutFinish(p) PROVE RegistryGrows
  <2>1. data[p] \in Version
    BY <1>5 DEF IInv, ClientOK, LocalsOK, PutFinish, PutState
  <2>2. \/ UNCHANGED objects
        \/ objects' = [objects EXCEPT ![obj[p]] = data[p]]
    BY <1>5 DEF PutFinish, Register
  <2>3. UNCHANGED replicas
    BY <1>5 DEF PutFinish
  <2> QED
    BY <2>1, <2>2, <2>3, ContentAssumption DEF IInv, TypeOK, RegistryTypeOK
<1>6. ASSUME NEW p \in Client,
             \/ PutAuction(p) \/ PutSend(p) \/ PutFailed(p)
             \/ GetAnswered(p) \/ GetFailed(p)
             \/ RepairList(p) \/ RepairScan(p) \/ RepairNext(p)
             \/ RepairDone(p) \/ RepairRead(p) \/ RepairReadFailed(p)
             \/ RepairPick(p) \/ RepairSend(p) \/ RepairFailed(p)
      PROVE  RegistryGrows
  BY <1>6
     DEF PutAuction, PutSend, PutFailed, GetAnswered, GetFailed, RepairList,
         RepairScan, RepairNext, RepairDone, RepairRead, RepairReadFailed,
         RepairPick, RepairSend, RepairFailed
<1>7. ASSUME NEW n \in Node, Crash(n) \/ Restart(n) PROVE RegistryGrows
  BY <1>7 DEF Crash, Restart
<1>8. CASE UNCHANGED vars
  BY <1>8 DEF vars
<1> QED
  BY <1>1, <1>2, <1>3, <1>4, <1>5, <1>6, <1>7, <1>8 DEF Next, Continue

\* A payload once put under an id stays its payload.
PutsStay == \A o \in Object : latest[o] # None => latest'[o] = latest[o]

LEMMA NextPutsStay ==
    ASSUME IInv, WInv, PutsOnce', [Next]_vars PROVE PutsStay
<1> USE DEF PutsStay, historyVars
<1>1. ASSUME NEW p \in Client, NEW o \in Object, NEW v \in Version,
             PutStart(p, o, v)
      PROVE  PutsStay
  <2>1. latest[o] = None
    BY <1>1, FirstPut
  <2>2. latest' = [latest EXCEPT ![o] = v]
    BY <1>1 DEF PutStart
  <2> QED BY <2>1, <2>2 DEF IInv, TypeOK, HistoryTypeOK
<1>2. CASE UNCHANGED latest
  BY <1>2
<1>3. ASSUME NEW p \in Client, NEW o \in Object, GetStart(p, o)
      PROVE  UNCHANGED latest
  BY <1>3 DEF GetStart
<1>4. ASSUME NEW p \in Client, RepairStart(p) \/ Serve(p) \/ Kill(p)
      PROVE  UNCHANGED latest
  BY <1>4 DEF RepairStart, Serve, Kill
<1>5. ASSUME NEW p \in Client, Continue(p) PROVE UNCHANGED latest
  BY <1>5
     DEF Continue, PutAuction, PutSend, PutAcked, PutFailed, PutFinish,
         GetAnswered, GetFailed, RepairList, RepairScan, RepairNext,
         RepairDone, RepairRead, RepairReadFailed, RepairPick, RepairSend,
         RepairAcked, RepairFailed
<1>6. ASSUME NEW n \in Node, Crash(n) \/ Restart(n) PROVE UNCHANGED latest
  BY <1>6 DEF Crash, Restart
<1>7. UNCHANGED vars => UNCHANGED latest
  BY DEF vars
<1> QED BY <1>1, <1>2, <1>3, <1>4, <1>5, <1>6, <1>7 DEF Next

-----------------------------------------------------------------------------
(* The types, and objects are reported with a replica *)

AInv ==
    /\ unjoined \in SUBSET Row
    /\ body \in SUBSET Entry
    /\ \A row \in unjoined : objects[row.id] # None
    /\ ReportedHasReplicas

LEMMA InitAInv == ApiInit => AInv
  BY DEF ApiInit, AInv, ReportedHasReplicas

\* A response starts with registered objects.
LEMMA FetchStep ==
    ASSUME IInv, AInv, NEW ids \in SUBSET ListAll, Fetch(ids) PROVE AInv'
<1>1. ASSUME NEW o \in ids
      PROVE  o \in Object /\ Lookup(o) \in Version /\ objects[o] # None
  BY DEF IInv, TypeOK, RegistryTypeOK, ListAll, Lookup
<1>2. \A row \in unjoined' : row \in Row /\ objects[row.id] # None
  BY <1>1 DEF Fetch, Row
<1>3. body' = {} /\ UNCHANGED objects
  BY DEF Fetch, vars, registryVars
<1> QED BY <1>2, <1>3 DEF AInv, ReportedHasReplicas

\* An object that was read registered still has a row when it is joined.
LEMMA JoinStep == ASSUME IInv, AInv, JoinReplicas PROVE AInv'
<1>1. PICK row \in unjoined :
        /\ unjoined' = unjoined \ {row}
        /\ body' = body \cup {[id |-> row.id, payload |-> row.payload,
                               replicas |-> GetReplicaNodes(row.id)]}
        /\ UNCHANGED vars
  BY DEF JoinReplicas
<1>2. row \in Row /\ objects[row.id] # None
  BY DEF AInv
<1>3. GetReplicaNodes(row.id) # {}
  BY <1>2 DEF Row, IInv, RowsExist, GetReplicaNodes
<1>4. [id |-> row.id, payload |-> row.payload,
       replicas |-> GetReplicaNodes(row.id)] \in Entry
  BY <1>2 DEF Row, Entry, GetReplicaNodes
<1>5. \A other \in unjoined' : objects'[other.id] # None
  BY <1>1 DEF AInv, vars, registryVars
<1> QED BY <1>1, <1>3, <1>4, <1>5 DEF AInv, ReportedHasReplicas

LEMMA NextAInv == IInv /\ AInv /\ [ApiNext]_allVars => AInv'
<1> SUFFICES ASSUME IInv, AInv, [ApiNext]_allVars PROVE AInv'
  OBVIOUS
<1>1. CASE Next /\ UNCHANGED apiVars
  <2>1. RegistryGrows
    BY <1>1, NextGrows
  <2> QED
    BY <1>1, <2>1 DEF AInv, RegistryGrows, apiVars, ReportedHasReplicas, Row
<1>2. CASE GetObjects
  BY <1>2, FetchStep DEF GetObjects
<1>3. ASSUME NEW o \in Object, GetObjectSummary(o) PROVE AInv'
  BY <1>3, FetchStep DEF GetObjectSummary
<1>4. CASE JoinReplicas
  BY <1>4, JoinStep
<1>5. CASE UNCHANGED allVars
  BY <1>5
     DEF allVars, apiVars, vars, registryVars, AInv, ReportedHasReplicas
<1> QED BY <1>1, <1>2, <1>3, <1>4, <1>5 DEF ApiNext

THEOREM ApiSpecAInv == ApiSpec => []AInv
  BY ApiSpecSpec, SpecIInv, InitAInv, NextAInv, PTL DEF ApiSpec

\* The store's variables and the response in progress keep their types.
THEOREM ApiTypeCorrect == ApiSpec => []ApiTypeOK
<1>1. IInv /\ AInv => ApiTypeOK
  BY DEF IInv, AInv, ApiTypeOK
<1> QED BY ApiSpecSpec, SpecIInv, ApiSpecAInv, <1>1, PTL

\* No object is reported without a replica, whatever happens between the read
\* of its row and the read of its replicas.
THEOREM ReportsHaveReplicas == ApiSpec => []ReportedHasReplicas
<1>1. AInv => ReportedHasReplicas
  BY DEF AInv
<1> QED BY ApiSpecAInv, <1>1, PTL

-----------------------------------------------------------------------------
(* The nodes reported hold the payload reported *)

\* What a response has read is still in the tables, and the payload is the one
\* the id was put with.
ReadStands ==
    /\ \A row \in unjoined : row.payload = latest[row.id]
    /\ \A entry \in body :
          /\ entry.payload = latest[entry.id]
          /\ \A n \in entry.replicas : <<entry.id, n>> \in replicas

LEMMA InitReadStands == ApiInit => ReadStands
  BY DEF ApiInit, ReadStands

LEMMA FetchStands ==
    ASSUME WInv, ReadStands, NEW ids \in SUBSET ListAll, Fetch(ids)
    PROVE  ReadStands'
<1>1. ASSUME NEW o \in ids PROVE Lookup(o) = latest[o]
  BY DEF WInv, FromOnePut, ListAll, Lookup
<1>2. UNCHANGED <<latest, replicas>>
  BY DEF Fetch, vars, registryVars, historyVars
<1> QED BY <1>1, <1>2 DEF Fetch, ReadStands

LEMMA JoinStands ==
    ASSUME AInv, ReadStands, JoinReplicas PROVE ReadStands'
<1>1. PICK row \in unjoined :
        /\ unjoined' = unjoined \ {row}
        /\ body' = body \cup {[id |-> row.id, payload |-> row.payload,
                               replicas |-> GetReplicaNodes(row.id)]}
        /\ UNCHANGED vars
  BY DEF JoinReplicas
<1>2. UNCHANGED <<latest, replicas>>
  BY <1>1 DEF vars, registryVars, historyVars
<1> QED BY <1>1, <1>2 DEF ReadStands, GetReplicaNodes

LEMMA NextReadStands ==
    IInv /\ WInv /\ AInv /\ ReadStands /\ WriteOnce' /\ [ApiNext]_allVars
        => ReadStands'
<1> SUFFICES ASSUME IInv, WInv, AInv, ReadStands, WriteOnce',
                    [ApiNext]_allVars
             PROVE  ReadStands'
  OBVIOUS
<1>1. CASE Next /\ UNCHANGED apiVars
  <2>1. RegistryGrows /\ PutsStay
    BY <1>1, NextGrows, NextPutsStay DEF WriteOnce
  <2>2. ASSUME NEW row \in unjoined PROVE row.payload = latest'[row.id]
    <3>1. row.id \in Object /\ row.payload \in Version
      BY DEF AInv, Row
    <3> QED BY <2>1, <3>1, ContentAssumption DEF ReadStands, PutsStay
  <2>3. ASSUME NEW entry \in body
        PROVE  /\ entry.payload = latest'[entry.id]
               /\ \A n \in entry.replicas : <<entry.id, n>> \in replicas'
    <3>1. entry.id \in Object /\ entry.payload \in Version
      BY DEF AInv, Entry
    <3> QED
      BY <2>1, <3>1, ContentAssumption DEF ReadStands, PutsStay, RegistryGrows
  <2> QED BY <1>1, <2>2, <2>3 DEF ReadStands, apiVars
<1>2. CASE GetObjects
  BY <1>2, FetchStands DEF GetObjects
<1>3. ASSUME NEW o \in Object, GetObjectSummary(o) PROVE ReadStands'
  BY <1>3, FetchStands DEF GetObjectSummary
<1>4. CASE JoinReplicas
  BY <1>4, JoinStands
<1>5. CASE UNCHANGED allVars
  BY <1>5
     DEF allVars, apiVars, vars, registryVars, historyVars, ReadStands
<1> QED BY <1>1, <1>2, <1>3, <1>4, <1>5 DEF ApiNext

\* With every id put once, the nodes a response names hold the payload it
\* reports, although rows and payload were read apart and repairs ran between.
THEOREM ReportsHold == ApiSpec /\ []WriteOnce => []ReportedNodesHold
<1>1. IInv /\ WInv /\ AInv /\ ReadStands /\ WriteOnce' /\ [ApiNext]_allVars
        => ReadStands'
  BY NextReadStands
<1>2. WInv /\ AInv /\ ReadStands => ReportedNodesHold
  BY DEF WInv, RowsWhole, AInv, Entry, ReadStands, ReportedNodesHold
<1> QED
  BY InitReadStands, <1>1, <1>2, ApiSpecSpec, SpecIInv, SpecWInv, ApiSpecAInv,
     PTL DEF ApiSpec
=============================================================================

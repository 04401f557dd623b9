------------------------------ MODULE VaultStore ------------------------------
(***************************************************************************)
(* The object store: put_object, get_object (control_plane/storage_client) *)
(* and the repair pass (control_plane/repair) run by concurrent clients    *)
(* against the storage nodes and the metadata database.  A client holds no *)
(* lock: between two of its steps nodes crash and restart and other        *)
(* clients read and write the same nodes and the same tables.  A client    *)
(* may itself be killed between any two steps.                             *)
(***************************************************************************)
EXTENDS StorageNode, MetadataRegistry, Naturals, FiniteSets

CONSTANTS
    Repairer,            \* the clients that run repair passes
    ReplicationFactor,   \* auction.REPLICATION_FACTOR
    MaxFaults,           \* bound on node crashes and killed clients
    NotFound             \* get_object raised FileNotFoundError

ASSUME StoreAssumption ==
    /\ Repairer \subseteq Client
    /\ ReplicationFactor \in Nat \ {0}
    /\ MaxFaults \in Nat
    /\ NotFound \notin Content \cup {None}

VARIABLES
    pc,        \* pc[p]: where client p is
    obj,       \* obj[p]: the object_id p works on
    data,      \* data[p]: the payload p writes
    todo,      \* todo[p]: nodes p has still to probe, write to or read from
    target,    \* target[p]: the node of p's outstanding Put
    acks,      \* acks[p]: nodes that took p's put (any_success, first_obj)
    queue,     \* queue[p]: p's repair pass: the listed objects it has still to
               \* look at, the under-replicated ones it has still to repair
    result,    \* result[p]: what p's last get_object returned
    latest,    \* history: the last put of each object that was started
    issued,    \* history: the puts started
    overlapped,\* history: a call started while another was under way
    faults     \* crashes and kills so far

clientVars == <<pc, obj, data, todo, target, acks, queue, result>>
historyVars == <<latest, issued, overlapped, faults>>
vars == <<nodeVars, registryVars, clientVars, historyVars>>

PutState == {"auction", "replicate", "await"}
RepairState == {"list", "scan", "next", "repair_read", "repair_pick",
                "repair_send", "repair_await"}
RepairQueue == [listed : SUBSET Object, under : SUBSET Object]
Pc == {"idle", "read", "dead"} \cup PutState \cup RepairState

ClientTypeOK ==
    /\ pc \in [Client -> Pc]
    /\ obj \in [Client -> Object \cup {None}]
    /\ data \in [Client -> File \cup {None}]
    /\ todo \in [Client -> SUBSET Node]
    /\ target \in [Client -> Node \cup {None}]
    /\ acks \in [Client -> SUBSET Node]
    /\ queue \in [Client -> RepairQueue]
    /\ result \in [Client -> File \cup {NotFound, None}]

HistoryTypeOK ==
    /\ latest \in [Object -> Version \cup {None}]
    /\ issued \in SUBSET (Object \X Version)
    /\ overlapped \in BOOLEAN
    /\ faults \in 0..MaxFaults

TypeOK ==
    /\ NodeTypeOK
    /\ RegistryTypeOK
    /\ ClientTypeOK
    /\ HistoryTypeOK

Init ==
    /\ NodeInit
    /\ RegistryInit
    /\ pc = [p \in Client |-> "idle"]
    /\ obj = [p \in Client |-> None]
    /\ data = [p \in Client |-> None]
    /\ todo = [p \in Client |-> {}]
    /\ target = [p \in Client |-> None]
    /\ acks = [p \in Client |-> {}]
    /\ queue = [p \in Client |-> [listed |-> {}, under |-> {}]]
    /\ result = [p \in Client |-> None]
    /\ latest = [o \in Object |-> None]
    /\ issued = {}
    /\ overlapped = FALSE
    /\ faults = 0

Goto(p, l) == pc' = [pc EXCEPT ![p] = l]

\* A call of p starts; one that was killed is never over.
Start(p) ==
    /\ pc[p] = "idle"
    /\ overlapped' = (overlapped \/ \E q \in Client \ {p} : pc[q] # "idle")

\* A call ends at l, and its locals with it.
Return(p, l) ==
    /\ Goto(p, l)
    /\ data' = [data EXCEPT ![p] = None]
    /\ todo' = [todo EXCEPT ![p] = {}]
    /\ acks' = [acks EXCEPT ![p] = {}]

(***************************************************************************)
(* check_all probes the nodes in turn, and is one step here.  A probe of a *)
(* node that is up may fail (HEALTH_CHECK_TIMEOUT), and a node found alive *)
(* may be down when the last one has been probed: any set of nodes.        *)
(* (Auction has the probes one by one.)                                    *)
(***************************************************************************)
CheckAll == SUBSET Node

(***************************************************************************)
(* collect_all asks the nodes in turn for their free space and leaves out  *)
(* those that fail; the ReplicationFactor bidders with the most of it win, *)
(* or all of them when there are fewer.  Who they are depends on the disks,*)
(* which the model leaves open.                                            *)
(***************************************************************************)
Bidders(alive) == SUBSET alive

Winners(bidders) ==
    {w \in SUBSET bidders :
        \/ Cardinality(w) = ReplicationFactor
        \/ w = bidders /\ Cardinality(w) < ReplicationFactor}

-----------------------------------------------------------------------------
(* put_object *)

\* _get_alive_nodes; with no node alive the put raises at once.
PutStart(p, o, v) ==
    /\ Start(p)
    /\ <<o, v>> \notin issued
    /\ \E alive \in CheckAll :
          \/ /\ alive = {}
             /\ Return(p, "idle")
          \/ /\ alive # {}
             /\ todo' = [todo EXCEPT ![p] = alive]
             /\ data' = [data EXCEPT ![p] = v]
             /\ UNCHANGED acks
             /\ Goto(p, "auction")
    /\ obj' = [obj EXCEPT ![p] = o]
    /\ result' = [result EXCEPT ![p] = None]
    /\ issued' = issued \cup {<<o, v>>}
    /\ latest' = [latest EXCEPT ![o] = v]
    /\ UNCHANGED <<nodeVars, registryVars, target, queue, faults>>

\* The auction; with no bid select_winners raises and the put fails.
PutAuction(p) ==
    /\ pc[p] = "auction"
    /\ \E bidders \in Bidders(todo[p]) : \E w \in Winners(bidders) :
          \/ /\ w = {}
             /\ Return(p, "idle")
          \/ /\ w # {}
             /\ todo' = [todo EXCEPT ![p] = w]
             /\ UNCHANGED <<data, acks>>
             /\ Goto(p, "replicate")
    /\ UNCHANGED <<nodeVars, registryVars, obj, target, queue, result,
                   historyVars>>

\* Mutant: the replica is recorded when its Put is sent.
PutSendRecords(p) ==
    /\ pc[p] = "replicate"
    /\ \E n \in todo[p] :
          /\ PutCall(p, n, obj[p])
          /\ RecordReplica(obj[p], n)
          /\ target' = [target EXCEPT ![p] = n]
          /\ todo' = [todo EXCEPT ![p] = @ \ {n}]
    /\ Goto(p, "await")
    /\ UNCHANGED <<objects, obj, data, acks, queue, result, historyVars>>

\* The loop over the winners: the Put of the next one.
PutSend(p) ==
    /\ pc[p] = "replicate"
    /\ \E n \in todo[p] :
          /\ PutCall(p, n, obj[p])
          /\ target' = [target EXCEPT ![p] = n]
          /\ todo' = [todo EXCEPT ![p] = @ \ {n}]
    /\ Goto(p, "await")
    /\ UNCHANGED <<registryVars, obj, data, acks, queue, result, historyVars>>

\* Mutant: the loop variable moves on before the replica is recorded.
PutAckedLate(p) ==
    /\ pc[p] = "await"
    /\ rpc[p] = "done"
    /\ target' = [target EXCEPT ![p] = None]
    /\ replicas' = replicas \cup {<<obj[p], target'[p]>>}
    /\ acks' = [acks EXCEPT ![p] = @ \cup {target[p]}]
    /\ rpc' = [rpc EXCEPT ![p] = "none"]
    /\ Goto(p, "replicate")
    /\ UNCHANGED <<up, disk, objects, obj, data, todo, queue, result,
                   historyVars>>

\* The Put was answered: its record_replica entry is appended and applied.
PutAcked(p) ==
    /\ pc[p] = "await"
    /\ rpc[p] = "done"
    /\ RecordReplica(obj[p], target[p])
    /\ acks' = [acks EXCEPT ![p] = @ \cup {target[p]}]
    /\ target' = [target EXCEPT ![p] = None]
    /\ rpc' = [rpc EXCEPT ![p] = "none"]
    /\ Goto(p, "replicate")
    /\ UNCHANGED <<up, disk, objects, obj, data, todo, queue, result,
                   historyVars>>

\* Mutant: record_replica stands after the try, and runs for a failed Put too.
PutFailedRecords(p) ==
    /\ pc[p] = "await"
    /\ rpc[p] = "error"
    /\ RecordReplica(obj[p], target[p])
    /\ target' = [target EXCEPT ![p] = None]
    /\ rpc' = [rpc EXCEPT ![p] = "none"]
    /\ Goto(p, "replicate")
    /\ UNCHANGED <<up, disk, objects, obj, data, todo, acks, queue, result,
                   historyVars>>

\* except grpc.RpcError: the loop goes on with the next winner.
PutFailed(p) ==
    /\ pc[p] = "await"
    /\ rpc[p] = "error"
    /\ target' = [target EXCEPT ![p] = None]
    /\ rpc' = [rpc EXCEPT ![p] = "none"]
    /\ Goto(p, "replicate")
    /\ UNCHANGED <<up, disk, registryVars, obj, data, todo, acks,
                   queue, result, historyVars>>

\* Mutant: no check of any_success.
PutFinishAlways(p) ==
    /\ pc[p] = "replicate"
    /\ todo[p] = {}
    /\ Register(obj[p], data[p])
    /\ Return(p, "idle")
    /\ UNCHANGED <<nodeVars, replicas, obj, target, queue, result,
                   historyVars>>

\* After the loop: the register_object entry, unless every write failed.
PutFinish(p) ==
    /\ pc[p] = "replicate"
    /\ todo[p] = {}
    /\ \/ /\ acks[p] # {}
          /\ Register(obj[p], data[p])
       \/ /\ acks[p] = {}
          /\ UNCHANGED objects
    /\ Return(p, "idle")
    /\ UNCHANGED <<nodeVars, replicas, obj, target, queue, result,
                   historyVars>>

-----------------------------------------------------------------------------
(* get_object *)

\* The replica rows are read once; without one the object is not found.
GetStart(p, o) ==
    /\ Start(p)
    /\ obj' = [obj EXCEPT ![p] = o]
    /\ todo' = [todo EXCEPT ![p] = GetReplicaNodes(o)]
    /\ result' = [result EXCEPT ![p] =
                    IF GetReplicaNodes(o) = {} THEN NotFound ELSE None]
    /\ Goto(p, IF GetReplicaNodes(o) = {} THEN "idle" ELSE "read")
    /\ UNCHANGED <<nodeVars, registryVars, data, target, acks, queue,
                   latest, issued, faults>>

\* The next replica answers with its file.
GetAnswered(p) ==
    /\ pc[p] = "read"
    /\ \E n \in todo[p] :
          /\ Readable(n, obj[p])
          /\ result' = [result EXCEPT ![p] = disk[n][obj[p]]]
    /\ todo' = [todo EXCEPT ![p] = {}]
    /\ Goto(p, "idle")
    /\ UNCHANGED <<nodeVars, registryVars, obj, data, target, acks, queue,
                   historyVars>>

\* Mutant: a failing replica is tried again.
GetFailedRetries(p) ==
    /\ pc[p] = "read"
    /\ \E n \in todo[p] : ~Readable(n, obj[p])
    /\ UNCHANGED vars

\* The next replica fails; after the last one the object is not found.
GetFailed(p) ==
    /\ pc[p] = "read"
    /\ \E n \in todo[p] :
          /\ ~Readable(n, obj[p])
          /\ todo' = [todo EXCEPT ![p] = @ \ {n}]
    /\ \/ /\ todo'[p] # {}
          /\ UNCHANGED <<pc, result>>
       \/ /\ todo'[p] = {}
          /\ result' = [result EXCEPT ![p] = NotFound]
          /\ Goto(p, "idle")
    /\ UNCHANGED <<nodeVars, registryVars, obj, data, target, acks, queue,
                   historyVars>>

-----------------------------------------------------------------------------
(* run_repair_pass *)

\* find_under_replicated: the health check comes first ...
RepairStart(p) ==
    /\ p \in Repairer
    /\ Start(p)
    /\ \E alive \in CheckAll : todo' = [todo EXCEPT ![p] = alive]
    /\ result' = [result EXCEPT ![p] = None]
    /\ Goto(p, "list")
    /\ UNCHANGED <<nodeVars, registryVars, obj, data, target, acks, queue,
                   latest, issued, faults>>

\* ... then list_all ...
RepairList(p) ==
    /\ pc[p] = "list"
    /\ queue' = [queue EXCEPT ![p] = [listed |-> ListAll, under |-> @.under]]
    /\ \/ /\ ListAll = {}
          /\ Return(p, "next")
       \/ /\ ListAll # {}
          /\ Goto(p, "scan")
          /\ UNCHANGED <<data, todo, acks>>
    /\ UNCHANGED <<nodeVars, registryVars, obj, target, result, historyVars>>

\* An object is under-replicated when too few of its rows name alive nodes.
UnderReplicated(o, alive) ==
    Cardinality(GetReplicaNodes(o) \cap alive) < ReplicationFactor

\* ... and the rows of each object in turn.
RepairScan(p) ==
    /\ pc[p] = "scan"
    /\ \E o \in queue[p].listed :
          /\ queue' = [queue EXCEPT ![p] =
               [listed |-> @.listed \ {o},
                under |-> @.under \cup
                            {x \in {o} : UnderReplicated(x, todo[p])}]]
          /\ \/ /\ queue[p].listed = {o}
                /\ Return(p, "next")
             \/ /\ queue[p].listed # {o}
                /\ UNCHANGED <<pc, data, todo, acks>>
    /\ UNCHANGED <<nodeVars, registryVars, obj, target, result, historyVars>>

\* repair_object of the next object starts with get_object.
RepairNext(p) ==
    /\ pc[p] = "next"
    /\ \E o \in queue[p].under :
          /\ obj' = [obj EXCEPT ![p] = o]
          /\ queue' = [queue EXCEPT ![p] = [listed |-> @.listed,
                                            under |-> @.under \ {o}]]
          /\ todo' = [todo EXCEPT ![p] = GetReplicaNodes(o)]
          /\ Goto(p, IF GetReplicaNodes(o) = {} THEN "next" ELSE "repair_read")
    /\ UNCHANGED <<nodeVars, registryVars, data, target, acks, result,
                   historyVars>>

RepairDone(p) ==
    /\ pc[p] = "next"
    /\ queue[p].under = {}
    /\ Return(p, "idle")
    /\ UNCHANGED <<nodeVars, registryVars, obj, target, queue, result,
                   historyVars>>

\* get_object inside repair_object: the file's content, whole or not.
RepairRead(p) ==
    /\ pc[p] = "repair_read"
    /\ \E n \in todo[p] :
          /\ Readable(n, obj[p])
          /\ data' = [data EXCEPT ![p] = disk[n][obj[p]]]
    /\ todo' = [todo EXCEPT ![p] = {}]
    /\ Goto(p, "repair_pick")
    /\ UNCHANGED <<nodeVars, registryVars, obj, target, acks, queue, result,
                   historyVars>>

\* A replica that fails; after the last one repair_object returns False.
RepairReadFailed(p) ==
    /\ pc[p] = "repair_read"
    /\ \E n \in todo[p] :
          /\ ~Readable(n, obj[p])
          /\ todo' = [todo EXCEPT ![p] = @ \ {n}]
    /\ Goto(p, IF todo'[p] = {} THEN "next" ELSE "repair_read")
    /\ UNCHANGED <<nodeVars, registryVars, obj, data, target, acks, queue,
                   result, historyVars>>

\* Mutant: current_replicas are not excluded from the candidates.
RepairPickAny(p) ==
    /\ pc[p] = "repair_pick"
    /\ \E alive \in CheckAll :
          \/ \E n \in alive :
                /\ target' = [target EXCEPT ![p] = n]
                /\ UNCHANGED <<data, todo, acks>>
                /\ Goto(p, "repair_send")
          \/ /\ alive = {}
             /\ UNCHANGED target
             /\ Return(p, "next")
    /\ UNCHANGED <<nodeVars, registryVars, obj, queue, result, historyVars>>

\* A second health check; the target is an alive node without a row, if any.
RepairPick(p) ==
    /\ pc[p] = "repair_pick"
    /\ \E alive \in CheckAll :
          \/ \E n \in alive \ GetReplicaNodes(obj[p]) :
                /\ target' = [target EXCEPT ![p] = n]
                /\ UNCHANGED <<data, todo, acks>>
                /\ Goto(p, "repair_send")
          \/ /\ alive \subseteq GetReplicaNodes(obj[p])
             /\ UNCHANGED target
             /\ Return(p, "next")
    /\ UNCHANGED <<nodeVars, registryVars, obj, queue, result, historyVars>>

RepairSend(p) ==
    /\ pc[p] = "repair_send"
    /\ PutCall(p, target[p], obj[p])
    /\ Goto(p, "repair_await")
    /\ UNCHANGED <<registryVars, obj, data, todo, target, acks, queue, result,
                   historyVars>>

\* The new replica is recorded: repair_object returns True.
RepairAcked(p) ==
    /\ pc[p] = "repair_await"
    /\ rpc[p] = "done"
    /\ RecordReplica(obj[p], target[p])
    /\ target' = [target EXCEPT ![p] = None]
    /\ rpc' = [rpc EXCEPT ![p] = "none"]
    /\ Return(p, "next")
    /\ UNCHANGED <<up, disk, objects, obj, queue, result, historyVars>>

\* Mutant: the new replica is recorded whether or not the Put succeeded.
RepairFailedRecords(p) ==
    /\ pc[p] = "repair_await"
    /\ rpc[p] = "error"
    /\ RecordReplica(obj[p], target[p])
    /\ target' = [target EXCEPT ![p] = None]
    /\ rpc' = [rpc EXCEPT ![p] = "none"]
    /\ Return(p, "next")
    /\ UNCHANGED <<up, disk, objects, obj, queue, result, historyVars>>

\* except grpc.RpcError: repair_object returns False.
RepairFailed(p) ==
    /\ pc[p] = "repair_await"
    /\ rpc[p] = "error"
    /\ target' = [target EXCEPT ![p] = None]
    /\ rpc' = [rpc EXCEPT ![p] = "none"]
    /\ Return(p, "next")
    /\ UNCHANGED <<up, disk, registryVars, obj, queue, result, historyVars>>

-----------------------------------------------------------------------------
(* The storage nodes and the faults *)

\* The node's handler completes the write p asked for; it does so whether or
\* not p is still alive to hear of it.
Serve(p) ==
    /\ PutWrite(p, target[p], obj[p], data[p])
    /\ UNCHANGED <<registryVars, clientVars, historyVars>>

Crash(n) ==
    /\ faults < MaxFaults
    /\ NodeCrash(n, {p \in Client : target[p] = n})
    /\ faults' = faults + 1
    /\ UNCHANGED <<registryVars, clientVars, latest, issued, overlapped>>

Restart(n) ==
    /\ NodeRestart(n)
    /\ UNCHANGED <<registryVars, clientVars, historyVars>>

\* A client's process is killed; it does not come back.
Kill(p) ==
    /\ faults < MaxFaults
    /\ pc[p] \notin {"idle", "dead"}
    /\ Goto(p, "dead")
    /\ faults' = faults + 1
    /\ UNCHANGED <<nodeVars, registryVars, obj, data, todo, target, acks,
                   queue, result, latest, issued, overlapped>>

-----------------------------------------------------------------------------
\* The steps a started operation takes on its own.
Continue(p) ==
    \/ PutAuction(p) \/ PutSend(p) \/ PutAcked(p) \/ PutFailed(p)
    \/ PutFinish(p)
    \/ GetAnswered(p) \/ GetFailed(p)
    \/ RepairList(p) \/ RepairScan(p) \/ RepairNext(p) \/ RepairDone(p)
    \/ RepairRead(p) \/ RepairReadFailed(p) \/ RepairPick(p)
    \/ RepairSend(p) \/ RepairAcked(p) \/ RepairFailed(p)

Next ==
    \/ \E p \in Client :
          \/ \E o \in Object, v \in Version : PutStart(p, o, v)
          \/ \E o \in Object : GetStart(p, o)
          \/ RepairStart(p)
          \/ Continue(p)
          \/ Serve(p)
          \/ Kill(p)
    \/ \E n \in Node : Crash(n) \/ Restart(n)

Spec == Init /\ [][Next]_vars

\* A started call keeps running and a node serves the requests it accepted;
\* nothing makes a client start a call or a node come back.
FairSpec == Spec /\ \A p \in Client : WF_vars(Continue(p)) /\ WF_vars(Serve(p))

-----------------------------------------------------------------------------
(* What holds of every schedule *)

\* Every replica row names a node that has a file for the object: a row is
\* written only after the node took the payload, and nothing removes a file.
\* (It may be torn or stale.)
RowsBacked ==
    \A o \in Object, n \in Node : <<o, n>> \in replicas => disk[n][o] # NoFile

\* An object the registry lists (GET /objects, list_all, the repair scan) has
\* at least one replica row: put_object registers an object last.
RegisteredHasReplica ==
    \A o \in ListAll : GetReplicaNodes(o) # {}

\* Every call returns: put_object's loop, get_object's fallback and the
\* repair pass end whatever crashes, unless the calling process is killed.
CallsReturn ==
    \A p \in Client :
        pc[p] \notin {"idle", "dead"} ~> pc[p] \in {"idle", "dead"}

-----------------------------------------------------------------------------
(* What holds while one call is made at a time *)

\* The payload of an object's last put, once that put has succeeded, is on
\* some node its rows name: no crash, failed replica or later repair pass
\* loses it, as long as no two calls overlap.
LatestStored ==
    \A o \in ListAll :
        ~overlapped /\ latest[o] = Lookup(o) =>
            \E n \in GetReplicaNodes(o) : disk[n][o] = Lookup(o)

\* What get_object returns is what the last put of the object wrote, once that
\* put has succeeded (control_plane/manual_check.py asserts it).
ReadReturnsLastPut ==
    \A p \in Client :
        /\ result[p] \in File
        /\ latest[obj[p]] = Lookup(obj[p])
        => result[p] = Lookup(obj[p])

-----------------------------------------------------------------------------
(* What holds when every object id is put once and one client repairs *)

\* Every row names a node with the whole payload: the crash of a node during
\* a Put, or of the client after it, leaves a torn file only without a row.
RowsWhole ==
    \A o \in Object, n \in Node :
        <<o, n>> \in replicas => disk[n][o] = latest[o]

\* get_object answers with the payload that was put, or not at all.
ReadsWhole ==
    \A p \in Client : result[p] \in File => result[p] = latest[obj[p]]

\* To its callers the store is a write-once register: it implements
\* WriteOnceStore, with an object readable when it has a row.
Abstract == INSTANCE WriteOnceStore WITH
    NoPayload <- None,
    NoAnswer <- None,
    payload <- latest,
    readable <- {o \in Object : GetReplicaNodes(o) # {}},
    listed <- ListAll,
    answer <- result

IsWriteOnceStore == Abstract!Spec

\* A repair writes to a node that has no row, from the moment it picks the
\* node until it records it: so a pass that returns True for an object has
\* added a replica, and has truncated none.
RepairTargetIsNew ==
    \A p \in Repairer :
        pc[p] \in {"repair_send", "repair_await"} =>
            target[p] \notin GetReplicaNodes(obj[p])
=============================================================================

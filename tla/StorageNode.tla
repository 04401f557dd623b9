----------------------------- MODULE StorageNode -----------------------------
(***************************************************************************)
(* The storage nodes: one process per node, a gRPC server over one file    *)
(* per object (storage_node/grpc_server.py, object_store.py,               *)
(* local_store.py).  A Put handler is not atomic: write_bytes opens the    *)
(* file with "wb", which truncates it, and only then writes the payload.   *)
(* A node may be killed at any moment and started again; its files stay.   *)
(*                                                                         *)
(* A caller waits for its Put (the stub is called without a timeout), so   *)
(* the worker serving a Put is identified by its caller: rpc[p] is the     *)
(* state of the Put that client p has outstanding.                         *)
(***************************************************************************)
EXTENDS ObjectModel

VARIABLES
    up,        \* up[n]: the node's process is running and reachable
    disk,      \* disk[n][o]: content of the file data/<n>/<o>
    rpc        \* rpc[p]: the Put outstanding for client p

nodeVars == <<up, disk, rpc>>

RpcState == {"none", "writing", "done", "error"}

NodeTypeOK ==
    /\ up \in [Node -> BOOLEAN]
    /\ disk \in [Node -> [Object -> Content]]
    /\ rpc \in [Client -> RpcState]

NodeInit ==
    /\ up = [n \in Node |-> TRUE]
    /\ disk = [n \in Node |-> [o \in Object |-> NoFile]]
    /\ rpc = [p \in Client |-> "none"]

\* get answers with the file's content; a missing file raises in the handler
\* and reaches the caller as an RpcError, like a node that is down.
Readable(n, o) == up[n] /\ disk[n][o] # NoFile

\* stub.Put: the handler of a running node opens (and so truncates) the file;
\* a node that is down refuses the call.
PutCall(p, n, o) ==
    \/ /\ up[n]
       /\ disk' = [disk EXCEPT ![n][o] = Torn]
       /\ rpc' = [rpc EXCEPT ![p] = "writing"]
       /\ UNCHANGED up
    \/ /\ ~up[n]
       /\ rpc' = [rpc EXCEPT ![p] = "error"]
       /\ UNCHANGED <<up, disk>>

\* What the file can hold once c is written at its start.  If another handler
\* wrote a different payload since this one truncated the file, the longer of
\* the two leaves its tail behind.
AfterWrite(n, o, c) ==
    IF disk[n][o] \in {Torn, c} THEN {c} ELSE {c, Torn}

\* The rest of write_bytes, and the handler's return.
PutWrite(p, n, o, c) ==
    /\ rpc[p] = "writing"
    /\ \E new \in AfterWrite(n, o, c) :
          disk' = [disk EXCEPT ![n][o] = new]
    /\ rpc' = [rpc EXCEPT ![p] = "done"]
    /\ UNCHANGED up

\* The node's process dies: its handlers stop where they are, and the calls
\* that have not been answered (those of callers) fail.
NodeCrash(n, callers) ==
    /\ up[n]
    /\ up' = [up EXCEPT ![n] = FALSE]
    /\ rpc' = [p \in Client |->
                 IF p \in callers /\ rpc[p] \in {"writing", "done"}
                 THEN "error" ELSE rpc[p]]
    /\ UNCHANGED disk

\* The node's process is started again, on the same data directory.
NodeRestart(n) ==
    /\ ~up[n]
    /\ up' = [up EXCEPT ![n] = TRUE]
    /\ UNCHANGED <<disk, rpc>>
=============================================================================

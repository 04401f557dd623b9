--------------------------- MODULE MetadataRegistry ---------------------------
(***************************************************************************)
(* The control plane's sqlite database (control_plane/metadata_registry.py)*)
(* and the commands that change it (raft/state_machine.py).  Every         *)
(* function opens its own connection and runs one statement, so each       *)
(* operator below is one transaction; nothing spans two of them.  An       *)
(* object's row is abstracted to the payload its checksum names.           *)
(***************************************************************************)

EXTENDS ObjectModel

VARIABLES
    objects,      \* objects[o]: the row of o, or None
    replicas      \* the rows <<o, n>> of object_replicas

registryVars == <<objects, replicas>>

RegistryTypeOK ==
    /\ objects \in [Object -> Version \cup {None}]
    /\ replicas \in SUBSET (Object \X Node)

RegistryInit ==
    /\ objects = [o \in Object |-> None]
    /\ replicas = {}

\* INSERT OR REPLACE: the last registration of an id wins.
Register(o, c) == objects' = [objects EXCEPT ![o] = c]

\* INSERT OR REPLACE on the primary key <<o, n>>: recording twice is harmless.
RecordReplica(o, n) == replicas' = replicas \cup {<<o, n>>}

GetReplicaNodes(o) == {n \in Node : <<o, n>> \in replicas}

Lookup(o) == objects[o]

ListAll == {o \in Object : Lookup(o) # None}
=============================================================================

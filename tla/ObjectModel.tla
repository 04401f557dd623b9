----------------------------- MODULE ObjectModel -----------------------------
(***************************************************************************)
(* The vocabulary the storage modules share (shared/object_model.py,       *)
(* control_plane/node_registry.py).  Payload bytes, sizes, checksums and   *)
(* timestamps are abstracted to the put_object call they come from: two    *)
(* calls have the same Version only if they are the same call.             *)
(***************************************************************************)
CONSTANTS
    Node,      \* the storage nodes, node_registry.NODES
    Object,    \* object ids
    Version,   \* payloads
    Client,    \* threads of the control plane that call the storage nodes
    NoFile,    \* a node has no file for the object
    Torn,      \* a file that holds no complete payload
    None       \* no value: no row, no node, no answer yet

ASSUME ContentAssumption ==
    /\ NoFile \notin Version
    /\ Torn \notin Version
    /\ None \notin Version \cup Node \cup Object
    /\ NoFile # Torn /\ NoFile # None /\ Torn # None

\* What a file can hold, and what a node can have under an object id.
File == Version \cup {Torn}
Content == File \cup {NoFile}
=============================================================================

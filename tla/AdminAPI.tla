------------------------------- MODULE AdminAPI -------------------------------
(***************************************************************************)
(* The admin API (control_plane/admin_api.py) beside the store's clients:  *)
(* its GET handlers change nothing, but two of them read the registry in   *)
(* several transactions, the objects first and then the replicas of each,  *)
(* while put_object and the repair pass write both tables.                 *)
(*                                                                         *)
(* One request is served at a time: handlers share nothing.  GET /nodes is *)
(* a constant; GET /health and GET /telemetry are check_all and            *)
(* collect_all, which VaultStore's calls make too.                         *)
(***************************************************************************)
EXTENDS VaultStore

VARIABLES
    unjoined,     \* the objects read whose replicas are still to be read
    body          \* the object dictionaries of the response so far

apiVars == <<unjoined, body>>
allVars == <<vars, apiVars>>

Row == [id : Object, payload : Version]
Entry == [id : Object, payload : Version, replicas : SUBSET Node]

ApiTypeOK ==
    /\ TypeOK
    /\ unjoined \in SUBSET Row
    /\ body \in SUBSET Entry

ApiInit ==
    /\ Init
    /\ unjoined = {}
    /\ body = {}

\* list_all, or the lookup of one object, starts a response.
Fetch(ids) ==
    /\ unjoined = {}
    /\ unjoined' = {[id |-> o, payload |-> Lookup(o)] : o \in ids}
    /\ body' = {}
    /\ UNCHANGED vars

GetObjects == Fetch(ListAll)

\* Mutant: an object the registry does not know is not looked for.
GetObjectSummaryNo404(o) == Fetch({o})

\* An unknown id is answered with 404, an empty body here.
GetObjectSummary(o) == Fetch({o} \cap ListAll)

\* Mutant: the replicas are those of the last object joined.
JoinReplicasOfOther ==
    \E row \in unjoined, other \in Object :
        /\ unjoined' = unjoined \ {row}
        /\ body' = body \cup {[id |-> row.id, payload |-> row.payload,
                               replicas |-> GetReplicaNodes(other)]}
        /\ UNCHANGED vars

\* get_replica_nodes of the next object; with the last one the response is sent.
JoinReplicas ==
    \E row \in unjoined :
        /\ unjoined' = unjoined \ {row}
        /\ body' = body \cup {[id |-> row.id, payload |-> row.payload,
                               replicas |-> GetReplicaNodes(row.id)]}
        /\ UNCHANGED vars

ApiNext ==
    \/ Next /\ UNCHANGED apiVars
    \/ GetObjects
    \/ \E o \in Object : GetObjectSummary(o)
    \/ JoinReplicas

ApiSpec == ApiInit /\ [][ApiNext]_allVars

-----------------------------------------------------------------------------
\* An object is reported with at least one replica (get_objects: "Each object's
\* replicas field lists replica node IDs"): between its two reads nothing
\* removes a row.
ReportedHasReplicas == \A entry \in body : entry.replicas # {}

\* With every object id put once, the nodes reported for an object hold the
\* payload whose checksum is reported, although the two were read apart and
\* repairs record rows in between.
ReportedNodesHold ==
    \A entry \in body : \A n \in entry.replicas :
        disk[n][entry.id] = entry.payload
=============================================================================

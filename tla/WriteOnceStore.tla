---------------------------- MODULE WriteOnceStore ----------------------------
(***************************************************************************)
(* What the object store promises to callers that put every object id at   *)
(* most once: an object is a write-once register.  It becomes readable     *)
(* some time after its put began, if at all, and stays so; it is listed    *)
(* only once it is readable; and a get answers with the payload that was   *)
(* put, whole, or with nothing, for the nodes that have it may be down.    *)
(*                                                                         *)
(* No node, file, row or repair appears here.                              *)
(***************************************************************************)
CONSTANTS
    Object, Version, Client,
    NoPayload,   \* the object was not put, or no put of it was tried
    NotFound,    \* a get found nothing
    NoAnswer     \* the client's last call was no get, or is not answered yet

VARIABLES
    payload,     \* payload[o]: what the put of o was given
    readable,    \* the objects a get can find
    listed,      \* the objects the registry lists
    answer       \* answer[p]: what p's last get returned

vars == <<payload, readable, listed, answer>>

Init ==
    /\ payload = [o \in Object |-> NoPayload]
    /\ readable = {}
    /\ listed = {}
    /\ answer = [p \in Client |-> NoAnswer]

\* A put begins; it may yet fail, and its object never be readable.
Put(p, o, v) ==
    /\ payload[o] = NoPayload
    /\ payload' = [payload EXCEPT ![o] = v]
    /\ answer' = [answer EXCEPT ![p] = NoAnswer]
    /\ UNCHANGED <<readable, listed>>

\* The first replica of o is recorded.
BecomesReadable(o) ==
    /\ payload[o] # NoPayload
    /\ readable' = readable \cup {o}
    /\ UNCHANGED <<payload, listed, answer>>

\* The put succeeds.
BecomesListed(o) ==
    /\ o \in readable
    /\ listed' = listed \cup {o}
    /\ UNCHANGED <<payload, readable, answer>>

\* A call begins that has no answer, or not yet.
Call(p) ==
    /\ answer' = [answer EXCEPT ![p] = NoAnswer]
    /\ UNCHANGED <<payload, readable, listed>>

AnswerPayload(p, o) ==
    /\ o \in readable
    /\ answer' = [answer EXCEPT ![p] = payload[o]]
    /\ UNCHANGED <<payload, readable, listed>>

AnswerNotFound(p) ==
    /\ answer' = [answer EXCEPT ![p] = NotFound]
    /\ UNCHANGED <<payload, readable, listed>>

Next ==
    \/ \E o \in Object : BecomesReadable(o) \/ BecomesListed(o)
    \/ \E p \in Client :
          \/ \E o \in Object :
                AnswerPayload(p, o) \/ \E v \in Version : Put(p, o, v)
          \/ Call(p) \/ AnswerNotFound(p)

Spec == Init /\ [][Next]_vars
=============================================================================

---------------------------- MODULE GraphContract ----------------------------
(***************************************************************************)
(* What pkg/graph/store.go's GraphStore interface promises of the graph,   *)
(* whatever the backend: a map of resources by id and a set of edges keyed *)
(* by (from, to, type).  A resource's namespace, kind and cluster are part *)
(* of its id, so they are functions of it; labels and Raw payload are the  *)
(* value.  Deleting a resource deletes every edge incident on it.          *)
(***************************************************************************)

CONSTANTS
    Ids,            \* resource ids, "[cluster:]namespace/Kind/name"
    SecretIds,      \* ids whose Kind is Secret
    RefIds,         \* Secret ids with a non-empty namespace: an edge may name them
    Types,          \* edge types
    Values,         \* what a non-Secret resource can hold besides its id
    SecretRef,      \* the reference-only value a Secret is reduced to
    Attrs,          \* edge attributes
    Absent,         \* no resource under this id
    NoEdge          \* no edge under this key

VARIABLES
    resources,      \* Ids -> stored value or Absent
    edges           \* from -> (to, type) -> attributes or NoEdge

vars == <<resources, edges>>

Keys == Ids \X Types

Init ==
    /\ resources = [id \in Ids |-> Absent]
    /\ edges = [f \in Ids |-> [k \in Keys |-> NoEdge]]

\* SanitizeResource: a Secret is stored as a reference, anything else as it is.
Sanitize(id, v) == IF id \in SecretIds THEN SecretRef ELSE v

UpsertResource(id, v) ==
    /\ resources' = [resources EXCEPT ![id] = Sanitize(id, v)]
    /\ UNCHANGED edges

DeleteResource(id) ==
    /\ resources' = [resources EXCEPT ![id] = Absent]
    /\ edges' = [f \in Ids |-> [k \in Keys |->
                    IF f = id \/ k[1] = id THEN NoEdge ELSE edges[f][k]]]

\* An edge into a Secret also materialises the reference-only endpoint.
UpsertEdge(f, t, ty, a) ==
    /\ resources' = IF t \in RefIds
                    THEN [resources EXCEPT ![t] = SecretRef]
                    ELSE resources
    /\ edges' = [edges EXCEPT ![f] = [@ EXCEPT ![<<t, ty>>] = a]]

DeleteEdge(f, t, ty) ==
    /\ edges' = [edges EXCEPT ![f] = [@ EXCEPT ![<<t, ty>>] = NoEdge]]
    /\ UNCHANGED resources

Mutate ==
    \/ \E id \in Ids, v \in Values : UpsertResource(id, v)
    \/ \E id \in Ids : DeleteResource(id)
    \/ \E f, t \in Ids, ty \in Types, a \in Attrs : UpsertEdge(f, t, ty, a)
    \/ \E f, t \in Ids, ty \in Types : DeleteEdge(f, t, ty)

\* A write of what is there already is a stutter.
Next == vars' # vars /\ Mutate

Spec == Init /\ [][Next]_vars
=============================================================================

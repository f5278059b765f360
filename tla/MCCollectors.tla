---------------------------- MODULE MCCollectors ----------------------------
(* What observes the API server, one component per behaviour: the tracker of   *)
(* observation coverage, the discovery of custom resources, and the API        *)
(* inventory.  The others stand still meanwhile.                               *)
EXTENDS Coverage, TLC

\* A session of two types, two sessions of one type each, and a source of
\* types that come one by one with room for one.  The types are symmetric.
MCSources == {[dynamic |-> FALSE, types |-> 2, gens |-> 1, toks |-> 0, revs |-> 3],
              [dynamic |-> FALSE, types |-> 1, gens |-> 2, toks |-> 0, revs |-> 5],
              [dynamic |-> TRUE, types |-> 1, gens |-> 2, toks |-> 2, revs |-> 4]}
TypeSymmetry == Permutations(Gvrs)

\* Registrations that overlap while an object changes, of a type that the core
\* informer watches too or not: more of one or more of the other.  And two
\* incarnations and every shape of the definition, without an object.
Overlap(core, runs, revisions) ==
    [core |-> core, shapes |-> {"v1", "unserved"}, uids |-> 1, runs |-> runs, revisions |-> revisions]
MCShapes == [core |-> FALSE, shapes |-> {"v1", "v2", "unserved", "invalid"}, uids |-> 2, runs |-> 3,
             revisions |-> 0]
MCScenarios == {MCShapes, Overlap(FALSE, 3, 1), Overlap(FALSE, 2, 2), Overlap(TRUE, 2, 1),
                Overlap(TRUE, 1, 2)}

VARIABLES
    which,
    cScenario, cCrd, cUids, cSeen, cMeta, cRegistered, cRuns, cFamily, cRefs, cFamilies, cObj,
    cRevisions, cStored, cEdge, cGap, cCore, cCancelled, cReturned,
    iServed, iChanges, iCollectors, iOwner, iEvidence, iThroughout, iSometime

C == INSTANCE CrdDiscovery WITH
        scenario <- cScenario, crd <- cCrd, uids <- cUids, seen <- cSeen, meta <- cMeta,
        registered <- cRegistered, runs <- cRuns, family <- cFamily, refs <- cRefs,
        families <- cFamilies, obj <- cObj, revisions <- cRevisions, stored <- cStored,
        edge <- cEdge, gap <- cGap, core <- cCore, cancelled <- cCancelled, returned <- cReturned,
        Versions <- {"v1", "v2"}, Scenarios <- MCScenarios, Lag <- 1
I == INSTANCE Inventory WITH
        served <- iServed, changes <- iChanges, collectors <- iCollectors, owner <- iOwner,
        evidence <- iEvidence, throughout <- iThroughout, sometime <- iSometime,
        GroupVersions <- {"v1", "apps", "batch"}, Names <- {"x", "y"}, Core <- "v1",
        MaxVersions <- 2, MaxResources <- 3, Collectors <- {1, 2}, MaxChanges <- 2, MaxChecks <- 1

discovery == <<cScenario, cCrd, cUids, cSeen, cMeta, cRegistered, cRuns, cFamily, cRefs, cFamilies,
               cObj, cRevisions, cStored, cEdge, cGap, cCore, cCancelled, cReturned>>
inventory == <<iServed, iChanges, iCollectors, iOwner, iEvidence, iThroughout, iSometime>>
all == <<which, vars, discovery, inventory>>

\* Every other component stays as it was.
Only(x) ==
    /\ which = x /\ UNCHANGED which
    /\ x # "coverage" => UNCHANGED vars
    /\ x # "discovery" => UNCHANGED discovery
    /\ x # "inventory" => UNCHANGED inventory

MCInit ==
    /\ which \in {"coverage", "discovery", "inventory"}
    /\ Init /\ C!Init /\ I!Init
    /\ which # "coverage" => source = CHOOSE s \in MCSources : TRUE
    /\ which # "discovery" => cScenario = MCShapes

MCNext ==
    \/ Only("coverage") /\ Next
    \/ Only("discovery") /\ C!Next
    \/ Only("inventory") /\ I!Next

MCSpec == MCInit /\ [][MCNext]_all

-----------------------------------------------------------------------------
\* CrdDiscovery: registrations, their locks and their writes stay in step with
\* the definitions and the objects in the API server.
PipelinesSound == which = "discovery" => C!PipelinesSound

\* Inventory: what an inventory claims was served.
InventoryIsEarned == which = "inventory" => I!InventoryIsEarned
=============================================================================

------------------------------- MODULE MCGraph -------------------------------
(* The graph, one component per behaviour: the two backends, the extractors     *)
(* that make its edges, and what is computed over it for views, reports and     *)
(* impact analyses.  In memory there are three workloads and a Secret they may  *)
(* name, in two namespaces and clusters; in PostgreSQL a workload, a custom     *)
(* resource AGE has no label for, and a Secret, with two informers.             *)
EXTENDS MemoryStore, ReadCases, ExtractorCases, AnalysisCases

CONSTANTS web, api, db, cert, pod, widget, c1, c2, nobody, l1

MCIds == {web, api, db, cert}
MCSecretIds == {cert}
MCNamespaceOf == [id \in MCIds |-> IF id \in {web, api} THEN "shop" ELSE "core"]
MCClusterOf == [id \in MCIds |-> IF id = web THEN "east" ELSE "west"]
MCKindOf == [id \in MCIds |-> IF id = cert THEN "Secret" ELSE "Deployment"]

\* A value is its labels and its payload; the reference-only value has neither.
MCValues == {[labels |-> {}, raw |-> "payload"], [labels |-> {l1}, raw |-> "payload"]}
MCSecretRef == [labels |-> {}, raw |-> "none"]
MCLabelsOf(v) == v.labels

\* A chain with a parallel edge and a way back, a self-reference, and a
\* reference to the Secret.
MCEdges ==
    {<<web, api, "USES">>, <<api, db, "USES">>, <<api, db, "OWNS">>, <<db, web, "OWNS">>,
     <<api, api, "OWNS">>, <<db, cert, "USES">>}

PgIds == {pod, widget, cert}
PgNamespaceOf == [id \in PgIds |-> IF id = widget THEN "core" ELSE "shop"]
PgClusterOf == [id \in PgIds |-> IF id = pod THEN "east" ELSE "west"]
PgKindOf == [id \in PgIds |-> CASE id = pod -> "Pod" [] id = widget -> "Widget" [] id = cert -> "Secret"]
PgEdges == {<<pod, cert, "USES">>, <<cert, pod, "OWNS">>, <<pod, widget, "CALLS">>}
PgEmittedBy == [c \in {c1, c2} |-> IF c = c1 THEN PgEdges ELSE {<<pod, widget, "CALLS">>}]
PgOwnerOf == [id \in PgIds |-> CASE id = pod -> c1 [] id = widget -> c2 [] id = cert -> nobody]
PgValues == {[labels |-> {l1}, raw |-> "payload"]}

VARIABLES
    which,
    pDb, pTodo, pWrites, pLate,
    rStored, rEdges, rReq, rStage, rTodo, rAnswer, rEverStored, rEverEdges, rAlwaysStored,
    rAlwaysEdges, rChanges, rFaults,
    cEdges, cOwners, cMarked, cReports,
    xObject, xStored, xListing, xEdges, xFirstErr, xSource, xEvidence, xPhase,
    aResources, aEdges, aRoot, aOpts, aPhase, aQueue, aHead, aArcs, aVisited, aDepthLimited,
    aResultLimited, aTotals, aReport

P == INSTANCE PostgresStore WITH
        db <- pDb, todo <- pTodo, writes <- pWrites, late <- pLate,
        Ids <- PgIds, RefIds <- {cert}, SecretIds <- {cert}, Types <- {"USES", "OWNS", "CALLS"},
        Values <- PgValues, Attrs <- {"none"}, NamespaceOf <- PgNamespaceOf,
        ClusterOf <- PgClusterOf, KindOf <- PgKindOf, EdgeInputs <- PgEdges,
        KnownIds <- {pod, cert}, KnownTypes <- {"USES", "OWNS"}, Clients <- {c1, c2},
        OwnerOf <- PgOwnerOf, EmittedBy <- PgEmittedBy
R == INSTANCE Reads WITH
        stored <- rStored, edges <- rEdges, req <- rReq, stage <- rStage, todo <- rTodo,
        answer <- rAnswer, everStored <- rEverStored, everEdges <- rEverEdges,
        alwaysStored <- rAlwaysStored, alwaysEdges <- rAlwaysEdges, changes <- rChanges,
        faults <- rFaults, Requests <- ReadRequests, KindOf <- ReadKindOf,
        NamespaceOf <- ReadNamespaceOf, ClusterOf <- ReadClusterOf, OwnerOf <- ReadOwnerOf,
        Engines <- ReadEngines, NoOwner <- "nobody", OwnedPods <- {"pod"},
        MaxResourceNeighbors <- 2, MaxChanges <- 2, MaxFaults <- 1
C == INSTANCE Cycles WITH
        edges <- cEdges, owners <- cOwners, marked <- cMarked, reports <- cReports,
        Count <- 4, Ghosts <- {0}, Secret <- 4
X == INSTANCE Extractors WITH
        object <- xObject, stored <- xStored, listing <- xListing, edges <- xEdges,
        firstErr <- xFirstErr, source <- xSource, evidence <- xEvidence, phase <- xPhase,
        Objects <- ExtractorObjects, Population <- ExtractorPopulation
A == INSTANCE ImpactAnalysis WITH
        resources <- aResources, edges <- aEdges, root <- aRoot, opts <- aOpts, phase <- aPhase,
        queue <- aQueue, head <- aHead, arcs <- aArcs, visited <- aVisited,
        depthLimited <- aDepthLimited, resultLimited <- aResultLimited, totals <- aTotals,
        report <- aReport, KindOf <- AnalysisKindOf, NamespaceOf <- AnalysisNamespaceOf,
        UidOf <- AnalysisUidOf, Foreign <- AnalysisForeign, Inputs <- AnalysisInputs

postgres == <<pDb, pTodo, pWrites, pLate>>
reads == <<rStored, rEdges, rReq, rStage, rTodo, rAnswer, rEverStored, rEverEdges, rAlwaysStored,
           rAlwaysEdges, rChanges, rFaults>>
cycles == <<cEdges, cOwners, cMarked, cReports>>
extractors == <<xObject, xStored, xListing, xEdges, xFirstErr, xSource, xEvidence, xPhase>>
analysis == <<aResources, aEdges, aRoot, aOpts, aPhase, aQueue, aHead, aArcs, aVisited,
              aDepthLimited, aResultLimited, aTotals, aReport>>
all == <<which, vars, postgres, reads, cycles, extractors, analysis>>

\* Every other component stays as it was.
Only(x) ==
    /\ which = x /\ UNCHANGED which
    /\ x # "memory" => UNCHANGED vars
    /\ x # "postgres" => UNCHANGED postgres
    /\ x # "reads" => UNCHANGED reads
    /\ x # "cycles" => UNCHANGED cycles
    /\ x # "extractors" => UNCHANGED extractors
    /\ x # "analysis" => UNCHANGED analysis

\* Components that are not there in a behaviour.
NoReads ==
    /\ rStored = {} /\ rEdges = {} /\ rReq = {} /\ rStage = "" /\ rTodo = {} /\ rAnswer = {}
    /\ rEverStored = {} /\ rEverEdges = {} /\ rAlwaysStored = {} /\ rAlwaysEdges = {}
    /\ rChanges = 0 /\ rFaults = 0
NoCycles == cEdges = {} /\ cOwners = {} /\ cMarked = {} /\ cReports = <<>>
NoExtractors ==
    /\ xObject = {} /\ xStored = {} /\ xListing = FALSE /\ xEdges = {} /\ xFirstErr = FALSE
    /\ xSource = {} /\ xEvidence = {} /\ xPhase = ""
NoAnalysis ==
    /\ aResources = {} /\ aEdges = {} /\ aRoot = 0 /\ aOpts = {} /\ aPhase = "" /\ aQueue = <<>>
    /\ aHead = 0 /\ aArcs = {} /\ aVisited = {} /\ aDepthLimited = FALSE
    /\ aResultLimited = FALSE /\ aTotals = {} /\ aReport = {}

\* The store matters only to the objects whose extractors list it.
Relevant == X!Lists(xObject) \/ (xStored = {} /\ xListing)

MCInit ==
    /\ which \in {"memory", "postgres", "reads", "cycles", "extractors", "analysis"}
    /\ Init /\ P!Init
    /\ IF which = "reads" THEN R!Init ELSE NoReads
    /\ IF which = "cycles" THEN C!Init ELSE NoCycles
    /\ IF which = "extractors" THEN X!Init /\ Relevant ELSE NoExtractors
    /\ IF which = "analysis" THEN A!Init ELSE NoAnalysis

\* A computation that is over.
AtEnd ==
    \/ which = "reads" /\ R!Answered
    \/ which = "cycles" /\ cReports # <<>>
    \/ which = "extractors" /\ xPhase = "explained"
    \/ which = "analysis" /\ aPhase \notin {"begin", "ordinary", "authorization"}

MCNext ==
    \/ Only("memory") /\ Next
    \/ Only("postgres") /\ P!Next
    \/ Only("reads") /\ R!Next
    \/ Only("cycles") /\ C!Next
    \/ Only("extractors") /\ X!Next
    \/ Only("analysis") /\ A!Next
    \/ AtEnd /\ UNCHANGED all

MCSpec == MCInit /\ [][MCNext]_all

-----------------------------------------------------------------------------
\* What a store answers is what its graph says: the walks and aggregates of the
\* in-memory store are those of their definitions, and the queries of
\* PostgreSQL answer what the in-memory store would on the same rows.
ReadsAgree ==
    /\ which = "memory" => ReachIsBoundedWalks /\ AggregatesAgree
    /\ which = "postgres" => P!BackendsAgree

\* PostgresStore: the tables and the AGE graph commit together.
MirrorInStep == P!MirrorInStep

\* PostgresStore: a commit is a step of the GraphStore contract, or a delete
\* that misses edges committed while it ran.
CommitsFollowContract == P!CommitsFollowContract

\* Reads: what views and read handlers answer while the graph changes.
ReadsFollowGraph == which = "reads" => R!ReadsFollowGraph

\* Cycles: the reports are the strongly connected components.
CyclesAreComponents == which = "cycles" => C!CyclesAreComponents

\* Extractors: edges mean what Kubernetes means by the fields they come from.
EdgesAreMeant == which = "extractors" => X!EdgesAreMeant

\* ImpactAnalysis: both facets list what their relation reaches.
FacetsAreExact == which = "analysis" => A!FacetsAreExact
=============================================================================

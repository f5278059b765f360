SPECIFICATION MCSpec
CONSTANTS
    web = web
    api = api
    db = db
    cert = cert
    pod = pod
    widget = widget
    c1 = c1
    c2 = c2
    nobody = nobody
    l1 = l1
    Ids <- MCIds
    SecretIds <- MCSecretIds
    RefIds <- MCSecretIds
    Types = {"USES", "OWNS"}
    Values <- MCValues
    SecretRef <- MCSecretRef
    Attrs = {"none", "attr"}
    Absent = Absent
    NoEdge = NoEdge
    NamespaceOf <- MCNamespaceOf
    ClusterOf <- MCClusterOf
    KindOf <- MCKindOf
    LabelsOf <- MCLabelsOf
    EdgeInputs <- MCEdges
INVARIANTS StoreInv MirrorInStep  ReadsFollowGraph CyclesAreComponents EdgesAreMeant FacetsAreExact
PROPERTIES ImplementsContract CommitsFollowContract

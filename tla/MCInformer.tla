----------------------------- MODULE MCInformer -----------------------------
(* A Service that selects Pods and refers to a Secret, or does neither, and a *)
(* Pod that carries the selected label, each watched by a handler of its own. *)
EXTENDS Informer

Svc == "svc"
Pod == "pod"
Sec == "sec"

Body(refs, sel, lab) == [refs |-> refs, sel |-> sel, lab |-> lab]
MCObjects == {Svc, Pod}
MCGvrs == {"services", "pods"}
MCGvrOf == [o \in MCObjects |-> IF o = Svc THEN "services" ELSE "pods"]
\* The selecting Service of the safety runs refers to a Secret as well.
MCBodies ==
    [o \in MCObjects |-> IF o = Svc THEN {Body({Sec}, TRUE, FALSE), Body({}, FALSE, FALSE)}
                         ELSE {Body({}, FALSE, TRUE)}]
\* A Service that selects and the Pod it selects: nothing else varies.
MCSelectorBodies ==
    [o \in MCObjects |-> IF o = Svc THEN {Body({}, TRUE, FALSE)} ELSE {Body({}, FALSE, TRUE)}]
MCNone == [rev |-> 0, body |-> Body({}, FALSE, FALSE)]
=============================================================================

------------------------------ MODULE Inventory ------------------------------
(* pkg/discovery/api_inventory.go and pkg/operations/api_inventory.go: a        *)
(* collector asks the API server for its group versions, then for the          *)
(* resources of each, while both change, and records what it found under a     *)
(* session that a later collector for the same cluster takes over.             *)
EXTENDS Integers, FiniteSets

CONSTANTS
    GroupVersions, Names,  \* what the server may serve
    Core,                  \* the group version "v1", which is asked for whatever /apis says
    MaxVersions, MaxResources,   \* MaxInventoryGroupVersions, MaxInventoryResources
    Collectors,            \* the collectors of one cluster, in the order they begin
    MaxChanges, MaxChecks  \* bounds

VARIABLES
    served,      \* group version -> the resources it serves; absent versions serve none
    changes,
    collectors,  \* collector -> the check it is doing
    owner,       \* tracker.inventories[cluster]: the collector whose session counts
    evidence,    \* collector -> what its session recorded
    throughout,  \* collector -> (version, resource) served during the whole of its check
    sometime     \* collector -> those served at some time during it

vars == <<served, changes, collectors, owner, evidence, throughout, sometime>>

Pairs(s) == {p \in GroupVersions \X Names : p[1] \in DOMAIN s /\ p[2] \in s[p[1]]}
Idle == [at |-> "idle", todo |-> {}, found |-> {}, state |-> "unknown", limited |-> FALSE, checks |-> 0]
NoEvidence == [state |-> "unknown", resources |-> {}, limited |-> FALSE, stopped |-> FALSE,
               throughout |-> {}, sometime |-> {}]

Init ==
    /\ served \in [{Core} -> {Names}] /\ changes = 0
    /\ collectors = [c \in Collectors |-> Idle] /\ owner = 0
    /\ evidence = [c \in Collectors |-> NoEvidence]
    /\ throughout = [c \in Collectors |-> {}] /\ sometime = [c \in Collectors |-> {}]

\* The server starts, stops or changes a group version.
Change(gv, names) ==
    /\ changes < MaxChanges /\ changes' = changes + 1
    /\ served' = IF names = {} /\ gv # Core
                 THEN [v \in DOMAIN served \ {gv} |-> served[v]]
                 ELSE [v \in DOMAIN served \cup {gv} |-> IF v = gv THEN names ELSE served[v]]
    /\ throughout' = [c \in Collectors |-> throughout[c] \cap Pairs(served')]
    /\ sometime' = [c \in Collectors |-> sometime[c] \cup Pairs(served')]
    /\ UNCHANGED <<collectors, owner, evidence>>

\* BeginAPIInventory: the new session replaces the one before.
Begin(c) ==
    /\ owner < c
    /\ owner' = c
    /\ UNCHANGED <<served, changes, collectors, evidence, throughout, sometime>>

\* The first request of discoverAPIInventory.  More group versions than the
\* limit end the check; a failed answer does too.
ReadGroups(c) ==
    LET versions == DOMAIN served \cup {Core}
        done(state, limited) ==
            [collectors[c] EXCEPT !.at = "record", !.state = state, !.limited = limited, !.found = {}]
    IN  /\ c <= owner /\ ~evidence[c].stopped
        /\ collectors[c].at = "idle" /\ collectors[c].checks < MaxChecks
        /\ \/ Cardinality(versions) <= MaxVersions
              /\ collectors' = [collectors EXCEPT ![c] =
                    [@ EXCEPT !.at = "lists", !.todo = versions, !.found = {}, !.state = "complete",
                              !.limited = FALSE]]
           \/ Cardinality(versions) > MaxVersions
              /\ collectors' = [collectors EXCEPT ![c] = done("partial", TRUE)]
           \/ \E state \in {"permission_denied", "failed", "partial"} :
                 collectors' = [collectors EXCEPT ![c] = done(state, FALSE)]
        /\ throughout' = [throughout EXCEPT ![c] = Pairs(served)]
        /\ sometime' = [sometime EXCEPT ![c] = Pairs(served)]
        /\ UNCHANGED <<served, changes, owner, evidence>>

\* One list request.  A version that is gone, or an empty core list, leaves the
\* inventory partial; any other error loses what was found.
ReadList(c, gv) ==
    LET self == collectors[c]
        found == self.found \cup {<<gv, n>> : n \in served[gv]}
        last == self.todo = {gv}
        after == [self EXCEPT !.todo = @ \ {gv}, !.at = IF last THEN "record" ELSE "lists"]
    IN  /\ self.at = "lists" /\ gv \in self.todo
        /\ \/ /\ gv \in DOMAIN served /\ ~(gv = Core /\ served[gv] = {})
              /\ IF Cardinality(found) <= MaxResources
                 THEN collectors' = [collectors EXCEPT ![c] = [after EXCEPT !.found = found]]
                 ELSE \E some \in SUBSET found :
                         /\ self.found \subseteq some /\ Cardinality(some) = MaxResources
                         /\ collectors' = [collectors EXCEPT ![c] =
                               [after EXCEPT !.found = some, !.at = "record", !.state = "partial",
                                             !.limited = TRUE]]
           \/ /\ gv \notin DOMAIN served \/ (gv = Core /\ served[gv] = {})
              /\ collectors' = [collectors EXCEPT ![c] = [after EXCEPT !.state = "partial"]]
           \/ \E state \in {"permission_denied", "failed"} :
                 collectors' = [collectors EXCEPT ![c] =
                       [after EXCEPT !.found = {}, !.at = "record", !.state = state]]
        /\ UNCHANGED <<served, changes, owner, evidence, throughout, sometime>>

\* As if a collector that was replaced still recorded, into the session in charge.
RecordAnywhere(c) ==
    /\ collectors[c].at = "record"
    /\ collectors' = [collectors EXCEPT ![c] = [@ EXCEPT !.at = "idle", !.checks = @ + 1]]
    /\ evidence' = [evidence EXCEPT ![owner] =
                           [state |-> collectors[c].state, resources |-> collectors[c].found,
                            limited |-> collectors[c].limited, stopped |-> @.stopped,
                            throughout |-> throughout[owner], sometime |-> sometime[owner]]]
    /\ UNCHANGED <<served, changes, owner, throughout, sometime>>

\* Session.Record: refused when the session was stopped or replaced.
Record(c) ==
    /\ collectors[c].at = "record"
    /\ collectors' = [collectors EXCEPT ![c] = [@ EXCEPT !.at = "idle", !.checks = @ + 1]]
    /\ evidence' = IF evidence[c].stopped \/ owner # c THEN evidence
                   ELSE [evidence EXCEPT ![c] =
                           [state |-> collectors[c].state, resources |-> collectors[c].found,
                            limited |-> collectors[c].limited, stopped |-> FALSE,
                            throughout |-> throughout[c], sometime |-> sometime[c]]]
    /\ UNCHANGED <<served, changes, owner, throughout, sometime>>

\* The collector returns; a check under way is given up.
Stop(c) ==
    /\ c <= owner /\ ~evidence[c].stopped
    /\ evidence' = IF owner = c THEN [evidence EXCEPT ![c].stopped = TRUE] ELSE evidence
    /\ collectors' = [collectors EXCEPT ![c] = [Idle EXCEPT !.checks = MaxChecks]]
    /\ UNCHANGED <<served, changes, owner, throughout, sometime>>

Next ==
    \/ \E gv \in GroupVersions, names \in SUBSET Names : Change(gv, names)
    \/ \E c \in Collectors :
          \/ Begin(c) \/ ReadGroups(c) \/ Record(c) \/ Stop(c)
          \/ \E gv \in GroupVersions : ReadList(c, gv)

Spec == Init /\ [][Next]_vars

\* What the impact report asks of an inventory before it uses it.
validateImpactInventory(e) ==
    /\ e.state = "complete" => ~e.limited
    /\ e.state = "unknown" => e.resources = {} /\ ~e.limited
    /\ e.state \in {"permission_denied", "failed"} => e.resources = {}
    /\ Cardinality(e.resources) <= MaxResources
    /\ Cardinality({p[1] : p \in e.resources}) <= MaxVersions

-----------------------------------------------------------------------------
(* Property. *)

\* What an inventory claims, although the server changes between its requests:
\* every resource of it was served at some time during its check; a complete
\* one leaves out no resource that was served throughout; and the impact report
\* accepts what the collectors recorded.
InventoryIsEarned ==
    \A c \in Collectors :
        LET e == evidence[c] IN
        /\ e.resources \subseteq e.sometime
        /\ e.state = "complete" => e.throughout \subseteq e.resources
        /\ validateImpactInventory(e)
=============================================================================

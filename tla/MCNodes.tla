------------------------------ MODULE MCNodes -------------------------------
(***************************************************************************)
(* What restarts and deployments do to the panel's hosts, in one run: each *)
(* behaviour is one of the gate to the nodes and of its owner, or of the   *)
(* updates of the panel itself.                                            *)
(***************************************************************************)
EXTENDS NodeGate, SafeUpdate, TLC

CONSTANTS p1, p2, h1, h2

VARIABLE part       \* "gate" or "update"; it never changes

Inert == [mode |-> "off", epoch |-> 0, state |-> "none", owner |-> NoOwner, owned |-> 0]
Owned == [mode |-> "enforced", epoch |-> 1, state |-> "active", owner |-> <<h1, 0>>, owned |-> 1]

D(at, owners, faulty, restarting, bound, first) ==
    [at |-> at, owners |-> owners, changers |-> {p2}, faulty |-> faulty, restarting |-> restarting,
     epochs |-> bound, owned |-> bound, row |-> first]

Together == [p \in GateProcs |-> h1]
Apart    == [p \in GateProcs |-> IF p = p1 THEN h1 ELSE h2]

\* Two processes of one host, nothing claimed yet; the second serves the
\* superadmin.  Two hosts, the gate enforced and owned by the first, which may
\* restart; and two where the mode is lowered and raised again and the
\* ownership goes there and back.
MCDeployments == {
    D(Together, {p2}, {p1}, {}, 2, Inert),
    D(Apart, {p1, p2}, {}, {h1}, 2, Owned),
    D(Apart, {p1, p2}, {}, {}, 3, Owned) }

nodesvars == <<part, gateVars, updatevars>>

\* A part that is not this behaviour's stays in one of its initial states.
NodesInit ==
    /\ part \in {"gate", "update"} /\ GateInit /\ UpdateInit
    /\ part = "update" => placed = Together

NodesNext ==
    \/ part = "gate" /\ GateNext /\ UNCHANGED <<part, updatevars>>
    \/ part = "update" /\ UpdateNext /\ UNCHANGED <<part, gateVars>>

NodesSpec == NodesInit /\ [][NodesNext]_nodesvars

=============================================================================

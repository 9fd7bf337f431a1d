---------------------------- MODULE MeshDiscovery ----------------------------
(***************************************************************************)
(* How the agents of the mesh find each other. Every agent asks its node   *)
(* for the topology, which may not show all, and then the peers it got for *)
(* the peers that they know; what it knew before is forgotten. Nodes go    *)
(* down and come back with the same key.                                   *)
(***************************************************************************)
EXTENDS Naturals, FiniteSets

CONSTANTS
  Nodes,      \* public keys
  Links,      \* pairs of nodes that see each other in their topology
  MaxLost     \* bound on failed calls and nodes that go down

ASSUME DiscoveryAssumption ==
  /\ IsFiniteSet(Nodes)
  /\ Links \subseteq {e \in SUBSET Nodes : Cardinality(e) = 2}
  /\ MaxLost \in Nat

VARIABLES
  up,
  known,      \* of each agent
  asked,      \* the peers that a refresh under way waits for
  aggregated, \* what it has put together
  lost        \* failed calls and nodes that went down, so far

discoveryVars == <<up, known, asked, aggregated, lost>>

DiscoveryInit ==
  /\ up = Nodes
  /\ known = [n \in Nodes |-> {}]
  /\ asked = [n \in Nodes |-> {}]
  /\ aggregated = [n \in Nodes |-> {}]
  /\ lost = 0

Loss == lost < MaxLost /\ lost' = lost + 1

Linked(n) == {p \in up : {n, p} \in Links}

(* refresh: the topology. With no peer in it there is nobody to ask, and     *)
(* when it cannot be had nothing is replaced.                                *)
BeginRefresh(n) ==
  /\ n \in up /\ asked[n] = {}
  /\ asked' = [asked EXCEPT ![n] = Linked(n)]
  /\ aggregated' = [aggregated EXCEPT ![n] = Linked(n)]
  /\ known' = IF Linked(n) = {} THEN [known EXCEPT ![n] = {}] ELSE known
  /\ UNCHANGED <<up, lost>>

(* Faulty variant: what the peers of the topology know is not added.         *)
AggregatedNothing(n, told) == aggregated[n]

Aggregated(n, told) == aggregated[n] \cup (told \ {n})

(* A peer's call of share_topology is over; after the last one the agent     *)
(* knows what it has put together.                                           *)
CallOver(n, p, told) ==
  /\ p \in asked[n]
  /\ asked' = [asked EXCEPT ![n] = @ \ {p}]
  /\ aggregated' = [aggregated EXCEPT ![n] = Aggregated(n, told)]
  /\ known' = IF asked[n] = {p} THEN [known EXCEPT ![n] = Aggregated(n, told)] ELSE known
  /\ UNCHANGED up

PeerAnswers(n, p) == p \in up /\ CallOver(n, p, known[p]) /\ UNCHANGED lost

PeerIsDown(n, p) == p \notin up /\ CallOver(n, p, {}) /\ UNCHANGED lost

ShareFails(n, p) == p \in up /\ Loss /\ CallOver(n, p, {})

(* A process ends, and starts with nothing known.                            *)
NodeDown(n) ==
  /\ n \in up
  /\ Loss
  /\ up' = up \ {n}
  /\ known' = [known EXCEPT ![n] = {}]
  /\ asked' = [asked EXCEPT ![n] = {}]
  /\ aggregated' = [aggregated EXCEPT ![n] = {}]

NodeUp(n) ==
  /\ n \notin up
  /\ up' = up \cup {n}
  /\ UNCHANGED <<known, asked, aggregated, lost>>

Refresh(n) == BeginRefresh(n) \/ \E p \in Nodes : PeerAnswers(n, p) \/ PeerIsDown(n, p)

-----------------------------------------------------------------------------
(* The agents that are up and are connected with n, however many hops away.  *)
Near(S) == S \cup UNION {Linked(n) : n \in S}
Component(n) ==
  LET hops[i \in 0..Cardinality(Nodes)] == IF i = 0 THEN {n} ELSE Near(hops[i - 1])
  IN hops[Cardinality(Nodes)]

=============================================================================

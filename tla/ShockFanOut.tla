----------------------------- MODULE ShockFanOut -----------------------------
(***************************************************************************)
(* The Federal Reserve's sweep: it reads the most severe active shocks,    *)
(* and sends each affected state a signal of the worst one it has not      *)
(* sent yet, if it finds the state's agent in the mesh.                    *)
(***************************************************************************)
EXTENDS MeshDiscovery, Sequences, SequencesExt

CONSTANTS
  FED,          \* the node that sweeps
  Events,       \* shocks that may become active
  Severity,     \* of each event; two of one severity are sent in either order
  Affects,      \* the node of the state each event affects
  Recognised,   \* the nodes whose card names one of the eight states it knows
  TopN,         \* events a sweep reads
  RecentCap, RecentKeep

ASSUME SweepAssumption ==
  /\ FED \in Nodes
  /\ Severity \in [Events -> Nat]
  /\ \A d, e \in Events : Severity[d] = Severity[e] => d = e
  /\ Affects \in [Events -> Nodes \ {FED}]
  /\ Recognised \subseteq Nodes
  /\ {TopN, RecentCap, RecentKeep} \subseteq Nat
  /\ TopN <= RecentKeep /\ RecentKeep <= RecentCap

VARIABLES
  active,       \* in the data plane's shock cache
  recently,     \* recentlyInjectedShocks, oldest first
  card,         \* _agentCardCache: "yes" names the agent's state
  peers,        \* knownPubkeys of the sweep
  todo,         \* byFips: the events it is yet to send
  now,          \* the event that is being sent, as a set
  walk,         \* the peers still to be looked at for its agent
  handled,      \* history: how often the state's agent handled each event
  excuse        \* history: answers lost, ids trimmed, restarts

sweepVars == <<active, recently, card, peers, todo, now, walk, handled, excuse>>
fanOutVars == <<discoveryVars, sweepVars>>

SweepInit ==
  /\ DiscoveryInit
  /\ active = {}
  /\ recently = <<>>
  /\ card = [n \in Nodes |-> "none"]
  /\ peers = {} /\ todo = {} /\ now = {} /\ walk = {}
  /\ handled = [e \in Events |-> 0]
  /\ excuse = [e \in Events |-> 0]

Sweeping == todo # {} \/ now # {}

-----------------------------------------------------------------------------
(* The weather, and what the data plane makes of it                          *)

Appear(e) ==
  /\ e \notin active /\ handled[e] = 0
  /\ active' = active \cup {e}
  /\ UNCHANGED <<discoveryVars, recently, card, peers, todo, now, walk, handled, excuse>>

Expire(e) ==
  /\ e \in active
  /\ active' = active \ {e}
  /\ UNCHANGED <<discoveryVars, recently, card, peers, todo, now, walk, handled, excuse>>

(* shocks(20), by severity.                                                  *)
Top == {e \in active : Cardinality({d \in active : Severity[d] > Severity[e]}) < TopN}

-----------------------------------------------------------------------------
(* sweepNoaaShocksAndFanOut                                                  *)

Fresh == Top \ ToSet(recently)

(* One event for each state: the most severe one that was not sent yet.      *)
Chosen == {e \in Fresh : \A d \in Fresh : Affects[d] = Affects[e] => Severity[d] <= Severity[e]}

BeginSweep ==
  /\ FED \in up /\ ~Sweeping
  /\ Fresh # {} /\ known[FED] # {}
  /\ todo' = Chosen
  /\ peers' = known[FED]
  /\ UNCHANGED <<discoveryVars, active, recently, card, now, walk, handled, excuse>>

(* resolvePeerPubkeyByAbbr begins: the peers known by now.                   *)
NextEvent ==
  /\ now = {}
  /\ \E e \in todo : now' = {e} /\ todo' = todo \ {e}
  /\ walk' = known[FED]
  /\ UNCHANGED <<discoveryVars, active, recently, card, peers, handled, excuse>>

Target == {Affects[e] : e \in now}

(* The peers that are still to be looked at, in any order, with what their   *)
(* cards said before: those that named another state, or failed in the last  *)
(* five minutes, are passed by.                                              *)
Unread == {p \in walk : card[p] = "none"}
Found == Target # {} /\ \A p \in Target : p \in walk /\ card[p] = "yes"

Looked(p, c) ==
  /\ p \in Unread
  /\ card' = [card EXCEPT ![p] = c]
  /\ walk' = IF c = "yes" THEN walk ELSE walk \ {p}
  /\ UNCHANGED <<up, known, asked, aggregated, active, recently, peers, todo, now, handled,
                 excuse>>

(* getRemoteAgentCard; a name that is not recognised is cached like a        *)
(* failure, whatever state the agent is of.                                  *)
Look(p) ==
  Looked(p, IF p \in up \cap Recognised THEN "yes" ELSE "null") /\ UNCHANGED lost

LookFails(p) == Loss /\ Looked(p, "null")

(* Null entries are kept for five minutes.                                   *)
CardExpires(p) ==
  /\ card[p] = "null"
  /\ card' = [card EXCEPT ![p] = "none"]
  /\ UNCHANGED <<discoveryVars, active, recently, peers, todo, now, walk, handled, excuse>>

(* The end of a sweep trims the ids it remembers, the oldest first.          *)
Trimmed(ids) ==
  IF Len(ids) > RecentCap THEN SubSeq(ids, Len(ids) - RecentKeep + 1, Len(ids)) ELSE ids

(* History: the events a state was told of, and those that are no longer     *)
(* remembered, or not remembered though the state was told.                  *)
Counted(told, forgotten) ==
  /\ handled' = [e \in Events |-> handled[e] + IF e \in told THEN 1 ELSE 0]
  /\ excuse' = [e \in Events |-> excuse[e] + IF e \in forgotten THEN 1 ELSE 0]

(* The event is over for this sweep; with the last one the sweep ends.       *)
Ended(ids, told) ==
  /\ now' = {} /\ walk' = {}
  /\ recently' = IF todo = {} THEN Trimmed(ids) ELSE ids
  /\ Counted(told, (told \cup ToSet(ids)) \ ToSet(recently'))
  /\ UNCHANGED <<up, known, asked, aggregated, active, card, peers, todo>>

(* The signal is handled and its answer, joining or not, comes back.         *)
Inject ==
  /\ Found /\ Target \subseteq peers \cap up
  /\ \E e \in now : Ended(Append(recently, e), now)
  /\ UNCHANGED lost

(* Nobody was found, in time, or it does not answer.                         *)
Skip ==
  /\ now # {}
  /\ \/ ~Found /\ Unread = {}
     \/ Found /\ ~(Target \subseteq peers \cap up)
  /\ Ended(recently, {})
  /\ UNCHANGED lost

(* Faulty variant: an event is marked when its signal is sent.               *)
SignalMarked(told) == \E e \in now : Ended(Append(recently, e), told)

(* An error says nothing of what the agent did before it.                    *)
SignalFailed(told) == Ended(recently, told)

(* The call fails before, or after, the signal was handled.                  *)
SignalFails ==
  /\ Found /\ Target \subseteq peers \cap up
  /\ Loss
  /\ \E told \in {{}, now} : SignalFailed(told)

SweepStep == BeginSweep \/ NextEvent \/ Inject \/ Skip \/ \E p \in Nodes : Look(p)

-----------------------------------------------------------------------------
(* The Federal Reserve's process keeps the sweep and what it remembers; the  *)
(* agent that it is calling may answer nobody.                               *)
Down(n) ==
  /\ NodeDown(n)
  /\ IF n # FED THEN UNCHANGED sweepVars
     ELSE \E told \in {{}, IF Found THEN now ELSE {}} :
            /\ recently' = <<>>
            /\ card' = [p \in Nodes |-> "none"]
            /\ peers' = {} /\ todo' = {} /\ now' = {} /\ walk' = {}
            /\ Counted(told, ToSet(recently) \cup told)
            /\ UNCHANGED active

SweepNext ==
  \/ \E n \in Nodes : (Refresh(n) \/ NodeUp(n)) /\ UNCHANGED sweepVars
  \/ \E n, p \in Nodes : ShareFails(n, p) /\ UNCHANGED sweepVars
  \/ \E n \in Nodes : Down(n)
  \/ \E e \in Events : Appear(e) \/ Expire(e)
  \/ SweepStep \/ SignalFails
  \/ \E p \in Nodes : LookFails(p) \/ CardExpires(p)

SweepSpec == SweepInit /\ [][SweepNext]_fanOutVars

(* Timers fire and calls return; nodes that are down may stay so.            *)
SweepFairSpec ==
  /\ SweepSpec
  /\ WF_fanOutVars(SweepStep)
  /\ \A n \in Nodes : WF_discoveryVars(Refresh(n)) /\ WF_card(CardExpires(n))

-----------------------------------------------------------------------------
(* A shock for a state that can be reached from the Federal Reserve, however *)
(* many hops away.                                                           *)
Owed(e) == e \in Top /\ FED \in up /\ Affects[e] \in Component(FED)

(* Again and again no shock is due that its state has not handled, if the    *)
(* state is one of the eight the sweep recognises: what one agent forgets    *)
(* another passes on, and failed calls, cached failures, the sweep's old     *)
(* list of peers, more severe shocks, and shocks of other states only delay  *)
(* a signal (sweepNoaaShocksAndFanOut, resolvePeerPubkeyByAbbr).             *)
EveryShockHandled ==
  []<>(\A e \in Events : Owed(e) /\ Affects[e] \in Recognised => handled[e] > 0)

(* A shock that is remembered was handled, and it is handled again only when *)
(* an answer was lost, or it was trimmed, or the sweeper restarted.          *)
HandledOnce ==
  \A e \in Events :
    /\ e \in ToSet(recently) => handled[e] > 0
    /\ handled[e] <= excuse[e] + IF e \in ToSet(recently) THEN 1 ELSE 0

=============================================================================

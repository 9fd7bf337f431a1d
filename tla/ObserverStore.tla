---------------------------- MODULE ObserverStore ----------------------------
(***************************************************************************)
(* The observer's in-memory store: what it keeps of the telemetry that     *)
(* agents post, of the broadcasts it hears, and of the files and the       *)
(* topology it reads every five seconds.                                   *)
(*                                                                         *)
(* Things are named by the event that brought them, whose id is also their *)
(* time of arrival. A state's view is the version of its memory file, the  *)
(* event of its indicator, and the two its health was derived from.        *)
(***************************************************************************)
EXTENDS Naturals, FiniteSets, Sequences

CONSTANTS
  Tasks,           \* negotiations
  Stages,          \* of the rounds that are posted
  NegotiationCap,  \* NEGOTIATION_CAP
  SwapCap,         \* SWAP_HISTORY_CAP
  EventCap,        \* EVENT_CAP
  MaxInputs        \* bound on telemetry, changes of what is read, and failed reads

ASSUME StoreAssumption ==
  /\ Stages \subseteq {"proposal", "counter", "accept", "reject", "settlement",
                       "coalition_join", "coalition_decline", "coalition_counter"}
  /\ {NegotiationCap, SwapCap, EventCap} \subseteq Nat \ {0}
  /\ MaxInputs \in Nat

Sources == {"memory", "manifest", "topology"}
Registers == {"indicator", "fed_rate", "reflection"}
Never == 0

VARIABLES
  nextEventId,
  events,          \* oldest first
  negotiations,
  swaps, shocks,   \* by event
  latest,          \* the event of the latest value of each register
  aged,            \* all events before it are older than the TTLs
  world,           \* versions of what the observer reads
  known,           \* versions it read
  health,          \* what the state's health was derived from
  inputs

storeVars ==
  <<nextEventId, events, negotiations, swaps, shocks, latest, aged, world, known, health,
    inputs>>

StoreInit ==
  /\ nextEventId = 1
  /\ events = <<>>
  /\ negotiations = <<>>
  /\ swaps = <<>> /\ shocks = {}
  /\ latest = [r \in Registers |-> Never]
  /\ aged = 1
  /\ world = [s \in Sources |-> 0]
  /\ known = world
  /\ health = [memory |-> 0, indicator |-> Never]
  /\ inputs = 0

Input == inputs < MaxInputs /\ inputs' = inputs + 1

Least(a, b) == IF a < b THEN a ELSE b

Newest(s, n) == SubSeq(s, Len(s) - Least(n, Len(s)) + 1, Len(s))

(* The event goes to the ring and to the subscribers (the dashboard module). *)
Emit(kind, payload) ==
  /\ nextEventId' = nextEventId + 1
  /\ events' = Newest(Append(events, [id |-> nextEventId, kind |-> kind, payload |-> payload]),
                      EventCap)

-----------------------------------------------------------------------------
(* Negotiations                                                              *)

EndingStages == {"accept", "reject", "settlement", "coalition_join", "coalition_decline"}
Refusals == {"reject", "coalition_decline"}
SettlementStatus(stage) == IF stage \in Refusals THEN "rejected" ELSE "settled"
FirstStatus(stage) == IF stage \in EndingStages THEN SettlementStatus(stage) ELSE "open"

LastAt(view) == view.rounds[Len(view.rounds)]

(* Faulty variant: the status is that of the last round.                     *)
WithRoundRecomputed(task, stage, id, views) ==
  LET rounds == IF task \in DOMAIN views THEN views[task].rounds ELSE <<>>
  IN [t \in DOMAIN views \cup {task} |->
        IF t # task THEN views[t]
        ELSE [status |-> FirstStatus(stage), rounds |-> Append(rounds, id)]]

WithRound(task, stage, id, views) ==
  [t \in DOMAIN views \cup {task} |->
     IF t # task THEN views[t]
     ELSE IF task \notin DOMAIN views
       THEN [status |-> FirstStatus(stage), rounds |-> <<id>>]
       ELSE [status |-> IF stage \in EndingStages THEN SettlementStatus(stage)
                                                  ELSE views[task].status,
             rounds |-> Append(views[task].rounds, id)]]

Olders(t, views) == {u \in DOMAIN views : LastAt(views[u]) <= LastAt(views[t])}

(* What the trim stops at: an open negotiation that is not too old.          *)
Blocks(view) == view.status = "open" /\ LastAt(view) >= aged

(* Faulty variant: only what is too old is deleted.                          *)
TrimOld(views) ==
  LET kept == {t \in DOMAIN views :
                 \/ Cardinality(DOMAIN views) - Cardinality(Olders(t, views)) < NegotiationCap
                 \/ \E u \in Olders(t, views) : LastAt(views[u]) >= aged}
  IN [t \in kept |-> views[t]]

(* From the oldest on, negotiations that ended or are too old are deleted    *)
(* until the cap is kept; the first other one ends the trim.                 *)
Trim(views) ==
  LET kept == {t \in DOMAIN views :
                 \/ Cardinality(DOMAIN views) - Cardinality(Olders(t, views)) < NegotiationCap
                 \/ \E u \in Olders(t, views) : Blocks(views[u])}
  IN [t \in kept |-> views[t]]

IngestNegotiationRound(task, stage) ==
  /\ negotiations' = Trim(WithRound(task, stage, nextEventId, negotiations))
  /\ Emit("negotiation_round", [task |-> task, stage |-> stage])
  /\ UNCHANGED <<swaps, shocks, latest, aged, world, known, health>>

-----------------------------------------------------------------------------
(* The other telemetry                                                       *)

IngestSwapExecuted ==
  /\ swaps' = Newest(Append(swaps, nextEventId), SwapCap)
  /\ Emit("swap_executed", {})
  /\ UNCHANGED <<negotiations, shocks, latest, aged, world, known, health>>

(* Nobody reads shocks that gcShocks did not go over first.                  *)
Fresh(ids) == {i \in ids : i >= aged}

IngestShockInjected ==
  /\ shocks' = shocks \cup {nextEventId}
  /\ Emit("shock_injected", {})
  /\ UNCHANGED <<negotiations, swaps, latest, aged, world, known, health>>

IngestReflection ==
  /\ latest' = [latest EXCEPT !["reflection"] = nextEventId]
  /\ Emit("reflection", {})
  /\ UNCHANGED <<negotiations, swaps, shocks, aged, world, known, health>>

IngestFedRate ==
  /\ latest' = [latest EXCEPT !["fed_rate"] = nextEventId]
  /\ Emit("fed_rate_received", {})
  /\ UNCHANGED <<negotiations, swaps, shocks, aged, world, known, health>>

IngestIndicator ==
  /\ latest' = [latest EXCEPT !["indicator"] = nextEventId]
  /\ health' = [memory |-> known["memory"], indicator |-> nextEventId]
  /\ Emit("indicator_received", {})
  /\ UNCHANGED <<negotiations, swaps, shocks, aged, world, known>>

-----------------------------------------------------------------------------
(* What is read every five seconds. A file that is being written, or gone    *)
(* between the check and the read, is an event and changes nothing.          *)

Read(source) == known' = [known EXCEPT ![source] = world[source]]

HydrateFromMemory ==
  /\ Read("memory")
  /\ health' = [memory |-> world["memory"], indicator |-> latest["indicator"]]
  /\ UNCHANGED <<nextEventId, events, negotiations, swaps, shocks, latest, aged, world, inputs>>

LoadInfts ==
  /\ known["manifest"] # world["manifest"]
  /\ Read("manifest")
  /\ Emit("inft_manifest_updated", {})
  /\ UNCHANGED <<negotiations, swaps, shocks, latest, aged, world, health, inputs>>

ReadFails ==
  /\ Emit("system_event", {})
  /\ UNCHANGED <<negotiations, swaps, shocks, latest, aged, world, known, health>>

UpdateMesh ==
  /\ known["topology"] # world["topology"]
  /\ Read("topology")
  /\ Emit("peer_update", {})
  /\ UNCHANGED <<negotiations, swaps, shocks, latest, aged, world, health, inputs>>

-----------------------------------------------------------------------------
Change(source) ==
  /\ Input
  /\ world' = [world EXCEPT ![source] = @ + 1]
  /\ UNCHANGED <<nextEventId, events, negotiations, swaps, shocks, latest, aged, known, health>>

(* Half an hour passes since the events before t.                            *)
Age ==
  /\ \E t \in (aged + 1)..nextEventId : aged' = t
  /\ UNCHANGED <<nextEventId, events, negotiations, swaps, shocks, latest, world, known, health, inputs>>

(* GET /snapshot, and a socket's first message.                              *)
Snapshot ==
  [negotiations |-> negotiations, swaps |-> swaps, shocks |-> Fresh(shocks),
   latest |-> latest, known |-> known, health |-> health, events |-> events]

Telemetry ==
  /\ Input
  /\ \/ \E t \in Tasks, s \in Stages : IngestNegotiationRound(t, s)
     \/ IngestSwapExecuted \/ IngestShockInjected \/ IngestReflection
     \/ IngestFedRate \/ IngestIndicator
     \/ ReadFails

Reading == HydrateFromMemory \/ LoadInfts \/ UpdateMesh

StoreNext ==
  \/ Telemetry \/ Reading
  \/ Age
  \/ \E s \in Sources : Change(s)

StoreSpec == StoreInit /\ [][StoreNext]_storeVars

-----------------------------------------------------------------------------
(* The trim can leave more negotiations than the cap, but never because of   *)
(* one that ended: then the oldest one it kept is open.                      *)
OldestIsOpen ==
  Cardinality(DOMAIN negotiations) > NegotiationCap =>
    \A t \in DOMAIN negotiations :
      (\A u \in DOMAIN negotiations : LastAt(negotiations[t]) <= LastAt(negotiations[u]))
        => negotiations[t].status = "open"

(* While the store keeps a negotiation that ended, no round that arrives     *)
(* late opens it again; and an open one is not dropped before it is old.     *)
EndedStaysEnded ==
  [][\A t \in DOMAIN negotiations :
       /\ t \in DOMAIN negotiations' /\ negotiations[t].status # "open"
            => negotiations'[t].status # "open"
       /\ t \notin DOMAIN negotiations' => ~Blocks(negotiations[t])]_storeVars

=============================================================================

------------------------- MODULE ObserverStoreProofs -------------------------
(***************************************************************************)
(* The store's negotiations: what the trim leaves, and that what ended     *)
(* stays ended, for any caps and any telemetry; and that a browser that    *)
(* only listens misses nothing, for any number of messages on the way.     *)
(***************************************************************************)
EXTENDS Dashboard, FiniteSetTheorems, WellFoundedInduction, TLAPS

View == [status : {"open", "settled", "rejected"}, rounds : Seq(Nat) \ {<<>>}]

(* What the properties rest on: rounds are in order of arrival and no two    *)
(* arrive at once.                                                           *)
IInv ==
  /\ nextEventId \in Nat \ {0}
  /\ aged \in Nat /\ aged <= nextEventId
  /\ IsFiniteSet(DOMAIN negotiations)
  /\ DOMAIN negotiations \subseteq Tasks
  /\ \A t \in DOMAIN negotiations : negotiations[t] \in View
  /\ \A t \in DOMAIN negotiations : LastAt(negotiations[t]) < nextEventId
  /\ \A t, u \in DOMAIN negotiations :
       LastAt(negotiations[t]) = LastAt(negotiations[u]) => t = u

LEMMA LastAtNat == ASSUME NEW v \in View PROVE LastAt(v) \in Nat
  BY DEF View, LastAt

LEMMA RoundAppended ==
  ASSUME NEW v \in View, NEW id \in Nat, NEW status \in {"open", "settled", "rejected"},
         NEW w, w = [status |-> status, rounds |-> Append(v.rounds, id)]
  PROVE  w \in View /\ LastAt(w) = id
<1>1. Append(v.rounds, id) \in Seq(Nat) \ {<<>>}
  BY DEF View
<1>2. Append(v.rounds, id)[Len(Append(v.rounds, id))] = id
  BY DEF View
<1>3. QED
  BY <1>1, <1>2 DEF View, LastAt

LEMMA FirstRound ==
  ASSUME NEW id \in Nat, NEW status \in {"open", "settled", "rejected"},
         NEW w, w = [status |-> status, rounds |-> <<id>>]
  PROVE  w \in View /\ LastAt(w) = id
  BY DEF View, LastAt

(* What a round makes of the negotiations, before the trim.                  *)
LEMMA RoundAdded ==
  ASSUME IInv, NEW task \in Tasks, NEW stage \in Stages,
         NEW views, views = WithRound(task, stage, nextEventId, negotiations)
  PROVE  /\ DOMAIN views = DOMAIN negotiations \cup {task}
         /\ \A t \in DOMAIN views : views[t] \in View
         /\ LastAt(views[task]) = nextEventId
         /\ \A t \in DOMAIN views : t # task => /\ t \in DOMAIN negotiations
                                                /\ views[t] = negotiations[t]
         /\ task \in DOMAIN negotiations /\ negotiations[task].status # "open"
              => views[task].status # "open"
<1> DEFINE id == nextEventId
<1>1. DOMAIN views = DOMAIN negotiations \cup {task}
  BY DEF WithRound
<1>2. \A t \in DOMAIN views : t # task => /\ t \in DOMAIN negotiations
                                          /\ views[t] = negotiations[t]
  BY <1>1 DEF WithRound
<1>3. FirstStatus(stage) \in {"open", "settled", "rejected"}
      /\ SettlementStatus(stage) \in {"settled", "rejected"}
  BY DEF FirstStatus, SettlementStatus
<1>4. CASE task \notin DOMAIN negotiations
  <2>1. views[task] = [status |-> FirstStatus(stage), rounds |-> <<id>>]
    BY <1>4, <1>1 DEF WithRound
  <2>2. views[task] \in View /\ LastAt(views[task]) = id
    BY <2>1, <1>3, FirstRound DEF IInv
  <2>3. QED
    BY <1>1, <1>2, <1>4, <2>2 DEF IInv
<1>5. CASE task \in DOMAIN negotiations
  <2> DEFINE v == negotiations[task]
             status == IF stage \in EndingStages THEN SettlementStatus(stage) ELSE v.status
  <2>1. v \in View
    BY <1>5 DEF IInv
  <2>2. status \in {"open", "settled", "rejected"}
    BY <2>1, <1>3 DEF View
  <2>3. views[task] = [status |-> status, rounds |-> Append(v.rounds, id)]
    BY <1>5, <1>1 DEF WithRound
  <2>4. views[task] \in View /\ LastAt(views[task]) = id
    <3> HIDE DEF v, status
    <3> QED BY <2>1, <2>2, <2>3, RoundAppended DEF IInv
  <2>5. v.status # "open" => views[task].status # "open"
    BY <2>3, <1>3
  <2>6. QED
    BY <1>1, <1>2, <1>5, <2>4, <2>5 DEF IInv
<1>6. QED
  BY <1>4, <1>5

(* The views a trim is applied to: typed, and of different ages.             *)
Aged(views) ==
  /\ IsFiniteSet(DOMAIN views)
  /\ \A t \in DOMAIN views : LastAt(views[t]) \in Nat
  /\ \A t, u \in DOMAIN views : LastAt(views[t]) = LastAt(views[u]) => t = u

LEMMA TrimDomain ==
  ASSUME NEW views
  PROVE  /\ DOMAIN Trim(views) \subseteq DOMAIN views
         /\ \A t \in DOMAIN Trim(views) : Trim(views)[t] = views[t]
         /\ \A t \in DOMAIN views :
              t \in DOMAIN Trim(views) <=>
                \/ Cardinality(DOMAIN views) - Cardinality(Olders(t, views)) < NegotiationCap
                \/ \E u \in Olders(t, views) : Blocks(views[u])
  BY DEF Trim

LEMMA TrimLeavesOpen ==
  ASSUME NEW views, Aged(views), NEW t \in DOMAIN Trim(views),
         Cardinality(DOMAIN Trim(views)) > NegotiationCap,
         \A u \in DOMAIN Trim(views) : LastAt(Trim(views)[t]) <= LastAt(Trim(views)[u])
  PROVE  Trim(views)[t].status = "open"
<1> DEFINE all == DOMAIN views
           kept == DOMAIN Trim(views)
           older == Olders(t, views)
<1>1. kept \subseteq all /\ \A u \in kept : Trim(views)[u] = views[u]
  BY TrimDomain
<1>2. IsFiniteSet(all) /\ IsFiniteSet(kept) /\ IsFiniteSet(older) /\ older \subseteq all
  <2>1. older \subseteq all
    BY DEF Olders
  <2>2. QED
    BY <1>1, <2>1, FS_Subset DEF Aged
<1>3. CASE \E u \in older : Blocks(views[u])
  <2>1. PICK u \in older : Blocks(views[u])
    BY <1>3
  <2>2. u \in all /\ LastAt(views[u]) <= LastAt(views[t])
    BY <2>1 DEF Olders
  <2>3. u \in Olders(u, views)
    BY <2>2 DEF Olders, Aged
  <2>4. u \in kept
    BY <2>1, <2>2, <2>3, TrimDomain
  <2>5. LastAt(views[u]) = LastAt(views[t])
    BY <1>1, <2>2, <2>4 DEF Aged
  <2>6. u = t
    BY <1>1, <2>2, <2>5 DEF Aged
  <2>7. QED
    BY <1>1, <2>1, <2>6 DEF Blocks
<1>4. CASE Cardinality(all) - Cardinality(older) < NegotiationCap
  <2>1. kept \subseteq (all \ older) \cup {t}
    <3> SUFFICES ASSUME NEW u \in kept, u \in older PROVE u = t
      BY <1>1
    <3>1. LastAt(views[u]) <= LastAt(views[t]) /\ LastAt(views[t]) <= LastAt(views[u])
      BY <1>1 DEF Olders
    <3> QED BY <1>1, <3>1 DEF Aged
  <2>2. IsFiniteSet(all \ older) /\ Cardinality(all \ older) = Cardinality(all) - Cardinality(older)
    <3>1. all \cap older = older
      BY <1>2
    <3> QED BY <1>2, <3>1, FS_Difference
  <2>3. /\ IsFiniteSet((all \ older) \cup {t})
        /\ Cardinality((all \ older) \cup {t}) <= Cardinality(all \ older) + 1
    <3>1. Cardinality(all \ older) \in Nat
      BY <2>2, FS_CardinalityType
    <3> DEFINE rest == all \ older
    <3>2. IsFiniteSet(rest) /\ Cardinality(rest) \in Nat
      BY <2>2, <3>1
    <3> HIDE DEF rest
    <3>3. /\ IsFiniteSet(rest \cup {t})
          /\ \/ Cardinality(rest \cup {t}) = Cardinality(rest)
             \/ Cardinality(rest \cup {t}) = Cardinality(rest) + 1
      BY <3>2, FS_AddElement
    <3>4. Cardinality(rest \cup {t}) <= Cardinality(rest) + 1
      BY <3>2, <3>3
    <3> QED BY <3>3, <3>4 DEF rest
  <2>4. Cardinality(kept) <= Cardinality((all \ older) \cup {t})
    BY <2>1, <2>3, FS_Subset
  <2>5. /\ Cardinality(kept) \in Nat /\ Cardinality(all) \in Nat /\ Cardinality(older) \in Nat
        /\ Cardinality((all \ older) \cup {t}) \in Nat
        /\ NegotiationCap \in Nat
    BY <1>2, <2>3, FS_CardinalityType, StoreAssumption
  <2>6. Cardinality(kept) <= Cardinality(all) - Cardinality(older) + 1
    <3> HIDE DEF all, kept, older
    <3> QED BY <2>2, <2>3, <2>4, <2>5
  <2>7. Cardinality(kept) <= NegotiationCap
    <3> HIDE DEF all, kept, older
    <3> QED BY <1>4, <2>5, <2>6
  <2>8. QED
    BY <2>5, <2>7
<1>5. QED
  BY <1>1, <1>3, <1>4, TrimDomain

(* The trim never takes what was just reported, nor an open one that is not  *)
(* too old.                                                                  *)
LEMMA TrimKeeps ==
  ASSUME NEW views, Aged(views), NEW t \in DOMAIN views, t \notin DOMAIN Trim(views)
  PROVE  /\ ~Blocks(views[t])
         /\ \E u \in DOMAIN views : LastAt(views[u]) > LastAt(views[t])
<1>1. t \in Olders(t, views)
  BY DEF Olders, Aged
<1>2. ~Blocks(views[t])
  BY <1>1, TrimDomain
<1>3. ASSUME \A u \in DOMAIN views : ~(LastAt(views[u]) > LastAt(views[t]))
      PROVE  FALSE
  <2>1. Olders(t, views) = DOMAIN views
    BY <1>3 DEF Olders, Aged
  <2>2. Cardinality(DOMAIN views) \in Nat
    BY FS_CardinalityType DEF Aged
  <2>3. Cardinality(DOMAIN views) - Cardinality(Olders(t, views)) < NegotiationCap
    BY <2>1, <2>2, StoreAssumption
  <2>4. QED
    BY <2>3, TrimDomain
<1>4. QED
  BY <1>2, <1>3

LEMMA AddedIsAged ==
  ASSUME IInv, NEW task \in Tasks, NEW stage \in Stages,
         NEW views, views = WithRound(task, stage, nextEventId, negotiations)
  PROVE  /\ Aged(views)
         /\ \A t \in DOMAIN views : LastAt(views[t]) <= nextEventId
<1>1. \A t \in DOMAIN negotiations : LastAt(negotiations[t]) \in Nat
  BY LastAtNat DEF IInv
<1>2. IsFiniteSet(DOMAIN views)
  <2>1. IsFiniteSet(DOMAIN negotiations)
    BY DEF IInv
  <2>2. IsFiniteSet(DOMAIN negotiations \cup {task})
    BY <2>1, FS_AddElement
  <2>3. QED
    BY <2>2, RoundAdded
<1>3. \A t \in DOMAIN views : t # task => /\ t \in DOMAIN negotiations
                                          /\ views[t] = negotiations[t]
  <2>1. DOMAIN views = DOMAIN negotiations \cup {task}
    BY RoundAdded
  <2>2. QED
    BY <2>1 DEF WithRound
<1>4. LastAt(views[task]) = nextEventId /\ nextEventId \in Nat
  BY RoundAdded DEF IInv
<1>5. \A t \in DOMAIN views : LastAt(views[t]) \in Nat /\ LastAt(views[t]) <= nextEventId
  BY <1>1, <1>3, <1>4 DEF IInv
<1>6. \A t \in DOMAIN views : t # task => LastAt(views[t]) < nextEventId
  BY <1>1, <1>3 DEF IInv
<1>7. ASSUME NEW t \in DOMAIN views, NEW u \in DOMAIN views,
             LastAt(views[t]) = LastAt(views[u])
      PROVE  t = u
  <2>1. CASE t = task \/ u = task
    BY <1>4, <1>5, <1>6, <1>7, <2>1
  <2>2. CASE t # task /\ u # task
    BY <1>3, <1>7, <2>2 DEF IInv
  <2>3. QED
    BY <2>1, <2>2
<1>8. QED
  BY <1>2, <1>5, <1>7 DEF Aged

-----------------------------------------------------------------------------
LEMMA InitEstablishesIInv == StoreInit => IInv
<1> SUFFICES ASSUME StoreInit PROVE IInv
  OBVIOUS
<1>1. DOMAIN negotiations = {}
  BY DEF StoreInit
<1>2. IsFiniteSet(DOMAIN negotiations)
  BY <1>1, FS_EmptySet
<1>3. QED
  BY <1>1, <1>2 DEF StoreInit, IInv

(* A step that leaves the negotiations alone.                                *)
LEMMA ElsewhereKeepsIInv ==
  ASSUME IInv, UNCHANGED negotiations,
         \/ nextEventId' = nextEventId + 1 /\ UNCHANGED aged
         \/ UNCHANGED <<nextEventId, aged>>
         \/ aged' \in (aged + 1)..nextEventId /\ UNCHANGED nextEventId
  PROVE  IInv'
<1>1. \A t \in DOMAIN negotiations : LastAt(negotiations[t]) \in Nat
  BY LastAtNat DEF IInv
<1>2. nextEventId' \in Nat \ {0} /\ aged' \in Nat /\ aged' <= nextEventId'
      /\ nextEventId <= nextEventId'
  BY DEF IInv
<1>3. QED
  BY <1>1, <1>2 DEF IInv, LastAt

LEMMA RoundKeepsIInv ==
  ASSUME IInv, NEW task \in Tasks, NEW stage \in Stages, IngestNegotiationRound(task, stage)
  PROVE  IInv' /\ OldestIsOpen'
<1> DEFINE views == WithRound(task, stage, nextEventId, negotiations)
<1>1. negotiations' = Trim(views) /\ nextEventId' = nextEventId + 1 /\ aged' = aged
  BY DEF IngestNegotiationRound, Emit
<1>2. Aged(views) /\ \A t \in DOMAIN views : LastAt(views[t]) <= nextEventId
  BY AddedIsAged
<1>3. DOMAIN views = DOMAIN negotiations \cup {task} /\ \A t \in DOMAIN views : views[t] \in View
  BY RoundAdded
<1> HIDE DEF views
<1>4. /\ DOMAIN Trim(views) \subseteq DOMAIN views
      /\ \A t \in DOMAIN Trim(views) : Trim(views)[t] = views[t]
  BY TrimDomain
<1>5. IsFiniteSet(DOMAIN Trim(views))
  BY <1>2, <1>4, FS_Subset DEF Aged
<1>6. IInv'
  <2>1. nextEventId' \in Nat \ {0} /\ aged' \in Nat /\ aged' <= nextEventId'
    BY <1>1 DEF IInv
  <2>2. IsFiniteSet(DOMAIN negotiations') /\ DOMAIN negotiations' \subseteq Tasks
    BY <1>1, <1>3, <1>4, <1>5 DEF IInv
  <2>3. \A t \in DOMAIN negotiations' : negotiations'[t] \in View
    BY <1>1, <1>3, <1>4
  <2>4. \A t \in DOMAIN negotiations' : LastAt(negotiations'[t]) < nextEventId'
    BY <1>1, <1>2, <1>4 DEF Aged, IInv
  <2>5. \A t, u \in DOMAIN negotiations' :
          LastAt(negotiations'[t]) = LastAt(negotiations'[u]) => t = u
    BY <1>1, <1>2, <1>4 DEF Aged
  <2>6. QED
    BY <2>1, <2>2, <2>3, <2>4, <2>5 DEF IInv, LastAt
<1>7. OldestIsOpen'
  <2> SUFFICES ASSUME Cardinality(DOMAIN Trim(views)) > NegotiationCap,
                      NEW t \in DOMAIN Trim(views),
                      \A u \in DOMAIN Trim(views) :
                        LastAt(Trim(views)[t]) <= LastAt(Trim(views)[u])
               PROVE  Trim(views)[t].status = "open"
    BY <1>1 DEF OldestIsOpen, LastAt
  <2> QED BY <1>2, TrimLeavesOpen
<1>8. QED
  BY <1>6, <1>7

LEMMA StepKeepsIInv == IInv /\ OldestIsOpen /\ [StoreNext]_storeVars => IInv' /\ OldestIsOpen'
<1> SUFFICES ASSUME IInv, OldestIsOpen, [StoreNext]_storeVars PROVE IInv' /\ OldestIsOpen'
  OBVIOUS
<1>1. ASSUME NEW t \in Tasks, NEW s \in Stages, IngestNegotiationRound(t, s)
      PROVE  IInv' /\ OldestIsOpen'
  BY <1>1, RoundKeepsIInv
<1>2. ASSUME \/ IngestSwapExecuted \/ IngestShockInjected \/ IngestReflection
             \/ IngestFedRate \/ IngestIndicator \/ ReadFails \/ Reading \/ Age
             \/ \E s \in Sources : Change(s)
             \/ UNCHANGED storeVars
      PROVE  IInv' /\ OldestIsOpen'
  <2>1. UNCHANGED negotiations
    BY <1>2 DEF IngestSwapExecuted, IngestShockInjected, IngestReflection, IngestFedRate,
      IngestIndicator, ReadFails, Reading, HydrateFromMemory, LoadInfts, UpdateMesh, Age, Change,
      storeVars
  <2>2. \/ nextEventId' = nextEventId + 1 /\ UNCHANGED aged
        \/ UNCHANGED <<nextEventId, aged>>
        \/ aged' \in (aged + 1)..nextEventId /\ UNCHANGED nextEventId
    BY <1>2 DEF IngestSwapExecuted, IngestShockInjected, IngestReflection, IngestFedRate,
      IngestIndicator, ReadFails, Reading, HydrateFromMemory, LoadInfts, UpdateMesh, Age, Change,
      storeVars, Emit
  <2>3. OldestIsOpen'
    BY <2>1 DEF OldestIsOpen, LastAt
  <2>4. QED
    BY <2>1, <2>2, <2>3, ElsewhereKeepsIInv
<1>3. QED
  BY <1>1, <1>2 DEF StoreNext, Telemetry

LEMMA InvariantHolds == StoreSpec => [](IInv /\ OldestIsOpen)
<1>1. StoreInit => IInv /\ OldestIsOpen
  <2>1. StoreInit => Cardinality(DOMAIN negotiations) = 0
    <3>1. StoreInit => DOMAIN negotiations = {}
      BY DEF StoreInit
    <3> QED BY <3>1, FS_EmptySet
  <2>2. NegotiationCap \in Nat
    BY StoreAssumption
  <2>3. QED
    BY <2>1, <2>2, InitEstablishesIInv DEF OldestIsOpen
<1>2. QED
  BY <1>1, StepKeepsIInv, PTL DEF StoreSpec

(* When the store keeps more negotiations than its cap, it is an open one    *)
(* that made the trim stop (store.ts 254-267).                               *)
THEOREM TrimStopsAtOpen == StoreSpec => []OldestIsOpen
  BY InvariantHolds, PTL

LEMMA RoundKeepsEnded ==
  ASSUME IInv, NEW task \in Tasks, NEW stage \in Stages, IngestNegotiationRound(task, stage),
         NEW t \in DOMAIN negotiations
  PROVE  /\ t \in DOMAIN negotiations' /\ negotiations[t].status # "open"
              => negotiations'[t].status # "open"
         /\ t \notin DOMAIN negotiations' => ~Blocks(negotiations[t])
<1> DEFINE views == WithRound(task, stage, nextEventId, negotiations)
<1>1. negotiations' = Trim(views)
  BY DEF IngestNegotiationRound
<1>2. Aged(views) /\ \A u \in DOMAIN views : LastAt(views[u]) <= nextEventId
  BY AddedIsAged
<1>3. /\ DOMAIN views = DOMAIN negotiations \cup {task}
      /\ LastAt(views[task]) = nextEventId
      /\ \A u \in DOMAIN views : u # task => views[u] = negotiations[u]
      /\ task \in DOMAIN negotiations /\ negotiations[task].status # "open"
           => views[task].status # "open"
  BY RoundAdded
<1> HIDE DEF views
<1>4. ASSUME t \in DOMAIN Trim(views), negotiations[t].status # "open"
      PROVE  Trim(views)[t].status # "open"
  <2>1. Trim(views)[t] = views[t]
    BY <1>4, TrimDomain
  <2>2. QED
    BY <2>1, <1>3, <1>4
<1>5. ASSUME t \notin DOMAIN Trim(views)
      PROVE  ~Blocks(negotiations[t])
  <2>1. ~Blocks(views[t]) /\ \E u \in DOMAIN views : LastAt(views[u]) > LastAt(views[t])
    BY <1>2, <1>3, <1>5, TrimKeeps
  <2>2. t # task
    BY <2>1, <1>2, <1>3 DEF Aged, IInv
  <2>3. views[t] = negotiations[t]
    BY <2>2, <1>3
  <2>4. QED
    BY <2>1, <2>3
<1>6. QED
  BY <1>1, <1>4, <1>5

(* A round that arrives late never opens a negotiation that ended, and the   *)
(* trim never drops one that is open and young (store.ts 200-233).           *)
THEOREM EndedStays == StoreSpec => EndedStaysEnded
<1>1. ASSUME IInv, [StoreNext]_storeVars
      PROVE  [\A t \in DOMAIN negotiations :
                /\ t \in DOMAIN negotiations' /\ negotiations[t].status # "open"
                     => negotiations'[t].status # "open"
                /\ t \notin DOMAIN negotiations' => ~Blocks(negotiations[t])]_storeVars
  <2>1. CASE \E t \in Tasks, s \in Stages : IngestNegotiationRound(t, s)
    BY <1>1, <2>1, RoundKeepsEnded
  <2>2. CASE UNCHANGED negotiations
    BY <2>2
  <2>3. QED
    BY <1>1, <2>1, <2>2 DEF StoreNext, Telemetry, IngestSwapExecuted, IngestShockInjected,
      IngestReflection, IngestFedRate, IngestIndicator, ReadFails, Reading, HydrateFromMemory,
      LoadInfts, UpdateMesh, Age, Change, storeVars
<1>2. QED
  BY <1>1, InvariantHolds, PTL DEF StoreSpec, EndedStaysEnded

-----------------------------------------------------------------------------
(* The store under a browser.                                                *)
LEMMA BrowserStepsTheStore == [Next]_vars => [StoreNext]_storeVars
BY DEF Next, vars, Streamed, Connect, Deliver, Disconnect, PollServed, PollArrives, PollFails

(* Whatever the browser does, the store under it behaves as on its own:      *)
(* sockets, snapshots and polls only read it (observer/src/index.ts).        *)
THEOREM BrowserOnlyReads == Spec => StoreSpec
<1>1. Init => StoreInit
  BY DEF Init
<1>2. QED
  BY <1>1, BrowserStepsTheStore, PTL DEF Spec, StoreSpec

(* With a browser too, it is an open negotiation that made the trim stop.    *)
THEOREM TrimStopsAtOpenServed == Spec => []OldestIsOpen
  BY BrowserOnlyReads, TrimStopsAtOpen, PTL

(* With a browser too, no late round opens what ended, and nothing open and  *)
(* young is dropped.                                                         *)
THEOREM EndedStaysServed == Spec => EndedStaysEnded
  BY BrowserOnlyReads, EndedStays, PTL

-----------------------------------------------------------------------------
(* The stream: what a browser comes to show with the messages on the way.    *)

(* Induction on the natural numbers, for a set instead of a predicate.       *)
LEMMA SetOfAllNaturals ==
  ASSUME NEW T, 0 \in T, \A n \in Nat : n \in T => n + 1 \in T
  PROVE  Nat \subseteq T
<1> DEFINE Missing == {n \in Nat : n \notin T}
<1> SUFFICES ASSUME Missing # {} PROVE FALSE
  OBVIOUS
<1>1. PICK m \in Missing : \A k \in Missing : <<k, m>> \notin OpToRel(<, Nat)
  <2>1. Missing \subseteq Nat
    OBVIOUS
  <2> HIDE DEF Missing
  <2>2. QED
    BY <2>1, NatLessThanWellFounded, WFMin, Zenon
<1>2. \A k \in Missing : ~(k < m)
  BY <1>1 DEF OpToRel
<1>3. m # 0 /\ m - 1 \in Nat /\ m - 1 \in T
  BY <1>2
<1>4. QED
  BY <1>3

(* What is shown after each of the first n messages.                         *)
Replay(after, shown, messages, n) ==
  after = [i \in 0..n |-> IF i = 0 THEN shown ELSE Received(after[i - 1], messages[i])]

LEMMA ReplayExists ==
  ASSUME NEW shown, NEW messages, NEW n \in Nat
  PROVE  \E after : Replay(after, shown, messages, n)
<1> DEFINE T == {k \in Nat : \E after : Replay(after, shown, messages, k)}
<1>1. 0 \in T
  <2>1. Replay([i \in 0..0 |-> shown], shown, messages, 0)
    BY DEF Replay
  <2>2. QED
    BY <2>1
<1>2. ASSUME NEW k \in Nat, k \in T
      PROVE  k + 1 \in T
  <2>1. PICK f : Replay(f, shown, messages, k)
    BY <1>2
  <2> DEFINE g == [i \in 0..(k + 1) |-> IF i = k + 1 THEN Received(f[k], messages[k + 1])
                                                     ELSE f[i]]
  <2>2. ASSUME NEW i \in 0..(k + 1)
        PROVE  g[i] = IF i = 0 THEN shown ELSE Received(g[i - 1], messages[i])
    <3>1. CASE i = k + 1
      <4>1. i - 1 = k /\ k \in 0..(k + 1) /\ k # k + 1 /\ i # 0
        BY <3>1
      <4>2. g[i - 1] = f[k] /\ g[i] = Received(f[k], messages[i])
        BY <3>1, <4>1
      <4>3. QED
        BY <4>1, <4>2
    <3>2. CASE i \in 1..k
      <4>1. i - 1 \in 0..(k + 1) /\ i - 1 # k + 1 /\ i # k + 1 /\ i \in 0..k /\ i # 0
        BY <3>2
      <4>2. g[i - 1] = f[i - 1] /\ g[i] = f[i]
        BY <4>1
      <4>3. f[i] = Received(f[i - 1], messages[i])
        BY <2>1, <4>1 DEF Replay
      <4>4. QED
        BY <4>1, <4>2, <4>3
    <3>3. CASE i = 0
      <4>1. 0 \in 0..k /\ 0 # k + 1
        BY <1>2
      <4>2. f[0] = shown
        BY <2>1, <4>1 DEF Replay
      <4>3. QED
        BY <3>3, <4>1, <4>2
    <3>4. QED
      BY <3>1, <3>2, <3>3
  <2>3. Replay(g, shown, messages, k + 1)
    <3>1. g = [i \in 0..(k + 1) |-> g[i]]
      OBVIOUS
    <3> HIDE DEF g
    <3>2. QED
      BY <2>2, <3>1, Zenon DEF Replay
  <2>4. QED
    BY <2>3
<1>3. n \in T
  <2> HIDE DEF T
  <2>1. QED
    BY <1>1, <1>2, SetOfAllNaturals
<1>4. QED
  BY <1>3

LEMMA ReplayUnique ==
  ASSUME NEW f, NEW g, NEW shown, NEW messages, NEW m \in Nat, NEW n \in Nat, m <= n,
         Replay(f, shown, messages, m), Replay(g, shown, messages, n)
  PROVE  f[m] = g[m]
<1> DEFINE T == {k \in Nat : k <= m => f[k] = g[k]}
<1>1. 0 \in T
  BY DEF Replay
<1>2. ASSUME NEW k \in Nat, k \in T
      PROVE  k + 1 \in T
  <2>1. SUFFICES ASSUME k + 1 <= m PROVE f[k + 1] = g[k + 1]
    OBVIOUS
  <2>2. k + 1 \in 0..m /\ k + 1 \in 0..n /\ k + 1 # 0 /\ (k + 1) - 1 = k /\ f[k] = g[k]
    BY <1>2, <2>1
  <2>3. f[k + 1] = Received(f[k], messages[k + 1]) /\ g[k + 1] = Received(g[k], messages[k + 1])
    BY <2>2 DEF Replay
  <2>4. QED
    BY <2>2, <2>3
<1>3. m \in T
  <2> HIDE DEF T
  <2>1. QED
    BY <1>1, <1>2, SetOfAllNaturals
<1>4. QED
  BY <1>3

LEMMA AfterAllReplays ==
  ASSUME NEW shown, NEW messages, Len(messages) \in Nat, NEW n \in Nat, Len(messages) <= n,
         NEW f, Replay(f, shown, messages, n)
  PROVE  AfterAll(shown, messages) = f[Len(messages)]
<1> DEFINE g == CHOOSE g : Replay(g, shown, messages, Len(messages))
<1>1. Replay(g, shown, messages, Len(messages))
  BY ReplayExists, Zenon
<1>2. AfterAll(shown, messages) = g[Len(messages)]
  BY Zenon DEF AfterAll, Replay
<1> HIDE DEF g
<1>3. QED
  BY <1>1, <1>2, ReplayUnique

LEMMA AfterNothing == ASSUME NEW shown PROVE AfterAll(shown, <<>>) = shown
<1>1. PICK f : Replay(f, shown, <<>>, 0)
  BY ReplayExists
<1>2. AfterAll(shown, <<>>) = f[0]
  BY <1>1, AfterAllReplays
<1>3. QED
  BY <1>1, <1>2 DEF Replay

LEMMA AfterOneMore ==
  ASSUME NEW shown, NEW M, NEW messages \in Seq(M), NEW message \in M
  PROVE  AfterAll(shown, Append(messages, message)) = Received(AfterAll(shown, messages), message)
<1> DEFINE n == Len(messages)
           more == Append(messages, message)
<1>1. n \in Nat /\ Len(more) = n + 1 /\ more[n + 1] = message
      /\ \A i \in 1..n : more[i] = messages[i]
  OBVIOUS
<1> HIDE DEF n, more
<1>2. PICK f : Replay(f, shown, more, n + 1)
  <2>1. n + 1 \in Nat
    BY <1>1
  <2>2. QED
    BY <2>1, ReplayExists
<1>3. Replay(f, shown, more, n + 1) /\ n + 1 \in 0..(n + 1) /\ n + 1 # 0 /\ (n + 1) - 1 = n
  BY <1>1, <1>2
<1>4. AfterAll(shown, more) = Received(f[n], message)
  <2>1. AfterAll(shown, more) = f[n + 1]
    BY <1>1, <1>2, AfterAllReplays
  <2>2. f[n + 1] = Received(f[n], more[n + 1])
    BY <1>3 DEF Replay
  <2>3. QED
    BY <1>1, <2>1, <2>2
<1>5. AfterAll(shown, messages) = f[n]
  <2> DEFINE g == [i \in 0..n |-> f[i]]
  <2>1. ASSUME NEW i \in 0..n
        PROVE  g[i] = IF i = 0 THEN shown ELSE Received(g[i - 1], messages[i])
    <3>1. CASE i = 0
      BY <1>1, <1>2, <3>1 DEF Replay
    <3>2. CASE i # 0
      <4>1. i \in 0..(n + 1) /\ i \in 1..n /\ i - 1 \in 0..n
        BY <1>1, <3>2
      <4>2. f[i] = Received(f[i - 1], more[i])
        BY <1>2, <3>2, <4>1 DEF Replay
      <4>3. QED
        BY <1>1, <3>2, <4>1, <4>2
    <3>3. QED
      BY <3>1, <3>2
  <2>2. Replay(g, shown, messages, n)
    <3>1. g = [i \in 0..n |-> g[i]]
      OBVIOUS
    <3> HIDE DEF g
    <3>2. QED
      BY <2>1, <3>1, Zenon DEF Replay
  <2>3. n \in 0..n /\ g[n] = f[n] /\ Len(messages) = n
    BY <1>1 DEF n
  <2> HIDE DEF g
  <2>4. QED
    BY <1>1, <2>2, <2>3, AfterAllReplays
<1>6. QED
  BY <1>4, <1>5 DEF more

LEMMA AfterTheFirst ==
  ASSUME NEW shown, NEW M, NEW messages \in Seq(M), messages # <<>>
  PROVE  AfterAll(shown, messages) = AfterAll(Received(shown, Head(messages)), Tail(messages))
<1> DEFINE n == Len(messages)
           next == Received(shown, Head(messages))
           rest == Tail(messages)
<1>1. n \in Nat \ {0} /\ Len(rest) = n - 1 /\ messages[1] = Head(messages)
      /\ \A i \in 1..(n - 1) : rest[i] = messages[i + 1]
  OBVIOUS
<1> HIDE DEF rest
<1>2. PICK f : Replay(f, shown, messages, n)
  BY <1>1, ReplayExists
<1>3. AfterAll(shown, messages) = f[n]
  BY <1>1, <1>2, AfterAllReplays
<1> HIDE DEF n, next
<1> DEFINE g == [i \in 0..(n - 1) |-> f[i + 1]]
<1>4. \A i \in 1..n : f[i] = Received(f[i - 1], messages[i])
  BY <1>1, <1>2 DEF Replay
<1>5. f[1] = next
  <2>1. f[0] = shown
    BY <1>1, <1>2 DEF Replay
  <2>2. f[1] = Received(f[0], messages[1])
    BY <1>1, <1>4
  <2>3. QED
    BY <1>1, <2>1, <2>2 DEF next
<1>6. ASSUME NEW i \in 0..(n - 1)
      PROVE  g[i] = IF i = 0 THEN next ELSE Received(g[i - 1], rest[i])
  <2>1. CASE i = 0
    BY <1>5, <2>1
  <2>2. CASE i # 0
    <3>1. i + 1 \in 1..n /\ (i + 1) - 1 = i /\ i \in 1..(n - 1) /\ i - 1 \in 0..(n - 1)
          /\ (i - 1) + 1 = i
      BY <1>1, <2>2
    <3>2. f[i + 1] = Received(f[i], messages[i + 1])
      BY <1>4, <3>1
    <3>3. g[i] = f[i + 1] /\ g[i - 1] = f[i]
      BY <3>1
    <3>4. rest[i] = messages[i + 1]
      BY <1>1, <3>1
    <3> HIDE DEF g
    <3>5. QED
      BY <2>2, <3>2, <3>3, <3>4
  <2>3. QED
    BY <2>1, <2>2
<1>7. Replay(g, next, rest, n - 1)
  <2>1. g = [i \in 0..(n - 1) |-> g[i]]
    OBVIOUS
  <2> HIDE DEF g
  <2>2. QED
    BY <1>6, <2>1, Zenon DEF Replay
<1>8. g[n - 1] = f[n] /\ n - 1 \in Nat
  BY <1>1
<1> HIDE DEF g
<1>9. AfterAll(next, rest) = g[n - 1]
  BY <1>1, <1>7, <1>8, AfterAllReplays
<1>10. QED
  BY <1>3, <1>8, <1>9 DEF next, rest

-----------------------------------------------------------------------------
(* Sequences that end alike.                                                 *)
IsSequence(s) == \E S : s \in Seq(S)

Shorter(a, b) == Least(Len(a), Len(b))

EndAlike(a, b) == \A i \in 0..(Shorter(a, b) - 1) : a[Len(a) - i] = b[Len(b) - i]

LEMMA NewestIs ==
  ASSUME NEW S, NEW s \in Seq(S), NEW n \in Nat
  PROVE  /\ Newest(s, n) \in Seq(S)
         /\ Len(Newest(s, n)) = Least(n, Len(s))
         /\ \A i \in 0..(Least(n, Len(s)) - 1) :
              Newest(s, n)[Len(Newest(s, n)) - i] = s[Len(s) - i]
<1> DEFINE k == Least(n, Len(s))
           from == Len(s) - k + 1
<1>1. k \in Nat /\ k <= Len(s) /\ Len(s) \in Nat /\ from \in 1..(Len(s) + 1)
  <2>1. Len(s) \in Nat
    OBVIOUS
  <2>2. k \in Nat /\ k <= Len(s)
    BY <2>1 DEF Least
  <2>3. QED
    BY <2>1, <2>2
<1>2. Newest(s, n) = SubSeq(s, from, Len(s))
  BY DEF Newest
<1>3. SubSeq(s, from, Len(s)) \in Seq(S)
  BY <1>1
<1>4. Len(SubSeq(s, from, Len(s))) = k
  BY <1>1
<1>5. ASSUME NEW i \in 0..(k - 1)
      PROVE  SubSeq(s, from, Len(s))[k - i] = s[Len(s) - i]
  <2> HIDE DEF k
  <2>1. k - i \in 1..k /\ from + (k - i) - 1 = Len(s) - i
    BY <1>1
  <2>2. \A j \in 1..k : SubSeq(s, from, Len(s))[j] = s[from + j - 1]
    BY <1>1
  <2>3. QED
    BY <2>1, <2>2
<1>6. QED
  BY <1>2, <1>3, <1>4, <1>5

LEMMA NewestEndsAlike ==
  ASSUME NEW S, NEW s \in Seq(S), NEW n \in Nat
  PROVE  IsSequence(Newest(s, n)) /\ EndAlike(Newest(s, n), s)
<1>1. Len(s) \in Nat /\ Len(Newest(s, n)) \in Nat /\ Len(Newest(s, n)) <= Len(s)
      /\ Len(Newest(s, n)) = Least(n, Len(s))
  BY NewestIs DEF Least
<1>2. Shorter(Newest(s, n), s) = Least(n, Len(s))
  BY <1>1 DEF Shorter, Least
<1>3. QED
  BY <1>2, NewestIs DEF IsSequence, EndAlike

LEMMA CutAppended ==
  ASSUME NEW S, NEW s \in Seq(S), NEW e, NEW n \in Nat
  PROVE  /\ IsSequence(Append(s, e))
         /\ IsSequence(Newest(Append(s, e), n))
         /\ n # 0 => Newest(Append(s, e), n)[Len(Newest(Append(s, e), n))] = e
<1> DEFINE longer == Append(s, e)
<1>1. longer \in Seq(S \cup {e}) /\ Len(longer) \in Nat \ {0} /\ longer[Len(longer)] = e
  <2>1. s \in Seq(S \cup {e}) /\ e \in S \cup {e}
    OBVIOUS
  <2>2. QED
    BY <2>1
<1> HIDE DEF longer
<1>2. IsSequence(Newest(longer, n))
  BY <1>1, NewestEndsAlike
<1>3. ASSUME n # 0
      PROVE  Newest(longer, n)[Len(Newest(longer, n))] = e
  <2>1. 0 \in 0..(Least(n, Len(longer)) - 1)
    BY <1>1, <1>3 DEF Least
  <2>2. Len(Newest(longer, n)) - 0 = Len(Newest(longer, n)) /\ Len(longer) - 0 = Len(longer)
    <3>1. Len(Newest(longer, n)) = Least(n, Len(longer))
      BY <1>1, NewestIs
    <3>2. QED
      BY <1>1, <3>1 DEF Least
  <2>3. Newest(longer, n)[Len(Newest(longer, n)) - 0] = longer[Len(longer) - 0]
    BY <1>1, <2>1, NewestIs
  <2>4. QED
    BY <1>1, <2>2, <2>3
<1>4. QED
  BY <1>1, <1>2, <1>3 DEF IsSequence, longer

(* Two lists that end alike still do when the same is appended to both and   *)
(* each is cut to its own length.                                            *)
LEMMA AppendedEndAlike ==
  ASSUME NEW S, NEW a \in Seq(S), NEW T, NEW b \in Seq(T), EndAlike(a, b), NEW e,
         NEW m \in Nat, NEW n \in Nat
  PROVE  EndAlike(Newest(Append(a, e), m), Newest(Append(b, e), n))
<1> DEFINE S2 == S \cup {e}
           T2 == T \cup {e}
           a2 == Append(a, e)
           b2 == Append(b, e)
           a3 == Newest(a2, m)
           b3 == Newest(b2, n)
<1>1. a2 \in Seq(S2) /\ Len(a2) = Len(a) + 1 /\ Len(a) \in Nat
      /\ a2[Len(a) + 1] = e /\ \A i \in 1..Len(a) : a2[i] = a[i]
  <2>1. a \in Seq(S2) /\ e \in S2
    OBVIOUS
  <2>2. QED
    BY <2>1
<1>2. b2 \in Seq(T2) /\ Len(b2) = Len(b) + 1 /\ Len(b) \in Nat
      /\ b2[Len(b) + 1] = e /\ \A i \in 1..Len(b) : b2[i] = b[i]
  <2>1. b \in Seq(T2) /\ e \in T2
    OBVIOUS
  <2>2. QED
    BY <2>1
<1> HIDE DEF a2, b2, S2, T2
<1>3. /\ Len(a3) = Least(m, Len(a2))
      /\ \A i \in 0..(Least(m, Len(a2)) - 1) : a3[Len(a3) - i] = a2[Len(a2) - i]
  BY <1>1, NewestIs
<1>4. /\ Len(b3) = Least(n, Len(b2))
      /\ \A i \in 0..(Least(n, Len(b2)) - 1) : b3[Len(b3) - i] = b2[Len(b2) - i]
  BY <1>2, NewestIs
<1> HIDE DEF a3, b3
<1>5. ASSUME NEW i \in 0..(Shorter(a3, b3) - 1)
      PROVE  a3[Len(a3) - i] = b3[Len(b3) - i]
  <2>1. /\ i \in 0..(Least(m, Len(a2)) - 1) /\ i \in 0..(Least(n, Len(b2)) - 1)
        /\ i \in 0..Len(a) /\ i \in 0..Len(b)
    BY <1>1, <1>2, <1>3, <1>4 DEF Shorter, Least
  <2>2. a3[Len(a3) - i] = a2[Len(a2) - i] /\ b3[Len(b3) - i] = b2[Len(b2) - i]
    BY <1>3, <1>4, <2>1
  <2>3. CASE i = 0
    BY <1>1, <1>2, <2>2, <2>3
  <2>4. CASE i # 0
    <3>1. /\ Len(a2) - i \in 1..Len(a) /\ Len(a2) - i = Len(a) - (i - 1)
          /\ Len(b2) - i \in 1..Len(b) /\ Len(b2) - i = Len(b) - (i - 1)
          /\ i - 1 \in 0..(Shorter(a, b) - 1)
      BY <1>1, <1>2, <2>1, <2>4 DEF Shorter, Least
    <3>2. a2[Len(a2) - i] = a[Len(a) - (i - 1)] /\ b2[Len(b2) - i] = b[Len(b) - (i - 1)]
      BY <1>1, <1>2, <3>1
    <3>3. a[Len(a) - (i - 1)] = b[Len(b) - (i - 1)]
      BY <3>1 DEF EndAlike
    <3>4. QED
      BY <2>2, <3>2, <3>3
  <2>5. QED
    BY <2>3, <2>4
<1>6. QED
  BY <1>5 DEF EndAlike, a3, b3, a2, b2

LEMMA EndAlikeNewest ==
  ASSUME NEW S, NEW a \in Seq(S), NEW T, NEW b \in Seq(T), EndAlike(a, b)
  PROVE  Newest(a, Shorter(a, b)) = Newest(b, Shorter(a, b))
<1> DEFINE n == Shorter(a, b)
           c == Newest(a, n)
           d == Newest(b, n)
<1>1. n \in Nat /\ Least(n, Len(a)) = n /\ Least(n, Len(b)) = n
  BY DEF Shorter, Least
<1> HIDE DEF n
<1>2. c \in Seq(S) /\ Len(c) = n /\ \A i \in 0..(n - 1) : c[n - i] = a[Len(a) - i]
  <2>1. /\ c \in Seq(S) /\ Len(c) = Least(n, Len(a))
        /\ \A i \in 0..(Least(n, Len(a)) - 1) : c[Len(c) - i] = a[Len(a) - i]
    BY <1>1, NewestIs
  <2> HIDE DEF c
  <2>2. QED
    BY <1>1, <2>1
<1>3. d \in Seq(T) /\ Len(d) = n /\ \A i \in 0..(n - 1) : d[n - i] = b[Len(b) - i]
  <2>1. /\ d \in Seq(T) /\ Len(d) = Least(n, Len(b))
        /\ \A i \in 0..(Least(n, Len(b)) - 1) : d[Len(d) - i] = b[Len(b) - i]
    BY <1>1, NewestIs
  <2> HIDE DEF d
  <2>2. QED
    BY <1>1, <2>1
<1> HIDE DEF c, d
<1>4. ASSUME NEW j \in 1..n
      PROVE  c[j] = d[j]
  <2>1. n - j \in 0..(n - 1) /\ n - (n - j) = j
    BY <1>1
  <2>2. a[Len(a) - (n - j)] = b[Len(b) - (n - j)]
    BY <2>1 DEF EndAlike, n
  <2>3. QED
    BY <1>2, <1>3, <2>1, <2>2
<1>5. c = [j \in 1..n |-> c[j]] /\ d = [j \in 1..n |-> d[j]]
  BY <1>2, <1>3
<1>6. QED
  BY <1>4, <1>5 DEF c, d, n

-----------------------------------------------------------------------------
(* What is shown agrees with the store's swaps, its reflections and its last *)
(* events.                                                                   *)
Shaped(s) ==
  /\ {"swaps", "latest", "events", "negotiations", "shocks"} \subseteq DOMAIN s
  /\ "reflection" \in DOMAIN s.latest
  /\ IsSequence(s.events)

Matches(shown, swapIds, reflection, list) ==
  /\ shown # None
  /\ Shaped(shown[1])
  /\ shown[1].swaps = swapIds
  /\ shown[1].latest["reflection"] = reflection
  /\ EndAlike(shown[1].events, list)

Event(id, kind, payload) == [id |-> id, kind |-> kind, payload |-> payload]

SwapsWith(swapIds, event) ==
  IF event.kind = "swap_executed" THEN Newest(Append(swapIds, event.id), SwapCap) ELSE swapIds

ReflectionWith(reflection, event) ==
  IF event.kind = "reflection" THEN event.id ELSE reflection

LEMMA ListedMatches ==
  ASSUME NEW s, Shaped(s), NEW list, IsSequence(list), EndAlike(s.events, list), NEW event,
         NEW listed, listed = [s EXCEPT !.events = Newest(Append(@, event), EventBuffer)]
  PROVE  /\ Shaped(listed)
         /\ DOMAIN listed = DOMAIN s
         /\ \A x \in DOMAIN s : x # "events" => listed[x] = s[x]
         /\ EndAlike(listed.events, Newest(Append(list, event), EventCap))
<1>1. /\ DOMAIN listed = DOMAIN s
      /\ listed.events = Newest(Append(s.events, event), EventBuffer)
      /\ \A x \in DOMAIN s : x # "events" => listed[x] = s[x]
  BY DEF Shaped
<1>2. PICK S : s.events \in Seq(S)
  BY DEF Shaped, IsSequence
<1>3. PICK T : list \in Seq(T)
  BY DEF IsSequence
<1>4. EventBuffer \in Nat /\ EventCap \in Nat
  BY StoreAssumption, DashboardAssumption
<1>5. EndAlike(listed.events, Newest(Append(list, event), EventCap))
  BY <1>1, <1>2, <1>3, <1>4, AppendedEndAlike
<1>6. IsSequence(listed.events)
  BY <1>1, <1>2, <1>4, CutAppended
<1>7. Shaped(listed)
  BY <1>1, <1>6 DEF Shaped
<1>8. QED
  BY <1>1, <1>5, <1>7

LEMMA EventMatches ==
  ASSUME NEW shown, NEW swapIds, NEW reflection, NEW list, IsSequence(list),
         Matches(shown, swapIds, reflection, list),
         NEW id, NEW kind, NEW payload, NEW event, event = Event(id, kind, payload)
  PROVE  Matches(Received(shown, Message("event", event)), SwapsWith(swapIds, event),
                 ReflectionWith(reflection, event), Newest(Append(list, event), EventCap))
<1> DEFINE s == shown[1]
           after == Received(shown, Message("event", event))
           longer == Newest(Append(list, event), EventCap)
           listed == [s EXCEPT !.events = Newest(Append(@, event), EventBuffer)]
<1>1. Shaped(s) /\ s.swaps = swapIds /\ s.latest["reflection"] = reflection
      /\ EndAlike(s.events, list)
  BY DEF Matches
<1>2. after = <<WithEvent(s, event)>> /\ after # None /\ after[1] = WithEvent(s, event)
  BY DEF Received, Message, None, Matches
<1>3. event.kind = kind /\ event.id = id
  BY DEF Event
<1> HIDE DEF s, after, longer
<1>4. /\ Shaped(listed) /\ DOMAIN listed = DOMAIN s
      /\ listed.swaps = s.swaps /\ listed.latest = s.latest
      /\ EndAlike(listed.events, longer)
  <2>1. /\ Shaped(listed) /\ DOMAIN listed = DOMAIN s
        /\ \A x \in DOMAIN s : x # "events" => listed[x] = s[x]
        /\ EndAlike(listed.events, longer)
    BY <1>1, ListedMatches DEF longer
  <2>2. "swaps" \in DOMAIN s /\ "latest" \in DOMAIN s
    BY <1>1 DEF Shaped
  <2> HIDE DEF listed
  <2>3. QED
    BY <2>1, <2>2
<1>5. WithEvent(s, event) =
        CASE event.kind = "negotiation_round" ->
               [listed EXCEPT !.negotiations =
                  NewestShown(WithRound(event.payload.task, event.payload.stage, event.id, @))]
          [] event.kind = "swap_executed" ->
               [listed EXCEPT !.swaps = Newest(Append(@, event.id), SwapCap)]
          [] event.kind = "shock_injected" ->
               [listed EXCEPT !.shocks = NewestOf(@ \cup {event.id}, ShockCap)]
          [] event.kind = "reflection" -> [listed EXCEPT !.latest["reflection"] = event.id]
          [] OTHER -> listed
  BY DEF WithEvent
<1> HIDE DEF listed
<1> DEFINE end == WithEvent(s, event)
<1> SUFFICES /\ Shaped(end)
             /\ end.swaps = SwapsWith(swapIds, event)
             /\ end.latest["reflection"] = ReflectionWith(reflection, event)
             /\ EndAlike(end.events, longer)
  BY <1>2 DEF Matches, after, longer
<1>6. {"swaps", "latest", "events", "negotiations", "shocks"} \subseteq DOMAIN listed
      /\ "reflection" \in DOMAIN listed.latest /\ IsSequence(listed.events)
  BY <1>4 DEF Shaped
<1>7. CASE event.kind = "negotiation_round"
  <2>1. PICK views : end = [listed EXCEPT !.negotiations = views]
    BY <1>5, <1>7
  <2>2. /\ DOMAIN end = DOMAIN listed /\ end.swaps = listed.swaps
        /\ end.latest = listed.latest /\ end.events = listed.events
    BY <1>6, <2>1
  <2>3. QED
    BY <1>1, <1>4, <1>6, <1>7, <2>2 DEF Shaped, SwapsWith, ReflectionWith
<1>8. CASE event.kind = "swap_executed"
  <2>1. end = [listed EXCEPT !.swaps = Newest(Append(@, event.id), SwapCap)]
    BY <1>5, <1>8
  <2>2. /\ DOMAIN end = DOMAIN listed /\ end.swaps = Newest(Append(listed.swaps, event.id), SwapCap)
        /\ end.latest = listed.latest /\ end.events = listed.events
    BY <1>6, <2>1
  <2>3. QED
    BY <1>1, <1>4, <1>6, <1>8, <2>2 DEF Shaped, SwapsWith, ReflectionWith
<1>9. CASE event.kind = "shock_injected"
  <2>1. PICK ids : end = [listed EXCEPT !.shocks = ids]
    BY <1>5, <1>9
  <2>2. /\ DOMAIN end = DOMAIN listed /\ end.swaps = listed.swaps
        /\ end.latest = listed.latest /\ end.events = listed.events
    BY <1>6, <2>1
  <2>3. QED
    BY <1>1, <1>4, <1>6, <1>9, <2>2 DEF Shaped, SwapsWith, ReflectionWith
<1>10. CASE event.kind = "reflection"
  <2>1. end = [listed EXCEPT !.latest["reflection"] = event.id]
    BY <1>5, <1>10
  <2>2. /\ DOMAIN end = DOMAIN listed /\ end.swaps = listed.swaps
        /\ end.latest = [listed.latest EXCEPT !["reflection"] = event.id]
        /\ end.events = listed.events
    BY <1>6, <2>1
  <2>3. /\ "reflection" \in DOMAIN end.latest
        /\ end.latest["reflection"] = event.id
    BY <1>6, <2>2
  <2>4. QED
    BY <1>1, <1>4, <1>6, <1>10, <2>2, <2>3 DEF Shaped, SwapsWith, ReflectionWith
<1>11. CASE event.kind \notin {"negotiation_round", "swap_executed", "shock_injected", "reflection"}
  <2>1. end = listed
    BY <1>5, <1>11
  <2>2. QED
    BY <1>1, <1>4, <1>6, <1>11, <2>1 DEF Shaped, SwapsWith, ReflectionWith
<1>12. QED
  BY <1>7, <1>8, <1>9, <1>10, <1>11

-----------------------------------------------------------------------------
StoreShape == IsSequence(events) /\ IsSequence(swaps) /\ DOMAIN latest = Registers

(* A step of the store either says nothing and changes nothing of that, or   *)
(* it says what it changes.                                                  *)
LEMMA StoreSays ==
  ASSUME StoreShape, nextEventId \in Nat, StoreNext
  PROVE  \/ /\ nextEventId' = nextEventId
            /\ UNCHANGED <<events, swaps, latest>>
         \/ /\ nextEventId' = nextEventId + 1
            /\ \E kind, payload :
                 LET event == Event(nextEventId, kind, payload) IN
                   /\ events' = Newest(Append(events, event), EventCap)
                   /\ swaps' = SwapsWith(swaps, event)
                   /\ latest'["reflection"] = ReflectionWith(latest["reflection"], event)
                   /\ DOMAIN latest' = Registers
<1> DEFINE Says(kind, payload) ==
             LET event == Event(nextEventId, kind, payload) IN
               /\ nextEventId' = nextEventId + 1
               /\ events' = Newest(Append(events, event), EventCap)
               /\ swaps' = SwapsWith(swaps, event)
               /\ latest'["reflection"] = ReflectionWith(latest["reflection"], event)
               /\ DOMAIN latest' = Registers
<1>1. ASSUME NEW kind, NEW payload, Emit(kind, payload)
      PROVE  /\ nextEventId' = nextEventId + 1
             /\ events' = Newest(Append(events, Event(nextEventId, kind, payload)), EventCap)
             /\ Event(nextEventId, kind, payload).kind = kind
             /\ Event(nextEventId, kind, payload).id = nextEventId
  BY <1>1 DEF Emit, Event
<1>2. ASSUME NEW t \in Tasks, NEW s \in Stages, IngestNegotiationRound(t, s)
      PROVE  Says("negotiation_round", [task |-> t, stage |-> s])
  BY <1>1, <1>2 DEF IngestNegotiationRound, SwapsWith, ReflectionWith, StoreShape
<1>3. IngestSwapExecuted => Says("swap_executed", {})
  BY <1>1 DEF IngestSwapExecuted, SwapsWith, ReflectionWith, StoreShape
<1>4. IngestShockInjected => Says("shock_injected", {})
  BY <1>1 DEF IngestShockInjected, SwapsWith, ReflectionWith, StoreShape
<1>5. IngestReflection => Says("reflection", {})
  BY <1>1 DEF IngestReflection, SwapsWith, ReflectionWith, StoreShape, Registers
<1>6. IngestFedRate => Says("fed_rate_received", {})
  BY <1>1 DEF IngestFedRate, SwapsWith, ReflectionWith, StoreShape, Registers
<1>7. IngestIndicator => Says("indicator_received", {})
  BY <1>1 DEF IngestIndicator, SwapsWith, ReflectionWith, StoreShape, Registers
<1>8. ReadFails => Says("system_event", {})
  BY <1>1 DEF ReadFails, SwapsWith, ReflectionWith, StoreShape
<1>9. LoadInfts => Says("inft_manifest_updated", {})
  BY <1>1 DEF LoadInfts, SwapsWith, ReflectionWith, StoreShape
<1>10. UpdateMesh => Says("peer_update", {})
  BY <1>1 DEF UpdateMesh, SwapsWith, ReflectionWith, StoreShape
<1>11. ASSUME HydrateFromMemory \/ Age \/ \E s \in Sources : Change(s)
       PROVE  nextEventId' = nextEventId /\ UNCHANGED <<events, swaps, latest>>
  BY <1>11 DEF HydrateFromMemory, Age, Change
<1>12. StoreNext =>
         \/ HydrateFromMemory \/ Age \/ \E s \in Sources : Change(s)
         \/ \E t \in Tasks, s \in Stages : IngestNegotiationRound(t, s)
         \/ IngestSwapExecuted \/ IngestShockInjected \/ IngestReflection
         \/ IngestFedRate \/ IngestIndicator \/ ReadFails \/ LoadInfts \/ UpdateMesh
  BY DEF StoreNext, Telemetry, Reading
<1>13. CASE \E kind, payload : Says(kind, payload)
  BY <1>13
<1> HIDE DEF Says
<1>14. QED
  BY <1>2, <1>3, <1>4, <1>5, <1>6, <1>7, <1>8, <1>9, <1>10, <1>11, <1>12, <1>13

-----------------------------------------------------------------------------
CaughtUp(shown) == Matches(shown, swaps, latest["reflection"], events)

ChannelShape ==
  /\ IsSequence(channel)
  /\ \A i \in 2..Len(channel) : channel[i].kind = "event"
  /\ ~open => channel = <<>>

(* A snapshot on the way makes up for whatever is shown; without one, what   *)
(* is shown since the last one needs no more than what is on the way.        *)
SnapshotRepairs ==
  channel # <<>> /\ channel[1].kind = "snapshot" =>
    \A shown : CaughtUp(AfterAll(shown, channel))

NothingMissed == streamed /\ open => CaughtUp(AfterAll(view, channel))

StreamInv ==
  /\ nextEventId \in Nat /\ StoreShape
  /\ ChannelShape /\ SnapshotRepairs /\ NothingMissed

LEMMA InitStream == Init => StreamInv
<1> SUFFICES ASSUME Init PROVE StreamInv
  OBVIOUS
<1>1. IsSequence(<<>>)
  BY DEF IsSequence
<1>2. StoreShape /\ nextEventId \in Nat
  BY <1>1 DEF Init, StoreInit, StoreShape
<1>3. ChannelShape /\ SnapshotRepairs /\ NothingMissed
  BY <1>1 DEF Init, ChannelShape, SnapshotRepairs, NothingMissed
<1>4. QED
  BY <1>2, <1>3 DEF StreamInv

LEMMA StoreKeepsStream == StreamInv /\ Streamed(StoreNext) => StreamInv'
<1> SUFFICES ASSUME StreamInv, Streamed(StoreNext) PROVE StreamInv'
  OBVIOUS
<1>1. StoreShape /\ nextEventId \in Nat /\ ChannelShape /\ SnapshotRepairs /\ NothingMissed
  BY DEF StreamInv
<1>2. StoreNext /\ UNCHANGED <<open, view, streamed>>
      /\ channel' = IF open /\ nextEventId' # nextEventId
                      THEN Append(channel, Message("event", events'[Len(events')]))
                      ELSE channel
  BY DEF Streamed
<1>3. CASE nextEventId' = nextEventId /\ UNCHANGED <<events, swaps, latest>>
  BY <1>1, <1>2, <1>3 DEF StreamInv, StoreShape, ChannelShape, SnapshotRepairs, NothingMissed,
    CaughtUp
<1>4. ASSUME NEW kind, NEW payload, NEW event, event = Event(nextEventId, kind, payload),
             nextEventId' = nextEventId + 1,
             events' = Newest(Append(events, event), EventCap),
             swaps' = SwapsWith(swaps, event),
             latest'["reflection"] = ReflectionWith(latest["reflection"], event),
             DOMAIN latest' = Registers
      PROVE  StreamInv'
  <2>1. nextEventId' \in Nat /\ nextEventId' # nextEventId
    BY <1>1, <1>4
  <2>2. EventCap \in Nat /\ EventCap # 0 /\ SwapCap \in Nat
    BY StoreAssumption
  <2>3. IsSequence(events') /\ events'[Len(events')] = event
    BY <1>1, <1>4, <2>2, CutAppended DEF StoreShape, IsSequence
  <2>4. IsSequence(swaps')
    BY <1>1, <1>4, <2>2, CutAppended DEF StoreShape, IsSequence, SwapsWith
  <2>5. ASSUME NEW shown, CaughtUp(AfterAll(shown, channel)), open
        PROVE  CaughtUp(AfterAll(shown, channel))'
    <3> DEFINE message == Message("event", event)
    <3>1. channel' = Append(channel, message)
      BY <1>2, <2>1, <2>3, <2>5
    <3>2. PICK M : channel \in Seq(M)
      BY <1>1 DEF ChannelShape, IsSequence
    <3>3. channel \in Seq(M \cup {message}) /\ message \in M \cup {message}
      BY <3>2
    <3> HIDE DEF message
    <3>4. AfterAll(shown, channel') = Received(AfterAll(shown, channel), message)
      BY <3>1, <3>3, AfterOneMore
    <3>5. Matches(AfterAll(shown, channel), swaps, latest["reflection"], events)
      BY <2>5 DEF CaughtUp
    <3>6. Matches(Received(AfterAll(shown, channel), message), swaps', latest'["reflection"], events')
      BY <1>1, <1>4, <3>5, EventMatches DEF StoreShape, message
    <3>7. QED
      BY <3>4, <3>6 DEF CaughtUp
  <2>6. CASE ~open
    BY <1>1, <1>2, <1>4, <2>1, <2>3, <2>4, <2>6 DEF StreamInv, StoreShape, ChannelShape,
      SnapshotRepairs, NothingMissed
  <2>7. CASE open
    <3> DEFINE message == Message("event", event)
    <3>1. channel' = Append(channel, message) /\ message.kind = "event"
      BY <1>2, <2>1, <2>3, <2>7 DEF Message
    <3>2. PICK M : channel \in Seq(M)
      BY <1>1 DEF ChannelShape, IsSequence
    <3> HIDE DEF message
    <3>3. /\ Len(channel) \in Nat /\ Len(channel') = Len(channel) + 1
          /\ channel'[Len(channel) + 1] = message
          /\ \A i \in 1..Len(channel) : channel'[i] = channel[i]
          /\ channel = <<>> => channel'[1] = message
          /\ channel # <<>> => channel'[1] = channel[1]
      BY <3>1, <3>2
    <3>4. ChannelShape'
      <4>1. IsSequence(channel')
        BY <3>1, <3>2, CutAppended, <2>2
      <4>2. \A i \in 2..Len(channel') : channel'[i].kind = "event"
        BY <1>1, <3>1, <3>3 DEF ChannelShape
      <4>3. QED
        BY <1>2, <2>7, <4>1, <4>2 DEF ChannelShape
    <3>5. SnapshotRepairs'
      <4>1. SUFFICES ASSUME channel'[1].kind = "snapshot", NEW shown
                     PROVE  CaughtUp(AfterAll(shown, channel))'
        BY DEF SnapshotRepairs
      <4>2. channel # <<>> /\ channel[1].kind = "snapshot"
        BY <3>1, <3>3, <4>1
      <4>3. QED
        BY <1>1, <2>5, <2>7, <4>2 DEF SnapshotRepairs
    <3>6. NothingMissed'
      <4>1. SUFFICES ASSUME streamed' PROVE CaughtUp(AfterAll(view, channel))'
        BY DEF NothingMissed
      <4>2. CaughtUp(AfterAll(view, channel))
        BY <1>1, <1>2, <2>7, <4>1 DEF NothingMissed
      <4>3. view' = view
        BY <1>2
      <4> DEFINE shown == view
      <4>4. Matches(AfterAll(view, channel'), swaps', latest'["reflection"], events')
        BY <2>5, <2>7, <4>2 DEF CaughtUp
      <4>5. QED
        BY <4>3, <4>4 DEF CaughtUp
    <3>7. QED
      BY <1>4, <2>1, <2>3, <2>4, <3>4, <3>5, <3>6 DEF StreamInv, StoreShape
  <2>8. QED
    BY <2>6, <2>7
<1>5. QED
  BY <1>1, <1>2, <1>3, <1>4, StoreSays

LEMMA ServedMatches ==
  ASSUME StoreShape, NEW shown
  PROVE  CaughtUp(Received(shown, Message("snapshot", Served)))
<1>1. /\ Served.swaps = swaps /\ Served.latest = latest
      /\ Served.events = Newest(events, SnapshotEvents)
      /\ {"swaps", "latest", "events", "negotiations", "shocks"} \subseteq DOMAIN Served
  BY DEF Served, Snapshot
<1>2. PICK E : events \in Seq(E)
  BY DEF StoreShape, IsSequence
<1>3. SnapshotEvents \in Nat
  BY DashboardAssumption
<1>4. IsSequence(Served.events) /\ EndAlike(Served.events, events)
  BY <1>1, <1>2, <1>3, NewestEndsAlike
<1>5. "reflection" \in DOMAIN Served.latest
  BY <1>1 DEF StoreShape, Registers
<1>6. Received(shown, Message("snapshot", Served)) = <<Served>>
  BY DEF Received, Message
<1>7. <<Served>> # None /\ <<Served>>[1] = Served
  BY DEF None
<1>8. QED
  BY <1>1, <1>4, <1>5, <1>6, <1>7 DEF CaughtUp, Matches, Shaped

LEMMA ConnectKeepsStream == StreamInv /\ Connect => StreamInv'
<1> SUFFICES ASSUME StreamInv, Connect PROVE StreamInv'
  OBVIOUS
<1> DEFINE message == Message("snapshot", Served)
<1>1. open' /\ channel' = <<message>> /\ UNCHANGED <<view, streamed, nextEventId, events, swaps, latest>>
  BY DEF Connect, storeVars
<1>2. StoreShape /\ nextEventId \in Nat
  BY DEF StreamInv
<1>3. ASSUME NEW shown
      PROVE  CaughtUp(AfterAll(shown, channel))'
  <2>1. CaughtUp(Received(shown, message))
    BY <1>2, ServedMatches
  <2> HIDE DEF message
  <2>2. channel' = Append(<<>>, message) /\ <<>> \in Seq({message}) /\ message \in {message}
    BY <1>1
  <2>3. AfterAll(shown, Append(<<>>, message)) = Received(AfterAll(shown, <<>>), message)
    BY <2>2, AfterOneMore
  <2>4. AfterAll(shown, channel') = Received(shown, message)
    BY <2>2, <2>3, AfterNothing
  <2>5. QED
    BY <1>1, <2>1, <2>4 DEF CaughtUp
<1>4. ChannelShape'
  <2> HIDE DEF message
  <2>1. channel' \in Seq({message}) /\ Len(channel') = 1
    BY <1>1
  <2>2. \A i \in 2..Len(channel') : channel'[i].kind = "event"
    BY <2>1
  <2>3. IsSequence(channel')
    BY <2>1 DEF IsSequence
  <2>4. QED
    BY <1>1, <2>2, <2>3 DEF ChannelShape
<1>5. SnapshotRepairs'
  BY <1>3 DEF SnapshotRepairs
<1>6. NothingMissed'
  <2>1. view' = view
    BY <1>1
  <2>2. Matches(AfterAll(view, channel'), swaps', latest'["reflection"], events')
    BY <1>3 DEF CaughtUp
  <2>3. QED
    BY <2>1, <2>2 DEF NothingMissed, CaughtUp
<1>7. QED
  BY <1>1, <1>2, <1>4, <1>5, <1>6 DEF StreamInv, StoreShape

LEMMA DeliverKeepsStream == StreamInv /\ Deliver => StreamInv'
<1> SUFFICES ASSUME StreamInv, Deliver PROVE StreamInv'
  OBVIOUS
<1>1. /\ channel # <<>> /\ view' = Received(view, Head(channel)) /\ channel' = Tail(channel)
      /\ streamed' = (streamed \/ Head(channel).kind = "snapshot")
      /\ UNCHANGED <<open, nextEventId, events, swaps, latest>>
  BY DEF Deliver, storeVars
<1>2. StoreShape /\ nextEventId \in Nat /\ ChannelShape /\ SnapshotRepairs /\ NothingMissed
  BY DEF StreamInv
<1>3. PICK M : channel \in Seq(M)
  BY <1>2 DEF ChannelShape, IsSequence
<1>4. /\ channel' \in Seq(M) /\ Len(channel) \in Nat \ {0} /\ Len(channel') = Len(channel) - 1
      /\ \A i \in 1..Len(channel') : channel'[i] = channel[i + 1]
      /\ Head(channel) = channel[1]
      /\ channel' # <<>> => channel'[1] = channel[2] /\ 2 \in 2..Len(channel)
  BY <1>1, <1>3
<1>5. ChannelShape'
  <2>1. \A i \in 2..Len(channel') : channel'[i].kind = "event"
    BY <1>2, <1>4 DEF ChannelShape
  <2>2. open'
    BY <1>1, <1>2 DEF ChannelShape
  <2>3. IsSequence(channel')
    BY <1>4 DEF IsSequence
  <2>4. QED
    BY <2>1, <2>2, <2>3 DEF ChannelShape
<1>6. SnapshotRepairs'
  <2>1. channel' # <<>> => channel'[1].kind = "event"
    BY <1>2, <1>4 DEF ChannelShape
  <2>2. QED
    BY <2>1 DEF SnapshotRepairs
<1>7. NothingMissed'
  <2>1. SUFFICES ASSUME streamed', open' PROVE CaughtUp(AfterAll(view, channel))'
    BY DEF NothingMissed
  <2>2. AfterAll(view', channel') = AfterAll(view, channel)
    BY <1>1, <1>3, AfterTheFirst
  <2>3. CaughtUp(AfterAll(view, channel))
    BY <1>1, <1>2, <1>4, <2>1 DEF NothingMissed, SnapshotRepairs
  <2>4. QED
    BY <1>1, <2>2, <2>3 DEF CaughtUp
<1>8. QED
  BY <1>1, <1>2, <1>5, <1>6, <1>7 DEF StreamInv, StoreShape

LEMMA ElsewhereKeepsStream ==
  ASSUME StreamInv, UNCHANGED <<nextEventId, events, swaps, latest, open, channel>>,
         ~streamed' \/ UNCHANGED <<view, streamed>>
  PROVE  StreamInv'
BY DEF StreamInv, StoreShape, ChannelShape, SnapshotRepairs, NothingMissed, CaughtUp

LEMMA StepKeepsStream == StreamInv /\ [Next]_vars => StreamInv'
<1> SUFFICES ASSUME StreamInv, [Next]_vars PROVE StreamInv'
  OBVIOUS
<1>1. CASE Streamed(StoreNext)
  BY <1>1, StoreKeepsStream
<1>2. CASE Connect
  BY <1>2, ConnectKeepsStream
<1>3. CASE Deliver
  BY <1>3, DeliverKeepsStream
<1>4. CASE Disconnect
  <2>1. IsSequence(<<>>)
    BY DEF IsSequence
  <2>2. QED
    BY <1>4, <2>1 DEF Disconnect, storeVars, StreamInv, StoreShape, ChannelShape,
      SnapshotRepairs, NothingMissed
<1>5. CASE \E p \in Polls : PollServed(p) \/ PollArrives(p) \/ PollFails(p)
  BY <1>5, ElsewhereKeepsStream DEF PollServed, PollArrives, PollFails, storeVars
<1>6. CASE UNCHANGED vars
  BY <1>6, ElsewhereKeepsStream DEF vars, storeVars, clientVars
<1>7. QED
  BY <1>1, <1>2, <1>3, <1>4, <1>5, <1>6 DEF Next

(* A browser that only listened since the socket's snapshot shows, with what *)
(* is still on the way, the store's swaps, reflections and last events: the  *)
(* socket joins the clients with its snapshot (observer/src/index.ts 198).   *)
THEOREM StreamMissesNothing == Spec => []StreamIsComplete
<1>1. StreamInv => StreamIsComplete
  <2> SUFFICES ASSUME StreamInv, streamed, open
               PROVE  LET end == AfterAll(view, channel)[1]
                          last == Least(Len(end.events), Len(events))
                      IN /\ end.swaps = swaps
                         /\ end.latest["reflection"] = latest["reflection"]
                         /\ Newest(end.events, last) = Newest(events, last)
    BY DEF StreamIsComplete
  <2> DEFINE end == AfterAll(view, channel)[1]
  <2>1. Shaped(end) /\ end.swaps = swaps /\ end.latest["reflection"] = latest["reflection"]
        /\ EndAlike(end.events, events)
    BY DEF StreamInv, NothingMissed, CaughtUp, Matches
  <2>2. IsSequence(end.events) /\ IsSequence(events)
    BY <2>1 DEF Shaped, StreamInv, StoreShape
  <2> HIDE DEF end
  <2>3. Newest(end.events, Shorter(end.events, events)) = Newest(events, Shorter(end.events, events))
    BY <2>1, <2>2, EndAlikeNewest DEF IsSequence
  <2>4. QED
    BY <2>1, <2>3 DEF end, Shorter
<1>2. QED
  BY <1>1, InitStream, StepKeepsStream, PTL DEF Spec

=============================================================================

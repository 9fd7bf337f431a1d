--------------------------- MODULE TickLoopProofs ---------------------------
(***************************************************************************)
(* Announcements are heard in order, for any agents, cadences and bounds;  *)
(* and the Federal Reserve's sweep, which runs in its tick, sends no shock *)
(* twice without need.                                                     *)
(*                                                                         *)
(* HeardInOrder alone says nothing of the calls on their way. They are all *)
(* of the tick that waits for them, and of what its agent announced last,  *)
(* which nobody is ahead of.                                               *)
(***************************************************************************)
EXTENDS TickLoop, ShockFanOut, TLAPS

AnnounceTypeOK ==
  /\ news \in [Agents -> Nat] /\ own \in [Agents -> Nat]
  /\ heard \in [Agents -> [Agents -> Nat]]
  /\ calls \subseteq [from : Agents, to : Agents, value : Nat]
  /\ DOMAIN phase = Agents

(* A tick that waits for a handler has no announcement on its way.           *)
WaitsInitiating == \A a \in waits : phase[a] \in Initiations

CallsCurrent ==
  \A c \in calls : phase[c.from] = "announce" /\ c.value = own[c.from]

NobodyAhead ==
  /\ \A a \in Agents : own[a] <= news[a]
  /\ \A a, b \in Agents : heard[b][a] <= own[a]

AnnounceInv ==
  AnnounceTypeOK /\ waits \subseteq Agents /\ WaitsInitiating /\ CallsCurrent /\ NobodyAhead

InOrder == \A a, b \in Agents : heard'[a][b] >= heard[a][b]

LEMMA AnnounceInit == ASSUME TickAssumption, Init PROVE AnnounceInv
  BY DEF Init, TickAssumption, AnnounceInv, AnnounceTypeOK, WaitsInitiating, CallsCurrent,
         NobodyAhead

(* A step that announces nothing and delivers nothing, and takes no tick     *)
(* away from its announcements.                                              *)
LEMMA QuietKeeps ==
  ASSUME AnnounceInv, NEW a \in Agents,
         UNCHANGED <<own, calls, heard>>,
         \A b \in Agents : news[b] <= news'[b], news' \in [Agents -> Nat],
         DOMAIN phase' = Agents, \A b \in Agents \ {a} : phase'[b] = phase[b],
         phase'[a] # phase[a] => \A c \in calls : c.from # a,
         waits' \subseteq waits \cup {a}, a \in waits' => phase'[a] \in Initiations
  PROVE  AnnounceInv' /\ InOrder
<1>1. AnnounceTypeOK' BY DEF AnnounceInv, AnnounceTypeOK
<1>2. waits' \subseteq Agents BY DEF AnnounceInv
<1>3. WaitsInitiating' BY <1>2 DEF AnnounceInv, WaitsInitiating
<1>4. CallsCurrent'
  <2>1. SUFFICES ASSUME NEW c \in calls PROVE phase'[c.from] = phase[c.from]
    BY DEF AnnounceInv, CallsCurrent
  <2>2. c.from \in Agents BY DEF AnnounceInv, AnnounceTypeOK
  <2>3. QED BY <2>2
<1>5. NobodyAhead'
  <2>1. \A b \in Agents : own[b] \in Nat /\ news[b] \in Nat /\ news'[b] \in Nat
    BY DEF AnnounceInv, AnnounceTypeOK
  <2>2. \A b \in Agents : own[b] <= news'[b] BY <2>1 DEF AnnounceInv, NobodyAhead
  <2>3. QED BY <2>2 DEF AnnounceInv, NobodyAhead
<1>6. InOrder BY DEF InOrder, AnnounceInv, AnnounceTypeOK
<1>7. QED BY <1>1, <1>2, <1>3, <1>4, <1>5, <1>6 DEF AnnounceInv

(* The peer's latest is the call's, and no newer than its announcer's.       *)
LEMMA TakenKeeps ==
  ASSUME AnnounceInv, NEW c \in calls, calls' = calls \ {c},
         heard' \in {heard, [heard EXCEPT ![c.to][c.from] = c.value]},
         UNCHANGED <<phase, own, news, waits>>
  PROVE  AnnounceInv' /\ InOrder
<1>1. c.from \in Agents /\ c.to \in Agents /\ c.value \in Nat /\ c.value = own[c.from]
  BY DEF AnnounceInv, AnnounceTypeOK, CallsCurrent
<1>2. heard' \in [Agents -> [Agents -> Nat]]
  BY <1>1 DEF AnnounceInv, AnnounceTypeOK
<1>3. \A a, b \in Agents :
        heard'[b][a] = heard[b][a] \/ (a = c.from /\ heard'[b][a] = own[a])
  BY <1>1 DEF AnnounceInv, AnnounceTypeOK
<1>4. \A a, b \in Agents : own[a] \in Nat /\ heard[b][a] \in Nat /\ heard[b][a] <= own[a]
  BY DEF AnnounceInv, AnnounceTypeOK, NobodyAhead
<1>5. NobodyAhead' BY <1>3, <1>4 DEF AnnounceInv, NobodyAhead
<1>6. InOrder BY <1>3, <1>4 DEF InOrder
<1>7. AnnounceTypeOK' BY <1>2 DEF AnnounceInv, AnnounceTypeOK
<1>8. WaitsInitiating' /\ CallsCurrent' BY DEF AnnounceInv, WaitsInitiating, CallsCurrent
<1>9. QED BY <1>5, <1>6, <1>7, <1>8 DEF AnnounceInv

LEMMA BeginKeeps ==
  ASSUME AnnounceInv, NEW a \in Agents, Begin(a)
  PROVE  AnnounceInv' /\ InOrder
<1> DEFINE new == Announcements(a)
<1>1. phase[a] = "idle" /\ UNCHANGED <<news, heard, waits>> BY DEF Begin, taskVars
<1>2. a \notin waits BY <1>1 DEF AnnounceInv, WaitsInitiating, Initiations
<1>3. \A c \in calls : c.from # a BY <1>1 DEF AnnounceInv, CallsCurrent
<1>4. CASE /\ phase' = [phase EXCEPT ![a] = "announce"]
           /\ own' = [own EXCEPT ![a] = news[a]]
           /\ calls' = calls \cup new
  <2>1. \A b \in Agents : own'[b] = IF b = a THEN news[a] ELSE own[b]
    BY <1>4 DEF AnnounceInv, AnnounceTypeOK
  <2>2. \A c \in new : c.from = a /\ c.to \in Agents /\ c.value = news[a]
                       /\ c \in [from : Agents, to : Agents, value : Nat]
    BY DEF AnnounceInv, AnnounceTypeOK, Announcements
  <2>3. AnnounceTypeOK'
    <3>1. own' \in [Agents -> Nat] BY <1>4 DEF AnnounceInv, AnnounceTypeOK
    <3>2. calls' \subseteq [from : Agents, to : Agents, value : Nat]
      BY <1>4, <2>2 DEF AnnounceInv, AnnounceTypeOK
    <3>3. DOMAIN phase' = Agents BY <1>4 DEF AnnounceInv, AnnounceTypeOK
    <3>4. QED BY <1>1, <3>1, <3>2, <3>3 DEF AnnounceInv, AnnounceTypeOK
  <2>4. \A b \in Agents : phase'[b] = IF b = a THEN "announce" ELSE phase[b]
    BY <1>4 DEF AnnounceInv, AnnounceTypeOK
  <2>5. CallsCurrent'
    <3>1. ASSUME NEW c \in calls PROVE phase'[c.from] = "announce" /\ c.value = own'[c.from]
      <4>1. c.from \in Agents \ {a} BY <1>3 DEF AnnounceInv, AnnounceTypeOK
      <4>2. QED BY <4>1, <2>1, <2>4 DEF AnnounceInv, CallsCurrent
    <3>2. ASSUME NEW c \in new PROVE phase'[c.from] = "announce" /\ c.value = own'[c.from]
      BY <2>1, <2>2, <2>4
    <3>3. QED BY <1>4, <3>1, <3>2 DEF CallsCurrent
  <2>6. WaitsInitiating' BY <1>1, <1>2, <2>4 DEF AnnounceInv, WaitsInitiating
  <2>7. NobodyAhead'
    <3>1. \A b \in Agents : own[b] <= own'[b] /\ own'[b] <= news[b]
      BY <2>1 DEF AnnounceInv, AnnounceTypeOK, NobodyAhead
    <3>2. \A b, d \in Agents : heard[d][b] \in Nat /\ own[b] \in Nat /\ own'[b] \in Nat
      BY <2>3, <1>1 DEF AnnounceInv, AnnounceTypeOK
    <3>3. \A b, d \in Agents : heard[d][b] <= own'[b]
      BY <3>1, <3>2 DEF AnnounceInv, NobodyAhead
    <3>4. QED BY <1>1, <3>1, <3>3 DEF NobodyAhead
  <2>8. InOrder BY <1>1 DEF InOrder, AnnounceInv, AnnounceTypeOK
  <2>9. QED BY <1>1, <2>3, <2>5, <2>6, <2>7, <2>8 DEF AnnounceInv
<1>5. CASE /\ phase' = [phase EXCEPT ![a] = NextStep(a, After(tick[a]), 1)]
           /\ UNCHANGED <<own, calls>>
  <2>1. DOMAIN phase' = Agents /\ \A b \in Agents \ {a} : phase'[b] = phase[b]
    BY <1>5 DEF AnnounceInv, AnnounceTypeOK
  <2>2. news' \in [Agents -> Nat] /\ \A b \in Agents : news[b] <= news'[b]
    BY <1>1 DEF AnnounceInv, AnnounceTypeOK
  <2>3. QED BY <1>1, <1>2, <1>3, <1>5, <2>1, <2>2, QuietKeeps
<1>6. QED BY <1>4, <1>5 DEF Begin

(* A tick that goes on, or ends, when its agent has no call on its way.      *)
Elsewhere(a) == DOMAIN phase' = Agents /\ \A b \in Agents \ {a} : phase'[b] = phase[b]

LEMMA GoesOnKeeps ==
  ASSUME AnnounceInv, NEW a \in Agents, Elsewhere(a), \A c \in calls : c.from # a,
         UNCHANGED <<own, news, calls, heard>>, waits' \subseteq waits, a \notin waits'
  PROVE  AnnounceInv' /\ InOrder
<1>1. news' \in [Agents -> Nat] /\ \A b \in Agents : news[b] <= news'[b]
  BY DEF AnnounceInv, AnnounceTypeOK
<1>2. QED BY <1>1, QuietKeeps DEF Elsewhere

(* Only a tick that waits for its calls has calls on their way.              *)
LEMMA NoCalls ==
  ASSUME AnnounceInv, NEW a \in Agents, phase[a] # "announce" \/ CallsOver(a)
  PROVE  \A c \in calls : c.from # a
  BY DEF AnnounceInv, CallsCurrent, CallsOver

LEMMA StepKeeps ==
  ASSUME TickAssumption, AnnounceInv, [Next]_vars
  PROVE  AnnounceInv' /\ InOrder
<1>1. ASSUME NEW a \in Agents, Begin(a) PROVE AnnounceInv' /\ InOrder
  BY <1>1, BeginKeeps
<1>2. ASSUME NEW a \in Agents, Announced(a) \/ TickFails(a) PROVE AnnounceInv' /\ InOrder
  <2>1. /\ Elsewhere(a)
        /\ phase[a] = "announce" /\ CallsOver(a)
        /\ UNCHANGED <<own, news, calls, heard, waits>>
    BY <1>2 DEF Elsewhere, AnnounceInv, AnnounceTypeOK, Announced, TickFails,
           Proceed, CallsOver, taskVars
  <2>2. a \notin waits BY <2>1 DEF AnnounceInv, WaitsInitiating, Initiations
  <2>3. \A c \in calls : c.from # a BY <2>1, <2>2, NoCalls
  <2>4. QED BY <2>1, <2>2, <2>3, GoesOnKeeps
<1>3. ASSUME NEW a \in Agents, NoSnapshot(a) PROVE AnnounceInv' /\ InOrder
  <2>1. /\ Elsewhere(a)
        /\ phase[a] = "idle" /\ UNCHANGED <<own, news, calls, heard, waits>>
    BY <1>3 DEF Elsewhere, AnnounceInv, AnnounceTypeOK, NoSnapshot, taskVars
  <2>2. a \notin waits BY <2>1 DEF AnnounceInv, WaitsInitiating, Initiations
  <2>3. \A c \in calls : c.from # a BY <2>1, <2>2, NoCalls
  <2>4. QED BY <2>1, <2>2, <2>3, GoesOnKeeps
<1>4. ASSUME NEW a \in Agents, NoPeer(a) PROVE AnnounceInv' /\ InOrder
  <2>1. /\ Elsewhere(a)
        /\ phase[a] # "announce" /\ a \notin waits
        /\ UNCHANGED <<own, news, calls, heard, waits>>
    BY <1>4 DEF Elsewhere, AnnounceInv, AnnounceTypeOK, NoPeer, Initiating,
           Initiations, Proceed, taskVars
  <2>2. \A c \in calls : c.from # a BY <2>1, NoCalls
  <2>3. QED BY <2>1, <2>2, GoesOnKeeps
<1>5. ASSUME NEW a \in Agents, AnswerArrives(a) \/ AnswerLost(a)
      PROVE  AnnounceInv' /\ InOrder
  <2>1. /\ Elsewhere(a)
        /\ a \in waits /\ waits' = waits \ {a}
        /\ UNCHANGED <<own, news, calls, heard>>
    BY <1>5 DEF Elsewhere, AnnounceInv, AnnounceTypeOK, AnswerArrives,
           AnswerLost, Goes, Proceed
  <2>2. phase[a] # "announce" BY <2>1 DEF AnnounceInv, WaitsInitiating, Initiations
  <2>3. \A c \in calls : c.from # a BY <2>1, <2>2, NoCalls
  <2>4. QED BY <2>1, <2>2, <2>3, GoesOnKeeps
<1>6. ASSUME NEW a \in Agents, ReflectUnchanged(a) \/ ReflectAnew(a) \/ ReflectionFails(a)
      PROVE  AnnounceInv' /\ InOrder
  <2>1. /\ Elsewhere(a)
        /\ phase[a] = "reflect" /\ UNCHANGED <<own, news, calls, heard, waits>>
    BY <1>6 DEF Elsewhere, AnnounceInv, AnnounceTypeOK, ReflectUnchanged,
           ReflectAnew, Reflects, ReflectionFails, Proceed, taskVars
  <2>2. a \notin waits BY <2>1 DEF AnnounceInv, WaitsInitiating, Initiations
  <2>3. \A c \in calls : c.from # a BY <2>1, <2>2, NoCalls
  <2>4. QED BY <2>1, <2>2, <2>3, GoesOnKeeps
<1>7. ASSUME NEW a \in Agents, Ask(a) PROVE AnnounceInv' /\ InOrder
  <2>1. /\ phase[a] \in Initiations /\ waits' = waits \cup {a}
        /\ UNCHANGED <<phase, own, news, calls, heard>>
    BY <1>7 DEF Ask, ProposeSwap, InviteToCoalition, BidForBond, Sends,
           Initiating, tickVars
  <2>2. news' \in [Agents -> Nat] /\ \A d \in Agents : news[d] <= news'[d]
    BY <2>1 DEF AnnounceInv, AnnounceTypeOK
  <2>3. DOMAIN phase' = Agents BY <2>1 DEF AnnounceInv, AnnounceTypeOK
  <2>4. QED BY <2>1, <2>2, <2>3, QuietKeeps
<1>8. ASSUME NEW a \in Agents, News(a) PROVE AnnounceInv' /\ InOrder
  <2>1. news' = [news EXCEPT ![a] = @ + 1] /\ UNCHANGED <<phase, own, calls, heard, waits>>
    BY <1>8 DEF News, tickVars, taskVars
  <2>2. news' \in [Agents -> Nat] /\ \A d \in Agents : news[d] <= news'[d]
    BY <2>1 DEF AnnounceInv, AnnounceTypeOK
  <2>3. a \in waits' => phase'[a] \in Initiations BY <2>1 DEF AnnounceInv, WaitsInitiating
  <2>4. DOMAIN phase' = Agents BY <2>1 DEF AnnounceInv, AnnounceTypeOK
  <2>5. QED BY <2>1, <2>2, <2>3, <2>4, QuietKeeps
<1>9. CASE UNCHANGED <<phase, own, news, calls, heard, waits>>
  BY <1>9 DEF AnnounceInv, AnnounceTypeOK, WaitsInitiating, CallsCurrent,
         NobodyAhead, InOrder
<1>10. ASSUME NEW a \in Agents, Handler(a) \/ Revise(a) PROVE AnnounceInv' /\ InOrder
  <2>1. \E new : Becomes(a, new)
    BY <1>10 DEF Handler, Revise, AnswerSwap, Settle, AnswerInvite,
           AnswerRevised, AnswerBid,
                 Ends, Stage
  <2>2. UNCHANGED <<phase, own, news, calls, heard, waits>> BY <2>1 DEF Becomes, tickVars
  <2>3. QED BY <2>2, <1>9
<1>11. ASSUME NEW c \in calls, Heard(c) \/ CallFails(c) PROVE AnnounceInv' /\ InOrder
  <2>1. /\ calls' = calls \ {c}
        /\ heard' \in {heard, [heard EXCEPT ![c.to][c.from] = c.value]}
        /\ UNCHANGED <<phase, own, news, waits>>
    BY <1>11 DEF Heard, CallFails, tickVars, taskVars
  <2>2. QED BY <2>1, TakenKeeps
<1>12. CASE UNCHANGED vars BY <1>12, <1>9 DEF vars, tickVars, taskVars
<1>13. QED
  BY <1>1, <1>2, <1>3, <1>4, <1>5, <1>6, <1>7, <1>8, <1>10, <1>11, <1>12
  DEF Next, TickStep, Fails

(* No agent goes back to an older announcement of a peer (broadcast.ts       *)
(* awaits all calls of a tick, whose end starts the next).                   *)
THEOREM AnnouncementsInOrder == Spec => HeardInOrder
<1>1. Init => AnnounceInv BY AnnounceInit, TickAssumption
<1>2. AnnounceInv /\ [Next]_vars => AnnounceInv' BY StepKeeps, TickAssumption
<1>3. AnnounceInv /\ [Next]_vars => [\A a, b \in Agents : heard'[a][b] >= heard[a][b]]_vars
  BY StepKeeps, TickAssumption DEF InOrder
<1>4. QED BY <1>1, <1>2, <1>3, PTL DEF Spec, HeardInOrder

-----------------------------------------------------------------------------
(* The sweep of the Federal Reserve's tick.                                  *)

SweepTypeOK ==
  /\ active \subseteq Events
  /\ recently \in Seq(Events)
  /\ todo \subseteq Events
  /\ handled \in [Events -> Nat] /\ excuse \in [Events -> Nat]

(* What a sweep has yet to send, or sends, was not sent by it or remembered. *)
NotYetSent ==
  /\ now = {} \/ \E e \in Events : now = {e}
  /\ todo \cap now = {}
  /\ (todo \cup now) \cap ToSet(recently) = {}

SweepInv == SweepTypeOK /\ NotYetSent /\ HandledOnce

(* The trim forgets and adds nothing.                                        *)
LEMMA TrimForgets ==
  ASSUME NEW ids \in Seq(Events)
  PROVE  /\ Trimmed(ids) \in Seq(Events)
         /\ ToSet(Trimmed(ids)) \subseteq ToSet(ids)
<1>1. Len(ids) \in Nat /\ RecentKeep \in Nat /\ RecentCap \in Nat /\ RecentKeep <= RecentCap
  BY SweepAssumption
<1>2. CASE Len(ids) > RecentCap
  <2> DEFINE m == Len(ids) - RecentKeep + 1
             kept == SubSeq(ids, m, Len(ids))
  <2>1. m \in 1..(Len(ids) + 1) BY <1>1, <1>2
  <2>2. /\ kept \in Seq(Events) /\ Len(kept) = Len(ids) - m + 1
        /\ \A i \in 1..Len(kept) : kept[i] = ids[m + i - 1]
    BY <1>1, <2>1
  <2>3. \A i \in DOMAIN kept : m + i - 1 \in DOMAIN ids /\ kept[i] = ids[m + i - 1]
    BY <1>1, <2>1, <2>2
  <2>4. ToSet(kept) \subseteq ToSet(ids) BY <2>3 DEF ToSet
  <2>5. Trimmed(ids) = kept BY <1>2 DEF Trimmed
  <2>6. QED BY <2>2, <2>4, <2>5
<1>3. CASE ~(Len(ids) > RecentCap) BY <1>3 DEF Trimmed
<1>4. QED BY <1>2, <1>3

LEMMA ToSetAppend ==
  ASSUME NEW ids \in Seq(Events), NEW e \in Events
  PROVE  /\ Append(ids, e) \in Seq(Events)
         /\ ToSet(Append(ids, e)) = ToSet(ids) \cup {e}
<1> DEFINE new == Append(ids, e)
<1>1. /\ new \in Seq(Events) /\ Len(new) = Len(ids) + 1 /\ Len(ids) \in Nat
      /\ DOMAIN new = 1..(Len(ids) + 1) /\ DOMAIN ids = 1..Len(ids)
      /\ \A i \in 1..Len(ids) : new[i] = ids[i]
      /\ new[Len(ids) + 1] = e
  OBVIOUS
<1>2. ToSet(new) \subseteq ToSet(ids) \cup {e}
  BY <1>1 DEF ToSet
<1>3. ToSet(ids) \subseteq ToSet(new) /\ e \in ToSet(new)
  BY <1>1 DEF ToSet
<1>4. QED BY <1>1, <1>2, <1>3

LEMMA SweepInitKeeps == SweepInit => SweepInv
<1>1. ToSet(<<>>) = {} /\ <<>> \in Seq(Events)
  BY DEF ToSet
<1>2. QED BY <1>1 DEF SweepInit, SweepInv, SweepTypeOK, NotYetSent, HandledOnce

(* What is counted keeps the books, if what was told was not remembered.     *)
LEMMA CountedOnce ==
  ASSUME SweepInv, NEW told \in SUBSET now, NEW ids \in Seq(Events),
         ToSet(ids) \subseteq ToSet(recently) \cup told,
         ToSet(recently) \subseteq ToSet(ids),
         recently' \in Seq(Events), ToSet(recently') \subseteq ToSet(ids),
         Counted(told, (told \cup ToSet(ids)) \ ToSet(recently'))
  PROVE  HandledOnce' /\ handled' \in [Events -> Nat] /\ excuse' \in [Events -> Nat]
<1> DEFINE forgotten == (told \cup ToSet(ids)) \ ToSet(recently')
<1>1. /\ handled \in [Events -> Nat] /\ excuse \in [Events -> Nat]
      /\ handled' = [e \in Events |-> handled[e] + IF e \in told THEN 1 ELSE 0]
      /\ excuse' = [e \in Events |-> excuse[e] + IF e \in forgotten THEN 1 ELSE 0]
  BY DEF SweepInv, SweepTypeOK, Counted
<1>2. handled' \in [Events -> Nat] /\ excuse' \in [Events -> Nat]
  BY <1>1
<1>3. \A e \in Events :
        /\ e \in ToSet(recently) => handled[e] > 0
        /\ handled[e] <= excuse[e] + IF e \in ToSet(recently) THEN 1 ELSE 0
  BY DEF SweepInv, HandledOnce
<1>4. told \cap ToSet(recently) = {}
  BY DEF SweepInv, NotYetSent
<1>5. ASSUME NEW e \in Events
      PROVE  /\ e \in ToSet(recently') => handled'[e] > 0
             /\ handled'[e] <= excuse'[e] + IF e \in ToSet(recently') THEN 1 ELSE 0
  <2>1. /\ handled[e] \in Nat /\ excuse[e] \in Nat
        /\ handled'[e] = handled[e] + IF e \in told THEN 1 ELSE 0
        /\ excuse'[e] = excuse[e] + IF e \in forgotten THEN 1 ELSE 0
    BY <1>1
  <2>2. CASE e \in told
    BY <2>1, <2>2, <1>3, <1>4
  <2>3. CASE e \notin told
    BY <2>1, <2>3, <1>3
  <2>4. QED BY <2>2, <2>3
<1>6. QED BY <1>2, <1>5 DEF HandledOnce

(* The event that was being sent is over.                                    *)
LEMMA EndedKeeps ==
  ASSUME SweepInv, NEW told \in SUBSET now, NEW ids \in Seq(Events),
         ToSet(ids) \subseteq ToSet(recently) \cup told,
         ToSet(recently) \subseteq ToSet(ids),
         Ended(ids, told)
  PROVE  SweepInv'
<1>1. recently' \in Seq(Events) /\ ToSet(recently') \subseteq ToSet(ids)
  BY TrimForgets DEF Ended
<1>2. HandledOnce' /\ handled' \in [Events -> Nat] /\ excuse' \in [Events -> Nat]
  BY <1>1, CountedOnce DEF Ended
<1>3. now' = {} /\ todo' = todo /\ active' = active
  BY DEF Ended
<1>4. SweepTypeOK' BY <1>1, <1>2, <1>3 DEF SweepInv, SweepTypeOK
<1>5. NotYetSent' BY <1>1, <1>3 DEF SweepInv, NotYetSent
<1>6. QED BY <1>2, <1>4, <1>5 DEF SweepInv

(* A step that leaves the sweep and its memory alone.                        *)
LEMMA QuietSweep ==
  ASSUME SweepInv, active' \subseteq Events,
         UNCHANGED <<recently, todo, now, handled, excuse>>
  PROVE  SweepInv'
  BY DEF SweepInv, SweepTypeOK, NotYetSent, HandledOnce

LEMMA SweepStepKeeps ==
  ASSUME SweepInv, SweepStep \/ SignalFails PROVE SweepInv'
<1> USE DEF SweepInv
<1>1. CASE BeginSweep
  <2>1. todo' \subseteq Events /\ todo' \cap ToSet(recently) = {}
    BY <1>1 DEF BeginSweep, Chosen, Fresh, Top, SweepTypeOK
  <2>2. now = {} /\ UNCHANGED <<active, recently, now, handled, excuse>>
    BY <1>1 DEF BeginSweep, Sweeping
  <2>3. QED BY <2>1, <2>2 DEF SweepTypeOK, NotYetSent, HandledOnce
<1>2. CASE NextEvent
  <2>1. PICK e \in todo : now' = {e} /\ todo' = todo \ {e}
    BY <1>2 DEF NextEvent
  <2>2. UNCHANGED <<active, recently, handled, excuse>>
    BY <1>2 DEF NextEvent
  <2>3. QED BY <2>1, <2>2 DEF SweepTypeOK, NotYetSent, HandledOnce
<1>3. CASE Inject
  <2>1. PICK e \in now : Ended(Append(recently, e), now)
    BY <1>3 DEF Inject
  <2>2. now = {e} /\ e \in Events /\ recently \in Seq(Events)
    BY <2>1 DEF NotYetSent, SweepTypeOK
  <2>3. QED BY <2>1, <2>2, EndedKeeps, ToSetAppend
<1>4. CASE Skip
  <2>1. Ended(recently, {}) /\ recently \in Seq(Events)
    BY <1>4 DEF Skip, SweepTypeOK
  <2>2. QED BY <2>1, EndedKeeps
<1>5. CASE SignalFails
  <2>1. PICK told \in {{}, now} : Ended(recently, told)
    BY <1>5 DEF SignalFails, SignalFailed
  <2>2. recently \in Seq(Events) BY DEF SweepTypeOK
  <2>3. QED BY <2>1, <2>2, EndedKeeps
<1>6. ASSUME NEW p \in Nodes, Look(p) PROVE SweepInv'
  BY <1>6, QuietSweep DEF Look, Looked, SweepTypeOK
<1>7. QED BY <1>1, <1>2, <1>3, <1>4, <1>5, <1>6 DEF SweepStep

(* The sweeper goes down and forgets all that it sent.                       *)
LEMMA DownKeeps == ASSUME SweepInv, NEW n \in Nodes, Down(n) PROVE SweepInv'
<1>1. CASE n # FED
  BY <1>1, QuietSweep DEF Down, sweepVars, SweepInv, SweepTypeOK
<1>2. CASE n = FED
  <2>1. PICK told \in {{}, IF Found THEN now ELSE {}} :
          /\ recently' = <<>>
          /\ todo' = {} /\ now' = {}
          /\ Counted(told, ToSet(recently) \cup told)
          /\ UNCHANGED active
    BY <1>2 DEF Down
  <2>2. ToSet(<<>>) = {} /\ <<>> \in Seq(Events)
    BY DEF ToSet
  <2>3. recently \in Seq(Events) /\ told \in SUBSET now
    BY DEF SweepInv, SweepTypeOK
  <2>4. (told \cup ToSet(recently)) \ ToSet(recently')
          = ToSet(recently) \cup told
    BY <2>1, <2>2
  <2>5. HandledOnce' /\ handled' \in [Events -> Nat] /\ excuse' \in [Events -> Nat]
    BY <2>1, <2>2, <2>3, <2>4, CountedOnce
  <2>6. QED
    BY <2>1, <2>2, <2>5 DEF SweepInv, SweepTypeOK, NotYetSent
<1>3. QED BY <1>1, <1>2

LEMMA SweepNextKeeps == SweepInv /\ [SweepNext]_fanOutVars => SweepInv'
<1> SUFFICES ASSUME SweepInv, [SweepNext]_fanOutVars PROVE SweepInv'
  OBVIOUS
<1>1. active \subseteq Events BY DEF SweepInv, SweepTypeOK
<1>2. ASSUME UNCHANGED sweepVars PROVE SweepInv'
  BY <1>1, <1>2, QuietSweep DEF sweepVars
<1>3. ASSUME NEW e \in Events, Appear(e) \/ Expire(e) PROVE SweepInv'
  BY <1>1, <1>3, QuietSweep DEF Appear, Expire
<1>4. ASSUME NEW p \in Nodes, LookFails(p) \/ CardExpires(p) PROVE SweepInv'
  BY <1>1, <1>4, QuietSweep DEF LookFails, Looked, CardExpires
<1>5. QED
  BY <1>2, <1>3, <1>4, SweepStepKeeps, DownKeeps DEF SweepNext, fanOutVars

(* A shock is sent again only when an answer was lost, its id was trimmed or *)
(* the sweeper restarted, and none is remembered that no agent handled       *)
(* (tick.ts, sweepNoaaShocksAndFanOut): for any mesh, shocks and caps.       *)
THEOREM ShocksHandledOnce == SweepSpec => []HandledOnce
<1>1. SweepInv => HandledOnce BY DEF SweepInv
<1>2. QED BY <1>1, SweepInitKeeps, SweepNextKeeps, PTL DEF SweepSpec

=============================================================================

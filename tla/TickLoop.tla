------------------------------ MODULE TickLoop ------------------------------
(***************************************************************************)
(* The tick loops of a federation of agents that talk to each other: a     *)
(* tick announces an indicator (the FED: a rate) to every peer and waits   *)
(* for all of the calls, starts the negotiations that are due and waits    *)
(* for their handlers in the peers, and reflects on what its log says. The *)
(* handlers run beside the ticks of their own agent.                       *)
(*                                                                         *)
(* What an agent announces is named by its version. A tick's number is     *)
(* kept modulo Cycle, above 1. A swap that goes on after its first round,  *)
(* the auction of a bond, what the observer is told, discovery, the        *)
(* rebalance and the FED's sweep of shocks have modules of their own.      *)
(***************************************************************************)
EXTENDS Naturals, FiniteSets, Sequences, Functions

CONSTANTS
  Agents,
  Leaves,        \* those that negotiate: not the FED, not the Treasury
  Reasons,       \* those with a reasoner
  Every,         \* each agent's cadences, in ticks; 0 is never
  Offset,        \* initiateOffset
  Cycle,         \* a multiple of the cadences
  Window,        \* log entries that a reflection reads
  MaxNews,       \* bound on new versions, of each agent
  MaxFaults      \* bound on calls and writes that fail

(* What a tick does, in order.                                               *)
Order == <<"announce", "swap", "coalition", "bond", "reflect">>
Initiations == {"swap", "coalition", "bond"}

ASSUME TickAssumption ==
  /\ Leaves \subseteq Agents /\ Reasons \subseteq Agents
  /\ Every \in [Agents -> [Range(Order) -> Nat]]
  /\ Offset \in [Agents -> Nat]
  /\ Cycle \in Nat \ {0}
  /\ \A a \in Agents, k \in Range(Order) : Every[a][k] > 0 => Cycle % Every[a][k] = 0
  /\ {Window, MaxFaults} \subseteq Nat /\ MaxNews \in [Agents -> Nat]

VARIABLES
  tick, phase,   \* of each agent: state.tickCount, and what its tick does
  news,          \* what the data plane (the FED: its reasoner) has for it
  own,           \* what it announced last
  calls,         \* announcements on their way
  missed,        \* those of its announcements that failed
  heard,         \* what each agent last heard of each
  log,           \* the last Window entries
  lastHash,      \* state.lastReflectionHash
  task,          \* the last negotiation it began
  waits,         \* its tick waits for the answer
  faults

tickVars == <<tick, phase, own, missed>>
mindVars == <<log, lastHash>>
taskVars == <<task, waits>>
vars == <<tickVars, news, calls, heard, mindVars, taskVars, faults>>

Fault == faults < MaxFaults /\ faults' = faults + 1

NoTask == [kind |-> "none", stage |-> "none"]

Init ==
  /\ tick = [a \in Agents |-> 0]
  /\ phase = [a \in Agents |-> "idle"]
  /\ news = [a \in Agents |-> 0] /\ own = news
  /\ calls = {} /\ missed = [a \in Agents |-> {}]
  /\ heard = [a \in Agents |-> [b \in Agents |-> 0]]
  /\ log = [a \in Agents |-> <<>>]
  /\ lastHash = [a \in Agents |-> <<>>]
  /\ task = [a \in Agents |-> NoTask] /\ waits = {}
  /\ faults = 0

-----------------------------------------------------------------------------
(* The tick.                                                                 *)

(* The number of the next tick; from Cycle + 1 on, the numbers repeat.       *)
After(n) == IF n = Cycle + 1 THEN 2 ELSE n + 1

IsDue(n, every) == every > 0 /\ n % every = 0

Due(a, k, n) ==
  IF k \in Initiations
  THEN a \in Leaves /\ n > 1 /\ IsDue(n + Offset[a], Every[a][k])
  ELSE IsDue(n, Every[a][k])

(* What tick n of a does next, after the i-th step of the order.             *)
NextStep(a, n, i) ==
  LET later == {j \in (i + 1)..Len(Order) : Due(a, Order[j], n)}
  IN IF later = {} THEN "idle" ELSE Order[CHOOSE j \in later : \A l \in later : j <= l]

Place(k) == CHOOSE i \in DOMAIN Order : Order[i] = k

Proceed(a) == phase' = [phase EXCEPT ![a] = NextStep(a, tick[a], Place(phase[a]))]

(* A new snapshot in the data plane, or a rate that the FED would now set.   *)
News(a) ==
  /\ news[a] < MaxNews[a]
  /\ news' = [news EXCEPT ![a] = @ + 1]
  /\ UNCHANGED <<tickVars, calls, heard, mindVars, taskVars, faults>>

Announcements(a) == {[from |-> a, to |-> b, value |-> news[a]] : b \in Agents \ {a}}

(* A tick begins. With something to announce, it calls all the peers.        *)
Begin(a) ==
  LET n == After(tick[a])
  IN /\ phase[a] = "idle"
     /\ tick' = [tick EXCEPT ![a] = n]
     /\ IF Due(a, "announce", n) /\ news[a] > 0
        THEN /\ phase' = [phase EXCEPT ![a] = "announce"]
             /\ own' = [own EXCEPT ![a] = news[a]]
             /\ calls' = calls \cup Announcements(a)
        ELSE /\ phase' = [phase EXCEPT ![a] = NextStep(a, n, 1)]
             /\ UNCHANGED <<own, calls>>
     /\ missed' = [missed EXCEPT ![a] = {}]
     /\ UNCHANGED <<news, heard, mindVars, taskVars, faults>>

(* The data plane does not answer, or answers what cannot be read: nothing   *)
(* is announced, or nothing more is done.                                    *)
NoSnapshot(a) ==
  LET n == After(tick[a])
  IN /\ a \in Leaves /\ phase[a] = "idle" /\ Due(a, "announce", n) /\ Fault
     /\ tick' = [tick EXCEPT ![a] = n]
     /\ phase' \in {phase, [phase EXCEPT ![a] = NextStep(a, n, 1)]}
     /\ UNCHANGED <<own, missed, news, calls, heard, mindVars, taskVars>>

(* The peer takes the announcement and the call returns. A call that failed  *)
(* is not taken later.                                                       *)
Heard(c) ==
  /\ c \in calls
  /\ calls' = calls \ {c}
  /\ heard' = [heard EXCEPT ![c.to][c.from] = c.value]
  /\ UNCHANGED <<tickVars, news, mindVars, taskVars, faults>>

(* A call fails, before the peer took it or on the way back.                 *)
CallFails(c) ==
  /\ c \in calls /\ Fault
  /\ calls' = calls \ {c}
  /\ heard' \in {heard, [heard EXCEPT ![c.to][c.from] = c.value]}
  /\ missed' = [missed EXCEPT ![c.from] = @ \cup {c.to}]
  /\ UNCHANGED <<tick, phase, own, news, mindVars, taskVars>>

Newest(s) == SubSeq(s, IF Len(s) > Window THEN Len(s) - Window + 1 ELSE 1, Len(s))

Logs(a, entry) == log' = [log EXCEPT ![a] = Newest(Append(@, entry))]

(* Faulty variant: the tick does not wait for its calls.                     *)
Announcing(a) == phase[a] = "announce"

CallsOver(a) == phase[a] = "announce" /\ \A c \in calls : c.from # a

(* Once every call returned or failed, how many did goes to the log.         *)
Announced(a) ==
  /\ CallsOver(a)
  /\ Logs(a, [kind |-> "sent", value |-> own[a], missed |-> Cardinality(missed[a])])
  /\ Proceed(a)
  /\ missed' = [missed EXCEPT ![a] = {}]
  /\ UNCHANGED <<tick, own, news, calls, heard, lastHash, taskVars, faults>>

(* The log cannot be written: the rest of the tick is not done.              *)
TickFails(a) ==
  /\ CallsOver(a) /\ Fault
  /\ phase' = [phase EXCEPT ![a] = "idle"]
  /\ UNCHANGED <<tick, own, missed, news, calls, heard, mindVars, taskVars>>

-----------------------------------------------------------------------------
(* A negotiation: the tick sends it and waits for the handler's answer. A    *)
(* handler whose answer nobody waits for any more is left aside when its     *)
(* agent's peer asks again.                                                  *)

Initiating(a) == phase[a] \in Initiations /\ a \notin waits

Sends(a, kind, b) ==
  /\ Initiating(a) /\ phase[a] = kind
  /\ task' = [task EXCEPT ![a] = [kind |-> kind, at |-> b, stage |-> "deciding"]]
  /\ waits' = waits \cup {a}
  /\ UNCHANGED <<tickVars, news, calls, heard, mindVars, faults>>

ProposeSwap(a, b) == Sends(a, "swap", b)
InviteToCoalition(a, b) == Sends(a, "coalition", b)

(* Any other leaf may have issued a bond.                                    *)
BidForBond(a, b) == Sends(a, "bond", b)

Candidates(a) == Leaves \ {a}

Ask(a) ==
  \E b \in Candidates(a) : ProposeSwap(a, b) \/ InviteToCoalition(a, b) \/ BidForBond(a, b)

(* No peer's card tells who it is, or the message does not arrive.           *)
NoPeer(a) ==
  /\ Initiating(a) /\ Fault
  /\ Proceed(a)
  /\ UNCHANGED <<tick, own, missed, news, calls, heard, mindVars, taskVars>>

Goes(a) ==
  /\ waits' = waits \ {a}
  /\ Proceed(a)
  /\ UNCHANGED <<tick, own, missed, news, calls, heard, mindVars>>

AnswerArrives(a) ==
  /\ a \in waits /\ task[a].stage \in {"ended", "countered"}
  /\ task' = [task EXCEPT ![a] = IF task[a].kind = "coalition" /\ task[a].stage = "countered"
                                 THEN @ ELSE NoTask]
  /\ Goes(a) /\ UNCHANGED faults

(* The call fails while its handler goes on, or the answer is lost.          *)
AnswerLost(a) == a \in waits /\ Fault /\ Goes(a) /\ UNCHANGED task

-----------------------------------------------------------------------------
(* The handler of a's negotiation, in the peer.                              *)

(* Faulty variant: a handler runs only between the ticks of its agent.       *)
RunsBetweenTicks(a) == task[a].kind # "none" /\ phase[task[a].at] = "idle"

(* A handler runs whatever its agent's tick is waiting for.                  *)
Runs(a) == task[a].kind # "none"

Becomes(a, new) ==
  /\ Runs(a)
  /\ task' = [task EXCEPT ![a] = new]
  /\ UNCHANGED <<tickVars, news, calls, heard, mindVars, waits, faults>>

Stage(a, stage) == Becomes(a, [task[a] EXCEPT !.stage = stage])

Ends(a) == IF a \in waits THEN Stage(a, "ended") ELSE Becomes(a, NoTask)

(* With a reasoner, any answer to a swap; without one, the haircut counter.  *)
AnswerSwap(a) ==
  /\ task[a].kind = "swap" /\ task[a].stage = "deciding"
  /\ \/ Stage(a, "countered")
     \/ task[a].at \in Reasons /\ (Stage(a, "settling") \/ Ends(a))

(* The settlement is over, with its leg on the chain or without.             *)
Settle(a) == task[a].stage = "settling" /\ Ends(a)

(* Only a reasoner counters: no tick asks for more than what the fallback    *)
(* joins for.                                                                *)
MayCounter(a) == task[a].at \in Reasons

(* Joined, declined, or countered.                                           *)
AnswerInvite(a) ==
  /\ task[a].kind = "coalition" /\ task[a].stage = "deciding"
  /\ Ends(a) \/ (MayCounter(a) /\ Stage(a, "countered"))

(* A client of the inviter revises an invite that was countered; no tick     *)
(* does. The answer to that is the last.                                     *)
Revise(a) ==
  /\ task[a].kind = "coalition" /\ task[a].stage = "countered" /\ a \notin waits
  /\ Stage(a, "deciding again")

AnswerRevised(a) == task[a].stage = "deciding again" /\ Ends(a)

(* The auction that the bid was parked in is over.                           *)
AnswerBid(a) == task[a].kind = "bond" /\ task[a].stage = "deciding" /\ Ends(a)

-----------------------------------------------------------------------------
(* Reflection.                                                               *)

(* Faulty variant: a reflection is among what the next one is hashed from.   *)
FingerprintOfAll(a) == <<own[a], log[a]>>

Fingerprint(a) == <<own[a], SelectSeq(log[a], LAMBDA e : e.kind = "sent")>>

Reflects(a, text, hash) ==
  /\ phase[a] = "reflect"
  /\ Logs(a, [kind |-> text])
  /\ lastHash' = [lastHash EXCEPT ![a] = hash]
  /\ Proceed(a)
  /\ UNCHANGED <<tick, own, missed, news, calls, heard, taskVars, faults>>

ReflectUnchanged(a) ==
  lastHash[a] = Fingerprint(a) /\ Reflects(a, "unchanged", lastHash[a])

(* The reasoner is called, and paid; without one, the text is a stub.        *)
ReflectAnew(a) ==
  /\ lastHash[a] # Fingerprint(a)
  /\ Reflects(a, IF a \in Reasons THEN "reasoned" ELSE "stub", Fingerprint(a))

(* The reasoner fails: no reflection, and the hash stays.                    *)
ReflectionFails(a) ==
  /\ phase[a] = "reflect" /\ a \in Reasons /\ lastHash[a] # Fingerprint(a) /\ Fault
  /\ Proceed(a)
  /\ UNCHANGED <<tick, own, missed, news, calls, heard, mindVars, taskVars>>

-----------------------------------------------------------------------------
TickStep(a) ==
  \/ Begin(a) \/ Announced(a)
  \/ Ask(a) \/ AnswerArrives(a)
  \/ ReflectUnchanged(a) \/ ReflectAnew(a)

Handler(a) ==
  AnswerSwap(a) \/ Settle(a) \/ AnswerInvite(a) \/ AnswerRevised(a) \/ AnswerBid(a)

Fails(a) == NoSnapshot(a) \/ TickFails(a) \/ NoPeer(a) \/ AnswerLost(a) \/ ReflectionFails(a)

Next ==
  \/ \E a \in Agents : TickStep(a) \/ News(a) \/ Handler(a) \/ Revise(a) \/ Fails(a)
  \/ \E c \in calls : Heard(c) \/ CallFails(c)

Spec == Init /\ [][Next]_vars

(* Timers fire, and every call returns or fails: the code sets no timeout on *)
(* it, so it is the peer that has to answer.                                 *)
FairSpec ==
  /\ Spec
  /\ \A a \in Agents :
       /\ WF_vars(TickStep(a)) /\ WF_vars(Handler(a))
       /\ WF_vars(\E c \in calls : c.from = a /\ Heard(c))

-----------------------------------------------------------------------------
(* Two agents that wait for each other's handlers do not wait for ever:      *)
(* every tick comes to its end, where the next one's timer is set.           *)
TicksGoOn == \A a \in Agents : []<>(phase[a] = "idle")

(* No agent goes back to an announcement older than one it heard.            *)
HeardInOrder ==
  [][\A a, b \in Agents : heard'[a][b] >= heard[a][b]]_vars

(* An agent with nothing new stops calling its reasoner to reflect, although *)
(* each reflection is one more entry of the log it reflects on.              *)
IdleStopsPaying ==
  \A a \in Reasons : <>[][~ ReflectAnew(a)]_vars

=============================================================================

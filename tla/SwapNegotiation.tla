---------------------------- MODULE SwapNegotiation ----------------------------
(***************************************************************************)
(* The skill negotiate-bilateral-swap: the responder's handler, at one     *)
(* action per stretch of code between two awaits, the task store it        *)
(* answers from, and the on-chain leg of a settlement.                     *)
(*                                                                         *)
(* A call is one message/send request of an initiator and the handler it   *)
(* starts.  A call that names no task starts the task of its own name.     *)
(***************************************************************************)
EXTENDS Naturals, FiniteSets

CONSTANTS
  Calls,            \* message/send requests
  Replies,          \* how many replies the store may add to a history
  MaxRestarts       \* bound on restarts of the responder

ASSUME SwapAssumption ==
  Replies \subseteq Nat /\ MaxRestarts \in Nat

MAX_NEGOTIATION_ROUNDS == 3

Kinds == {"proposal", "counter", "accept", "reject"}

Message == [kind : Kinds \cup {"none"}, task : Calls]

VARIABLES
  msg,        \* the message of each call
  pc,         \* where its handler stands
  rounds,     \* ctx.task.history.length, as the handler read it
  verdict,    \* what the responder's reasoner said of it, or the round cap
  answer,     \* the state of the task in the answer to the call
  state,      \* of each task, in the task store
  history,    \* how many messages the store holds of it
  leg,        \* the call's swap on the chain
  told,       \* legs.responder of the settlement its handler made
  restarts,
  crowded     \* history: the tasks written to while a call on them waited

vars == <<msg, pc, rounds, verdict, answer, state, history, leg, told, restarts, crowded>>

Ended == {"completed", "failed", "canceled"}
States == {"none", "working", "input-required", "lost"} \cup Ended

Init ==
  /\ msg = [c \in Calls |-> [kind |-> "none", task |-> c]]
  /\ pc = [c \in Calls |-> "unsent"]
  /\ rounds = [c \in Calls |-> 0]
  /\ verdict = [c \in Calls |-> "none"]
  /\ answer = [c \in Calls |-> "none"]
  /\ state = [t \in Calls |-> "none"]
  /\ history = [t \in Calls |-> 0]
  /\ leg = [c \in Calls |-> "none"]
  /\ told = [c \in Calls |-> "none"]
  /\ restarts = 0
  /\ crowded = {}

-----------------------------------------------------------------------------
(* Tasks and answers.                                                        *)

(* A call on the task of its own name has started it.                        *)
Begun(t) == pc[t] # "unsent" /\ msg[t].task = t

CallsOn(t) == {c \in Calls : pc[c] # "unsent" /\ msg[c].task = t}

(* The calls on a task whose initiator still waits.                          *)
Waiting(t) == {c \in CallsOn(t) : answer[c] = "none"}

(* The first final status of a task answers every call that waits on it and  *)
(* closes the task's event bus; what is published there later is not heard.  *)
Closed(t) == state[t] \in Ended \cup {"lost"}

Publish(t, final) ==
  IF Closed(t)
  THEN UNCHANGED <<state, answer>>
  ELSE /\ state' = [state EXCEPT ![t] = final]
       /\ answer' = [c \in Calls |-> IF c \in Waiting(t) THEN final ELSE answer[c]]

(* As Fail, but the handler returns without a status.                        *)
FailSilently(c) ==
  /\ pc' = [pc EXCEPT ![c] = "ended"]
  /\ UNCHANGED <<msg, rounds, answer, state, history, leg, told, restarts, crowded>>

(* failTask: the call is over, its task has failed.                          *)
Fail(c) ==
  /\ Publish(msg[c].task, "failed")
  /\ pc' = [pc EXCEPT ![c] = "ended"]
  /\ UNCHANGED <<msg, rounds, history, leg, told, restarts, crowded>>

-----------------------------------------------------------------------------
(* The first message of a task.                                              *)

Propose(c) ==
  /\ pc[c] = "unsent"
  /\ msg' = [msg EXCEPT ![c] = [kind |-> "proposal", task |-> c]]
  /\ pc' = [pc EXCEPT ![c] = "deciding"]
  /\ UNCHANGED <<rounds, verdict, answer, state, history, leg, told, restarts, crowded>>

(* Anything but a proposal fails the task it starts.                         *)
StartWithoutProposal(c, kind) ==
  /\ pc[c] = "unsent" /\ kind # "proposal"
  /\ msg' = [msg EXCEPT ![c] = [kind |-> kind, task |-> c]]
  /\ pc' = [pc EXCEPT ![c] = "ended"]
  /\ state' = [state EXCEPT ![c] = "failed"]
  /\ history' = [history EXCEPT ![c] = 1]
  /\ answer' = [answer EXCEPT ![c] = "failed"]
  /\ UNCHANGED <<rounds, verdict, leg, told, restarts, crowded>>

Deciding(c, kind) == pc[c] = "deciding" /\ msg[c].kind = kind

Decides(c, action) == verdict' = [verdict EXCEPT ![c] = action]

RejectProposal(c) ==
  /\ Deciding(c, "proposal")
  /\ Decides(c, "reject")
  /\ state' = [state EXCEPT ![c] = "failed"]
  /\ history' = [history EXCEPT ![c] = 1]
  /\ answer' = [answer EXCEPT ![c] = "failed"]
  /\ pc' = [pc EXCEPT ![c] = "ended"]
  /\ UNCHANGED <<msg, rounds, leg, told, restarts, crowded>>

(* As AcceptProposal, but the initiator is answered before the settlement.   *)
AcceptProposalEarly(c) ==
  /\ Deciding(c, "proposal")
  /\ Decides(c, "accept")
  /\ state' = [state EXCEPT ![c] = "input-required"]
  /\ history' = [history EXCEPT ![c] = 1]
  /\ answer' = [answer EXCEPT ![c] = "input-required"]
  /\ pc' = [pc EXCEPT ![c] = "settling"]
  /\ UNCHANGED <<msg, rounds, leg, told, restarts, crowded>>

(* The task is published before the settlement is awaited.                   *)
AcceptProposal(c) ==
  /\ Deciding(c, "proposal")
  /\ Decides(c, "accept")
  /\ state' = [state EXCEPT ![c] = "working"]
  /\ history' = [history EXCEPT ![c] = 1]
  /\ pc' = [pc EXCEPT ![c] = "settling"]
  /\ UNCHANGED <<msg, rounds, answer, leg, told, restarts, crowded>>

(* The reasoner's counter, or the deterministic one when it has none.        *)
CounterProposal(c) ==
  /\ Deciding(c, "proposal")
  /\ Decides(c, "counter")
  /\ state' = [state EXCEPT ![c] = "input-required"]
  /\ \E n \in Replies : history' = [history EXCEPT ![c] = 1 + n]
  /\ answer' = [answer EXCEPT ![c] = "input-required"]
  /\ pc' = [pc EXCEPT ![c] = "ended"]
  /\ UNCHANGED <<msg, rounds, leg, told, restarts, crowded>>

-----------------------------------------------------------------------------
(* A later message of a task.                                                *)

(* An initiator learns the task's id from the answer to its proposal.  It    *)
(* may write again while the handler of its last message still runs.         *)
MayWrite(t) == Begun(t) /\ answer[t] \notin {"none", "refused", "lost"}

Write(t) == crowded' = IF Waiting(t) = {} THEN crowded ELSE crowded \cup {t}

Sent(c, t, kind) ==
  /\ pc[c] = "unsent" /\ MayWrite(t)
  /\ msg' = [msg EXCEPT ![c] = [kind |-> kind, task |-> t]]

(* The store refuses a message to a task that ended or that it lost.         *)
SendToClosed(c, t, kind) ==
  /\ Sent(c, t, kind) /\ Closed(t)
  /\ pc' = [pc EXCEPT ![c] = "ended"]
  /\ answer' = [answer EXCEPT ![c] = "refused"]
  /\ UNCHANGED <<rounds, verdict, state, history, leg, told, restarts, crowded>>

(* The message joins the task's history before the handler reads its length. *)
Delivered(c, t) ==
  /\ ~ Closed(t) /\ Write(t)
  /\ history' = [history EXCEPT ![t] = @ + 1]
  /\ rounds' = [rounds EXCEPT ![c] = history'[t]]

(* A reject, or a second proposal, fails the task.                           *)
SendReject(c, t, kind) ==
  /\ kind \in {"reject", "proposal"}
  /\ Sent(c, t, kind) /\ Delivered(c, t)
  /\ state' = [state EXCEPT ![t] = "failed"]
  /\ answer' = [d \in Calls |-> IF d \in Waiting(t) \cup {c} THEN "failed" ELSE answer[d]]
  /\ pc' = [pc EXCEPT ![c] = "ended"]
  /\ UNCHANGED <<verdict, leg, told, restarts>>

(* The terms an accept names are settled as they come.                       *)
SendAccept(c, t) ==
  /\ Sent(c, t, "accept") /\ Delivered(c, t)
  /\ pc' = [pc EXCEPT ![c] = "settling"]
  /\ UNCHANGED <<verdict, answer, state, leg, told, restarts>>

(* At the round cap a counter is accepted without asking.                    *)
SendCounter(c, t) ==
  /\ Sent(c, t, "counter") /\ Delivered(c, t)
  /\ IF rounds'[c] >= MAX_NEGOTIATION_ROUNDS
     THEN Decides(c, "cap") /\ pc' = [pc EXCEPT ![c] = "settling"]
     ELSE UNCHANGED verdict /\ pc' = [pc EXCEPT ![c] = "deciding"]
  /\ UNCHANGED <<state, answer, leg, told, restarts>>

RejectCounter(c) ==
  /\ Deciding(c, "counter")
  /\ Decides(c, "reject")
  /\ Fail(c)

(* Whatever the reasoner says short of reject settles the counter.           *)
SettleCounter(c, action) ==
  /\ action \in {"accept", "counter"}
  /\ Deciding(c, "counter")
  /\ Decides(c, action)
  /\ pc' = [pc EXCEPT ![c] = "settling"]
  /\ UNCHANGED <<msg, rounds, answer, state, history, leg, told, restarts, crowded>>

-----------------------------------------------------------------------------
(* Settlement: the responder's leg, then the completed task.                 *)

SendSwap(c) ==
  /\ pc[c] = "settling" /\ leg[c] = "none"
  /\ leg' = [leg EXCEPT ![c] = "sent"]
  /\ UNCHANGED <<msg, pc, rounds, verdict, answer, state, history, told, restarts, crowded>>

(* A swap is mined while its receipt is awaited, or later, or never.         *)
MineSwap(c, status) ==
  /\ leg[c] = "sent"
  /\ leg' = [leg EXCEPT ![c] = status]
  /\ UNCHANGED <<msg, pc, rounds, verdict, answer, state, history, told, restarts, crowded>>

Settle(c, responder) ==
  /\ pc[c] = "settling"
  /\ Publish(msg[c].task, "completed")
  /\ told' = [told EXCEPT ![c] = responder]
  /\ pc' = [pc EXCEPT ![c] = "ended"]
  /\ UNCHANGED <<msg, rounds, verdict, history, leg, restarts, crowded>>

(* The leg's receipt came, whatever its status.                              *)
SettleWithLeg(c) == leg[c] \in {"success", "reverted"} /\ Settle(c, leg[c])

(* The leg was skipped, could not be quoted, or its receipt did not come:    *)
(* the task completes without it.                                            *)
SettleWithoutLeg(c) == Settle(c, "null")

-----------------------------------------------------------------------------
(* tasks/cancel, and a new process of the responder.                         *)

Cancel(t) ==
  /\ MayWrite(t) /\ ~ Closed(t) /\ Write(t)
  /\ Publish(t, "canceled")
  /\ UNCHANGED <<msg, pc, rounds, verdict, history, leg, told, restarts>>

Restart ==
  /\ restarts < MaxRestarts
  /\ restarts' = restarts + 1
  /\ pc' = [c \in Calls |-> IF pc[c] = "unsent" THEN "unsent" ELSE "ended"]
  /\ answer' = [c \in Calls |->
       IF pc[c] # "unsent" /\ answer[c] = "none" THEN "lost" ELSE answer[c]]
  /\ state' = [t \in Calls |-> IF Begun(t) THEN "lost" ELSE state[t]]
  /\ UNCHANGED <<msg, rounds, verdict, history, leg, told, crowded>>

Decision(c) ==
  \/ RejectProposal(c)
  \/ AcceptProposal(c)
  \/ CounterProposal(c)
  \/ RejectCounter(c)
  \/ \E action \in {"accept", "counter"} : SettleCounter(c, action)

Settlement(c) == SettleWithLeg(c) \/ SettleWithoutLeg(c)

Send(c) ==
  \/ Propose(c)
  \/ \E kind \in Kinds : StartWithoutProposal(c, kind)
  \/ \E t \in Calls :
       \/ \E kind \in Kinds : SendToClosed(c, t, kind) \/ SendReject(c, t, kind)
       \/ SendAccept(c, t)
       \/ SendCounter(c, t)

Next ==
  \/ \E c \in Calls :
       \/ Send(c)
       \/ Decision(c)
       \/ SendSwap(c)
       \/ \E status \in {"success", "reverted"} : MineSwap(c, status)
       \/ Settlement(c)
       \/ Cancel(c)
  \/ Restart

Spec == Init /\ [][Next]_vars

Fairness == \A c \in Calls : WF_vars(Decision(c)) /\ WF_vars(Settlement(c))

LiveSpec == Spec /\ Fairness

-----------------------------------------------------------------------------
(* Every variable keeps its type; a task's history grows by its calls and    *)
(* their answers only.                                                       *)
TypeOK ==
  /\ msg \in [Calls -> Message]
  /\ pc \in [Calls -> {"unsent", "deciding", "settling", "ended"}]
  /\ rounds \in [Calls -> Nat]
  /\ verdict \in [Calls -> {"none", "accept", "counter", "reject", "cap"}]
  /\ answer \in [Calls -> {"none", "input-required", "refused", "lost"} \cup Ended]
  /\ state \in [Calls -> States]
  /\ history \in [Calls -> Nat]
  /\ leg \in [Calls -> {"none", "sent", "success", "reverted"}]
  /\ told \in [Calls -> {"none", "null", "success", "reverted"}]
  /\ restarts \in 0..MaxRestarts
  /\ crowded \subseteq Calls

(* The responder spends its dollars at most once for a task, however messages, *)
(* settlements, cancellations and restarts interleave, unless somebody wrote *)
(* while a call on the task waited.  Then it may swap once for each call: an *)
(* accept that is repeated while the first is settled settles as well        *)
(* (makeSettlement is reached from three branches of handleNegotiateSwap).   *)
OneSwapPerTask ==
  \A c, d \in Calls :
    /\ leg[c] # "none" /\ leg[d] # "none"
    /\ msg[c].task = msg[d].task /\ msg[c].task \notin crowded
    => c = d

(* Of such a task an initiator that is told it failed or was canceled can    *)
(* rely on the responder not having swapped for it (failTask, cancelTask).   *)
RefusedIsUnswapped ==
  \A t \in Calls \ crowded :
    state[t] \in {"failed", "canceled"} =>
      \A c \in CallsOn(t) : leg[c] = "none" /\ pc[c] = "ended"

(* Every message is answered, by its handler, by the end of its task, or by  *)
(* the death of the process.                                                 *)
EveryCallAnswered ==
  \A c \in Calls : pc[c] # "unsent" ~> answer[c] # "none"

Outcome(t) ==
  IF ~ Begun(t) THEN "idle"
  ELSE CASE state[t] \in {"none", "working", "input-required"} -> "open"
         [] state[t] = "completed" -> "settled"
         [] state[t] = "lost" -> "lost"
         [] OTHER -> "refused"

Busy(c) == pc[c] \in {"deciding", "settling"}

Handled(t) == {c \in CallsOn(t) : Busy(c)}

Swapped(t) == {c \in CallsOn(t) : leg[c] # "none"}

Agreement == INSTANCE SwapAgreement WITH
  Tasks <- Calls, Callers <- Calls,
  outcome <- [t \in Calls |-> Outcome(t)],
  handled <- [t \in Calls |-> Handled(t)],
  swappers <- [t \in Calls |-> Swapped(t)],
  crowded <- crowded

(* The handlers implement what the two states may rely on, whether or not    *)
(* the initiator waits for its answers (handleNegotiateSwap, cancelTask).    *)
ImplementsAgreement == Agreement!Spec

=============================================================================

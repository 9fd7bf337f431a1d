----------------------------- MODULE SwapAgreement -----------------------------
(***************************************************************************)
(* What two states may rely on when they negotiate a swap as one task of   *)
(* the responder.                                                          *)
(*                                                                         *)
(* A task is settled or refused once and for ever.  The responder swaps on *)
(* the chain for a call that it took while the task was open, once for the *)
(* call.  As long as nobody writes while a call on the task is being       *)
(* handled, that is once for the task, before the settlement is told, and  *)
(* never for a task that it refuses.  A task that is refused although a    *)
(* call swapped for it is refused before that call is answered.  A restart *)
(* of the responder forgets its tasks.                                     *)
(***************************************************************************)
CONSTANTS Tasks, Callers

VARIABLES
  outcome,      \* what became of each task
  handled,      \* the calls on it that the responder is handling
  swappers,     \* the calls that sent a swap for it
  crowded       \* the tasks on which somebody wrote while a call was handled

vars == <<outcome, handled, swappers, crowded>>

Init ==
  /\ outcome = [t \in Tasks |-> "idle"]
  /\ handled = [t \in Tasks |-> {}]
  /\ swappers = [t \in Tasks |-> {}]
  /\ crowded = {}

(* Somebody writes: a message, or a cancellation.                            *)
Write(t) == crowded' = IF handled[t] = {} THEN crowded ELSE crowded \cup {t}

Finish(t, c) == c \in handled[t] /\ handled' = [handled EXCEPT ![t] = @ \ {c}]

Take(t, c) ==
  /\ outcome[t] \in {"idle", "open"}
  /\ c \notin handled[t] \cup swappers[t]
  /\ outcome' = [outcome EXCEPT ![t] = "open"]
  /\ handled' = [handled EXCEPT ![t] = @ \cup {c}]
  /\ Write(t)
  /\ UNCHANGED swappers

Swap(t, c) ==
  /\ c \in handled[t] \ swappers[t]
  /\ t \in crowded \/ (outcome[t] = "open" /\ swappers[t] = {})
  /\ swappers' = [swappers EXCEPT ![t] = @ \cup {c}]
  /\ UNCHANGED <<outcome, handled, crowded>>

(* A call is over that leaves the task open, or comes after its end.         *)
Leave(t, c) ==
  /\ Finish(t, c)
  /\ outcome[t] = "open" => c \notin swappers[t]
  /\ UNCHANGED <<outcome, swappers, crowded>>

Settle(t, c) ==
  /\ outcome[t] = "open" /\ Finish(t, c)
  /\ outcome' = [outcome EXCEPT ![t] = "settled"]
  /\ UNCHANGED <<swappers, crowded>>

(* By a call that is being handled, or by one that writes.                   *)
Refuse(t) ==
  /\ outcome[t] \in {"idle", "open"}
  /\ outcome' = [outcome EXCEPT ![t] = "refused"]
  /\ \/ Write(t) /\ UNCHANGED handled
     \/ (\E c \in handled[t] \ swappers[t] : Finish(t, c)) /\ UNCHANGED crowded
  /\ swappers[t] # {} => t \in crowded' /\ swappers[t] \subseteq handled[t]
  /\ UNCHANGED swappers

Forget ==
  /\ outcome' = [t \in Tasks |-> IF outcome[t] = "idle" THEN "idle" ELSE "lost"]
  /\ handled' = [t \in Tasks |-> {}]
  /\ UNCHANGED <<swappers, crowded>>

Next ==
  \/ \E t \in Tasks :
       \/ \E c \in Callers : Take(t, c) \/ Swap(t, c) \/ Leave(t, c) \/ Settle(t, c)
       \/ Refuse(t)
  \/ Forget

Spec == Init /\ [][Next]_vars

=============================================================================

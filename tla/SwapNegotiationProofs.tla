------------------------ MODULE SwapNegotiationProofs ------------------------
(***************************************************************************)
(* What a task's two states may rely on, for every set of calls and any    *)
(* number of restarts, however many replies the store counts as rounds: a  *)
(* task is swapped for at most once, and never when it was refused, unless *)
(* somebody wrote while a call on it waited; and whatever was written, the *)
(* handlers implement SwapAgreement.                                       *)
(***************************************************************************)
EXTENDS SwapNegotiation, TLAPS

(* A call that is not sent has left no trace.                                *)
UnsentIsBlank ==
  \A c \in Calls :
    pc[c] = "unsent" =>
      msg[c].task = c /\ leg[c] = "none" /\ answer[c] = "none" /\ state[c] = "none"

(* A message is on a task that some first message started.                   *)
TaskBegun == \A c \in Calls : pc[c] # "unsent" => Begun(msg[c].task)

(* A proposal that is decided on is the only message of its task.            *)
ProposalIsFirst ==
  \A c \in Calls :
    pc[c] = "deciding" /\ msg[c].kind = "proposal" =>
      /\ msg[c].task = c /\ state[c] = "none"
      /\ \A d \in Calls : pc[d] # "unsent" /\ msg[d].task = c => d = c

(* A call that waits for its answer is being handled and its task is open.   *)
WaitingIsBusy ==
  \A c \in Calls :
    pc[c] # "unsent" /\ answer[c] = "none" => Busy(c) /\ ~ Closed(msg[c].task)

(* While its task is open a handler's call waits.                            *)
BusyWaits ==
  \A c \in Calls : Busy(c) /\ ~ Closed(msg[c].task) => answer[c] = "none"

(* Only a crowded task ends under a handler that runs on it ...              *)
BusyIsOpen ==
  \A c \in Calls : Busy(c) /\ Closed(msg[c].task) => msg[c].task \in crowded

(* ... or has two of them.                                                   *)
OneAtATime ==
  \A c, d \in Calls :
    Busy(c) /\ Busy(d) /\ msg[c].task = msg[d].task /\ c # d => msg[c].task \in crowded

(* A swap belongs to a settlement that goes on or is told, or to one of a    *)
(* crowded task that is over.                                                *)
SwappedIsSettled ==
  \A c \in Calls :
    leg[c] # "none" =>
      \/ pc[c] = "settling"
      \/ state[msg[c].task] \in {"completed", "lost"}
      \/ Closed(msg[c].task) /\ msg[c].task \in crowded

IInv ==
  /\ TypeOK /\ UnsentIsBlank /\ TaskBegun /\ ProposalIsFirst
  /\ WaitingIsBusy /\ BusyWaits /\ BusyIsOpen
  /\ OneAtATime /\ SwappedIsSettled /\ OneSwapPerTask

LEMMA InitInv == Init => IInv
<1>. QED
  BY SwapAssumption
  DEF Init, IInv, TypeOK, Message, Kinds, States, Ended, UnsentIsBlank, TaskBegun,
      ProposalIsFirst, Begun, Busy, WaitingIsBusy, BusyWaits, BusyIsOpen, OneAtATime, SwappedIsSettled,
      OneSwapPerTask

(* An end told by Publish keeps the types.                                   *)
LEMMA PublishTyped ==
  ASSUME TypeOK, NEW t \in Calls, NEW final \in Ended, Publish(t, final)
  PROVE  /\ state' \in [Calls -> States]
         /\ answer' \in [Calls -> {"none", "input-required", "refused", "lost"} \cup Ended]
<1>1. CASE Closed(t)
  BY <1>1 DEF TypeOK, Publish
<1>2. CASE ~ Closed(t)
  BY <1>2 DEF TypeOK, Publish, States
<1>. QED BY <1>1, <1>2

(* A new task: nobody else has a call on it.                                 *)
LEMMA ProposeInv ==
  ASSUME IInv, NEW c \in Calls, Propose(c)
  PROVE  IInv'
<1>1. TypeOK'
  BY DEF IInv, Propose, TypeOK, Message, Kinds, States, Ended
<1>2. UnsentIsBlank'
  BY DEF IInv, Propose, TypeOK, Busy, UnsentIsBlank
<1>3. TaskBegun'
  BY DEF IInv, Propose, TypeOK, Begun, Busy, TaskBegun
<1>4. WaitingIsBusy'
  BY DEF IInv, Propose, TypeOK, Busy, Closed, Ended, UnsentIsBlank, WaitingIsBusy,
      BusyWaits
<1>5. BusyWaits'
  BY DEF IInv, Propose, TypeOK, Busy, Closed, UnsentIsBlank, BusyWaits
<1>6. BusyIsOpen'
  BY DEF IInv, Propose, TypeOK, Busy, Closed, Ended, UnsentIsBlank, BusyWaits,
      BusyIsOpen
<1>7. OneAtATime'
  BY DEF IInv, Propose, TypeOK, Begun, Busy, TaskBegun, BusyWaits, OneAtATime
<1>8. SwappedIsSettled'
  BY DEF IInv, Propose, TypeOK, Busy, Closed, UnsentIsBlank, BusyWaits, BusyIsOpen,
      SwappedIsSettled
<1>9. OneSwapPerTask'
  BY DEF IInv, Propose, TypeOK, Busy, UnsentIsBlank, BusyIsOpen, SwappedIsSettled,
      OneSwapPerTask
<1>10. ProposalIsFirst'
  BY DEF IInv, Propose, TypeOK, Begun, Busy, ProposalIsFirst, UnsentIsBlank,
      TaskBegun, BusyWaits
<1>. QED BY <1>1, <1>2, <1>3, <1>4, <1>5, <1>6, <1>7, <1>8, <1>9, <1>10 DEF IInv

LEMMA StartWithoutProposalInv ==
  ASSUME IInv, NEW c \in Calls, NEW kind \in Kinds,
         StartWithoutProposal(c, kind)
  PROVE  IInv'
<1>1. TypeOK'
  BY DEF IInv, StartWithoutProposal, TypeOK, Message, Kinds, States, Ended
<1>2. UnsentIsBlank'
  BY DEF IInv, StartWithoutProposal, TypeOK, Busy, Waiting, UnsentIsBlank
<1>3. TaskBegun'
  BY DEF IInv, StartWithoutProposal, TypeOK, Begun, Busy, CallsOn, States, TaskBegun
<1>4. WaitingIsBusy'
  BY DEF IInv, StartWithoutProposal, TypeOK, Message, Begun, Busy, Closed, Ended,
      TaskBegun, WaitingIsBusy, BusyWaits
<1>5. BusyWaits'
  BY DEF IInv, StartWithoutProposal, TypeOK, Begun, Busy, Closed, ProposalIsFirst,
      UnsentIsBlank, TaskBegun, WaitingIsBusy, BusyWaits
<1>6. BusyIsOpen'
  BY DEF IInv, StartWithoutProposal, TypeOK, Begun, Busy, Closed, TaskBegun,
      BusyWaits, BusyIsOpen
<1>7. OneAtATime'
  BY DEF IInv, StartWithoutProposal, TypeOK, Busy, BusyWaits, OneAtATime
<1>8. SwappedIsSettled'
  BY DEF IInv, StartWithoutProposal, TypeOK, Begun, Busy, Closed, UnsentIsBlank,
      TaskBegun, BusyWaits, BusyIsOpen, SwappedIsSettled
<1>9. OneSwapPerTask'
  BY DEF IInv, StartWithoutProposal, TypeOK, Busy, UnsentIsBlank, BusyIsOpen,
      SwappedIsSettled, OneSwapPerTask
<1>10. ProposalIsFirst'
  BY DEF IInv, StartWithoutProposal, TypeOK, Busy, ProposalIsFirst, BusyWaits
<1>. QED BY <1>1, <1>2, <1>3, <1>4, <1>5, <1>6, <1>7, <1>8, <1>9, <1>10 DEF IInv

(* Nobody has settled: the only call that could is this one.                 *)
LEMMA RejectProposalInv ==
  ASSUME IInv, NEW c \in Calls, RejectProposal(c)
  PROVE  IInv'
<1>1. TypeOK'
  BY DEF IInv, RejectProposal, Deciding, Decides, TypeOK, Message, Kinds, States, Ended
<1>2. UnsentIsBlank'
  BY DEF IInv, RejectProposal, TypeOK, Busy, UnsentIsBlank
<1>3. TaskBegun'
  BY DEF IInv, RejectProposal, Deciding, TypeOK, Begun, Busy, TaskBegun
<1>4. WaitingIsBusy'
  BY DEF IInv, RejectProposal, Deciding, TypeOK, Busy, Closed, ProposalIsFirst,
      WaitingIsBusy, BusyWaits
<1>5. BusyWaits'
  BY DEF IInv, RejectProposal, Deciding, TypeOK, Busy, Closed, ProposalIsFirst,
      BusyWaits
<1>6. BusyIsOpen'
  BY DEF IInv, RejectProposal, Deciding, TypeOK, Begun, Busy, Closed, TaskBegun,
      BusyWaits, BusyIsOpen, OneAtATime
<1>7. OneAtATime'
  BY DEF IInv, RejectProposal, TypeOK, Busy, BusyWaits, OneAtATime
<1>8. SwappedIsSettled'
  BY DEF IInv, RejectProposal, Deciding, TypeOK, Busy, Closed, Ended, BusyWaits,
      BusyIsOpen, SwappedIsSettled, ProposalIsFirst
<1>9. OneSwapPerTask'
  BY DEF IInv, RejectProposal, TypeOK, Busy, BusyIsOpen, SwappedIsSettled,
      OneSwapPerTask
<1>10. ProposalIsFirst'
  BY DEF IInv, RejectProposal, Deciding, TypeOK, Busy, ProposalIsFirst, BusyWaits
<1>. QED BY <1>1, <1>2, <1>3, <1>4, <1>5, <1>6, <1>7, <1>8, <1>9, <1>10 DEF IInv

LEMMA AcceptProposalInv ==
  ASSUME IInv, NEW c \in Calls, AcceptProposal(c)
  PROVE  IInv'
<1>1. TypeOK'
  BY DEF IInv, AcceptProposal, Deciding, Decides, TypeOK, Message, Kinds, States, Ended
<1>2. UnsentIsBlank'
  BY DEF IInv, AcceptProposal, TypeOK, Busy, UnsentIsBlank
<1>3. TaskBegun'
  BY DEF IInv, AcceptProposal, Deciding, TypeOK, Begun, Busy, TaskBegun
<1>4. WaitingIsBusy'
  BY DEF IInv, AcceptProposal, Deciding, TypeOK, Busy, Closed, Ended, WaitingIsBusy,
      BusyWaits
<1>5. BusyWaits'
  BY DEF IInv, AcceptProposal, Deciding, TypeOK, Busy, Closed, Ended, ProposalIsFirst,
      BusyWaits
<1>6. BusyIsOpen'
  BY DEF IInv, AcceptProposal, Deciding, TypeOK, Busy, Closed, Ended, BusyWaits,
      BusyIsOpen
<1>7. OneAtATime'
  BY DEF IInv, AcceptProposal, Deciding, TypeOK, Busy, BusyWaits, OneAtATime
<1>8. SwappedIsSettled'
  BY DEF IInv, AcceptProposal, Deciding, TypeOK, Busy, Closed, UnsentIsBlank,
      BusyWaits, BusyIsOpen, SwappedIsSettled, ProposalIsFirst
<1>9. OneSwapPerTask'
  BY DEF IInv, AcceptProposal, TypeOK, Busy, BusyIsOpen, SwappedIsSettled,
      OneSwapPerTask
<1>10. ProposalIsFirst'
  BY DEF IInv, AcceptProposal, Deciding, TypeOK, Busy, ProposalIsFirst, BusyWaits
<1>. QED BY <1>1, <1>2, <1>3, <1>4, <1>5, <1>6, <1>7, <1>8, <1>9, <1>10 DEF IInv

LEMMA CounterProposalInv ==
  ASSUME IInv, NEW c \in Calls, CounterProposal(c)
  PROVE  IInv'
<1>1. TypeOK'
  <2>1. PICK n \in Replies : history' = [history EXCEPT ![c] = 1 + n]
    BY DEF CounterProposal
  <2>2. history' \in [Calls -> Nat]
    BY <2>1, SwapAssumption DEF IInv, TypeOK
  <2>. QED
    BY <2>2 DEF IInv, CounterProposal, Deciding, Decides, TypeOK, Message, Kinds, States, Ended
<1>2. UnsentIsBlank'
  BY DEF IInv, CounterProposal, TypeOK, Busy, UnsentIsBlank
<1>3. TaskBegun'
  BY DEF IInv, CounterProposal, Deciding, TypeOK, Begun, Busy, TaskBegun
<1>4. WaitingIsBusy'
  BY DEF IInv, CounterProposal, Deciding, TypeOK, Busy, Closed, ProposalIsFirst,
      WaitingIsBusy, BusyWaits
<1>5. BusyWaits'
  BY DEF IInv, CounterProposal, Deciding, TypeOK, Busy, Closed, ProposalIsFirst,
      BusyWaits
<1>6. BusyIsOpen'
  BY DEF IInv, CounterProposal, Deciding, TypeOK, Begun, Busy, Waiting, Closed,
      TaskBegun, BusyWaits, BusyIsOpen, OneAtATime
<1>7. OneAtATime'
  BY DEF IInv, CounterProposal, TypeOK, Busy, BusyWaits, OneAtATime
<1>8. SwappedIsSettled'
  BY DEF IInv, CounterProposal, Deciding, TypeOK, Busy, CallsOn, Closed, Ended,
      BusyWaits, BusyIsOpen, SwappedIsSettled, ProposalIsFirst
<1>9. OneSwapPerTask'
  BY DEF IInv, CounterProposal, TypeOK, Busy, BusyIsOpen, SwappedIsSettled,
      OneSwapPerTask
<1>10. ProposalIsFirst'
  BY DEF IInv, CounterProposal, Deciding, TypeOK, Busy, Ended, States,
      ProposalIsFirst, BusyWaits
<1>. QED BY <1>1, <1>2, <1>3, <1>4, <1>5, <1>6, <1>7, <1>8, <1>9, <1>10 DEF IInv

LEMMA SendToClosedInv ==
  ASSUME IInv, NEW c \in Calls, NEW t \in Calls, NEW kind \in Kinds,
         SendToClosed(c, t, kind)
  PROVE  IInv'
<1>1. TypeOK'
  BY DEF IInv, SendToClosed, Sent, MayWrite, TypeOK, Message, Kinds, States, Ended
<1>2. UnsentIsBlank'
  BY DEF IInv, SendToClosed, Sent, TypeOK, Message, Busy, UnsentIsBlank
<1>3. TaskBegun'
  BY DEF IInv, SendToClosed, Sent, MayWrite, TypeOK, Begun, Busy, TaskBegun
<1>4. WaitingIsBusy'
  BY DEF IInv, SendToClosed, Sent, MayWrite, TypeOK, Busy, Closed, WaitingIsBusy,
      BusyWaits
<1>5. BusyWaits'
  BY DEF IInv, SendToClosed, Sent, TypeOK, Busy, Closed, TaskBegun, BusyWaits
<1>6. BusyIsOpen'
  BY DEF IInv, SendToClosed, Sent, TypeOK, Busy, Closed, BusyWaits, BusyIsOpen
<1>7. OneAtATime'
  BY DEF IInv, SendToClosed, Sent, TypeOK, Busy, BusyWaits, OneAtATime
<1>8. SwappedIsSettled'
  BY DEF IInv, SendToClosed, Sent, TypeOK, Busy, Closed, UnsentIsBlank, BusyWaits,
      BusyIsOpen, SwappedIsSettled
<1>9. OneSwapPerTask'
  BY DEF IInv, SendToClosed, Sent, TypeOK, Busy, UnsentIsBlank, BusyIsOpen,
      OneAtATime, SwappedIsSettled, OneSwapPerTask
<1>10. ProposalIsFirst'
  BY DEF IInv, SendToClosed, Sent, TypeOK, Busy, Closed, Ended, ProposalIsFirst,
      BusyWaits
<1>. QED BY <1>1, <1>2, <1>3, <1>4, <1>5, <1>6, <1>7, <1>8, <1>9, <1>10 DEF IInv

(* The initiator waits for nothing on the task, so no handler runs on it.    *)
LEMMA SendRejectInv ==
  ASSUME IInv, NEW c \in Calls, NEW t \in Calls, NEW kind \in Kinds,
         SendReject(c, t, kind)
  PROVE  IInv'
<1>1. TypeOK'
  BY DEF IInv, SendReject, Sent, MayWrite, Delivered, Write, TypeOK, Message, Kinds,
      States, Ended
<1>2. UnsentIsBlank'
  BY DEF IInv, SendReject, Sent, MayWrite, TypeOK, Busy, Waiting, CallsOn,
      UnsentIsBlank
<1>3. TaskBegun'
  BY DEF IInv, SendReject, Sent, MayWrite, TypeOK, Begun, Busy, TaskBegun
<1>4. WaitingIsBusy'
  BY DEF IInv, SendReject, Sent, TypeOK, Busy, Waiting, CallsOn, Closed,
      WaitingIsBusy, BusyWaits
<1>5. BusyWaits'
  BY DEF IInv, SendReject, Sent, TypeOK, Busy, Waiting, CallsOn, Closed, Ended,
      BusyWaits
<1>6. BusyIsOpen'
  BY DEF IInv, SendReject, Sent, Delivered, Write, TypeOK, Busy, Waiting, CallsOn,
      Closed, BusyWaits, BusyIsOpen
<1>7. OneAtATime'
  BY DEF IInv, SendReject, Sent, Delivered, Write, TypeOK, Busy, CallsOn, BusyWaits,
      OneAtATime
<1>8. SwappedIsSettled'
  BY DEF IInv, SendReject, Sent, Delivered, Write, TypeOK, Busy, Waiting, CallsOn,
      Closed, Ended, UnsentIsBlank, BusyWaits, BusyIsOpen, SwappedIsSettled
<1>9. OneSwapPerTask'
  BY DEF IInv, SendReject, Sent, Delivered, Write, TypeOK, Busy, Ended, States,
      UnsentIsBlank, BusyIsOpen, SwappedIsSettled, OneSwapPerTask
<1>10. ProposalIsFirst'
  BY DEF IInv, SendReject, Sent, MayWrite, Delivered, TypeOK, Busy, CallsOn, Ended,
      ProposalIsFirst, BusyWaits
<1>. QED BY <1>1, <1>2, <1>3, <1>4, <1>5, <1>6, <1>7, <1>8, <1>9, <1>10 DEF IInv

LEMMA SendAcceptInv ==
  ASSUME IInv, NEW c \in Calls, NEW t \in Calls,
         SendAccept(c, t)
  PROVE  IInv'
<1>1. TypeOK'
  BY DEF IInv, SendAccept, Sent, MayWrite, Delivered, Write, TypeOK, Message, Kinds,
      States, Ended
<1>2. UnsentIsBlank'
  BY DEF IInv, SendAccept, Sent, TypeOK, Message, Busy, Ended, UnsentIsBlank
<1>3. TaskBegun'
  BY DEF IInv, SendAccept, Sent, MayWrite, TypeOK, Message, Begun, Busy, TaskBegun
<1>4. WaitingIsBusy'
  BY DEF IInv, SendAccept, Sent, MayWrite, Delivered, TypeOK, Busy, Closed,
      WaitingIsBusy, BusyWaits
<1>5. BusyWaits'
  BY DEF IInv, SendAccept, Sent, MayWrite, TypeOK, Begun, Busy, Closed, UnsentIsBlank,
      BusyWaits
<1>6. BusyIsOpen'
  BY DEF IInv, SendAccept, Sent, Delivered, Write, TypeOK, Busy, Closed, TaskBegun,
      BusyWaits, BusyIsOpen
<1>7. OneAtATime'
  BY DEF IInv, SendAccept, Sent, Delivered, Write, TypeOK, Message, Busy, Waiting,
      CallsOn, TaskBegun, BusyWaits, OneAtATime
<1>8. SwappedIsSettled'
  BY DEF IInv, SendAccept, Sent, Delivered, Write, TypeOK, Busy, Closed, BusyWaits,
      BusyIsOpen, SwappedIsSettled
<1>9. OneSwapPerTask'
  BY DEF IInv, SendAccept, Sent, MayWrite, Delivered, Write, TypeOK, Busy, Closed,
      UnsentIsBlank, BusyIsOpen, SwappedIsSettled, OneSwapPerTask
<1>10. ProposalIsFirst'
  BY DEF IInv, SendAccept, Sent, MayWrite, Delivered, Write, TypeOK, Busy,
      ProposalIsFirst, UnsentIsBlank, BusyWaits
<1>. QED BY <1>1, <1>2, <1>3, <1>4, <1>5, <1>6, <1>7, <1>8, <1>9, <1>10 DEF IInv

LEMMA SendCounterInv ==
  ASSUME IInv, NEW c \in Calls, NEW t \in Calls,
         SendCounter(c, t)
  PROVE  IInv'
<1>1. TypeOK'
  <2>1. /\ verdict' \in [Calls -> {"none", "accept", "counter", "reject", "cap"}]
        /\ pc' \in [Calls -> {"unsent", "deciding", "settling", "ended"}]
    <3>1. CASE rounds'[c] >= MAX_NEGOTIATION_ROUNDS
      BY <3>1 DEF IInv, TypeOK, SendCounter, Decides
    <3>2. CASE ~ (rounds'[c] >= MAX_NEGOTIATION_ROUNDS)
      BY <3>2 DEF IInv, TypeOK, SendCounter, Decides
    <3>. QED BY <3>1, <3>2
  <2>2. msg' \in [Calls -> Message]
    BY DEF IInv, TypeOK, SendCounter, Sent, Message, Kinds
  <2>. QED BY <2>1, <2>2 DEF IInv, TypeOK, SendCounter, Sent, Delivered, Write
<1>2. UnsentIsBlank'
  BY DEF IInv, SendCounter, Sent, TypeOK, Busy, UnsentIsBlank
<1>3. TaskBegun'
  BY DEF IInv, SendCounter, Sent, MayWrite, TypeOK, Message, Begun, Busy, TaskBegun
<1>4. WaitingIsBusy'
  BY DEF IInv, SendCounter, Sent, Delivered, TypeOK, Busy, Closed, WaitingIsBusy,
      BusyWaits
<1>5. BusyWaits'
  BY DEF IInv, SendCounter, Sent, TypeOK, Busy, Closed, UnsentIsBlank, BusyWaits
<1>6. BusyIsOpen'
  BY DEF IInv, SendCounter, Sent, Delivered, Write, TypeOK, Busy, Closed, BusyWaits,
      BusyIsOpen
<1>7. OneAtATime'
  BY DEF IInv, SendCounter, Sent, Delivered, Write, TypeOK, Busy, Waiting, CallsOn,
      BusyWaits, OneAtATime
<1>8. SwappedIsSettled'
  BY DEF IInv, SendCounter, Sent, Delivered, Write, TypeOK, Busy, Closed,
      UnsentIsBlank, BusyWaits, BusyIsOpen, SwappedIsSettled
<1>9. OneSwapPerTask'
  BY DEF IInv, SendCounter, Sent, Delivered, Write, TypeOK, Busy, UnsentIsBlank,
      BusyIsOpen, SwappedIsSettled, OneSwapPerTask
<1>10. ProposalIsFirst'
  BY DEF IInv, SendCounter, Sent, MayWrite, Delivered, TypeOK, Busy, ProposalIsFirst,
      BusyWaits
<1>. QED BY <1>1, <1>2, <1>3, <1>4, <1>5, <1>6, <1>7, <1>8, <1>9, <1>10 DEF IInv

LEMMA RejectCounterInv ==
  ASSUME IInv, NEW c \in Calls, RejectCounter(c)
  PROVE  IInv'
<1>1. TypeOK'
  BY PublishTyped DEF IInv, RejectCounter, Deciding, Decides, Fail, TypeOK, Message,
      Kinds, States, Ended
<1>2. UnsentIsBlank'
  BY DEF IInv, RejectCounter, Fail, Publish, TypeOK, Begun, Busy, Waiting, CallsOn,
      UnsentIsBlank, TaskBegun
<1>3. TaskBegun'
  BY DEF IInv, RejectCounter, Deciding, Fail, Publish, TypeOK, Begun, Busy, TaskBegun
<1>4. WaitingIsBusy'
  BY DEF IInv, RejectCounter, Deciding, Fail, Publish, TypeOK, Message, Busy, Waiting,
      CallsOn, Closed, WaitingIsBusy, BusyWaits
<1>5. BusyWaits'
  BY DEF IInv, RejectCounter, Fail, Publish, TypeOK, Message, Busy, Waiting, CallsOn,
      Closed, Ended, ProposalIsFirst, BusyWaits
<1>6. BusyIsOpen'
  BY DEF IInv, RejectCounter, Deciding, Fail, Publish, TypeOK, Message, Busy, Closed,
      BusyWaits, BusyIsOpen, OneAtATime
<1>7. OneAtATime'
  BY DEF IInv, RejectCounter, Fail, Publish, TypeOK, Busy, BusyWaits, OneAtATime
<1>8. SwappedIsSettled'
  BY DEF IInv, RejectCounter, Deciding, Fail, Publish, TypeOK, Message, Busy, Closed,
      Ended, BusyWaits, BusyIsOpen, SwappedIsSettled
<1>9. OneSwapPerTask'
  BY DEF IInv, RejectCounter, Fail, Publish, TypeOK, Busy, BusyIsOpen,
      SwappedIsSettled, OneSwapPerTask
<1>10. ProposalIsFirst'
  BY DEF IInv, RejectCounter, Deciding, Fail, Publish, TypeOK, Busy, ProposalIsFirst,
      BusyWaits
<1>. QED BY <1>1, <1>2, <1>3, <1>4, <1>5, <1>6, <1>7, <1>8, <1>9, <1>10 DEF IInv

LEMMA SettleCounterInv ==
  ASSUME IInv, NEW c \in Calls, NEW action \in {"accept", "counter"},
         SettleCounter(c, action)
  PROVE  IInv'
<1>1. TypeOK'
  BY DEF IInv, SettleCounter, Deciding, Decides, TypeOK, Message, Kinds, States, Ended
<1>2. UnsentIsBlank'
  BY DEF IInv, SettleCounter, TypeOK, Busy, UnsentIsBlank
<1>3. TaskBegun'
  BY DEF IInv, SettleCounter, Deciding, TypeOK, Begun, Busy, TaskBegun
<1>4. WaitingIsBusy'
  BY DEF IInv, SettleCounter, Deciding, TypeOK, Busy, Closed, WaitingIsBusy, BusyWaits
<1>5. BusyWaits'
  BY DEF IInv, SettleCounter, Deciding, TypeOK, Busy, Closed, BusyWaits
<1>6. BusyIsOpen'
  BY DEF IInv, SettleCounter, Deciding, TypeOK, Busy, Closed, BusyWaits, BusyIsOpen
<1>7. OneAtATime'
  BY DEF IInv, SettleCounter, Deciding, TypeOK, Busy, BusyWaits, OneAtATime
<1>8. SwappedIsSettled'
  BY DEF IInv, SettleCounter, TypeOK, Busy, Closed, BusyWaits, BusyIsOpen,
      SwappedIsSettled
<1>9. OneSwapPerTask'
  BY DEF IInv, SettleCounter, TypeOK, Busy, BusyIsOpen, SwappedIsSettled,
      OneSwapPerTask
<1>10. ProposalIsFirst'
  BY DEF IInv, SettleCounter, Deciding, TypeOK, Busy, ProposalIsFirst, BusyWaits
<1>. QED BY <1>1, <1>2, <1>3, <1>4, <1>5, <1>6, <1>7, <1>8, <1>9, <1>10 DEF IInv

(* Any other swap of the task is of a settlement that goes on, which is this *)
(* one, or is told, which closed the task.                                   *)
LEMMA SendSwapInv ==
  ASSUME IInv, NEW c \in Calls, SendSwap(c)
  PROVE  IInv'
<1>1. TypeOK'
  BY DEF IInv, SendSwap, TypeOK, Message, Kinds, States, Ended
<1>2. UnsentIsBlank'
  BY DEF IInv, SendSwap, TypeOK, Busy, UnsentIsBlank
<1>3. TaskBegun'
  BY DEF IInv, SendSwap, TypeOK, Begun, Busy, TaskBegun
<1>4. WaitingIsBusy'
  BY DEF IInv, SendSwap, TypeOK, Busy, Closed, WaitingIsBusy, BusyWaits
<1>5. BusyWaits'
  BY DEF IInv, SendSwap, TypeOK, Busy, Closed, BusyWaits
<1>6. BusyIsOpen'
  BY DEF IInv, SendSwap, TypeOK, Busy, Closed, BusyWaits, BusyIsOpen
<1>7. OneAtATime'
  BY DEF IInv, SendSwap, TypeOK, Busy, BusyWaits, OneAtATime
<1>8. SwappedIsSettled'
  BY DEF IInv, SendSwap, TypeOK, Busy, Closed, BusyWaits, BusyIsOpen, SwappedIsSettled
<1>9. OneSwapPerTask'
  BY DEF IInv, SendSwap, TypeOK, Busy, Closed, Ended, BusyIsOpen, OneAtATime,
      SwappedIsSettled, OneSwapPerTask
<1>10. ProposalIsFirst'
  BY DEF IInv, SendSwap, TypeOK, Busy, ProposalIsFirst, BusyWaits
<1>. QED BY <1>1, <1>2, <1>3, <1>4, <1>5, <1>6, <1>7, <1>8, <1>9, <1>10 DEF IInv

LEMMA MineSwapInv ==
  ASSUME IInv, NEW c \in Calls, NEW status \in {"success", "reverted"},
         MineSwap(c, status)
  PROVE  IInv'
<1>1. TypeOK'
  BY DEF IInv, MineSwap, TypeOK, Message, Kinds, States, Ended
<1>2. UnsentIsBlank'
  BY DEF IInv, MineSwap, TypeOK, Busy, UnsentIsBlank
<1>3. TaskBegun'
  BY DEF IInv, MineSwap, TypeOK, Begun, Busy, TaskBegun
<1>4. WaitingIsBusy'
  BY DEF IInv, MineSwap, TypeOK, Busy, Closed, WaitingIsBusy, BusyWaits
<1>5. BusyWaits'
  BY DEF IInv, MineSwap, TypeOK, Busy, Closed, BusyWaits
<1>6. BusyIsOpen'
  BY DEF IInv, MineSwap, TypeOK, Busy, Closed, BusyWaits, BusyIsOpen
<1>7. OneAtATime'
  BY DEF IInv, MineSwap, TypeOK, Busy, BusyWaits, OneAtATime
<1>8. SwappedIsSettled'
  BY DEF IInv, MineSwap, TypeOK, Busy, Closed, BusyWaits, BusyIsOpen, SwappedIsSettled
<1>9. OneSwapPerTask'
  BY DEF IInv, MineSwap, TypeOK, Busy, BusyIsOpen, SwappedIsSettled, OneSwapPerTask
<1>10. ProposalIsFirst'
  BY DEF IInv, MineSwap, TypeOK, Busy, ProposalIsFirst, BusyWaits
<1>. QED BY <1>1, <1>2, <1>3, <1>4, <1>5, <1>6, <1>7, <1>8, <1>9, <1>10 DEF IInv

LEMMA SettleInv ==
  ASSUME IInv, NEW c \in Calls, NEW responder \in {"null", "success",
         "reverted"},
         Settle(c, responder)
  PROVE  IInv'
<1>1. TypeOK'
  BY PublishTyped DEF IInv, Settle, TypeOK, Message, Kinds, States, Ended
<1>2. UnsentIsBlank'
  BY DEF IInv, Settle, Publish, TypeOK, Begun, Busy, Waiting, CallsOn, UnsentIsBlank,
      TaskBegun
<1>3. TaskBegun'
  BY DEF IInv, Settle, Publish, TypeOK, Begun, Busy, TaskBegun
<1>4. WaitingIsBusy'
  BY DEF IInv, Settle, Publish, TypeOK, Message, Busy, Waiting, CallsOn, Closed,
      WaitingIsBusy, BusyWaits
<1>5. BusyWaits'
  BY DEF IInv, Settle, Publish, TypeOK, Message, Busy, Waiting, CallsOn, Closed,
      Ended, UnsentIsBlank, BusyWaits
<1>6. BusyIsOpen'
  BY DEF IInv, Settle, Publish, TypeOK, Message, Busy, Closed, BusyWaits, BusyIsOpen,
      OneAtATime
<1>7. OneAtATime'
  BY DEF IInv, Settle, Publish, TypeOK, Busy, BusyWaits, OneAtATime
<1>8. SwappedIsSettled'
  BY DEF IInv, Settle, Publish, TypeOK, Message, Busy, Closed, BusyWaits, BusyIsOpen,
      SwappedIsSettled
<1>9. OneSwapPerTask'
  BY DEF IInv, Settle, Publish, TypeOK, Busy, BusyIsOpen, SwappedIsSettled,
      OneSwapPerTask
<1>10. ProposalIsFirst'
  BY DEF IInv, Settle, Publish, TypeOK, Busy, ProposalIsFirst, BusyWaits
<1>. QED BY <1>1, <1>2, <1>3, <1>4, <1>5, <1>6, <1>7, <1>8, <1>9, <1>10 DEF IInv

LEMMA CancelInv ==
  ASSUME IInv, NEW t \in Calls, Cancel(t)
  PROVE  IInv'
<1>1. TypeOK'
  BY PublishTyped DEF IInv, Cancel, MayWrite, Write, TypeOK, Message, Kinds, States, Ended
<1>2. UnsentIsBlank'
  BY DEF IInv, Cancel, MayWrite, Publish, TypeOK, Busy, Waiting, CallsOn, Closed,
      Ended, UnsentIsBlank
<1>3. TaskBegun'
  BY DEF IInv, Cancel, Publish, TypeOK, Begun, Busy, TaskBegun
<1>4. WaitingIsBusy'
  BY DEF IInv, Cancel, Publish, TypeOK, Message, Busy, Waiting, CallsOn, Closed,
      Ended, WaitingIsBusy, BusyWaits
<1>5. BusyWaits'
  BY DEF IInv, Cancel, MayWrite, Publish, TypeOK, Message, Begun, Busy, Waiting,
      CallsOn, Closed, Ended, States, BusyWaits
<1>6. BusyIsOpen'
  BY DEF IInv, Cancel, Publish, Write, TypeOK, Message, Busy, Waiting, CallsOn,
      Closed, Ended, BusyWaits, BusyIsOpen
<1>7. OneAtATime'
  BY DEF IInv, Cancel, Publish, Write, TypeOK, Busy, BusyWaits, OneAtATime
<1>8. SwappedIsSettled'
  BY DEF IInv, Cancel, Publish, Write, TypeOK, Message, Busy, Closed, Ended,
      TaskBegun, BusyWaits, BusyIsOpen, SwappedIsSettled, OneAtATime, ProposalIsFirst
<1>9. OneSwapPerTask'
  BY DEF IInv, Cancel, Publish, Write, TypeOK, Busy, BusyIsOpen, SwappedIsSettled,
      OneSwapPerTask
<1>10. ProposalIsFirst'
  BY DEF IInv, Cancel, MayWrite, Publish, TypeOK, Busy, ProposalIsFirst, BusyWaits
<1>. QED BY <1>1, <1>2, <1>3, <1>4, <1>5, <1>6, <1>7, <1>8, <1>9, <1>10 DEF IInv

LEMMA RestartInv ==
  ASSUME IInv, Restart
  PROVE  IInv'
<1>1. TypeOK'
  BY SwapAssumption DEF IInv, Restart, TypeOK, Message, Kinds, States, Ended
<1>2. UnsentIsBlank'
  BY DEF IInv, Restart, TypeOK, Begun, Busy, UnsentIsBlank
<1>3. TaskBegun'
  BY DEF IInv, Restart, TypeOK, Message, Begun, Busy, TaskBegun
<1>4. WaitingIsBusy'
  BY DEF IInv, Restart, TypeOK, Busy, WaitingIsBusy, BusyWaits
<1>5. BusyWaits'
  BY DEF IInv, Restart, TypeOK, Busy, BusyWaits
<1>6. BusyIsOpen'
  BY DEF IInv, Restart, TypeOK, Busy, BusyWaits, BusyIsOpen
<1>7. OneAtATime'
  BY DEF IInv, Restart, TypeOK, Busy, BusyWaits, OneAtATime
<1>8. SwappedIsSettled'
  BY DEF IInv, Restart, TypeOK, Message, Busy, UnsentIsBlank, TaskBegun, BusyWaits,
      BusyIsOpen, SwappedIsSettled
<1>9. OneSwapPerTask'
  BY DEF IInv, Restart, TypeOK, Busy, BusyIsOpen, SwappedIsSettled, OneSwapPerTask
<1>10. ProposalIsFirst'
  BY DEF IInv, Restart, TypeOK, Busy, ProposalIsFirst, BusyWaits
<1>. QED BY <1>1, <1>2, <1>3, <1>4, <1>5, <1>6, <1>7, <1>8, <1>9, <1>10 DEF IInv

LEMMA NextInv == IInv /\ [Next]_vars => IInv'
<1>. SUFFICES ASSUME IInv, [Next]_vars PROVE IInv'
  OBVIOUS
<1>1. CASE UNCHANGED vars
  BY <1>1
  DEF vars, IInv, TypeOK, UnsentIsBlank, TaskBegun, ProposalIsFirst, Begun, Busy,
      WaitingIsBusy, BusyWaits, BusyIsOpen, Closed, OneAtATime, SwappedIsSettled, OneSwapPerTask
<1>2. ASSUME NEW c \in Calls, Send(c) PROVE IInv'
  BY <1>2, ProposeInv, StartWithoutProposalInv, SendToClosedInv, SendRejectInv, SendAcceptInv,
     SendCounterInv DEF Send
<1>3. ASSUME NEW c \in Calls, Decision(c) PROVE IInv'
  BY <1>3, RejectProposalInv, AcceptProposalInv, CounterProposalInv, RejectCounterInv,
     SettleCounterInv DEF Decision
<1>4. ASSUME NEW c \in Calls, Settlement(c) PROVE IInv'
  BY <1>4, SettleInv DEF Settlement, SettleWithLeg, SettleWithoutLeg
<1>. QED BY <1>1, <1>2, <1>3, <1>4, SendSwapInv, MineSwapInv, CancelInv, RestartInv DEF Next

-----------------------------------------------------------------------------
(* However messages, settlements, cancellations and restarts interleave, the *)
(* negotiation keeps its inductive invariant.                                *)
THEOREM NegotiationInvariant == Spec => []IInv
<1>. QED BY InitInv, NextInv, PTL DEF Spec

(* Every variable keeps its type.                                            *)
THEOREM TypeCorrect == Spec => []TypeOK
<1>1. IInv => TypeOK
  BY DEF IInv
<1>. QED BY NegotiationInvariant, <1>1, PTL

(* The responder swaps at most once for a task, unless somebody wrote while  *)
(* a call on it waited (handleNegotiateSwap, makeSettlement).                *)
THEOREM SwapsAtMostOnce == Spec => []OneSwapPerTask
<1>1. IInv => OneSwapPerTask
  BY DEF IInv
<1>. QED BY NegotiationInvariant, <1>1, PTL

(* A task told as failed or canceled, on which nobody wrote while a call     *)
(* waited, was not swapped for and will not be (failTask, cancelTask).       *)
THEOREM RefusedStaysUnswapped == Spec => []RefusedIsUnswapped
<1>1. IInv => RefusedIsUnswapped
  BY DEF IInv, TypeOK, RefusedIsUnswapped, CallsOn, Busy, BusyIsOpen, Closed, Ended,
      SwappedIsSettled
<1>. QED BY NegotiationInvariant, <1>1, PTL

-----------------------------------------------------------------------------
(* The handlers implement the agreement.                                     *)

LEMMA AgreementInit == Init => Agreement!Init
<1>. QED BY DEF Init, Agreement!Init, Outcome, Begun, CallsOn, Handled, Swapped, Busy

(* A step that changes nothing the agreement sees is a stutter.              *)
LEMMA Stutters ==
  ASSUME \A t \in Calls :
           /\ Outcome(t)' = Outcome(t) /\ Handled(t)' = Handled(t)
           /\ Swapped(t)' = Swapped(t),
         UNCHANGED crowded
  PROVE  UNCHANGED Agreement!vars
<1>. QED BY DEF Agreement!vars

(* Nobody waits on a task exactly when nobody is handled on it, as long as   *)
(* it is open.                                                               *)
LEMMA WaitingIsHandled ==
  ASSUME IInv, NEW t \in Calls, ~ Closed(t)
  PROVE  Waiting(t) = Handled(t)
<1>. QED
  BY DEF IInv, Waiting, Handled, CallsOn, Busy, WaitingIsBusy, BusyWaits

(* What a handler that has not settled leaves of its task.                   *)
LEMMA DecidingIsUnswapped ==
  ASSUME IInv, NEW c \in Calls, pc[c] = "deciding", ~ Closed(msg[c].task)
  PROVE  leg[c] = "none"
<1>. QED BY DEF IInv, SwappedIsSettled, Closed, Ended

(* An open task's swaps are of calls that are being handled, and of one call *)
(* unless the task is crowded.                                               *)
LEMMA OpenSwaps ==
  ASSUME IInv, NEW t \in Calls, ~ Closed(t)
  PROVE  Swapped(t) \subseteq Handled(t)
<1>. QED
  BY DEF IInv, Swapped, Handled, CallsOn, Busy, SwappedIsSettled, Closed, Ended

LEMMA ProposeStep ==
  ASSUME IInv, NEW c \in Calls, Propose(c)
  PROVE  Agreement!Take(c, c)
<1>1. Outcome(c) = "idle" /\ Outcome(c)' = "open"
  BY DEF IInv, TypeOK, Propose, Outcome, Begun, UnsentIsBlank
<1>2. \A u \in Calls \ {c} : Outcome(u)' = Outcome(u)
  BY DEF IInv, TypeOK, Propose, Outcome, Begun
<1>3. Handled(c) = {} /\ Swapped(c) = {}
  BY DEF IInv, Handled, Swapped, CallsOn, Propose, TaskBegun, Begun
<1>4. Handled(c)' = {c}
  BY <1>3 DEF IInv, TypeOK, Handled, Propose, CallsOn, Busy
<1>5. \A u \in Calls \ {c} : Handled(u)' = Handled(u)
  BY DEF IInv, TypeOK, Handled, Propose, CallsOn, Busy
<1>6. \A u \in Calls : Swapped(u)' = Swapped(u)
  BY DEF IInv, TypeOK, Propose, Swapped, CallsOn, UnsentIsBlank
<1>7. crowded' = crowded
  BY DEF Propose
<1>. QED
  BY <1>1, <1>2, <1>3, <1>4, <1>5, <1>6, <1>7 DEF Agreement!Take, Agreement!Write

LEMMA StartWithoutProposalStep ==
  ASSUME IInv, NEW c \in Calls, NEW kind \in Kinds, StartWithoutProposal(c, kind)
  PROVE  Agreement!Refuse(c)
<1>1. Outcome(c) = "idle" /\ Outcome(c)' = "refused"
  BY DEF IInv, TypeOK, StartWithoutProposal, Outcome, Begun, UnsentIsBlank
<1>2. \A u \in Calls \ {c} : Outcome(u)' = Outcome(u)
  BY DEF IInv, TypeOK, StartWithoutProposal, Outcome, Begun
<1>3. Handled(c) = {} /\ Swapped(c) = {}
  BY DEF IInv, Handled, Swapped, CallsOn, StartWithoutProposal, TaskBegun, Begun
<1>4. \A u \in Calls : Handled(u)' = Handled(u)
  BY DEF IInv, TypeOK, Handled, StartWithoutProposal, CallsOn, Busy
<1>5. \A u \in Calls : Swapped(u)' = Swapped(u)
  BY DEF IInv, TypeOK, StartWithoutProposal, Swapped, CallsOn, UnsentIsBlank
<1>6. crowded' = crowded
  BY DEF StartWithoutProposal
<1>. QED
  BY <1>1, <1>2, <1>3, <1>4, <1>5, <1>6 DEF Agreement!Refuse, Agreement!Write

(* The handler of a proposal is the only one of its task.                    *)
LEMMA RejectProposalStep ==
  ASSUME IInv, NEW c \in Calls, RejectProposal(c)
  PROVE  Agreement!Refuse(c)
<1>1. msg[c].task = c /\ pc[c] = "deciding" /\ ~ Closed(c)
  BY DEF IInv, RejectProposal, Deciding, ProposalIsFirst, Closed, Ended
<1>2. Outcome(c) = "open" /\ Outcome(c)' = "refused"
  BY <1>1 DEF IInv, TypeOK, RejectProposal, Outcome, Begun, Closed, Ended, States
<1>3. \A u \in Calls \ {c} : Outcome(u)' = Outcome(u)
  BY DEF IInv, TypeOK, RejectProposal, Deciding, Outcome, Begun
<1>4. c \in Handled(c) \ Swapped(c)
  BY <1>1, DecidingIsUnswapped DEF Handled, Swapped, CallsOn, Busy
<1>5. /\ Handled(c)' = Handled(c) \ {c}
      /\ \A u \in Calls \ {c} : Handled(u)' = Handled(u)
  BY <1>1 DEF IInv, TypeOK, RejectProposal, Handled, CallsOn, Busy
<1>6. \A u \in Calls : Swapped(u)' = Swapped(u)
  BY DEF IInv, TypeOK, RejectProposal, Deciding, Swapped, CallsOn
<1>7. Swapped(c) = {}
  BY <1>1, <1>4
  DEF IInv, ProposalIsFirst, CallsOn, RejectProposal, Deciding, Swapped
<1>8. crowded' = crowded
  BY DEF RejectProposal
<1>. QED
  BY <1>2, <1>3, <1>4, <1>5, <1>6, <1>7, <1>8 DEF Agreement!Refuse, Agreement!Finish

(* A message from outside refuses an open task before those that swapped for *)
(* it are answered.                                                          *)
LEMMA SendRejectStep ==
  ASSUME IInv, NEW c \in Calls, NEW t \in Calls, NEW kind \in Kinds, SendReject(c, t, kind)
  PROVE  Agreement!Refuse(t)
<1>1. ~ Closed(t) /\ Begun(t) /\ pc[c] = "unsent"
  BY DEF SendReject, Sent, MayWrite, Delivered
<1>2. Outcome(t) = "open" /\ Outcome(t)' = "refused"
  BY <1>1 DEF IInv, TypeOK, SendReject, Sent, Outcome, Begun, Closed, Ended, States
<1>3. \A u \in Calls \ {t} : Outcome(u)' = Outcome(u)
  BY <1>1 DEF IInv, TypeOK, SendReject, Sent, Outcome, Begun, UnsentIsBlank, TaskBegun
<1>4. \A u \in Calls : Handled(u)' = Handled(u)
  BY <1>1 DEF IInv, TypeOK, SendReject, Sent, Handled, CallsOn, Busy
<1>5. \A u \in Calls : Swapped(u)' = Swapped(u)
  BY <1>1 DEF IInv, TypeOK, SendReject, Sent, Swapped, CallsOn, UnsentIsBlank
<1>6. Swapped(t) \subseteq Handled(t) /\ Waiting(t) = Handled(t)
  BY <1>1, OpenSwaps, WaitingIsHandled
<1>7. crowded' = IF Handled(t) = {} THEN crowded ELSE crowded \cup {t}
  BY <1>6 DEF SendReject, Delivered, Write
<1>. QED
  BY <1>2, <1>3, <1>4, <1>5, <1>6, <1>7 DEF Agreement!Refuse, Agreement!Write

LEMMA CancelStep ==
  ASSUME IInv, NEW t \in Calls, Cancel(t)
  PROVE  Agreement!Refuse(t)
<1>1. ~ Closed(t) /\ Begun(t)
  BY DEF Cancel, MayWrite
<1>2. Outcome(t) = "open" /\ Outcome(t)' = "refused"
  BY <1>1 DEF IInv, TypeOK, Cancel, Publish, Outcome, Begun, Closed, Ended, States
<1>3. \A u \in Calls \ {t} : Outcome(u)' = Outcome(u)
  BY <1>1 DEF IInv, TypeOK, Cancel, Publish, Outcome, Begun
<1>4. \A u \in Calls : Handled(u)' = Handled(u) /\ Swapped(u)' = Swapped(u)
  BY DEF Cancel, Handled, Swapped, CallsOn, Busy
<1>5. Swapped(t) \subseteq Handled(t) /\ Waiting(t) = Handled(t)
  BY <1>1, OpenSwaps, WaitingIsHandled
<1>6. crowded' = IF Handled(t) = {} THEN crowded ELSE crowded \cup {t}
  BY <1>5 DEF Cancel, Write
<1>. QED
  BY <1>2, <1>3, <1>4, <1>5, <1>6 DEF Agreement!Refuse, Agreement!Write

(* A message that is taken joins the calls that are handled on its task.     *)
LEMMA TakeStep ==
  ASSUME IInv, NEW c \in Calls, NEW t \in Calls, NEW kind \in Kinds, Sent(c, t, kind),
         ~ Closed(t), Write(t), UNCHANGED <<state, leg>>,
         \E stage \in {"deciding", "settling"} : pc' = [pc EXCEPT ![c] = stage]
  PROVE  Agreement!Take(t, c)
<1>1. Begun(t) /\ pc[c] = "unsent" /\ c # t
  BY DEF Sent, MayWrite, Begun
<1>2. \A u \in Calls : Outcome(u)' = Outcome(u)
  BY <1>1 DEF IInv, TypeOK, Sent, Outcome, Begun, UnsentIsBlank, TaskBegun
<1>3. Outcome(t) = "open"
  BY <1>1 DEF IInv, TypeOK, Outcome, Closed, Ended, States
<1>4. c \notin Handled(t) /\ c \notin Swapped(t)
  BY <1>1 DEF Handled, Swapped, CallsOn
<1>5. Handled(t)' = Handled(t) \cup {c}
  BY <1>1 DEF IInv, TypeOK, Sent, Handled, CallsOn, Busy
<1>6. \A u \in Calls \ {t} : Handled(u)' = Handled(u)
  BY <1>1 DEF IInv, TypeOK, Sent, Handled, CallsOn, Busy
<1>7. \A u \in Calls : Swapped(u)' = Swapped(u)
  BY <1>1 DEF IInv, TypeOK, Sent, Swapped, CallsOn, UnsentIsBlank
<1>8. crowded' = IF Handled(t) = {} THEN crowded ELSE crowded \cup {t}
  BY WaitingIsHandled DEF Write
<1>. QED
  BY <1>2, <1>3, <1>4, <1>5, <1>6, <1>7, <1>8 DEF Agreement!Take, Agreement!Write

LEMMA SendAcceptStep ==
  ASSUME IInv, NEW c \in Calls, NEW t \in Calls, SendAccept(c, t)
  PROVE  Agreement!Take(t, c)
<1>. QED BY TakeStep DEF SendAccept, Delivered, Kinds

LEMMA SendCounterStep ==
  ASSUME IInv, NEW c \in Calls, NEW t \in Calls, SendCounter(c, t)
  PROVE  Agreement!Take(t, c)
<1>1. \E stage \in {"deciding", "settling"} : pc' = [pc EXCEPT ![c] = stage]
  BY DEF SendCounter
<1>. QED BY <1>1, TakeStep DEF SendCounter, Delivered, Kinds

(* What the end of a handler changes: one call less is handled on its task.  *)
LEMMA EndsHandled ==
  ASSUME IInv, NEW c \in Calls, NEW t \in Calls, t = msg[c].task, Busy(c),
         pc' = [pc EXCEPT ![c] = "ended"], UNCHANGED <<msg, leg>>
  PROVE  /\ c \in Handled(t) /\ Handled(t)' = Handled(t) \ {c}
         /\ \A u \in Calls \ {t} : Handled(u)' = Handled(u)
         /\ \A u \in Calls : Swapped(u)' = Swapped(u)
<1>1. c \in Handled(t)
  BY DEF Handled, CallsOn, Busy
<1>2. Handled(t)' = Handled(t) \ {c}
  BY DEF IInv, TypeOK, Handled, CallsOn, Busy
<1>3. \A u \in Calls \ {t} : Handled(u)' = Handled(u)
  BY DEF IInv, TypeOK, Handled, CallsOn, Busy
<1>4. \A u \in Calls : Swapped(u)' = Swapped(u)
  BY DEF IInv, TypeOK, Swapped, CallsOn, Busy
<1>. QED BY <1>1, <1>2, <1>3, <1>4

(* A final status that comes after the first one is not heard.               *)
LEMMA UnheardStep ==
  ASSUME IInv, NEW c \in Calls, NEW t \in Calls, t = msg[c].task, Busy(c), Closed(t),
         NEW final, Publish(t, final),
         pc' = [pc EXCEPT ![c] = "ended"], UNCHANGED <<msg, leg, crowded>>
  PROVE  Agreement!Leave(t, c)
<1>1. \A u \in Calls : Outcome(u)' = Outcome(u)
  BY DEF IInv, TypeOK, Publish, Outcome, Begun, Busy
<1>2. Outcome(t) # "open"
  BY DEF IInv, TypeOK, Outcome, Closed, Ended, TaskBegun, Busy
<1>. QED BY <1>1, <1>2, EndsHandled DEF Agreement!Leave, Agreement!Finish

LEMMA RejectCounterStep ==
  ASSUME IInv, NEW c \in Calls, NEW t \in Calls, t = msg[c].task, RejectCounter(c)
  PROVE  Agreement!Refuse(t) \/ Agreement!Leave(t, c)
<1>1. pc[c] = "deciding" /\ Busy(c)
  BY DEF RejectCounter, Deciding, Busy
<1>2. CASE Closed(t)
  BY <1>1, <1>2, UnheardStep DEF RejectCounter, Fail
<1>3. CASE ~ Closed(t)
  <2>1. Outcome(t) = "open" /\ Outcome(t)' = "refused"
    BY <1>1, <1>3
    DEF IInv, TypeOK, RejectCounter, Fail, Publish, Outcome, Begun, TaskBegun, Closed,
        Ended, States
  <2>2. \A u \in Calls \ {t} : Outcome(u)' = Outcome(u)
    BY <1>1, <1>3 DEF IInv, TypeOK, RejectCounter, Fail, Publish, Outcome, Begun
  <2>3. /\ c \in Handled(t) /\ Handled(t)' = Handled(t) \ {c}
        /\ \A u \in Calls \ {t} : Handled(u)' = Handled(u)
        /\ \A u \in Calls : Swapped(u)' = Swapped(u)
    BY <1>1, EndsHandled DEF RejectCounter, Fail
  <2>4. c \notin Swapped(t) /\ Swapped(t) \subseteq Handled(t)
    BY <1>1, <1>3, DecidingIsUnswapped, OpenSwaps DEF Swapped
  <2>5. Swapped(t) # {} => t \in crowded
    BY <2>3, <2>4 DEF IInv, OneAtATime, Handled, CallsOn
  <2>6. crowded' = crowded
    BY DEF RejectCounter, Fail
  <2>7. Agreement!Finish(t, c)
    BY <2>3 DEF Agreement!Finish
  <2>8. \E d \in Handled(t) \ Swapped(t) : Agreement!Finish(t, d)
    BY <2>3, <2>4, <2>7
  <2>. QED
    BY <2>1, <2>2, <2>3, <2>4, <2>5, <2>6, <2>8 DEF Agreement!Refuse
<1>. QED BY <1>2, <1>3

LEMMA SettleStep ==
  ASSUME IInv, NEW c \in Calls, NEW responder, NEW t \in Calls, t = msg[c].task,
         Settle(c, responder)
  PROVE  Agreement!Settle(t, c) \/ Agreement!Leave(t, c)
<1>1. Busy(c) /\ pc[c] = "settling"
  BY DEF Settle, Busy
<1>2. CASE Closed(t)
  BY <1>1, <1>2, UnheardStep DEF Settle
<1>3. CASE ~ Closed(t)
  <2>1. Outcome(t) = "open" /\ Outcome(t)' = "settled"
    BY <1>1, <1>3
    DEF IInv, TypeOK, Settle, Publish, Outcome, Begun, TaskBegun, Closed, Ended, States
  <2>2. \A u \in Calls \ {t} : Outcome(u)' = Outcome(u)
    BY <1>1, <1>3 DEF IInv, TypeOK, Settle, Publish, Outcome, Begun
  <2>3. /\ c \in Handled(t) /\ Handled(t)' = Handled(t) \ {c}
        /\ \A u \in Calls \ {t} : Handled(u)' = Handled(u)
        /\ \A u \in Calls : Swapped(u)' = Swapped(u)
    BY <1>1, EndsHandled DEF Settle
  <2>4. crowded' = crowded
    BY DEF Settle
  <2>. QED BY <2>1, <2>2, <2>3, <2>4 DEF Agreement!Settle, Agreement!Finish
<1>. QED BY <1>2, <1>3

LEMMA SwapJoins ==
  ASSUME IInv, NEW c \in Calls, NEW t \in Calls, t = msg[c].task, SendSwap(c)
  PROVE  /\ Swapped(t)' = Swapped(t) \cup {c}
         /\ \A u \in Calls \ {t} : Swapped(u)' = Swapped(u)
<1>1. Swapped(t)' = Swapped(t) \cup {c}
  BY DEF IInv, TypeOK, SendSwap, Swapped, CallsOn
<1>2. \A u \in Calls \ {t} : Swapped(u)' = Swapped(u)
  BY DEF IInv, TypeOK, SendSwap, Swapped, CallsOn
<1>. QED BY <1>1, <1>2

(* A second swap of a task is one of a crowd, and so is one after its end.   *)
LEMMA SendSwapStep ==
  ASSUME IInv, NEW c \in Calls, NEW t \in Calls, t = msg[c].task, SendSwap(c)
  PROVE  Agreement!Swap(t, c)
<1>1. pc[c] = "settling" /\ leg[c] = "none" /\ Busy(c)
  BY DEF SendSwap, Busy
<1>2. \A u \in Calls : Outcome(u)' = Outcome(u) /\ Handled(u)' = Handled(u)
  BY DEF SendSwap, Outcome, Begun, Handled, CallsOn, Busy
<1>3. c \in Handled(t) \ Swapped(t)
  BY <1>1 DEF Handled, Swapped, CallsOn
<1>4. CASE Closed(t)
  <2>1. t \in crowded
    BY <1>1, <1>4 DEF IInv, BusyIsOpen
  <2>. QED
    BY <1>1, <1>2, <1>3, <2>1, SwapJoins DEF SendSwap, Agreement!Swap
<1>5. CASE ~ Closed(t)
  <2>1. Outcome(t) = "open"
    BY <1>1, <1>5 DEF IInv, TypeOK, Outcome, TaskBegun, Begun, Closed, Ended, States
  <2>2. Swapped(t) = {} \/ t \in crowded
    BY <1>3, <1>5, OpenSwaps DEF IInv, OneAtATime, Handled, CallsOn
  <2>. QED
    BY <1>1, <1>2, <1>3, <2>1, <2>2, SwapJoins DEF SendSwap, Agreement!Swap
<1>. QED BY <1>4, <1>5

LEMMA RestartStep ==
  ASSUME IInv, Restart PROVE Agreement!Forget
<1>1. \A u \in Calls : Outcome(u)' = IF Outcome(u) = "idle" THEN "idle" ELSE "lost"
  BY DEF IInv, TypeOK, Restart, Outcome, Begun
<1>2. \A u \in Calls : Handled(u)' = {} /\ Swapped(u)' = Swapped(u)
  BY DEF IInv, TypeOK, Restart, Handled, Swapped, CallsOn, Busy
<1>3. crowded' = crowded
  BY DEF Restart
<1>. QED BY <1>1, <1>2, <1>3 DEF Agreement!Forget

(* The accepted proposal goes on to its settlement.                          *)
LEMMA AcceptProposalStutters ==
  ASSUME IInv, NEW c \in Calls, AcceptProposal(c)
  PROVE  UNCHANGED Agreement!vars
<1>1. msg[c].task = c /\ pc[c] = "deciding" /\ state[c] = "none"
  BY DEF IInv, AcceptProposal, Deciding, ProposalIsFirst
<1>2. \A u \in Calls : Outcome(u)' = Outcome(u)
  BY <1>1 DEF IInv, TypeOK, AcceptProposal, Outcome, Begun
<1>3. \A u \in Calls : Handled(u)' = Handled(u) /\ Swapped(u)' = Swapped(u)
  BY <1>1 DEF IInv, TypeOK, AcceptProposal, Handled, Swapped, CallsOn, Busy
<1>. QED BY <1>2, <1>3, Stutters DEF AcceptProposal

LEMMA CounterProposalStep ==
  ASSUME IInv, NEW c \in Calls, CounterProposal(c)
  PROVE  Agreement!Leave(c, c)
<1>1. msg[c].task = c /\ pc[c] = "deciding" /\ state[c] = "none" /\ Busy(c)
  BY DEF IInv, CounterProposal, Deciding, ProposalIsFirst, Busy
<1>2. \A u \in Calls : Outcome(u)' = Outcome(u)
  BY <1>1 DEF IInv, TypeOK, CounterProposal, Outcome, Begun
<1>3. c \notin Swapped(c)
  BY <1>1, DecidingIsUnswapped DEF Swapped, Closed, Ended
<1>4. /\ c \in Handled(c) /\ Handled(c)' = Handled(c) \ {c}
      /\ \A u \in Calls \ {c} : Handled(u)' = Handled(u)
      /\ \A u \in Calls : Swapped(u)' = Swapped(u)
  BY <1>1, EndsHandled DEF CounterProposal
<1>. QED
  BY <1>2, <1>3, <1>4 DEF CounterProposal, Agreement!Leave, Agreement!Finish

LEMMA SendToClosedStutters ==
  ASSUME IInv, NEW c \in Calls, NEW t \in Calls, NEW kind \in Kinds, SendToClosed(c, t, kind)
  PROVE  UNCHANGED Agreement!vars
<1>1. \A u \in Calls : Outcome(u)' = Outcome(u)
  BY DEF IInv, TypeOK, SendToClosed, Sent, MayWrite, Outcome, Begun
<1>2. \A u \in Calls : Handled(u)' = Handled(u)
  BY DEF IInv, TypeOK, SendToClosed, Sent, Handled, CallsOn, Busy
<1>3. \A u \in Calls : Swapped(u)' = Swapped(u)
  BY DEF IInv, TypeOK, SendToClosed, Sent, Swapped, CallsOn, UnsentIsBlank
<1>. QED BY <1>1, <1>2, <1>3, Stutters DEF SendToClosed

LEMMA SettleCounterStutters ==
  ASSUME IInv, NEW c \in Calls, NEW action, SettleCounter(c, action)
  PROVE  UNCHANGED Agreement!vars
<1>1. \A u \in Calls : Outcome(u)' = Outcome(u)
  BY DEF IInv, TypeOK, SettleCounter, Deciding, Outcome, Begun
<1>2. \A u \in Calls : Handled(u)' = Handled(u) /\ Swapped(u)' = Swapped(u)
  BY DEF IInv, TypeOK, SettleCounter, Deciding, Handled, Swapped, CallsOn, Busy
<1>. QED BY <1>1, <1>2, Stutters DEF SettleCounter

LEMMA MineSwapStutters ==
  ASSUME IInv, NEW c \in Calls, NEW status \in {"success", "reverted"}, MineSwap(c, status)
  PROVE  UNCHANGED Agreement!vars
<1>1. \A u \in Calls : Outcome(u)' = Outcome(u)
  BY DEF MineSwap, Outcome, Begun
<1>2. \A u \in Calls : Handled(u)' = Handled(u) /\ Swapped(u)' = Swapped(u)
  BY DEF IInv, TypeOK, MineSwap, Handled, Swapped, CallsOn, Busy
<1>. QED BY <1>1, <1>2, Stutters DEF MineSwap

LEMMA AgreementNext == IInv /\ [Next]_vars => [Agreement!Next]_(Agreement!vars)
<1>. SUFFICES ASSUME IInv, [Next]_vars PROVE Agreement!Next \/ UNCHANGED Agreement!vars
  OBVIOUS
<1>. DEFINE Goal == Agreement!Next \/ UNCHANGED Agreement!vars
<1>0. ASSUME NEW c \in Calls PROVE \E t \in Calls : t = msg[c].task
  BY DEF IInv, TypeOK, Message
<1>1. CASE UNCHANGED vars
  BY <1>1, Stutters DEF vars, Outcome, Begun, Handled, Swapped, CallsOn, Busy
<1>2. ASSUME NEW c \in Calls, Send(c) PROVE Goal
  BY <1>2, ProposeStep, StartWithoutProposalStep, SendToClosedStutters, SendRejectStep,
     SendAcceptStep, SendCounterStep DEF Send, Agreement!Next
<1>3. ASSUME NEW c \in Calls, Decision(c) PROVE Goal
  BY <1>0, <1>3, RejectProposalStep, AcceptProposalStutters, CounterProposalStep,
     RejectCounterStep, SettleCounterStutters DEF Decision, Agreement!Next
<1>4. ASSUME NEW c \in Calls, Settlement(c) PROVE Goal
  BY <1>0, <1>4, SettleStep DEF Settlement, SettleWithLeg, SettleWithoutLeg, Agreement!Next
<1>5. ASSUME NEW c \in Calls, SendSwap(c) PROVE Goal
  BY <1>0, <1>5, SendSwapStep DEF Agreement!Next
<1>6. ASSUME NEW c \in Calls, NEW status \in {"success", "reverted"}, MineSwap(c, status)
      PROVE  Goal
  BY <1>6, MineSwapStutters
<1>7. ASSUME NEW c \in Calls, Cancel(c) PROVE Goal
  BY <1>7, CancelStep DEF Agreement!Next
<1>8. CASE Restart
  BY <1>8, RestartStep DEF Agreement!Next
<1>. QED BY <1>1, <1>2, <1>3, <1>4, <1>5, <1>6, <1>7, <1>8 DEF Next

(* The handlers implement the agreement: every task is settled or refused    *)
(* for good; only calls taken while it was open swap for it, and one alone,  *)
(* and none if it is refused, unless somebody wrote while a call waited.     *)
THEOREM AgreementImplemented == Spec => ImplementsAgreement
<1>. QED
  BY NegotiationInvariant, AgreementInit, AgreementNext, PTL
  DEF Spec, ImplementsAgreement, Agreement!Spec

=============================================================================

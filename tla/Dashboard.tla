------------------------------ MODULE Dashboard ------------------------------
(***************************************************************************)
(* One browser on the observer: it polls the whole snapshot over HTTP, and *)
(* applies the events of a socket to what it shows. Polls are requests of  *)
(* their own, so an answer may be old when it arrives.                     *)
(***************************************************************************)
EXTENDS ObserverStore

CONSTANTS
  Polls,           \* poll requests that may be under way at once
  SnapshotEvents,  \* events in a snapshot
  EventBuffer,     \* EVENT_BUFFER
  ShockCap,        \* shocks shown
  MaxDrops         \* bound on lost connections and failed polls

ASSUME DashboardAssumption == {SnapshotEvents, EventBuffer, ShockCap, MaxDrops} \subseteq Nat

VARIABLES
  poll,            \* the answer each request brings, once it was served
  open,            \* the server has the socket in clients
  channel,         \* messages on the way: snapshots and events
  view,            \* what is shown, once there is something
  streamed,        \* history: since its snapshot only the socket changed the view
  drops

clientVars == <<poll, open, channel, view, streamed, drops>>
vars == <<storeVars, clientVars>>

None == <<>>

Init ==
  /\ StoreInit
  /\ poll = [p \in Polls |-> None]
  /\ open = FALSE
  /\ channel = <<>>
  /\ view = None
  /\ streamed = FALSE
  /\ drops = 0

-----------------------------------------------------------------------------
(* The server                                                                *)

Served == [Snapshot EXCEPT !.events = Newest(@, SnapshotEvents)]

Message(kind, content) == [kind |-> kind, content |-> content]

(* Every event goes to the open socket.                                      *)
Streamed(step) ==
  /\ step
  /\ channel' = IF open /\ nextEventId' # nextEventId
                  THEN Append(channel, Message("event", events'[Len(events')]))
                  ELSE channel
  /\ UNCHANGED <<poll, open, view, streamed, drops>>

(* Faulty variant: the socket joins the clients without its snapshot.        *)
ConnectUnseeded ==
  /\ ~open
  /\ open' = TRUE
  /\ channel' = <<>>
  /\ streamed' = (view # None)
  /\ UNCHANGED <<storeVars, poll, view, drops>>

Connect ==
  /\ ~open
  /\ open' = TRUE
  /\ channel' = <<Message("snapshot", Served)>>
  /\ UNCHANGED <<storeVars, poll, view, streamed, drops>>

PollServed(p) ==
  /\ poll[p] = None
  /\ poll' = [poll EXCEPT ![p] = <<Served>>]
  /\ UNCHANGED <<storeVars, open, channel, view, streamed, drops>>

-----------------------------------------------------------------------------
(* The browser                                                               *)

(* The newest negotiations are shown, whatever their status.                 *)
NewestShown(views) ==
  LET Newer(t) == {u \in DOMAIN views : LastAt(views[u]) >= LastAt(views[t])}
      shown == {t \in DOMAIN views : Cardinality(Newer(t)) <= NegotiationCap}
  IN [t \in shown |-> views[t]]

NewestOf(ids, n) == {i \in ids : Cardinality({j \in ids : j >= i}) <= n}

(* applyEventToSnapshot: rounds, swaps, shocks and reflections are applied;  *)
(* any other event is listed, and its values come with a snapshot.           *)
WithEvent(shown, event) ==
  LET listed == [shown EXCEPT !.events = Newest(Append(@, event), EventBuffer)]
  IN CASE event.kind = "negotiation_round" ->
            [listed EXCEPT !.negotiations =
               NewestShown(WithRound(event.payload.task, event.payload.stage, event.id, @))]
       [] event.kind = "swap_executed" ->
            [listed EXCEPT !.swaps = Newest(Append(@, event.id), SwapCap)]
       [] event.kind = "shock_injected" ->
            [listed EXCEPT !.shocks = NewestOf(@ \cup {event.id}, ShockCap)]
       [] event.kind = "reflection" -> [listed EXCEPT !.latest["reflection"] = event.id]
       [] OTHER -> listed

(* onmessage. An event that finds no snapshot is listed only, and its list   *)
(* goes when the first snapshot comes.                                       *)
Received(shown, message) ==
  IF message.kind = "snapshot" THEN <<message.content>>
  ELSE IF shown = None THEN None
  ELSE <<WithEvent(shown[1], message.content)>>

Deliver ==
  /\ channel # <<>>
  /\ view' = Received(view, Head(channel))
  /\ channel' = Tail(channel)
  /\ streamed' = (streamed \/ Head(channel).kind = "snapshot")
  /\ UNCHANGED <<storeVars, poll, open, drops>>

(* Faulty variant: only the first paint is polled for.                       *)
PollArrivesFirst(p) ==
  /\ poll[p] # None
  /\ view' = IF view = None THEN poll[p] ELSE view
  /\ poll' = [poll EXCEPT ![p] = None]
  /\ streamed' = FALSE
  /\ UNCHANGED <<storeVars, open, channel, drops>>

PollArrives(p) ==
  /\ poll[p] # None
  /\ view' = poll[p]
  /\ poll' = [poll EXCEPT ![p] = None]
  /\ streamed' = FALSE
  /\ UNCHANGED <<storeVars, open, channel, drops>>

PollFails(p) ==
  /\ poll[p] # None
  /\ drops < MaxDrops /\ drops' = drops + 1
  /\ poll' = [poll EXCEPT ![p] = None]
  /\ UNCHANGED <<storeVars, open, channel, view, streamed>>

(* The socket closes; what was on the way is lost. The browser connects      *)
(* again after two seconds.                                                  *)
Disconnect ==
  /\ open
  /\ drops < MaxDrops /\ drops' = drops + 1
  /\ open' = FALSE
  /\ channel' = <<>>
  /\ streamed' = FALSE
  /\ UNCHANGED <<storeVars, poll, view>>

-----------------------------------------------------------------------------
Next ==
  \/ Streamed(StoreNext) \/ Connect \/ Deliver \/ Disconnect
  \/ \E p \in Polls : PollServed(p) \/ PollArrives(p) \/ PollFails(p)

Spec == Init /\ [][Next]_vars

(* The observer's interval, the browser's interval and its reconnection go   *)
(* on; what is sent arrives. Nothing is assumed of telemetry.                *)
Poll(p) == PollServed(p) \/ PollArrives(p)

FairSpec ==
  /\ Spec
  /\ WF_vars(Streamed(HydrateFromMemory))
  /\ WF_vars(Streamed(LoadInfts))
  /\ WF_vars(Streamed(UpdateMesh))
  /\ WF_vars(Connect) /\ WF_vars(Deliver)
  /\ \A p \in Polls : WF_vars(Poll(p))

-----------------------------------------------------------------------------
(* What a browser that shows `shown` comes to show with the messages.        *)
AfterAll(shown, messages) ==
  LET after[n \in 0..Len(messages)] ==
        IF n = 0 THEN shown ELSE Received(after[n - 1], messages[n])
  IN after[Len(messages)]

(* A browser that only listened since the socket's snapshot misses nothing   *)
(* and doubles nothing: with what is still on the way it shows the store's   *)
(* swaps, reflections and last events.                                       *)
StreamIsComplete ==
  streamed /\ open =>
    LET end == AfterAll(view, channel)[1]
        last == Least(Len(end.events), Len(events))
    IN /\ end.swaps = swaps
       /\ end.latest["reflection"] = latest["reflection"]
       /\ Newest(end.events, last) = Newest(events, last)

(* In the end the browser shows what there is: the store's content, and the  *)
(* state of the files and of the mesh with the health that follows from it,  *)
(* whatever polls crossed the stream.                                        *)
Truth ==
  [Served EXCEPT !.known = world,
                 !.health = [memory |-> world["memory"], indicator |-> latest["indicator"]]]

Converges == <>[](view = <<Truth>>)

=============================================================================

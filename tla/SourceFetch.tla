----------------------------- MODULE SourceFetch -----------------------------
(***************************************************************************)
(* One refresh of one source of the data plane: workers that share a       *)
(* cursor over the items, the series asked for each item, the source's     *)
(* rate limiter before each request, and the retries after it. The callers *)
(* of the limiter are the workers.                                         *)
(***************************************************************************)
EXTENDS RateLimiter

CONSTANTS
  ItemCount,       \* FRED's states, BLS's batches of 25 series, BEA's tables
  SeriesCount,     \* FRED's series for each state
  RetryDelays,     \* RETRY_DELAYS_MS.length
  MaxFailures      \* bound on requests that fail

ASSUME FetchAssumption ==
  /\ Requesters = {1, 2}
  /\ ItemCount \in Nat \ {0} /\ SeriesCount \in Nat \ {0} /\ RetryDelays \in Nat
  /\ MaxFailures \in Nat

Items == 1..ItemCount
Series == 1..SeriesCount
Tasks == Items \X Series

Sources == {"fred", "bls", "bea", "census", "noaa"}

(* Census and NOAA are one request; only FRED asks several series of an item *)
(* and runs two workers, the others ask one thing after another.             *)
ItemsOf(s) == IF s \in {"census", "noaa"} THEN {1} ELSE Items
SeriesOf(s) == IF s = "fred" THEN Series ELSE {1}
Workers == Requesters
WorkersOf(s) == IF s = "fred" /\ ItemCount > 1 THEN Workers ELSE {1}

VARIABLES
  source,          \* whose refresh this is
  next,            \* the workers' cursor
  pc,              \* "next", "acquire", "fetch", "delay", "done" per worker
  item, series,    \* what a worker asks for
  attempt,
  failures,
  outcome,         \* what came of each item and series
  requests         \* history: requests made for each item and series

working == <<next, pc, item, series, attempt, failures, outcome, requests>>
fetchVars == <<source, working, limiterVars>>

FetchInit ==
  /\ source \in Sources
  /\ next = 1
  /\ pc = [w \in Workers |-> IF w \in WorkersOf(source) THEN "next" ELSE "done"]
  /\ item = [w \in Workers |-> 1]
  /\ series = [w \in Workers |-> 1]
  /\ attempt = [w \in Workers |-> 0]
  /\ failures = 0
  /\ LimiterInit
  /\ outcome = [t \in Tasks |-> "none"]
  /\ requests = [t \in Tasks |-> 0]

Task(w) == <<item[w], series[w]>>

(* Faulty variant: the workers read the cursor before they move it.          *)
TakeRaced(w) ==
  /\ pc[w] = "next" /\ next \in ItemsOf(source)
  /\ next' = IF \E v \in Workers \ {w} : pc[v] = "next" THEN next ELSE next + 1
  /\ pc' = [pc EXCEPT ![w] = "acquire"]
  /\ item' = [item EXCEPT ![w] = next]
  /\ series' = [series EXCEPT ![w] = 1]
  /\ attempt' = [attempt EXCEPT ![w] = 0]
  /\ Acquire(w)
  /\ UNCHANGED <<source, failures, outcome, requests>>

(* A worker takes the next item; with none left it returns.                  *)
Take(w) ==
  /\ pc[w] = "next"
  /\ next' = next + 1
  /\ IF next \notin ItemsOf(source)
       THEN /\ pc' = [pc EXCEPT ![w] = "done"]
            /\ UNCHANGED <<item, series, attempt, limiterVars>>
       ELSE /\ pc' = [pc EXCEPT ![w] = "acquire"]
            /\ item' = [item EXCEPT ![w] = next]
            /\ series' = [series EXCEPT ![w] = 1]
            /\ attempt' = [attempt EXCEPT ![w] = 0]
            /\ Acquire(w)
  /\ UNCHANGED <<source, failures, outcome, requests>>

(* The limiter lets its oldest caller go, who sends its request; or it sets  *)
(* its timer, or time passes.                                                *)
Limit ==
  /\ LimiterStep
  /\ IF chain' = chain
       THEN UNCHANGED working
       ELSE LET w == Head(chain)
            IN /\ pc' = [pc EXCEPT ![w] = "fetch"]
               /\ requests' = [requests EXCEPT ![Task(w)] = @ + 1]
               /\ UNCHANGED <<next, item, series, attempt, failures, outcome>>
  /\ UNCHANGED source

(* Faulty variant: an error of one series ends its item.                     *)
SettleItem(w, result) ==
  /\ outcome' = [outcome EXCEPT ![Task(w)] = result]
  /\ pc' = [pc EXCEPT ![w] = "next"]
  /\ UNCHANGED <<source, next, item, series, attempt, requests, limiterVars>>

(* A series is done: the next one of the item, or the next item.             *)
Settle(w, result) ==
  /\ outcome' = [outcome EXCEPT ![Task(w)] = result]
  /\ IF series[w] + 1 \in SeriesOf(source)
       THEN /\ series' = [series EXCEPT ![w] = @ + 1]
            /\ attempt' = [attempt EXCEPT ![w] = 0]
            /\ pc' = [pc EXCEPT ![w] = "acquire"]
            /\ Acquire(w)
       ELSE /\ pc' = [pc EXCEPT ![w] = "next"]
            /\ UNCHANGED <<series, attempt, limiterVars>>
  /\ UNCHANGED <<source, next, item, requests>>

Retry(w) ==
  /\ pc' = [pc EXCEPT ![w] = "delay"]
  /\ UNCHANGED <<source, next, item, series, attempt, outcome, requests, limiterVars>>

(* What may come of a request: an answer, which has a value or none (a 400,  *)
(* a '.', no row), a busy one (429, 5xx), or another failure, a refused      *)
(* connection and an error page included.                                    *)
Answered(w, answer, retryable) ==
  /\ pc[w] = "fetch"
  /\ \/ /\ answer = "answered"
        /\ Settle(w, answer)
        /\ UNCHANGED failures
     \/ /\ answer \in {"busy", "failed"}
        /\ failures < MaxFailures /\ failures' = failures + 1
        /\ IF answer \in retryable /\ attempt[w] < RetryDelays
             THEN Retry(w)
             ELSE Settle(w, "error")

(* FRED, BLS and BEA retry a busy answer and give up on any other failure.   *)
FredAnswer(w, answer) == source = "fred" /\ Answered(w, answer, {"busy"})
BlsAnswer(w, answer) == source = "bls" /\ Answered(w, answer, {"busy"})
BeaAnswer(w, answer) == source = "bea" /\ Answered(w, answer, {"busy"})

(* Census and NOAA catch every failure inside the loop and retry it.         *)
CensusAnswer(w, answer) == source = "census" /\ Answered(w, answer, {"busy", "failed"})
NoaaAnswer(w, answer) == source = "noaa" /\ Answered(w, answer, {"busy", "failed"})

Answer(w) ==
  \E a \in {"answered", "busy", "failed"} :
    FredAnswer(w, a) \/ BlsAnswer(w, a) \/ BeaAnswer(w, a)
      \/ CensusAnswer(w, a) \/ NoaaAnswer(w, a)

(* Faulty variant: the limiter is asked once, before the retries.            *)
DelayOverUnasked(w) ==
  /\ pc[w] = "delay"
  /\ attempt' = [attempt EXCEPT ![w] = @ + 1]
  /\ pc' = [pc EXCEPT ![w] = "acquire"]
  /\ UNCHANGED <<source, next, item, series, failures, outcome, requests, limiterVars>>

DelayOver(w) ==
  /\ pc[w] = "delay"
  /\ attempt' = [attempt EXCEPT ![w] = @ + 1]
  /\ pc' = [pc EXCEPT ![w] = "acquire"]
  /\ Acquire(w)
  /\ UNCHANGED <<source, next, item, series, failures, outcome, requests>>

Work(w) == Take(w) \/ Answer(w) \/ DelayOver(w)

FetchNext == Limit \/ \E w \in Workers : Work(w)

(* Requests end, timers fire, time passes.                                   *)
FetchSpec == FetchInit /\ [][FetchNext]_fetchVars
FetchFairSpec == FetchSpec /\ WF_fetchVars(Limit) /\ \A w \in Workers : WF_fetchVars(Work(w))

-----------------------------------------------------------------------------
Finished == \A w \in Workers : pc[w] = "done"

(* The source returns with everything it asks for settled, whatever failed,  *)
(* and asked for at least once and within its retries: nothing is lost       *)
(* between its workers, nothing done over.                                   *)
AllSettled ==
  Finished => \A t \in ItemsOf(source) \X SeriesOf(source) :
                outcome[t] # "none" /\ requests[t] \in 1..(RetryDelays + 1)

(* What is settled is settled: no worker asks for it again, nor puts another *)
(* outcome over it.                                                          *)
SettledOnce ==
  [][\A t \in Tasks :
       outcome[t] # "none" => outcome'[t] = outcome[t] /\ requests'[t] = requests[t]]_fetchVars

(* A refresh of a source always returns.                                     *)
Returns == <>Finished

=============================================================================

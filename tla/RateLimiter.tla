----------------------------- MODULE RateLimiter -----------------------------
(***************************************************************************)
(* TokenBucket of the data plane: one promise chain that lets its callers  *)
(* go in the order they asked, at an interval. Time is a counter of the    *)
(* event loop: a timer fires at its time or later, never before.           *)
(***************************************************************************)
EXTENDS Integers, Sequences

CONSTANTS
  Requesters,         \* calls of acquire()
  MinIntervalMs,   \* 1000 / ratePerSec, in units of the clock
  MaxLate          \* bound on the clock: how late a timer fires

ASSUME LimiterAssumption == MinIntervalMs \in Nat /\ MaxLate \in Nat

VARIABLES
  now,              \* Date.now()
  nextAvailableAt,  \* of the bucket
  chain,            \* callers that wait for the promise before theirs
  sleeping,         \* the caller at the head has set its timer
  entered,          \* its `now`, read before it slept
  resolved          \* history: who was let go, when, and for which slot

limiterVars == <<now, nextAvailableAt, chain, sleeping, entered, resolved>>

LimiterTypeOK ==
  /\ now \in Nat /\ nextAvailableAt \in Nat /\ entered \in Nat
  /\ chain \in Seq(Requesters)
  /\ sleeping \in BOOLEAN
  /\ resolved \in Seq(Nat)

LimiterInit ==
  /\ now = 0
  /\ nextAvailableAt = 0
  /\ chain = <<>>
  /\ sleeping = FALSE
  /\ entered = 0
  /\ resolved = <<>>

Later(a, b) == IF a > b THEN a ELSE b

(* acquire(): the caller appends its link to the chain.                      *)
Acquire(c) ==
  /\ chain' = Append(chain, c)
  /\ UNCHANGED <<now, nextAvailableAt, sleeping, entered, resolved>>

(* Faulty variant: the next slot follows the clock the link read.            *)
ResolveFromClock(read) ==
  /\ nextAvailableAt' = read + MinIntervalMs
  /\ resolved' = Append(resolved, now)
  /\ chain' = Tail(chain)
  /\ sleeping' = FALSE
  /\ entered' = 0

(* The end of a link that read the clock at `read`: the next slot follows    *)
(* the clock that was read, or the slot it waited for, whichever is later.   *)
Resolve(read) ==
  /\ nextAvailableAt' = Later(read, nextAvailableAt) + MinIntervalMs
  /\ resolved' = Append(resolved, now)
  /\ chain' = Tail(chain)
  /\ sleeping' = FALSE
  /\ entered' = 0

(* A link starts when the one before it is resolved, and reads the clock.    *)
(* It resolves at once when its slot has come, and sets a timer otherwise.   *)
Start ==
  /\ chain # <<>> /\ ~sleeping
  /\ IF nextAvailableAt > now
       THEN /\ sleeping' = TRUE
            /\ entered' = now
            /\ UNCHANGED <<nextAvailableAt, chain, resolved>>
       ELSE Resolve(now)
  /\ UNCHANGED now

(* The timer fires, at nextAvailableAt or later.                             *)
Wake ==
  /\ sleeping
  /\ now >= nextAvailableAt
  /\ Resolve(entered)
  /\ UNCHANGED now

Advance ==
  /\ now < nextAvailableAt + MaxLate
  /\ now' = now + 1
  /\ UNCHANGED <<nextAvailableAt, chain, sleeping, entered, resolved>>

LimiterStep == Start \/ Wake \/ Advance

LimiterNext == LimiterStep \/ \E c \in Requesters : Acquire(c)

LimiterSpec == LimiterInit /\ [][LimiterNext]_limiterVars

-----------------------------------------------------------------------------
(* What the rate of a source comes to: between two releases with k others    *)
(* between them at least k intervals pass, however late the timers fire, so  *)
(* a window of n intervals sees at most n + 2 requests.                      *)
BoundedRate ==
  \A i, j \in 1..Len(resolved) :
    i < j => resolved[j] - resolved[i] >= (j - i - 1) * MinIntervalMs

(* rate-limit.ts 11-15: consecutive resolutions are an interval apart. It is *)
(* the slots that are; a late timer's successor is not delayed by as much.   *)
MinInterval ==
  \A i \in 1..(Len(resolved) - 1) :
    resolved[i + 1] - resolved[i] >= MinIntervalMs

=============================================================================

------------------------------ MODULE DataPlane ------------------------------
(***************************************************************************)
(* The data plane's process: the refreshes of RefreshScheduler, by its own *)
(* loop and by POST /refresh, the snapshot and the shock cache, their      *)
(* write queues and files, and restarts.                                   *)
(*                                                                         *)
(* An observation is its source and the release of the source it was read  *)
(* from. A snapshot is a function of the indicators it has, a cache one of *)
(* the states it has; the shocks have one entry, the release they are of.  *)
(***************************************************************************)
EXTENDS Naturals, Sequences

CONSTANTS
  States,
  Order,           \* the sources whose keys are set, in the order of refreshOnce
  KindsOf,         \* the indicators of each
  MaxRelease,      \* bound on what the sources publish
  MaxManual,       \* bound on POST /refresh
  MaxQueued,       \* bound on the flushes that wait in a queue
  MaxFaults        \* bound on restarts and failed writes

ASSUME DataPlaneAssumption ==
  /\ Order \in Seq({"fred", "bls", "bea", "census"}) /\ Order # <<>>
  /\ \A i \in 1..Len(Order) : Order[i] \in DOMAIN KindsOf
  /\ MaxRelease \in Nat /\ MaxManual \in Nat /\ MaxFaults \in Nat
  /\ MaxQueued \in Nat \ {0}

Caches == {"snapshots", "shocks"}
Callers == {"loop", "manual"}
Empty == <<>>      \* a cache or a snapshot without entries

VARIABLES
  release,         \* of the sources, in the world outside
  mem,             \* the caches: their maps
  disk,            \* their files: not there, half-written, or whole
  queued,          \* flushes that wait in writeQueue
  writing,         \* the payload of a running write, if there is one
  failed,          \* history: the last write failed
  stage,           \* how far the refresh of each caller is
  merged,          \* its stateSnapshots
  inflight,
  timer,           \* the scheduler's: armed
  manuals,
  faults

refreshing == <<stage, merged, inflight, timer, manuals>>
files == <<disk, queued, writing, failed>>
vars == <<release, mem, files, refreshing, faults>>

File(state, content) == [state |-> state, content |-> content]

Idle == 0
Noaa == Len(Order) + 1

Init ==
  /\ release = 0
  /\ mem = [c \in Caches |-> Empty]
  /\ disk = [c \in Caches |-> File("absent", Empty)]
  /\ queued = [c \in Caches |-> 0]
  /\ writing = [c \in Caches |-> <<>>]
  /\ failed = [c \in Caches |-> FALSE]
  /\ stage = [r \in Callers |-> Idle]
  /\ merged = [r \in Callers |-> Empty]
  /\ inflight = FALSE
  /\ timer = TRUE
  /\ manuals = 0
  /\ faults = 0

Faulty == faults < MaxFaults /\ faults' = faults + 1

Publish ==
  /\ release < MaxRelease
  /\ release' = release + 1
  /\ UNCHANGED <<mem, files, refreshing, faults>>

-----------------------------------------------------------------------------
(* refreshOnce()                                                             *)

(* { ...below, ...above }                                                    *)
Over(above, below) ==
  [x \in DOMAIN above \cup DOMAIN below |->
     IF x \in DOMAIN above THEN above[x] ELSE below[x]]

(* Faulty variant: a running write is taken to write the change as well.     *)
ScheduleUnlessWriting(c) ==
  queued' = IF writing[c] = <<>> THEN [queued EXCEPT ![c] = 1] ELSE queued

(* The caches' maps change, and a flush is chained to the write queue.       *)
ScheduleFlush(c) == queued[c] < MaxQueued /\ queued' = [queued EXCEPT ![c] = @ + 1]

SetMany(snapshots) ==
  /\ mem' = [mem EXCEPT !["snapshots"] = Over(snapshots, @)]
  /\ ScheduleFlush("snapshots")

SetAll(events) ==
  /\ mem' = [mem EXCEPT !["shocks"] = events]
  /\ ScheduleFlush("shocks")

(* Faulty variant: refreshes may overlap.                                    *)
BeginUnguarded(r) ==
  /\ inflight' = TRUE
  /\ stage' = [stage EXCEPT ![r] = 1]
  /\ merged' = [merged EXCEPT ![r] = Empty]

(* A refresh that finds another one in flight returns at once.               *)
Begin(r) ==
  IF inflight
    THEN UNCHANGED <<stage, merged, inflight>>
    ELSE /\ inflight' = TRUE
         /\ stage' = [stage EXCEPT ![r] = 1]
         /\ merged' = [merged EXCEPT ![r] = Empty]

(* Faulty variant: a refresh that was skipped does not arm the timer again.  *)
TickOnce ==
  /\ timer /\ stage["loop"] = Idle
  /\ Begin("loop")
  /\ timer' = FALSE
  /\ UNCHANGED <<release, mem, files, manuals, faults>>

(* The loop's timer fires; it is armed again when its refresh returns, which *)
(* is at once if another one is in flight.                                   *)
Tick ==
  /\ timer /\ stage["loop"] = Idle
  /\ Begin("loop")
  /\ timer' = inflight
  /\ UNCHANGED <<release, mem, files, manuals, faults>>

(* POST /refresh.                                                            *)
Manual ==
  /\ stage["manual"] = Idle
  /\ manuals < MaxManual
  /\ manuals' = manuals + 1
  /\ Begin("manual")
  /\ UNCHANGED <<release, mem, files, timer, faults>>

(* What a source may answer: observations of its kinds for some states. Any  *)
(* part of them can be missing, for errors are collected and not thrown.     *)
(* FRED returns a snapshot for every state, with what it got; the others     *)
(* return the states they have something for.                                *)
Observation(source) == [source |-> source, release |-> release]

FoundBy(source) ==
  UNION {[D -> UNION {[K -> {Observation(source)}] :
                        K \in (SUBSET KindsOf[source]) \ {{}}}] : D \in SUBSET States}

FredSnapshots ==
  [States -> UNION {[K -> {Observation("fred")}] : K \in SUBSET KindsOf["fred"]}]

SourceAnswers(source) == IF source = "fred" THEN FredSnapshots ELSE FoundBy(source)

(* mergeIntoStateSnapshots: the later source's indicators on top.            *)
MergeInto(target, found) ==
  [s \in DOMAIN target \cup DOMAIN found |->
     IF s \notin DOMAIN found THEN target[s]
     ELSE IF s \notin DOMAIN target THEN found[s]
     ELSE Over(found[s], target[s])]

(* The await of one source and what follows it up to the next await: after   *)
(* the last of them the merged snapshots go to the cache.                    *)
Fetch(r) ==
  /\ stage[r] \in 1..Len(Order)
  /\ \E found \in SourceAnswers(Order[stage[r]]) :
       LET all == MergeInto(merged[r], found)
       IN IF stage[r] < Len(Order)
            THEN /\ merged' = [merged EXCEPT ![r] = all]
                 /\ UNCHANGED <<mem, queued>>
            ELSE /\ merged' = [merged EXCEPT ![r] = Empty]
                 /\ IF all = Empty THEN UNCHANGED <<mem, queued>> ELSE SetMany(all)
  /\ stage' = [stage EXCEPT ![r] = @ + 1]
  /\ UNCHANGED <<release, disk, writing, failed, inflight, timer, manuals, faults>>

(* fetchNoaaActiveShocks returns no events when NOAA fails, and no error is  *)
(* thrown: the shock cache is replaced by what it returned. Then the refresh *)
(* is over, and the loop arms its timer if it was its own.                   *)
FetchNoaa(r) ==
  /\ stage[r] = Noaa
  /\ \E events \in {[active |-> release], Empty} : SetAll(events)
  /\ stage' = [stage EXCEPT ![r] = Idle]
  /\ inflight' = FALSE
  /\ timer' = (timer \/ r = "loop")
  /\ UNCHANGED <<release, disk, writing, failed, merged, manuals, faults>>

-----------------------------------------------------------------------------
(* The write queues. A flush reads the map when its turn comes, and writes   *)
(* the file in place.                                                        *)
StartFlush(c) ==
  /\ queued[c] > 0 /\ writing[c] = <<>>
  /\ queued' = [queued EXCEPT ![c] = @ - 1]
  /\ writing' = [writing EXCEPT ![c] = <<mem[c]>>]
  /\ disk' = [disk EXCEPT ![c] = File("torn", Empty)]
  /\ failed' = [failed EXCEPT ![c] = FALSE]
  /\ UNCHANGED <<release, mem, refreshing, faults>>

Written(c) ==
  /\ writing[c] # <<>>
  /\ disk' = [disk EXCEPT ![c] = File("whole", Head(writing[c]))]
  /\ writing' = [writing EXCEPT ![c] = <<>>]
  /\ UNCHANGED <<release, mem, queued, failed, refreshing, faults>>

(* The error is swallowed, and the queue goes on.                            *)
WriteFails(c) ==
  /\ writing[c] # <<>>
  /\ Faulty
  /\ failed' = [failed EXCEPT ![c] = TRUE]
  /\ writing' = [writing EXCEPT ![c] = <<>>]
  /\ UNCHANGED <<release, mem, disk, queued, refreshing>>

(* The process ends, by a signal too, without awaiting its write queues, and *)
(* starts again: it reads its files, and starts the loop. A file it cannot   *)
(* parse is as good as none.                                                 *)
Hydrated(file) == IF file.state = "whole" THEN file.content ELSE Empty

Restart ==
  /\ Faulty
  /\ mem' = [c \in Caches |-> Hydrated(disk[c])]
  /\ queued' = [c \in Caches |-> 0]
  /\ writing' = [c \in Caches |-> <<>>]
  /\ stage' = [r \in Callers |-> Idle]
  /\ merged' = [r \in Callers |-> Empty]
  /\ inflight' = FALSE
  /\ timer' = TRUE
  /\ failed' = [c \in Caches |-> FALSE]
  /\ UNCHANGED <<release, disk, manuals>>

-----------------------------------------------------------------------------
Refreshes(r) == Fetch(r) \/ FetchNoaa(r)
Flush(c) == StartFlush(c) \/ Written(c)

Next ==
  \/ Publish \/ Tick \/ Manual \/ Restart
  \/ \E r \in Callers : Refreshes(r)
  \/ \E c \in Caches : Flush(c) \/ WriteFails(c)

Spec == Init /\ [][Next]_vars

(* The loop's timer fires, requests end (SourceFetch), writes end.           *)
FairSpec ==
  /\ Spec
  /\ WF_vars(Tick)
  /\ \A r \in Callers : WF_vars(Refreshes(r))
  /\ \A c \in Caches : WF_vars(Flush(c))

-----------------------------------------------------------------------------
(* With no flush waiting or running, a file holds what its cache holds,      *)
(* unless the last write of it failed.                                       *)
FileCaughtUp ==
  \A c \in Caches :
    queued[c] = 0 /\ writing[c] = <<>> /\ ~failed[c]
      => Hydrated(disk[c]) = mem[c]

(* While the process runs, no refresh replaces an observation by an older    *)
(* one of the same source, whatever refreshes are asked for at the same time.*)
OlderIn(new, old) ==
  \E s \in DOMAIN old \cap DOMAIN new : \E k \in DOMAIN old[s] \cap DOMAIN new[s] :
    /\ new[s][k].source = old[s][k].source
    /\ new[s][k].release < old[s][k].release

NeverOlder ==
  [][faults' = faults => ~OlderIn(mem'["snapshots"], mem["snapshots"])]_vars

(* The loop never stops refreshing, and no refresh hangs.                    *)
RefreshesGoOn == []<>inflight /\ []<>~inflight

Observations == [source : {"fred", "bls", "bea", "census"}, release : 0..MaxRelease]

TypeOK ==
  /\ release \in 0..MaxRelease
  /\ DOMAIN mem["snapshots"] \subseteq States
  /\ \A s \in DOMAIN mem["snapshots"] :
       \A k \in DOMAIN mem["snapshots"][s] : mem["snapshots"][s][k] \in Observations
  /\ \A e \in DOMAIN mem["shocks"] : mem["shocks"][e] \in 0..MaxRelease
  /\ queued \in [Caches -> 0..MaxQueued]
  /\ stage \in [Callers -> 0..Noaa]
  /\ inflight \in BOOLEAN /\ timer \in BOOLEAN

=============================================================================

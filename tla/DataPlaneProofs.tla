--------------------------- MODULE DataPlaneProofs ---------------------------
(***************************************************************************)
(* The data plane, for any states, sources, indicators and bounds: a file  *)
(* catches up with its cache, no refresh brings back older data, the token *)
(* bucket of a source keeps its rate, and a source loses nothing of what   *)
(* its workers ask for.                                                    *)
(***************************************************************************)
EXTENDS DataPlane, SourceFetch, TLAPS

(* The observations that snapshots hold.                                     *)
Obs(snapshots) ==
  UNION {{snapshots[s][k] : k \in DOMAIN snapshots[s]} : s \in DOMAIN snapshots}

LEMMA ObsOf ==
  ASSUME NEW snapshots, NEW s \in DOMAIN snapshots, NEW k \in DOMAIN snapshots[s]
  PROVE  snapshots[s][k] \in Obs(snapshots)
  BY DEF Obs

LEMMA ObsFrom ==
  ASSUME NEW snapshots, NEW o \in Obs(snapshots)
  PROVE  \E s \in DOMAIN snapshots : \E k \in DOMAIN snapshots[s] : o = snapshots[s][k]
  BY DEF Obs

LEMMA ObsEmpty == Obs(Empty) = {}
<1>1. DOMAIN Empty = {} BY DEF Empty
<1>2. QED BY <1>1 DEF Obs

(* Merging and overwriting bring in no observation of their own.             *)
LEMMA OverDef ==
  ASSUME NEW f, NEW g
  PROVE  /\ DOMAIN Over(f, g) = DOMAIN f \cup DOMAIN g
         /\ \A x \in DOMAIN f : Over(f, g)[x] = f[x]
         /\ \A x \in DOMAIN g \ DOMAIN f : Over(f, g)[x] = g[x]
  BY DEF Over

LEMMA ObsOver ==
  ASSUME NEW f, NEW g
  PROVE  Obs(Over(f, g)) \subseteq Obs(f) \cup Obs(g)
<1> DEFINE h == Over(f, g)
<1> SUFFICES ASSUME NEW o \in Obs(h) PROVE o \in Obs(f) \cup Obs(g) OBVIOUS
<1>0. /\ DOMAIN h = DOMAIN f \cup DOMAIN g
      /\ \A x \in DOMAIN f : h[x] = f[x]
      /\ \A x \in DOMAIN g \ DOMAIN f : h[x] = g[x]
  BY OverDef
<1> HIDE DEF h
<1>1. PICK s \in DOMAIN h : \E k \in DOMAIN h[s] : o = h[s][k] BY ObsFrom
<1>a. PICK k \in DOMAIN h[s] : o = h[s][k] BY <1>1
<1>2. CASE s \in DOMAIN f
  <2>1. h[s] = f[s] BY <1>0, <1>2
  <2>2. k \in DOMAIN f[s] /\ o = f[s][k] BY <1>a, <2>1
  <2>3. o \in Obs(f) BY <1>2, <2>2, ObsOf
  <2>4. QED BY <2>3
<1>3. CASE s \in DOMAIN g \ DOMAIN f
  <2>1. h[s] = g[s] BY <1>0, <1>3
  <2>2. k \in DOMAIN g[s] /\ o = g[s][k] BY <1>a, <2>1
  <2>3. o \in Obs(g) BY <1>3, <2>2, ObsOf
  <2>4. QED BY <2>3
<1>4. QED BY <1>0, <1>2, <1>3

LEMMA ObsMerge ==
  ASSUME NEW target, NEW found
  PROVE  Obs(MergeInto(target, found)) \subseteq Obs(target) \cup Obs(found)
<1> DEFINE all == MergeInto(target, found)
<1> SUFFICES ASSUME NEW o \in Obs(all) PROVE o \in Obs(target) \cup Obs(found) OBVIOUS
<1>0. /\ DOMAIN all = DOMAIN target \cup DOMAIN found
      /\ \A s \in DOMAIN all :
           all[s] = IF s \notin DOMAIN found THEN target[s]
                    ELSE IF s \notin DOMAIN target THEN found[s]
                    ELSE Over(found[s], target[s])
  BY DEF MergeInto
<1> HIDE DEF all
<1>1. PICK s \in DOMAIN all : \E k \in DOMAIN all[s] : o = all[s][k] BY ObsFrom
<1>2. PICK k \in DOMAIN all[s] : o = all[s][k] BY <1>1
<1>3. CASE s \notin DOMAIN found BY <1>0, <1>2, <1>3, ObsOf
<1>4. CASE s \in DOMAIN found /\ s \notin DOMAIN target BY <1>0, <1>2, <1>4, ObsOf
<1>5. CASE s \in DOMAIN found /\ s \in DOMAIN target
  <2> DEFINE u == found[s]
             v == target[s]
             w == Over(u, v)
  <2>0. /\ DOMAIN w = DOMAIN u \cup DOMAIN v
        /\ \A x \in DOMAIN u : w[x] = u[x]
        /\ \A x \in DOMAIN v \ DOMAIN u : w[x] = v[x]
    BY OverDef
  <2>1. all[s] = w BY <1>0, <1>5
  <2> HIDE DEF w
  <2>2. CASE k \in DOMAIN u
    <3>1. o = found[s][k] BY <2>0, <2>1, <2>2, <1>2
    <3>2. o \in Obs(found) BY <3>1, <2>2, <1>5, ObsOf
    <3>3. QED BY <3>2
  <2>3. CASE k \in DOMAIN v \ DOMAIN u
    <3>1. o = target[s][k] BY <2>0, <2>1, <2>3, <1>2
    <3>2. o \in Obs(target) BY <3>1, <2>3, <1>5, ObsOf
    <3>3. QED BY <3>2
  <2>4. k \in DOMAIN w BY <2>1
  <2>5. QED BY <2>0, <2>2, <2>3, <2>4
<1>6. QED BY <1>3, <1>4, <1>5

(* What a source answers was released by now.                                *)
LEMMA AnswersCurrent ==
  ASSUME NEW src, NEW found \in SourceAnswers(src), NEW o \in Obs(found)
  PROVE  o.release = release
<1>1. PICK s \in DOMAIN found : \E k \in DOMAIN found[s] : o = found[s][k] BY ObsFrom
<1>2. PICK k \in DOMAIN found[s] : o = found[s][k] BY <1>1
<1>3. CASE src = "fred"
  <2>1. PICK K : found[s] \in [K -> {Observation("fred")}]
    BY <1>3 DEF SourceAnswers, FredSnapshots
  <2>2. o = Observation("fred") BY <1>2, <2>1
  <2>3. QED BY <2>2 DEF Observation
<1>4. CASE src # "fred"
  <2>1. PICK K : found[s] \in [K -> {Observation(src)}]
    BY <1>4 DEF SourceAnswers, FoundBy
  <2>2. o = Observation(src) BY <1>2, <2>1
  <2>3. QED BY <2>2 DEF Observation
<1>5. QED BY <1>3, <1>4

-----------------------------------------------------------------------------
Shape ==
  /\ DOMAIN mem = Caches /\ DOMAIN disk = Caches
  /\ DOMAIN writing = Caches /\ DOMAIN failed = Caches
  /\ queued \in [Caches -> Nat]
  /\ \A c \in Caches : writing[c] = <<>> \/ writing[c] = <<Head(writing[c])>>

(* A write that no flush follows writes what the cache holds.                *)
PayloadCurrent ==
  \A c \in Caches : queued[c] = 0 /\ writing[c] # <<>> => writing[c] = <<mem[c]>>

FileInv == Shape /\ PayloadCurrent /\ FileCaughtUp

LEMMA FilesUntouched ==
  ASSUME FileInv, UNCHANGED <<mem, files>>
  PROVE  FileInv'
  BY DEF FileInv, Shape, PayloadCurrent, FileCaughtUp, files, Hydrated

(* A change of one cache is followed by a flush of it.                       *)
LEMMA ChangeIsFlushed ==
  ASSUME FileInv, NEW c \in Caches, NEW content,
         mem' = [mem EXCEPT ![c] = content], ScheduleFlush(c),
         UNCHANGED <<disk, writing, failed>>
  PROVE  FileInv'
<1>1. /\ queued' = [queued EXCEPT ![c] = @ + 1]
      /\ queued \in [Caches -> Nat]
      /\ DOMAIN mem = Caches
  BY DEF ScheduleFlush, FileInv, Shape
<1>2. /\ queued' \in [Caches -> Nat] /\ queued'[c] # 0
      /\ DOMAIN mem' = Caches
      /\ \A d \in Caches \ {c} : queued'[d] = queued[d] /\ mem'[d] = mem[d]
  BY <1>1
<1>3. Shape' BY <1>2 DEF FileInv, Shape
<1>4. PayloadCurrent' BY <1>2 DEF FileInv, PayloadCurrent
<1>5. FileCaughtUp' BY <1>2 DEF FileInv, FileCaughtUp, Hydrated
<1>6. QED BY <1>3, <1>4, <1>5 DEF FileInv

LEMMA FileStep == ASSUME FileInv, [Next]_vars PROVE FileInv'
<1>1. CASE Publish \/ Tick \/ Manual \/ UNCHANGED vars
  BY <1>1, FilesUntouched DEF Publish, Tick, Manual, vars, files
<1>2. ASSUME NEW r \in Callers, Fetch(r) PROVE FileInv'
  <2>1. \/ UNCHANGED <<mem, files>>
        \/ \E all : SetMany(all) /\ UNCHANGED <<disk, writing, failed>>
    BY <1>2, Zenon DEF Fetch, files
  <2>2. CASE UNCHANGED <<mem, files>> BY <2>2, FilesUntouched
  <2>3. ASSUME NEW all, SetMany(all), UNCHANGED <<disk, writing, failed>> PROVE FileInv'
    BY <2>3, ChangeIsFlushed DEF SetMany, Caches
  <2>4. QED BY <2>1, <2>2, <2>3
<1>3. ASSUME NEW r \in Callers, FetchNoaa(r) PROVE FileInv'
  <2>1. PICK events : SetAll(events) /\ UNCHANGED <<disk, writing, failed>>
    BY <1>3 DEF FetchNoaa
  <2>2. QED BY <2>1, ChangeIsFlushed DEF SetAll, Caches
<1>4. ASSUME NEW c \in Caches, StartFlush(c) PROVE FileInv'
  <2>1. /\ writing' = [writing EXCEPT ![c] = <<mem[c]>>]
        /\ queued' = [queued EXCEPT ![c] = @ - 1]
        /\ queued[c] \in Nat /\ queued[c] > 0
        /\ mem' = mem
        /\ disk' = [disk EXCEPT ![c] = File("torn", Empty)]
        /\ failed' = [failed EXCEPT ![c] = FALSE]
    BY <1>4 DEF StartFlush, FileInv, Shape
  <2>2. /\ Shape' /\ writing'[c] = <<mem'[c]>> /\ <<mem'[c]>> # <<>>
        /\ \A d \in Caches \ {c} : /\ queued'[d] = queued[d] /\ writing'[d] = writing[d]
                                 /\ disk'[d] = disk[d] /\ failed'[d] = failed[d]
    BY <2>1 DEF FileInv, Shape
  <2>3. PayloadCurrent' BY <2>1, <2>2 DEF FileInv, PayloadCurrent
  <2>4. FileCaughtUp' BY <2>1, <2>2 DEF FileInv, FileCaughtUp, Hydrated
  <2>5. QED BY <2>2, <2>3, <2>4 DEF FileInv
<1>5. ASSUME NEW c \in Caches, Written(c) PROVE FileInv'
  <2>1. /\ writing[c] # <<>>
        /\ writing' = [writing EXCEPT ![c] = <<>>]
        /\ disk' = [disk EXCEPT ![c] = File("whole", Head(writing[c]))]
        /\ UNCHANGED <<mem, queued, failed>>
    BY <1>5 DEF Written
  <2>2. /\ Shape' /\ writing'[c] = <<>>
        /\ disk'[c] = File("whole", Head(writing[c]))
        /\ \A d \in Caches \ {c} : writing'[d] = writing[d] /\ disk'[d] = disk[d]
    BY <2>1 DEF FileInv, Shape
  <2>3. PayloadCurrent' BY <2>1, <2>2 DEF FileInv, PayloadCurrent
  <2>4. queued[c] = 0 => Hydrated(disk'[c]) = mem[c]
    BY <2>1, <2>2 DEF FileInv, PayloadCurrent, Hydrated, File
  <2>5. FileCaughtUp' BY <2>1, <2>2, <2>4 DEF FileInv, FileCaughtUp, Hydrated
  <2>6. QED BY <2>2, <2>3, <2>5 DEF FileInv
<1>6. ASSUME NEW c \in Caches, WriteFails(c) PROVE FileInv'
  <2>1. /\ writing' = [writing EXCEPT ![c] = <<>>]
        /\ failed' = [failed EXCEPT ![c] = TRUE]
        /\ UNCHANGED <<mem, queued, disk>>
    BY <1>6 DEF WriteFails
  <2>2. /\ Shape' /\ writing'[c] = <<>> /\ failed'[c]
        /\ \A d \in Caches \ {c} : writing'[d] = writing[d] /\ failed'[d] = failed[d]
    BY <2>1 DEF FileInv, Shape
  <2>3. PayloadCurrent' BY <2>1, <2>2 DEF FileInv, PayloadCurrent
  <2>4. FileCaughtUp' BY <2>1, <2>2 DEF FileInv, FileCaughtUp, Hydrated
  <2>5. QED BY <2>2, <2>3, <2>4 DEF FileInv
<1>7. CASE Restart
  BY <1>7 DEF Restart, FileInv, Shape, PayloadCurrent, FileCaughtUp, Hydrated
<1>8. QED
  BY <1>1, <1>2, <1>3, <1>4, <1>5, <1>6, <1>7 DEF Next, Refreshes, Flush

(* No file lags behind its cache once its queue is empty, whatever the       *)
(* refreshes, the failed writes and the restarts were.                       *)
THEOREM FilesCatchUp == Spec => []FileCaughtUp
<1>1. Init => FileInv
  BY DEF Init, FileInv, Shape, PayloadCurrent, FileCaughtUp, Hydrated, File, Empty
<1>2. FileInv /\ [Next]_vars => FileInv' BY FileStep
<1>3. FileInv => FileCaughtUp BY DEF FileInv
<1>4. QED BY <1>1, <1>2, <1>3, PTL DEF Spec

-----------------------------------------------------------------------------
(* The observations of the cache, its file, its running write, and of the    *)
(* refreshes' own snapshots.                                                 *)
Cached == Obs(mem["snapshots"])
Stored == Obs(disk["snapshots"].content)
Payload == UNION {Obs(writing["snapshots"][i]) : i \in DOMAIN writing["snapshots"]}
Merged(r) == Obs(merged[r])

Observed == Cached \cup Stored \cup Payload \cup UNION {Obs(merged[r]) : r \in Callers}

(* Nothing is newer than what the sources have released.                     *)
Current ==
  /\ release \in Nat
  /\ \A o \in Observed : o.release \in Nat /\ o.release <= release

(* The guard: one refresh at a time.                                         *)
Guarded ==
  /\ stage \in [Callers -> 0..Noaa]
  /\ DOMAIN merged = Callers
  /\ \A r \in Callers : stage[r] # Idle => inflight
  /\ \A r, q \in Callers : stage[r] # Idle /\ stage[q] # Idle => r = q

(* What a running refresh has is as new as all that the cache has.           *)
Fresh ==
  \A r \in Callers : stage[r] \in 1..Len(Order) =>
    \A o \in Obs(merged[r]), p \in Cached : p.release <= o.release

AgeInv == Shape /\ Current /\ Guarded /\ Fresh /\ faults \in Nat

LEMMA OrderLength == DataPlaneAssumption => Len(Order) \in Nat /\ Noaa = Len(Order) + 1
  BY DEF DataPlaneAssumption, Noaa

(* No observation of a step is new, unless it was released by now.           *)
LEMMA CurrentFrom ==
  ASSUME Current, release' \in Nat, release' >= release,
         \A o \in Observed' : o \in Observed \/ o.release = release
  PROVE  Current'
  BY DEF Current

LEMMA SameObs ==
  ASSUME mem'["snapshots"] = mem["snapshots"], disk'["snapshots"] = disk["snapshots"],
         writing'["snapshots"] = writing["snapshots"]
  PROVE  Cached' = Cached /\ Stored' = Stored /\ Payload' = Payload
  BY DEF Cached, Stored, Payload

LEMMA BeginKeeps ==
  ASSUME AgeInv, DataPlaneAssumption, NEW r \in Callers, stage[r] = Idle, Begin(r),
         UNCHANGED <<release, mem, files>>
  PROVE  Current' /\ Guarded' /\ Fresh'
<1>1. Cached' = Cached /\ Stored' = Stored /\ Payload' = Payload
  BY SameObs DEF files
<1>2. CASE inflight
  <2>1. UNCHANGED <<stage, merged, inflight>> BY <1>2 DEF Begin
  <2>2. Observed' = Observed BY <1>1, <2>1 DEF Observed
  <2>3. Current' BY <2>2 DEF AgeInv, Current
  <2>4. Guarded' BY <2>1 DEF AgeInv, Guarded
  <2>5. Fresh' BY <1>1, <2>1 DEF AgeInv, Fresh
  <2>6. QED BY <2>3, <2>4, <2>5
<1>3. CASE ~inflight
  <2>1. /\ inflight' = TRUE
        /\ stage' = [stage EXCEPT ![r] = 1]
        /\ merged' = [merged EXCEPT ![r] = Empty]
    BY <1>3 DEF Begin
  <2>2. Noaa \in Nat /\ 1 \in 0..Noaa BY OrderLength
  <2>3. \A q \in Callers : stage[q] = Idle BY <1>3 DEF AgeInv, Guarded
  <2>4. /\ DOMAIN merged' = Callers /\ merged'[r] = Empty
        /\ \A q \in Callers \ {r} : merged'[q] = merged[q] /\ stage'[q] = stage[q]
    BY <2>1 DEF AgeInv, Guarded
  <2>5. Guarded'
    <3>1. stage' \in [Callers -> 0..Noaa] BY <2>1, <2>2 DEF AgeInv, Guarded
    <3>2. QED BY <2>1, <2>3, <2>4, <3>1 DEF Guarded
  <2>6. Obs(merged'[r]) = {} BY <2>4, ObsEmpty
  <2>7. Observed' \subseteq Observed BY <1>1, <2>4, <2>6 DEF Observed
  <2>8. Current' BY <2>7 DEF AgeInv, Current
  <2>9. Fresh' BY <1>1, <2>3, <2>4, <2>6 DEF AgeInv, Fresh, Idle
  <2>10. QED BY <2>5, <2>8, <2>9
<1>4. QED BY <1>2, <1>3

(* The step after which a refresh goes on, and the one that ends in SetMany. *)
LEMMA FetchKeeps ==
  ASSUME AgeInv, DataPlaneAssumption, NEW r \in Callers, Fetch(r)
  PROVE  /\ Current' /\ Guarded' /\ Fresh'
         /\ ~OlderIn(mem'["snapshots"], mem["snapshots"])
<1>0. /\ stage[r] \in 1..Len(Order) /\ Len(Order) \in Nat /\ Noaa = Len(Order) + 1
      /\ stage' = [stage EXCEPT ![r] = @ + 1]
      /\ UNCHANGED <<release, disk, writing, inflight>>
  BY OrderLength DEF Fetch
<1>1. PICK found \in SourceAnswers(Order[stage[r]]) :
        LET all == MergeInto(merged[r], found)
        IN IF stage[r] < Len(Order)
             THEN /\ merged' = [merged EXCEPT ![r] = all]
                  /\ UNCHANGED <<mem, queued>>
             ELSE /\ merged' = [merged EXCEPT ![r] = Empty]
                  /\ IF all = Empty THEN UNCHANGED <<mem, queued>> ELSE SetMany(all)
  BY DEF Fetch
<1> DEFINE all == MergeInto(merged[r], found)
<1>2. Obs(all) \subseteq Obs(merged[r]) \cup Obs(found) BY ObsMerge
<1>3. \A o \in Obs(found) : o.release = release BY AnswersCurrent
<1> HIDE DEF all
<1>4. \A o \in Obs(merged[r]) : o \in Observed BY DEF Observed
<1>5. \A p \in Cached : p.release \in Nat /\ p.release <= release
  BY DEF AgeInv, Current, Observed
<1>6. \A o \in Obs(all), p \in Cached : p.release <= o.release
  BY <1>0, <1>2, <1>3, <1>5 DEF AgeInv, Fresh
<1>7. \A o \in Obs(all) : o \in Observed \/ o.release = release BY <1>2, <1>3, <1>4
<1>8. \A o \in Obs(all) : o.release \in Nat BY <1>7 DEF AgeInv, Current
<1>9. Stored' = Stored /\ Payload' = Payload BY <1>0 DEF Stored, Payload
<1>10. \A q \in Callers \ {r} : stage[q] = Idle /\ stage'[q] = Idle
  BY <1>0 DEF AgeInv, Guarded, Idle
<1>11. Guarded'
  <2>1. stage' \in [Callers -> 0..Noaa] BY <1>0 DEF AgeInv, Guarded
  <2>2. DOMAIN merged' = Callers BY <1>1 DEF AgeInv, Guarded
  <2>3. \A q \in Callers : stage'[q] # Idle => q = r BY <1>10
  <2>4. inflight' BY <1>0 DEF AgeInv, Guarded, Idle
  <2>5. QED BY <2>1, <2>2, <2>3, <2>4 DEF Guarded
<1>12. \A q \in Callers \ {r} : merged'[q] = merged[q] BY <1>1 DEF AgeInv, Guarded
<1>13. Cached' \subseteq Cached \cup Obs(all)
  <2>1. CASE UNCHANGED mem BY <2>1 DEF Cached
  <2>2. CASE SetMany(all)
    <3>1. mem'["snapshots"] = Over(all, mem["snapshots"])
      BY <2>2 DEF SetMany, AgeInv, Shape, Caches
    <3>2. QED BY <3>1, ObsOver DEF Cached
  <2>3. QED BY <1>1, <2>1, <2>2 DEF all
<1>14. merged'[r] = all \/ merged'[r] = Empty BY <1>1 DEF all, AgeInv, Guarded
<1>15. Obs(merged'[r]) \subseteq Obs(all) BY <1>14, ObsEmpty
<1>16. Current'
  <2>1. \A o \in Observed' : o \in Observed \/ o.release = release
    BY <1>7, <1>9, <1>12, <1>13, <1>15 DEF Observed
  <2>2. QED BY <1>0, <2>1 DEF AgeInv, Current
<1>17. Fresh'
  <2>1. CASE stage[r] < Len(Order)
    <3>1. Cached' = Cached BY <1>1, <2>1 DEF Cached
    <3>2. \A q \in Callers \ {r} : stage'[q] \notin 1..Len(Order) BY <1>10, <1>0 DEF Idle
    <3>3. \A o \in Obs(merged'[r]), p \in Cached' : p.release <= o.release
      BY <3>1, <1>6, <1>15
    <3>4. QED BY <3>2, <3>3, <1>0 DEF Fresh
  <2>2. CASE ~(stage[r] < Len(Order))
    <3>1. stage'[r] = Noaa BY <1>0, <2>2 DEF AgeInv, Guarded
    <3>2. \A q \in Callers : stage'[q] \notin 1..Len(Order) BY <3>1, <1>10, <1>0 DEF Idle
    <3>3. QED BY <3>2, <1>0 DEF Fresh
  <2>3. QED BY <2>1, <2>2
<1>18. ~OlderIn(mem'["snapshots"], mem["snapshots"])
  <2> DEFINE old == mem["snapshots"]
             new == mem'["snapshots"]
  <2>1. SUFFICES ASSUME NEW s \in DOMAIN old \cap DOMAIN new,
                        NEW k \in DOMAIN old[s] \cap DOMAIN new[s],
                        new[s][k].release < old[s][k].release
                 PROVE  FALSE
    BY DEF OlderIn
  <2>2. old[s][k] \in Cached BY ObsOf DEF Cached
  <2>3. CASE UNCHANGED mem BY <2>1, <2>2, <2>3, <1>5
  <2>4. CASE SetMany(all)
    <3>1. new = Over(all, old) BY <2>4 DEF SetMany, AgeInv, Shape, Caches
    <3>2. CASE s \in DOMAIN all
      <4>1. new[s] = all[s] BY <3>1, <3>2 DEF Over
      <4>2. new[s][k] \in Obs(all) BY <4>1, <3>2, ObsOf
      <4>3. QED BY <2>1, <2>2, <4>2, <1>5, <1>6, <1>8
    <3>3. CASE s \notin DOMAIN all
      <4>1. new[s] = old[s] BY <3>1, <3>3, <2>1 DEF Over
      <4>2. QED BY <4>1, <2>1, <2>2, <1>5
    <3>4. QED BY <3>2, <3>3
  <2>5. QED BY <1>1, <2>3, <2>4 DEF all
<1>19. QED BY <1>11, <1>16, <1>17, <1>18

LEMMA AgeStep ==
  ASSUME AgeInv, DataPlaneAssumption, [Next]_vars, FileInv
  PROVE  /\ AgeInv'
         /\ faults' = faults => ~OlderIn(mem'["snapshots"], mem["snapshots"])
<1>0. Shape' BY FileStep DEF FileInv
<1>1. faults' \in Nat
  BY DEF AgeInv, Next, Publish, Tick, Manual, Restart, Refreshes, Fetch, FetchNoaa, Flush,
         StartFlush, Written, WriteFails, Faulty, vars
<1>2. mem'["snapshots"] = mem["snapshots"] => ~OlderIn(mem'["snapshots"], mem["snapshots"])
  <2>1. SUFFICES ASSUME NEW s \in DOMAIN mem["snapshots"],
                        NEW k \in DOMAIN mem["snapshots"][s],
                        mem["snapshots"][s][k].release < mem["snapshots"][s][k].release
                 PROVE  FALSE
    BY DEF OlderIn
  <2>2. mem["snapshots"][s][k] \in Cached BY ObsOf DEF Cached
  <2>3. mem["snapshots"][s][k].release \in Nat BY <2>2 DEF AgeInv, Current, Observed
  <2>4. QED BY <2>1, <2>3
<1> DEFINE Keeps == Current' /\ Guarded' /\ Fresh' /\ mem'["snapshots"] = mem["snapshots"]
(* A step of the files alone brings no observation.                          *)
<1>3. ASSUME UNCHANGED <<release, mem, refreshing>>, Stored' \cup Payload' \subseteq Observed
      PROVE  Keeps
  <2>1. Cached' = Cached /\ stage' = stage /\ merged' = merged /\ inflight' = inflight
    BY <1>3 DEF Cached, refreshing
  <2>2. Observed' \subseteq Observed BY <1>3, <2>1 DEF Observed
  <2>3. Current' BY <1>3, <2>2 DEF AgeInv, Current
  <2>4. Guarded' BY <2>1 DEF AgeInv, Guarded
  <2>5. Fresh' BY <2>1 DEF AgeInv, Fresh
  <2>6. QED BY <1>3, <2>3, <2>4, <2>5
<1>4. CASE Publish \/ UNCHANGED vars
  <2>1. /\ UNCHANGED <<mem, files, refreshing>>
        /\ release' \in Nat /\ release' >= release
    BY <1>4 DEF Publish, vars, AgeInv, Current
  <2>2. Observed' = Observed
    BY <2>1 DEF Observed, Cached, Stored, Payload, files, refreshing
  <2>3. Current' BY <2>1, <2>2, CurrentFrom DEF AgeInv
  <2>4. Guarded' /\ Fresh' BY <2>1 DEF AgeInv, Guarded, Fresh, Cached, refreshing
  <2>5. QED BY <1>0, <1>1, <1>2, <2>1, <2>3, <2>4 DEF AgeInv
<1>5. CASE Tick \/ Manual
  <2>1. \E r \in Callers : stage[r] = Idle /\ Begin(r)
    BY <1>5 DEF Tick, Manual, Callers
  <2>2. UNCHANGED <<release, mem, files>> BY <1>5 DEF Tick, Manual
  <2>3. Current' /\ Guarded' /\ Fresh' BY <2>1, <2>2, BeginKeeps
  <2>4. QED BY <1>0, <1>1, <1>2, <2>2, <2>3 DEF AgeInv
<1>6. ASSUME NEW r \in Callers, Fetch(r) PROVE AgeInv' /\ ~OlderIn(mem'["snapshots"], mem["snapshots"])
  BY <1>0, <1>1, <1>6, FetchKeeps DEF AgeInv
<1>7. ASSUME NEW r \in Callers, FetchNoaa(r) PROVE Keeps
  <2>1. /\ stage' = [stage EXCEPT ![r] = Idle] /\ inflight' = FALSE /\ stage[r] = Noaa
        /\ UNCHANGED <<release, disk, writing, merged>>
        /\ \E events : SetAll(events)
    BY <1>7 DEF FetchNoaa
  <2>2. mem'["snapshots"] = mem["snapshots"] BY <2>1 DEF SetAll, AgeInv, Shape, Caches
  <2>3. Observed' = Observed BY <2>1, <2>2 DEF Observed, Cached, Stored, Payload
  <2>4. Current' BY <2>1, <2>3 DEF AgeInv, Current
  <2>5. Noaa \in Nat /\ Noaa # Idle /\ Idle \in 0..Noaa BY OrderLength DEF Idle
  <2>6. \A q \in Callers : stage'[q] = Idle BY <2>1, <2>5 DEF AgeInv, Guarded
  <2>7. stage' \in [Callers -> 0..Noaa] BY <2>1, <2>5 DEF AgeInv, Guarded
  <2>8. Guarded' BY <2>1, <2>6, <2>7 DEF AgeInv, Guarded
  <2>9. Fresh' BY <2>6, OrderLength DEF Fresh, Idle
  <2>10. QED BY <2>2, <2>4, <2>8, <2>9
<1>8. ASSUME NEW c \in Caches, StartFlush(c) PROVE Keeps
  <2>1. /\ UNCHANGED <<release, mem, refreshing>>
        /\ writing' = [writing EXCEPT ![c] = <<mem[c]>>]
        /\ disk' = [disk EXCEPT ![c] = File("torn", Empty)]
    BY <1>8 DEF StartFlush
  <2>2. CASE c = "snapshots"
    <3>1. writing'["snapshots"] = <<mem["snapshots"]>> /\ disk'["snapshots"].content = Empty
      BY <2>1, <2>2 DEF AgeInv, Shape, Caches, File
    <3>2. Stored' = {} BY <3>1, ObsEmpty DEF Stored
    <3>3. Payload' = Cached BY <3>1 DEF Payload, Cached
    <3>4. QED BY <2>1, <3>2, <3>3, <1>3 DEF Observed
  <2>3. CASE c # "snapshots"
    <3>1. writing'["snapshots"] = writing["snapshots"] /\ disk'["snapshots"] = disk["snapshots"]
      BY <2>1, <2>3 DEF AgeInv, Shape, Caches
    <3>2. Stored' = Stored /\ Payload' = Payload BY <3>1 DEF Stored, Payload
    <3>3. QED BY <2>1, <3>2, <1>3 DEF Observed
  <2>4. QED BY <2>2, <2>3
<1>9. ASSUME NEW c \in Caches, Written(c) \/ WriteFails(c) PROVE Keeps
  <2>1. /\ UNCHANGED <<release, mem, refreshing>>
        /\ writing' = [writing EXCEPT ![c] = <<>>] /\ writing[c] # <<>>
        /\ disk' = disk \/ disk' = [disk EXCEPT ![c] = File("whole", Head(writing[c]))]
    BY <1>9 DEF Written, WriteFails
  <2>2. Payload' \subseteq Payload
    <3>1. writing'["snapshots"] = <<>> \/ writing'["snapshots"] = writing["snapshots"]
      BY <2>1 DEF AgeInv, Shape, Caches
    <3>2. QED BY <3>1 DEF Payload
  <2>3. disk'["snapshots"] = disk["snapshots"]
        \/ (c = "snapshots" /\ disk'["snapshots"].content = Head(writing["snapshots"]))
    BY <2>1 DEF AgeInv, Shape, Caches, File
  <2>4. writing[c] = <<Head(writing[c])>> BY <2>1 DEF AgeInv, Shape
  <2>5. Stored' \subseteq Stored \cup Payload
    <3>1. CASE disk'["snapshots"] = disk["snapshots"] BY <3>1 DEF Stored
    <3>2. CASE c = "snapshots" /\ disk'["snapshots"].content = Head(writing["snapshots"])
      <4>1. writing["snapshots"][1] = Head(writing["snapshots"])
            /\ 1 \in DOMAIN writing["snapshots"]
        BY <2>4, <3>2
      <4>2. Obs(writing["snapshots"][1]) \subseteq Payload BY <4>1 DEF Payload
      <4>3. Stored' = Obs(writing["snapshots"][1]) BY <3>2, <4>1 DEF Stored
      <4>4. QED BY <4>2, <4>3
    <3>3. QED BY <2>3, <3>1, <3>2
  <2>6. QED BY <2>1, <2>2, <2>5, <1>3 DEF Observed
<1>10. CASE Restart
  <2>1. /\ mem'["snapshots"] = Hydrated(disk["snapshots"])
        /\ writing'["snapshots"] = <<>> /\ disk' = disk /\ release' = release
        /\ stage' = [q \in Callers |-> Idle] /\ merged' = [q \in Callers |-> Empty]
        /\ faults' = faults + 1
    BY <1>10 DEF Restart, Faulty, Caches
  <2>2. Cached' \subseteq Stored
    BY <2>1, ObsEmpty DEF Cached, Stored, Hydrated
  <2>3. Stored' = Stored /\ Payload' = {} BY <2>1 DEF Stored, Payload
  <2>4. \A q \in Callers : Obs(merged'[q]) = {} BY <2>1, ObsEmpty
  <2>5. Observed' \subseteq Observed BY <2>2, <2>3, <2>4 DEF Observed
  <2>6. Current' BY <2>1, <2>5 DEF AgeInv, Current
  <2>7. Guarded' BY <2>1, OrderLength DEF Guarded, Idle
  <2>8. Fresh' BY <2>4 DEF Fresh
  <2>9. QED BY <1>0, <1>1, <2>1, <2>6, <2>7, <2>8 DEF AgeInv
<1>11. Keeps => AgeInv' /\ ~OlderIn(mem'["snapshots"], mem["snapshots"])
  BY <1>0, <1>1, <1>2 DEF AgeInv
<1> HIDE DEF Keeps
<1>12. QED
  BY <1>4, <1>5, <1>6, <1>7, <1>8, <1>9, <1>10, <1>11 DEF Next, Refreshes, Flush

LEMMA AgeHolds == Spec => [](FileInv /\ AgeInv)
<1>1. Init => FileInv /\ AgeInv
  <2> SUFFICES ASSUME Init PROVE FileInv /\ AgeInv OBVIOUS
  <2>1. FileInv
    BY DEF Init, FileInv, Shape, PayloadCurrent, FileCaughtUp, Hydrated, File, Empty
  <2>2. /\ Cached = {} /\ Stored = {} /\ \A r \in Callers : Obs(merged[r]) = {}
    BY ObsEmpty DEF Init, Cached, Stored, Caches, File
  <2>3. Payload = {} BY DEF Init, Payload, Caches
  <2>4. Observed = {} BY <2>2, <2>3 DEF Observed
  <2>5. Current BY <2>4 DEF Init, Current
  <2>6. Guarded BY OrderLength, DataPlaneAssumption DEF Init, Guarded, Idle
  <2>7. Fresh BY <2>2 DEF Fresh
  <2>8. QED BY <2>1, <2>5, <2>6, <2>7 DEF Init, AgeInv, FileInv
<1>2. FileInv /\ AgeInv /\ [Next]_vars => (FileInv /\ AgeInv)'
  BY FileStep, AgeStep, DataPlaneAssumption
<1>3. QED BY <1>1, <1>2, PTL DEF Spec

(* No refresh that is asked for while another one runs, by the loop or by    *)
(* POST /refresh, can put older data over newer: whatever the sources answer,*)
(* whenever they do.                                                         *)
THEOREM RefreshNeverOlder == Spec => NeverOlder
<1>1. FileInv /\ AgeInv /\ [Next]_vars =>
        [faults' = faults => ~OlderIn(mem'["snapshots"], mem["snapshots"])]_vars
  BY AgeStep, DataPlaneAssumption
<1>2. QED BY <1>1, AgeHolds, PTL DEF Spec, NeverOlder

(* Nothing is left behind that would end the refreshing: the guard is up     *)
(* exactly while a refresh runs, and the loop's timer is armed exactly while *)
(* none of its own does, also after one that found another's guard.          *)
NothingLeftBehind ==
  /\ inflight <=> \E r \in Callers : stage[r] # Idle
  /\ timer <=> stage["loop"] = Idle

LEMMA NothingLeftStep ==
  ASSUME Guarded, NothingLeftBehind, [Next]_vars, DataPlaneAssumption
  PROVE  NothingLeftBehind'
<1> USE DEF Callers, Guarded
<1>0. Noaa \in Nat /\ Noaa # Idle /\ Noaa = Len(Order) + 1 /\ Len(Order) \in Nat /\ Idle = 0
  BY OrderLength DEF Idle
<1>1. CASE Tick
  BY <1>0, <1>1 DEF Tick, Begin, NothingLeftBehind
<1>2. CASE Manual
  BY <1>0, <1>2 DEF Manual, Begin, NothingLeftBehind
<1>3. ASSUME NEW r \in Callers, Fetch(r) PROVE NothingLeftBehind'
  <2>1. stage[r] # Idle /\ stage[r] + 1 # Idle /\ stage' = [stage EXCEPT ![r] = stage[r] + 1]
        /\ UNCHANGED <<inflight, timer>>
    BY <1>0, <1>3 DEF Fetch
  <2>2. \A q \in Callers : stage'[q] # Idle <=> stage[q] # Idle
    BY <2>1
  <2>3. QED
    BY <2>1, <2>2 DEF NothingLeftBehind
<1>4. ASSUME NEW r \in Callers, FetchNoaa(r) PROVE NothingLeftBehind'
  <2>1. stage[r] # Idle /\ stage' = [stage EXCEPT ![r] = Idle] /\ ~inflight'
        /\ timer' = (timer \/ r = "loop")
    BY <1>0, <1>4 DEF FetchNoaa
  <2>2. \A q \in Callers : stage'[q] = Idle
    BY <2>1
  <2>3. r # "loop" => stage["loop"] = Idle
    BY <2>1
  <2>4. timer'
    BY <2>1, <2>3 DEF NothingLeftBehind
  <2>5. QED
    BY <2>1, <2>2, <2>4 DEF NothingLeftBehind
<1>5. CASE Restart
  BY <1>5 DEF Restart, NothingLeftBehind
<1>6. CASE Publish \/ (\E c \in Caches : Flush(c) \/ WriteFails(c)) \/ UNCHANGED vars
  BY <1>6 DEF Publish, Flush, StartFlush, Written, WriteFails, vars, refreshing, NothingLeftBehind
<1>7. QED
  BY <1>1, <1>2, <1>3, <1>4, <1>5, <1>6 DEF Next, Refreshes

(* Whatever meets, the guard and the loop's timer are left as they must be   *)
(* for refreshes to go on (scheduler.ts 58-61, 182-198).                     *)
THEOREM RefreshesLeaveNothing == Spec => []NothingLeftBehind
<1>1. Init => NothingLeftBehind
  BY DEF Init, NothingLeftBehind, Callers
<1>2. AgeInv => Guarded
  BY DEF AgeInv
<1>3. QED
  BY <1>1, <1>2, AgeHolds, NothingLeftStep, DataPlaneAssumption, PTL DEF Spec

-----------------------------------------------------------------------------
(***************************************************************************)
(* The rate of a source, for every interval and any lateness of timers.    *)
(*                                                                         *)
(* BoundedRate is not inductive: it does not say what the bucket remembers *)
(* of the releases. Pacing does: the next slot is a full interval later    *)
(* for every release after the first of a pair.                            *)
(***************************************************************************)
Pacing ==
  \A i \in 1..Len(resolved) :
    i < Len(resolved) => nextAvailableAt >= resolved[i] + (Len(resolved) - i) * MinIntervalMs

(* What was let go was let go in the past; a sleeper read the clock after it.*)
InThePast ==
  \A i \in 1..Len(resolved) :
    /\ resolved[i] <= now
    /\ sleeping => resolved[i] <= entered

Asleep == sleeping => chain # <<>> /\ entered <= now /\ entered < nextAvailableAt

LimiterInv == LimiterTypeOK /\ Pacing /\ InThePast /\ Asleep /\ BoundedRate

(* One more interval is one more summand.                                    *)
LEMMA OneMore ==
  ASSUME NEW k \in Nat, NEW m \in Nat
  PROVE  (k + 1) * m = k * m + m /\ 0 * m = 0 /\ 1 * m = m /\ k * m \in Nat
  OBVIOUS

LEMMA ResolveKeeps ==
  ASSUME LimiterInv, NEW read \in Nat, Resolve(read), now' = now, chain # <<>>, ~sleeping',
         MinIntervalMs \in Nat,
         read <= now, now >= nextAvailableAt,
         \A i \in 1..Len(resolved) : resolved[i] <= read
  PROVE  LimiterInv'
<1> USE DEF LimiterInv, LimiterTypeOK
<1> DEFINE n == Len(resolved)
<1>0. n \in Nat /\ now \in Nat /\ nextAvailableAt \in Nat /\ resolved \in Seq(Nat)
  OBVIOUS
<1>1. resolved' = Append(resolved, now) BY DEF Resolve
<1>2. /\ Len(resolved') = n + 1
      /\ \A i \in 1..n : resolved'[i] = resolved[i]
      /\ resolved'[n + 1] = now
      /\ resolved' \in Seq(Nat)
  BY <1>0, <1>1
<1>3. \A i \in 1..n : resolved[i] \in Nat BY <1>0
<1>4. /\ nextAvailableAt' \in Nat
      /\ nextAvailableAt' >= read + MinIntervalMs
      /\ nextAvailableAt' >= nextAvailableAt + MinIntervalMs
  BY <1>0 DEF Resolve, Later
<1>5. LimiterTypeOK'
  <2>1. chain' \in Seq(Requesters) BY DEF Resolve
  <2>2. entered' \in Nat /\ sleeping' = FALSE BY DEF Resolve
  <2>3. QED BY <2>1, <2>2, <1>0, <1>2, <1>4
<1>6. Pacing'
  <2> SUFFICES ASSUME NEW i \in 1..(n + 1), i < n + 1
               PROVE  nextAvailableAt' >= resolved'[i] + (n + 1 - i) * MinIntervalMs
    BY <1>2 DEF Pacing
  <2>0. i \in 1..n /\ resolved'[i] = resolved[i] BY <1>0, <1>2
  <2>1. CASE i = n
    BY <2>0, <2>1, <1>0, <1>3, <1>4, (n + 1 - i) = 1, OneMore
  <2>2. CASE i < n
    <3>1. nextAvailableAt >= resolved[i] + (n - i) * MinIntervalMs BY <2>0, <2>2 DEF Pacing
    <3>2. (n - i) \in Nat /\ n + 1 - i = (n - i) + 1 BY <2>0, <1>0
    <3>3. (n + 1 - i) * MinIntervalMs = (n - i) * MinIntervalMs + MinIntervalMs
          /\ (n - i) * MinIntervalMs \in Nat
      BY <3>2, OneMore
    <3>4. QED BY <2>0, <3>1, <3>3, <1>0, <1>3, <1>4
  <2>3. QED BY <2>0, <2>1, <2>2, <1>0
<1>7. InThePast'
  <2> SUFFICES ASSUME NEW i \in 1..(n + 1) PROVE resolved'[i] <= now
    BY <1>2 DEF InThePast
  <2>1. CASE i \in 1..n BY <2>1, <1>2 DEF InThePast
  <2>2. CASE i = n + 1 BY <2>2, <1>0, <1>2
  <2>3. i \in 1..n \/ i = n + 1 BY <1>0
  <2>4. QED BY <2>1, <2>2, <2>3
<1>8. Asleep' BY DEF Asleep
<1>9. BoundedRate'
  <2> SUFFICES ASSUME NEW i \in 1..(n + 1), NEW j \in 1..(n + 1), i < j
               PROVE  resolved'[j] - resolved'[i] >= (j - i - 1) * MinIntervalMs
    BY <1>2 DEF BoundedRate
  <2>0. i \in 1..n /\ resolved'[i] = resolved[i] BY <1>0, <1>2
  <2>1. CASE j \in 1..n
    BY <2>0, <2>1, <1>2 DEF BoundedRate
  <2>2. CASE j = n + 1 /\ i = n
    <3>1. resolved[i] <= now BY <2>0 DEF InThePast
    <3>2. j - i - 1 = 0 BY <2>2, <1>0
    <3>3. (j - i - 1) * MinIntervalMs = 0 BY <3>2, OneMore
    <3>4. QED BY <2>0, <2>2, <3>1, <3>3, <1>0, <1>2, <1>3
  <2>3. CASE j = n + 1 /\ i < n
    <3>1. nextAvailableAt >= resolved[i] + (n - i) * MinIntervalMs BY <2>0, <2>3 DEF Pacing
    <3>2. (n - i) \in Nat /\ j - i - 1 = n - i BY <2>0, <2>3, <1>0
    <3>3. (n - i) * MinIntervalMs \in Nat BY <3>2, OneMore
    <3>4. (j - i - 1) * MinIntervalMs = (n - i) * MinIntervalMs BY <3>2
    <3>5. now - resolved[i] >= (n - i) * MinIntervalMs BY <2>0, <3>1, <3>3, <1>0, <1>3
    <3>6. resolved'[j] = now BY <2>3, <1>2
    <3>7. QED BY <2>0, <3>4, <3>5, <3>6
  <2> HIDE DEF n, LimiterInv, LimiterTypeOK
  <2>a. n \in Nat /\ i \in 1..n /\ j \in 1..(n + 1) BY <2>0, <1>0
  <2>b. i = n \/ i < n BY ONLY <2>a
  <2>c. j \in 1..n \/ j = n + 1 BY ONLY <2>a
  <2>4. j \in 1..n \/ (j = n + 1 /\ i = n) \/ (j = n + 1 /\ i < n) BY <2>b, <2>c
  <2>5. QED BY <2>1, <2>2, <2>3, <2>4, Zenon
<1>10. QED BY <1>5, <1>6, <1>7, <1>8, <1>9

LEMMA LimiterStepKeeps ==
  ASSUME LimiterInv, LimiterAssumption, [LimiterNext]_limiterVars
  PROVE  LimiterInv'
<1> USE DEF LimiterInv, LimiterTypeOK, LimiterAssumption
<1>1. ASSUME NEW c \in Requesters, Acquire(c) PROVE LimiterInv'
  <2>1. chain' \in Seq(Requesters) /\ chain' # <<>> BY <1>1 DEF Acquire
  <2>2. QED BY <1>1, <2>1 DEF Acquire, Pacing, InThePast, Asleep, BoundedRate
<1>2. CASE Start
  <2>1. CASE nextAvailableAt > now
    BY <1>2, <2>1 DEF Start, Pacing, InThePast, Asleep, BoundedRate
  <2>2. CASE ~(nextAvailableAt > now)
    <3>1. Resolve(now) /\ now' = now /\ chain # <<>> BY <1>2, <2>2 DEF Start
    <3>2. now >= nextAvailableAt BY <2>2
    <3>3. ~sleeping' BY <3>1 DEF Resolve
    <3>4. \A i \in 1..Len(resolved) : resolved[i] <= now BY DEF InThePast
    <3>5. QED BY <3>1, <3>2, <3>3, <3>4, ResolveKeeps
  <2>3. QED BY <2>1, <2>2
<1>3. CASE Wake
  <2>1. /\ Resolve(entered) /\ now' = now /\ now >= nextAvailableAt
        /\ chain # <<>> /\ entered <= now
    BY <1>3 DEF Wake, Asleep
  <2>2. ~sleeping' BY <2>1 DEF Resolve
  <2>3. \A i \in 1..Len(resolved) : resolved[i] <= entered BY <1>3 DEF Wake, InThePast
  <2>4. QED BY <2>1, <2>2, <2>3, ResolveKeeps
<1>4. CASE Advance
  <2>1. now' = now + 1 /\ UNCHANGED <<nextAvailableAt, chain, sleeping, entered, resolved>>
    BY <1>4 DEF Advance
  <2>2. \A i \in 1..Len(resolved) : resolved[i] \in Nat OBVIOUS
  <2>3. QED BY <2>1, <2>2 DEF Pacing, InThePast, Asleep, BoundedRate
<1>5. CASE UNCHANGED limiterVars
  BY <1>5 DEF limiterVars, Pacing, InThePast, Asleep, BoundedRate
<1>6. QED BY <1>1, <1>2, <1>3, <1>4, <1>5 DEF LimiterNext, LimiterStep

LEMMA LimiterInitInv == LimiterInit => LimiterInv
<1> SUFFICES ASSUME LimiterInit PROVE LimiterInv OBVIOUS
<1>1. LimiterTypeOK
  <2>1. chain \in Seq(Requesters) /\ resolved \in Seq(Nat) BY DEF LimiterInit
  <2>2. sleeping \in BOOLEAN BY DEF LimiterInit
  <2>3. now \in Nat /\ nextAvailableAt \in Nat /\ entered \in Nat BY DEF LimiterInit
  <2>4. QED BY <2>1, <2>2, <2>3 DEF LimiterTypeOK
<1>2. resolved = <<>> /\ Len(resolved) = 0 BY DEF LimiterInit
<1>3. Pacing /\ InThePast /\ BoundedRate BY <1>2 DEF Pacing, InThePast, BoundedRate
<1>4. Asleep BY DEF LimiterInit, Asleep
<1>5. QED BY <1>1, <1>3, <1>4 DEF LimiterInv

(* The limiter keeps its releases apart, for every interval, any number of   *)
(* callers and any lateness of its timers.                                   *)
THEOREM RateIsBounded == LimiterSpec => []BoundedRate
<1>1. LimiterInv /\ [LimiterNext]_limiterVars => LimiterInv' BY LimiterStepKeeps, LimiterAssumption
<1>2. LimiterInv => BoundedRate BY DEF LimiterInv
<1>3. QED BY LimiterInitInv, <1>1, <1>2, PTL DEF LimiterSpec

(* The workers of a refresh use the limiter as its callers may.              *)
LEMMA WorkersCallTheLimiter == [FetchNext]_fetchVars => [LimiterNext]_limiterVars
<1> SUFFICES ASSUME [FetchNext]_fetchVars PROVE [LimiterNext]_limiterVars
  OBVIOUS
<1>1. CASE Limit
  BY <1>1 DEF Limit, LimiterNext
<1>2. ASSUME NEW w \in Workers, Work(w) PROVE [LimiterNext]_limiterVars
  <2>1. Acquire(w) \/ UNCHANGED limiterVars
    BY <1>2 DEF Work, Take, Answer, FredAnswer, BlsAnswer, BeaAnswer, CensusAnswer, NoaaAnswer,
                Answered, Settle, Retry, DelayOver
  <2>2. QED
    BY <2>1 DEF LimiterNext, Workers
<1>3. CASE UNCHANGED fetchVars
  BY <1>3 DEF fetchVars
<1>4. QED
  BY <1>1, <1>2, <1>3 DEF FetchNext

(* A source is asked at its rate, however many workers it has and whatever   *)
(* is retried (fred.ts 30, 71-89, and the other sources).                    *)
THEOREM SourceKeepsRate == FetchSpec => []BoundedRate
<1>1. FetchInit => LimiterInit
  BY DEF FetchInit
<1>2. FetchSpec => LimiterSpec
  BY <1>1, WorkersCallTheLimiter, PTL DEF FetchSpec, LimiterSpec
<1>3. QED
  BY <1>2, RateIsBounded, PTL

-----------------------------------------------------------------------------
(* One refresh of one source: its workers share the cursor and the limiter   *)
(* above, whose callers they are.                                            *)
FetchTypeOK ==
  /\ source \in Sources
  /\ next \in Nat \ {0}
  /\ pc \in [Workers -> {"next", "acquire", "fetch", "delay", "done"}]
  /\ item \in [Workers -> Items]
  /\ series \in [Workers -> Series]
  /\ chain \in Seq(Workers)
  /\ DOMAIN outcome = Tasks

Busy(w) == pc[w] \in {"acquire", "fetch", "delay"}

(* Who is busy asks for something that its source has.                       *)
AsksInRange ==
  \A w \in Workers :
    Busy(w) => item[w] \in ItemsOf(source) /\ series[w] \in SeriesOf(source)

(* What was taken is settled, or a busy worker has yet to come to it.        *)
TakenIsKept ==
  \A i \in ItemsOf(source), k \in SeriesOf(source) :
    i < next => \/ outcome[<<i, k>>] # "none"
                \/ \E w \in Workers : Busy(w) /\ item[w] = i /\ series[w] <= k

(* The first worker, whom every source has, returns when all was taken.      *)
DoneAtTheEnd == pc[1] = "done" => \A i \in ItemsOf(source) : i < next

(* The limiter's callers are the workers that await it, each once.           *)
ChainWaits ==
  /\ \A i \in DOMAIN chain : pc[chain[i]] = "acquire"
  /\ \A i, j \in DOMAIN chain : chain[i] = chain[j] => i = j

FetchInv == FetchTypeOK /\ ChainWaits /\ AsksInRange /\ TakenIsKept /\ DoneAtTheEnd

LEMMA Ranges ==
  ASSUME NEW s \in Sources
  PROVE  /\ Items \subseteq Nat /\ Series \subseteq Nat
         /\ ItemsOf(s) \subseteq Items
         /\ SeriesOf(s) \subseteq Series
         /\ Workers = {1, 2} /\ 1 \in WorkersOf(s) /\ 1 \in Items
         /\ 1 \in SeriesOf(s) /\ 1 \in Series /\ 1 \in ItemsOf(s)
  BY FetchAssumption DEF Items, Series, ItemsOf, SeriesOf, Workers, WorkersOf

LEMMA FetchInitKeeps == FetchInit => FetchInv
<1> SUFFICES ASSUME FetchInit PROVE FetchInv OBVIOUS
<1>1. source \in Sources BY DEF FetchInit
<1>2. FetchTypeOK BY <1>1, Ranges DEF FetchInit, LimiterInit, FetchTypeOK
<1>3. AsksInRange BY DEF FetchInit, AsksInRange, Busy
<1>4. TakenIsKept
  <2>1. \A i \in ItemsOf(source) : ~(i < 1)
    BY <1>1, Ranges, FetchAssumption DEF Items
  <2>2. QED BY <2>1 DEF FetchInit, TakenIsKept
<1>5. DoneAtTheEnd
  BY <1>1, Ranges DEF FetchInit, DoneAtTheEnd
<1>6. ChainWaits BY DEF FetchInit, LimiterInit, ChainWaits
<1>7. QED BY <1>2, <1>3, <1>4, <1>5, <1>6 DEF FetchInv

(* A worker asks the limiter, is let go, or does something else.             *)
LEMMA Asks ==
  ASSUME FetchInv, NEW w \in Workers, pc[w] # "acquire",
         pc' = [pc EXCEPT ![w] = "acquire"], chain' = Append(chain, w)
  PROVE  ChainWaits'
<1>1. /\ chain \in Seq(Workers) /\ DOMAIN pc = Workers
      /\ \A i \in DOMAIN chain : pc[chain[i]] = "acquire"
      /\ \A i, j \in DOMAIN chain : chain[i] = chain[j] => i = j
  BY DEF FetchInv, FetchTypeOK, ChainWaits
<1>2. /\ DOMAIN chain = 1..Len(chain) /\ Len(chain) \in Nat
      /\ DOMAIN chain' = 1..(Len(chain) + 1)
      /\ \A i \in DOMAIN chain : chain'[i] = chain[i] /\ chain[i] \in Workers
      /\ chain'[Len(chain) + 1] = w
  BY <1>1
<1>3. \A i \in DOMAIN chain : chain[i] # w /\ pc'[chain[i]] = "acquire"
  BY <1>1, <1>2
<1>4. \A i \in DOMAIN chain' : i \in DOMAIN chain \/ i = Len(chain) + 1
  BY <1>2
<1>5. QED BY <1>1, <1>2, <1>3, <1>4 DEF ChainWaits

LEMMA LetGo ==
  ASSUME FetchInv, chain # <<>>, NEW w, w = Head(chain),
         pc' = [pc EXCEPT ![w] = "fetch"], chain' = Tail(chain)
  PROVE  /\ w \in Workers /\ pc[w] = "acquire"
         /\ chain' \in Seq(Workers) /\ ChainWaits'
<1>1. /\ chain \in Seq(Workers) /\ DOMAIN pc = Workers
      /\ \A i \in DOMAIN chain : pc[chain[i]] = "acquire"
      /\ \A i, j \in DOMAIN chain : chain[i] = chain[j] => i = j
  BY DEF FetchInv, FetchTypeOK, ChainWaits
<1>2. /\ DOMAIN chain = 1..Len(chain) /\ Len(chain) \in Nat /\ Len(chain) >= 1
      /\ w = chain[1] /\ w \in Workers /\ chain' \in Seq(Workers)
      /\ DOMAIN chain' = 1..(Len(chain) - 1)
      /\ \A i \in DOMAIN chain' : chain'[i] = chain[i + 1] /\ chain[i + 1] \in Workers
  BY <1>1
<1>3. \A i \in DOMAIN chain' : i + 1 \in DOMAIN chain /\ i + 1 # 1 /\ i \in Nat
  BY <1>2
<1>4. 1 \in DOMAIN chain BY <1>2
<1>5. \A i \in DOMAIN chain' : chain'[i] # w
  BY <1>1, <1>2, <1>3, <1>4
<1>6. \A i, j \in DOMAIN chain' : chain'[i] = chain'[j] => i = j
  <2>1. SUFFICES ASSUME NEW i \in DOMAIN chain', NEW j \in DOMAIN chain', chain'[i] = chain'[j]
                 PROVE  i = j
    OBVIOUS
  <2>2. i + 1 = j + 1 BY <1>1, <1>2, <1>3, <2>1
  <2>3. QED BY <1>3, <2>2
<1>7. \A i \in DOMAIN chain' : pc'[chain'[i]] = "acquire"
  BY <1>1, <1>2, <1>3, <1>5
<1>8. QED BY <1>1, <1>2, <1>4, <1>6, <1>7 DEF ChainWaits

LEMMA NotAsking ==
  ASSUME FetchInv, NEW w \in Workers, NEW step, pc[w] # "acquire",
         pc' = [pc EXCEPT ![w] = step], chain' = chain
  PROVE  ChainWaits'
<1>1. \A i \in DOMAIN chain : chain[i] \in Workers /\ chain[i] # w
  BY DEF FetchInv, FetchTypeOK, ChainWaits
<1>2. QED BY <1>1 DEF FetchInv, FetchTypeOK, ChainWaits

(* The cursor passes over the items one by one.                              *)
LEMMA CursorPast ==
  ASSUME NEW s \in Sources, NEW n \in Nat \ {0}
  PROVE  \A i \in ItemsOf(s) :
           /\ i \in Nat /\ (n \notin ItemsOf(s) => i < n) /\ (i < n + 1 => i < n \/ i = n)
  BY FetchAssumption DEF Items, ItemsOf

(* A worker takes the next item, whose series it has all yet to ask for.     *)
LEMMA TakeKeeps ==
  ASSUME FetchInv, NEW w \in Workers, Take(w) PROVE FetchInv'
<1> USE DEF FetchInv
<1>0. source \in Sources /\ next \in Nat \ {0} BY DEF FetchTypeOK
<1>1. pc[w] = "next" /\ next' = next + 1 /\ UNCHANGED <<source, outcome>>
  BY DEF Take
<1>2. \A i \in ItemsOf(source) :
        /\ i \in Nat /\ (next \notin ItemsOf(source) => i < next)
        /\ (i < next + 1 => i < next \/ i = next)
  BY <1>0, CursorPast
<1>3. CASE next \notin ItemsOf(source)
  <2>1. pc' = [pc EXCEPT ![w] = "done"] /\ UNCHANGED <<item, series, attempt, limiterVars>>
    BY <1>3 DEF Take
  <2>2. FetchTypeOK' BY <1>1, <2>1 DEF FetchTypeOK, limiterVars
  <2>3. \A v \in Workers : Busy(v)' <=> Busy(v)
    BY <1>1, <2>1 DEF Busy, FetchTypeOK
  <2>4. AsksInRange' BY <1>1, <2>1, <2>3 DEF AsksInRange, ItemsOf, SeriesOf
  <2>5. \A i \in ItemsOf(source) : i < next /\ i < next'
    BY <1>0, <1>1, <1>2, <1>3
  <2>6. /\ ItemsOf(source)' = ItemsOf(source)
        /\ SeriesOf(source)' = SeriesOf(source)
    BY <1>1 DEF ItemsOf, SeriesOf
  <2>7. TakenIsKept'
    BY <1>1, <2>1, <2>3, <2>5, <2>6 DEF TakenIsKept
  <2>8. DoneAtTheEnd' BY <2>5, <2>6 DEF DoneAtTheEnd
  <2>9. ChainWaits' BY <1>1, <2>1, NotAsking DEF limiterVars
  <2>10. QED BY <2>2, <2>4, <2>7, <2>8, <2>9
<1>4. CASE next \in ItemsOf(source)
  <2>1. /\ pc' = [pc EXCEPT ![w] = "acquire"]
        /\ item' = [item EXCEPT ![w] = next]
        /\ series' = [series EXCEPT ![w] = 1]
        /\ chain' = Append(chain, w)
    BY <1>4 DEF Take, Acquire
  <2>2. next \in Items /\ 1 \in Series /\ 1 \in SeriesOf(source)
        /\ \A k \in SeriesOf(source) : 1 <= k
    BY <1>0, <1>4, Ranges, FetchAssumption DEF Series
  <2>3. FetchTypeOK' BY <1>0, <1>1, <2>1, <2>2 DEF FetchTypeOK
  <2>4. /\ \A v \in Workers \ {w} : /\ Busy(v)' <=> Busy(v)
                                    /\ item'[v] = item[v] /\ series'[v] = series[v]
        /\ Busy(w)' /\ ~Busy(w) /\ item'[w] = next /\ series'[w] = 1
    BY <1>1, <2>1 DEF Busy, FetchTypeOK
  <2>5. /\ ItemsOf(source)' = ItemsOf(source)
        /\ SeriesOf(source)' = SeriesOf(source)
    BY <1>1 DEF ItemsOf, SeriesOf
  <2>6. AsksInRange' BY <1>4, <2>2, <2>4, <2>5 DEF AsksInRange
  <2>7. TakenIsKept'
    <3>1. SUFFICES ASSUME NEW i \in ItemsOf(source), NEW k \in SeriesOf(source),
                          i < next + 1
                   PROVE  \/ outcome[<<i, k>>] # "none"
                          \/ \E v \in Workers : Busy(v)' /\ item'[v] = i /\ series'[v] <= k
      BY <1>1, <2>5 DEF TakenIsKept
    <3>2. CASE i = next BY <3>2, <2>2, <2>4
    <3>3. CASE i < next BY <3>3, <2>4 DEF TakenIsKept
    <3>4. QED BY <1>2, <3>1, <3>2, <3>3
  <2>8. DoneAtTheEnd'
    <3>1. pc'[1] = "done" => pc[1] = "done" BY <1>0, <2>1, Ranges DEF FetchTypeOK
    <3>2. QED BY <1>0, <1>1, <1>2, <2>5, <3>1 DEF DoneAtTheEnd
  <2>9. ChainWaits' BY <1>1, <2>1, Asks
  <2>10. QED BY <2>3, <2>6, <2>7, <2>8, <2>9
<1>5. QED BY <1>3, <1>4

(* A step that leaves the items alone, and what is busy busy.                *)
LEMMA GoesOn ==
  ASSUME FetchInv, NEW w \in Workers, NEW step \in {"fetch",
         "delay", "acquire"},
         Busy(w), pc' = [pc EXCEPT ![w] = step],
         chain' \in Seq(Workers), ChainWaits', UNCHANGED <<source, next, item, series,
         outcome>>
  PROVE  FetchInv'
<1> USE DEF FetchInv
<1>1. FetchTypeOK' BY DEF FetchTypeOK
<1>2. \A v \in Workers : Busy(v)' <=> Busy(v) BY DEF Busy, FetchTypeOK
<1>3. /\ ItemsOf(source)' = ItemsOf(source)
      /\ SeriesOf(source)' = SeriesOf(source)
  BY DEF ItemsOf, SeriesOf
<1>4. AsksInRange' BY <1>2, <1>3 DEF AsksInRange
<1>5. TakenIsKept' BY <1>2, <1>3 DEF TakenIsKept
<1>6. pc'[1] = "done" => pc[1] = "done" BY DEF FetchTypeOK
<1>7. DoneAtTheEnd' BY <1>3, <1>6 DEF DoneAtTheEnd
<1>8. QED BY <1>1, <1>4, <1>5, <1>7

(* The timer is that of a caller.                                            *)
SleeperWaits == sleeping => chain # <<>>

LEMMA SleeperKeeps ==
  ASSUME FetchInv, SleeperWaits, [FetchNext]_fetchVars PROVE SleeperWaits'
<1>0. \A w \in Workers : Append(chain, w) # <<>>
  BY DEF FetchInv, FetchTypeOK
<1>1. CASE Limit
  BY <1>1 DEF Limit, LimiterStep, Start, Wake, Advance,
              Resolve, SleeperWaits
<1>2. ASSUME NEW w \in Workers, Work(w) PROVE SleeperWaits'
  <2>1. (chain' = Append(chain, w) \/ chain' = chain) /\ sleeping' = sleeping
    BY <1>2 DEF Work, Take, Answer, FredAnswer, BlsAnswer,
                BeaAnswer, CensusAnswer, NoaaAnswer,
                Answered, Settle, Retry, DelayOver, Acquire,
                limiterVars
  <2>2. QED BY <1>0, <2>1 DEF SleeperWaits
<1>3. CASE UNCHANGED fetchVars BY <1>3 DEF fetchVars, limiterVars, SleeperWaits
<1>4. QED BY <1>1, <1>2, <1>3 DEF FetchNext

(* The limiter lets a worker go, or time passes.                             *)
LEMMA LimitLetsGo ==
  ASSUME FetchInv, SleeperWaits, Limit, chain' # chain
  PROVE  chain # <<>> /\ chain' = Tail(chain)
<1>1. CASE Start BY <1>1 DEF Start, Resolve
<1>2. CASE Wake
  <2>1. chain' = Tail(chain) BY <1>2 DEF Wake, Resolve
  <2>2. QED BY <1>2, <2>1 DEF Wake, SleeperWaits
<1>3. CASE Advance BY <1>3 DEF Advance
<1>4. QED BY <1>1, <1>2, <1>3 DEF Limit, LimiterStep

LEMMA LimitKeeps ==
  ASSUME FetchInv, SleeperWaits, Limit PROVE FetchInv'
<1> DEFINE w == Head(chain)
<1>1. CASE chain' = chain
  <2>1. UNCHANGED <<source, next, pc, item, series, outcome, chain>>
    BY <1>1 DEF Limit, working
  <2>2. QED
    BY <2>1 DEF FetchInv, FetchTypeOK, ChainWaits, AsksInRange, TakenIsKept, DoneAtTheEnd,
                Busy, ItemsOf, SeriesOf
<1>2. CASE chain' # chain
  <2>1. chain # <<>> /\ chain' = Tail(chain) BY <1>2, LimitLetsGo
  <2>2. pc' = [pc EXCEPT ![w] = "fetch"] /\ UNCHANGED <<source, next, item, series, outcome>>
    BY <1>2 DEF Limit
  <2>3. w \in Workers /\ pc[w] = "acquire" /\ chain' \in Seq(Workers) /\ ChainWaits'
    BY <2>1, <2>2, LetGo
  <2>4. QED BY <2>2, <2>3, GoesOn DEF Busy
<1>3. QED BY <1>1, <1>2

(* A series is settled: the next one, or the next item.                      *)
LEMMA SettleKeeps ==
  ASSUME FetchInv, NEW w \in Workers, pc[w] = "fetch",
         NEW result, result # "none", Settle(w, result)
  PROVE  FetchInv'
<1> USE DEF FetchInv
<1>0. source \in Sources /\ Busy(w) /\ Task(w) \in Tasks
      /\ item[w] \in ItemsOf(source) /\ series[w] \in SeriesOf(source)
  BY DEF FetchTypeOK, Busy, AsksInRange, Task, Tasks
<1>1. outcome' = [outcome EXCEPT ![Task(w)] = result] /\ UNCHANGED <<source, next, item>>
  BY DEF Settle
<1>2. /\ ItemsOf(source)' = ItemsOf(source)
      /\ SeriesOf(source)' = SeriesOf(source)
  BY <1>1 DEF ItemsOf, SeriesOf
<1>3. /\ DOMAIN outcome' = Tasks
      /\ outcome'[<<item[w], series[w]>>] # "none"
      /\ \A t \in Tasks : outcome[t] # "none" => outcome'[t] # "none"
  BY <1>0, <1>1 DEF FetchTypeOK, Task
<1>4. \A i \in ItemsOf(source), k \in SeriesOf(source) :
        <<i, k>> \in Tasks /\ k \in Nat /\ k # 0
  BY <1>0, Ranges DEF Tasks, Series
<1>5. pc'[1] = "done" => pc[1] = "done"
  <2>1. pc' = [pc EXCEPT ![w] = "acquire"] \/ pc' = [pc EXCEPT ![w] = "next"]
    BY DEF Settle
  <2>2. QED BY <2>1 DEF FetchTypeOK
<1>6. DoneAtTheEnd' BY <1>1, <1>2, <1>5 DEF DoneAtTheEnd
<1>7. CASE series[w] + 1 \in SeriesOf(source)
  <2>1. /\ series' = [series EXCEPT ![w] = @ + 1]
        /\ pc' = [pc EXCEPT ![w] = "acquire"]
        /\ chain' = Append(chain, w)
    BY <1>7 DEF Settle, Acquire
  <2>2. FetchTypeOK'
    BY <1>0, <1>1, <1>3, <1>7, <2>1, Ranges DEF FetchTypeOK
  <2>3. /\ \A v \in Workers \ {w} : (Busy(v)' <=> Busy(v)) /\ series'[v] = series[v]
        /\ Busy(w)' /\ series'[w] = series[w] + 1
    BY <2>1 DEF Busy, FetchTypeOK
  <2>4. ChainWaits' BY <2>1, Asks
  <2>5. AsksInRange' BY <1>0, <1>1, <1>2, <1>7, <2>3 DEF AsksInRange
  <2>6. TakenIsKept'
    <3>1. SUFFICES ASSUME NEW i \in ItemsOf(source), NEW k \in SeriesOf(source),
                          i < next,
                          outcome'[<<i, k>>] = "none"
                   PROVE  \E v \in Workers : Busy(v)' /\ item[v] = i /\ series'[v] <= k
      BY <1>1, <1>2 DEF TakenIsKept
    <3>2. PICK v \in Workers : Busy(v) /\ item[v] = i /\ series[v] <= k
      BY <1>3, <1>4, <3>1 DEF TakenIsKept
    <3>3. CASE v # w BY <2>3, <3>2, <3>3
    <3>4. CASE v = w
      <4>1. k # series[w] BY <1>3, <3>1, <3>2, <3>4
      <4>2. series[w] \in Nat /\ k \in Nat BY <1>0, <1>4
      <4>3. series[w] + 1 <= k BY <3>2, <3>4, <4>1, <4>2
      <4>4. QED BY <2>3, <3>2, <3>4, <4>3
    <3>5. QED BY <3>3, <3>4
  <2>7. QED BY <1>6, <2>2, <2>4, <2>5, <2>6
<1>8. CASE series[w] + 1 \notin SeriesOf(source)
  <2>1. pc' = [pc EXCEPT ![w] = "next"] /\ UNCHANGED <<series, chain>>
    BY <1>8 DEF Settle, limiterVars
  <2>2. FetchTypeOK' BY <1>1, <1>3, <2>1 DEF FetchTypeOK
  <2>3. (\A v \in Workers \ {w} : Busy(v)' <=> Busy(v)) /\ ~Busy(w)'
    BY <2>1 DEF Busy, FetchTypeOK
  <2>4. ChainWaits' BY <2>1, NotAsking
  <2>5. AsksInRange' BY <1>1, <1>2, <2>1, <2>3 DEF AsksInRange
  <2>6. \A k \in SeriesOf(source) : series[w] <= k => k = series[w]
    BY <1>0, <1>8, FetchAssumption DEF SeriesOf, Series
  <2>7. TakenIsKept'
    <3>1. SUFFICES ASSUME NEW i \in ItemsOf(source), NEW k \in SeriesOf(source),
                          i < next,
                          outcome'[<<i, k>>] = "none"
                   PROVE  \E v \in Workers : Busy(v)' /\ item[v] = i /\ series[v] <= k
      BY <1>1, <1>2, <2>1 DEF TakenIsKept
    <3>2. PICK v \in Workers : Busy(v) /\ item[v] = i /\ series[v] <= k
      BY <1>3, <1>4, <3>1 DEF TakenIsKept
    <3>3. v # w BY <1>3, <2>6, <3>1, <3>2
    <3>4. QED BY <2>3, <3>2, <3>3
  <2>8. QED BY <1>6, <2>2, <2>4, <2>5, <2>7
<1>9. QED BY <1>7, <1>8

LEMMA AnswerKeeps ==
  ASSUME FetchInv, NEW w \in Workers, Answer(w)
  PROVE FetchInv'
<1>1. PICK a, r : Answered(w, a, r)
  BY DEF Answer, FredAnswer, BlsAnswer, BeaAnswer,
         CensusAnswer, NoaaAnswer
<1>2. pc[w] = "fetch" BY <1>1 DEF Answered
<1>3. CASE Settle(w, "answered") BY <1>2, <1>3, SettleKeeps
<1>4. CASE Settle(w, "error") BY <1>2, <1>4, SettleKeeps
<1>5. CASE Retry(w)
  <2>1. pc' = [pc EXCEPT ![w] = "delay"] /\ UNCHANGED <<source, next, item, series, outcome,
  chain>>
    BY <1>5 DEF Retry, limiterVars
  <2>2. ChainWaits' BY <1>2, <2>1, NotAsking
  <2>3. chain' \in Seq(Workers) BY <2>1 DEF FetchInv, FetchTypeOK
  <2>4. QED BY <1>2, <2>1, <2>2, <2>3, GoesOn DEF Busy
<1>6. QED BY <1>1, <1>3, <1>4, <1>5 DEF Answered

LEMMA DelayKeeps ==
  ASSUME FetchInv, NEW w \in Workers, DelayOver(w)
  PROVE FetchInv'
<1>1. /\ pc[w] = "delay" /\ pc' = [pc EXCEPT ![w] = "acquire"]
      /\ chain' = Append(chain, w) /\ UNCHANGED <<source, next, item, series, outcome>>
  BY DEF DelayOver, Acquire
<1>2. chain' \in Seq(Workers) BY <1>1 DEF FetchInv, FetchTypeOK
<1>3. ChainWaits' BY <1>1, Asks
<1>4. QED BY <1>1, <1>2, <1>3, GoesOn DEF Busy

LEMMA FetchNextKeeps ==
  FetchInv /\ SleeperWaits /\ [FetchNext]_fetchVars => FetchInv' /\ SleeperWaits'
<1> SUFFICES ASSUME FetchInv, SleeperWaits, [FetchNext]_fetchVars PROVE FetchInv'
  BY SleeperKeeps
<1>1. CASE UNCHANGED fetchVars
  BY <1>1 DEF fetchVars, working, limiterVars, FetchInv, FetchTypeOK,
              ChainWaits, AsksInRange,
              TakenIsKept, DoneAtTheEnd, Busy, ItemsOf, SeriesOf
<1>2. ASSUME NEW w \in Workers, Work(w) PROVE FetchInv'
  <2>1. CASE Take(w) BY <2>1, TakeKeeps
  <2>2. CASE Answer(w) BY <2>2, AnswerKeeps
  <2>3. CASE DelayOver(w) BY <2>3, DelayKeeps
  <2>4. QED BY <1>2, <2>1, <2>2, <2>3 DEF Work
<1>3. CASE Limit BY <1>3, LimitKeeps
<1>4. QED BY <1>1, <1>2, <1>3 DEF FetchNext

-----------------------------------------------------------------------------
(* What each worker has asked for, and that no other one has.                *)
CountTypeOK ==
  /\ attempt \in [Workers -> 0..RetryDelays]
  /\ requests \in [Tasks -> Nat]

(* A worker has asked once for each attempt that is over, and once more when *)
(* it was let go; after the last attempt there is no pause.                  *)
Counts ==
  \A w \in Workers :
    /\ Busy(w) => requests[Task(w)] = IF pc[w] = "acquire" THEN attempt[w] ELSE attempt[w] + 1
    /\ pc[w] = "delay" => attempt[w] < RetryDelays

(* Two workers are at two items.                                             *)
Apart == \A v, w \in Workers : Busy(v) /\ Busy(w) /\ item[v] = item[w] => v = w

New(task, outcomes, asked) == outcomes[task] = "none" /\ asked[task] = 0

(* The items from the cursor on, and the series a worker has yet to come to, *)
(* are as they were in the beginning.                                        *)
AheadUntouched ==
  /\ \A i \in Items, k \in Series : i >= next => New(<<i, k>>, outcome, requests)
  /\ \A w \in Workers : Busy(w) =>
       /\ item[w] < next
       /\ outcome[Task(w)] = "none"
       /\ \A k \in Series : k > series[w] => New(<<item[w], k>>, outcome, requests)

(* The source is asked for what is settled, and never more often for one     *)
(* thing than the pauses between its retries allow.                          *)
WithinRetries ==
  \A t \in Tasks :
    /\ requests[t] <= RetryDelays + 1
    /\ outcome[t] # "none" => requests[t] > 0

OnceInv == CountTypeOK /\ Counts /\ Apart /\ AheadUntouched /\ WithinRetries

SettledStays == \A t \in Tasks :
  outcome[t] # "none" => outcome'[t] = outcome[t] /\ requests'[t] = requests[t]

LEMMA OnceInit == FetchInit => OnceInv
<1> SUFFICES ASSUME FetchInit PROVE OnceInv OBVIOUS
<1>1. \A i \in Items, k \in Series : <<i, k>> \in Tasks BY DEF Tasks
<1>2. CountTypeOK BY FetchAssumption DEF FetchInit, CountTypeOK
<1>3. Counts /\ Apart BY DEF FetchInit, Counts, Apart, Busy
<1>4. AheadUntouched BY <1>1 DEF FetchInit, AheadUntouched, New, Busy
<1>5. WithinRetries BY FetchAssumption DEF FetchInit, WithinRetries
<1>6. QED BY <1>2, <1>3, <1>4, <1>5 DEF OnceInv

(* The tasks are pairs; what one worker does is at its own.                  *)
LEMMA Pairs ==
  ASSUME FetchInv
  PROVE  /\ \A i \in Items, k \in Series : <<i, k>> \in Tasks
         /\ \A t \in Tasks : \E i \in Items, k \in Series : t = <<i, k>>
         /\ \A w \in Workers : item[w] \in Items /\ series[w] \in Series /\ Task(w) \in Tasks
         /\ \A v, w \in Workers : Task(v) = Task(w) => item[v] = item[w]
  BY DEF FetchInv, FetchTypeOK, Tasks, Task

LEMMA TakeOnce ==
  ASSUME FetchInv, OnceInv, NEW w \in Workers, Take(w) PROVE OnceInv' /\ SettledStays
<1> USE DEF OnceInv
<1>0. /\ source \in Sources /\ next \in Nat /\ DOMAIN pc = Workers /\ Items \subseteq Nat
      /\ DOMAIN item = Workers /\ DOMAIN series = Workers /\ DOMAIN attempt = Workers
      /\ RetryDelays \in Nat /\ Series \subseteq Nat
  BY Ranges, FetchAssumption DEF FetchInv, FetchTypeOK, CountTypeOK
<1>1. /\ pc[w] = "next" /\ next' = next + 1 /\ UNCHANGED <<source, outcome, requests>>
  BY DEF Take
<1>2. WithinRetries' /\ SettledStays BY <1>1 DEF WithinRetries, SettledStays
<1>3. \A i \in Items, k \in Series : i >= next => New(<<i, k>>, outcome', requests')
  BY <1>1 DEF AheadUntouched, New
<1>4. \A i \in Items, k \in Series : i >= next' => New(<<i, k>>, outcome', requests')
  BY <1>0, <1>1, <1>3 DEF New
<1>5. CASE next \notin ItemsOf(source)
  <2>1. pc' = [pc EXCEPT ![w] = "done"] /\ UNCHANGED <<item, series, attempt>>
    BY <1>5 DEF Take
  <2>2. \A v \in Workers : Busy(v)' \/ pc'[v] = "delay" => Busy(v) /\ pc'[v] = pc[v]
    BY <1>0, <2>1 DEF Busy
  <2>3. CountTypeOK'
    BY <1>1, <2>1 DEF CountTypeOK
  <2>a. Apart'
    BY <2>1, <2>2 DEF Apart
  <2>b. Counts'
    <3>1. \A v \in Workers : Task(v)' = Task(v)
      BY <2>1 DEF Task
    <3>2. \A v \in Workers :
            /\ Busy(v) => requests'[Task(v)] = IF pc[v] = "acquire" THEN attempt'[v]
                                                                   ELSE attempt'[v] + 1
            /\ pc[v] = "delay" => attempt'[v] < RetryDelays
      BY <1>1, <2>1 DEF Counts
    <3>3. QED
      BY <2>2, <3>1, <3>2 DEF Counts
  <2>4. AheadUntouched'
    <3>1. \A v \in Workers : item[v] \in Nat BY <1>0, Pairs
    <3>2. ASSUME NEW v \in Workers, Busy(v)'
          PROVE  /\ item'[v] < next' /\ outcome'[Task(v)'] = "none"
                 /\ \A k \in Series : k > series'[v] => New(<<item'[v], k>>, outcome', requests')
      <4>1. Busy(v) /\ Task(v)' = Task(v) /\ item[v] \in Nat
        BY <2>1, <2>2, <3>1, <3>2 DEF Task
      <4>2. /\ item[v] < next /\ outcome[Task(v)] = "none"
            /\ \A k \in Series : k > series[v] => New(<<item[v], k>>, outcome, requests)
        BY <4>1 DEF AheadUntouched
      <4>3. QED
        BY <1>0, <1>1, <2>1, <4>1, <4>2
    <3>3. QED BY <1>4, <3>2 DEF AheadUntouched, New, Task
  <2>5. QED BY <1>2, <2>3, <2>a, <2>b, <2>4
<1>6. CASE next \in ItemsOf(source)
  <2>1. /\ pc' = [pc EXCEPT ![w] = "acquire"]
        /\ item' = [item EXCEPT ![w] = next]
        /\ series' = [series EXCEPT ![w] = 1]
        /\ attempt' = [attempt EXCEPT ![w] = 0]
    BY <1>6 DEF Take
  <2>2. next \in Items /\ 1 \in Series /\ 0 \in 0..RetryDelays
    BY <1>0, <1>6, Ranges, FetchAssumption
  <2>3. /\ \A v \in Workers \ {w} : /\ Busy(v)' <=> Busy(v)
                                    /\ pc'[v] = pc[v] /\ Task(v)' = Task(v)
                                    /\ item'[v] = item[v] /\ series'[v] = series[v]
                                    /\ attempt'[v] = attempt[v]
        /\ pc'[w] = "acquire" /\ item'[w] = next /\ series'[w] = 1 /\ attempt'[w] = 0
        /\ Task(w)' = <<next, 1>>
    BY <1>0, <2>1 DEF Busy, Task
  <2>4. New(<<next, 1>>, outcome, requests) /\ \A k \in Series : New(<<next, k>>, outcome', requests')
    BY <1>0, <1>3, <2>2 DEF AheadUntouched, New
  <2>5. CountTypeOK' BY <1>1, <2>1, <2>2 DEF CountTypeOK
  <2>6. Counts' BY <1>1, <2>3, <2>4 DEF Counts, New
  <2>7. \A v \in Workers \ {w} : Busy(v) => item[v] < next /\ item[v] \in Nat
    BY <1>0, Pairs DEF AheadUntouched
  <2>8. Apart' BY <1>0, <2>3, <2>7 DEF Apart
  <2>9. ASSUME NEW v \in Workers, Busy(v)'
        PROVE  /\ item'[v] < next' /\ outcome'[Task(v)'] = "none"
               /\ \A k \in Series : k > series'[v] => New(<<item'[v], k>>, outcome', requests')
    <3>1. CASE v = w BY <1>0, <1>1, <2>3, <2>4, <3>1 DEF New
    <3>2. CASE v # w
      <4>1. Busy(v) /\ item'[v] = item[v] /\ series'[v] = series[v] /\ Task(v)' = Task(v)
        BY <2>3, <2>9, <3>2
      <4>2. /\ item[v] < next /\ item[v] \in Nat /\ outcome[Task(v)] = "none"
            /\ \A k \in Series : k > series[v] => New(<<item[v], k>>, outcome, requests)
        BY <2>7, <3>2, <4>1 DEF AheadUntouched
      <4>3. QED BY <1>0, <1>1, <4>1, <4>2 DEF New
    <3>3. QED BY <3>1, <3>2
  <2>10. AheadUntouched' BY <1>4, <2>9 DEF AheadUntouched, New, Task
  <2>11. QED BY <1>2, <2>5, <2>6, <2>8, <2>10
<1>7. QED BY <1>5, <1>6

(* A busy worker that stays at its task, and asks for it or not.             *)
LEMMA StaysOnce ==
  ASSUME FetchInv, OnceInv, NEW w \in Workers, Busy(w),
         NEW step \in {"acquire", "fetch", "delay"}, pc' = [pc EXCEPT ![w] = step],
         NEW n \in 0..RetryDelays, attempt' = [attempt EXCEPT ![w] = n],
         NEW asked \in 0..(RetryDelays + 1), requests' = [requests EXCEPT ![Task(w)] = asked],
         asked = IF step = "acquire" THEN n ELSE n + 1,
         step = "delay" => n < RetryDelays,
         UNCHANGED <<next, item, series, outcome>>
  PROVE  OnceInv' /\ SettledStays
<1> USE DEF OnceInv
<1>0. /\ DOMAIN pc = Workers /\ Task(w) \in Tasks /\ RetryDelays \in Nat
      /\ attempt \in [Workers -> 0..RetryDelays] /\ requests \in [Tasks -> Nat]
  BY Pairs, FetchAssumption DEF FetchInv, FetchTypeOK, CountTypeOK
<1>1. /\ \A v \in Workers : Busy(v)' <=> Busy(v)
      /\ \A v \in Workers \ {w} : pc'[v] = pc[v] /\ attempt'[v] = attempt[v]
      /\ pc'[w] = step /\ attempt'[w] = n
      /\ \A v \in Workers : Task(v)' = Task(v)
  BY <1>0 DEF Busy, Task
<1>2. /\ requests'[Task(w)] = asked /\ asked \in Nat /\ outcome[Task(w)] = "none"
      /\ \A t \in Tasks \ {Task(w)} : requests'[t] = requests[t]
  BY <1>0 DEF AheadUntouched
<1>3. CountTypeOK' BY <1>0, <1>2 DEF CountTypeOK
<1>4. \A v \in Workers \ {w} : Busy(v) => Task(v) \in Tasks /\ item[v] # item[w] /\ Task(v) # Task(w)
  BY Pairs DEF Apart
<1>5. Counts'
  <2>1. ASSUME NEW v \in Workers
        PROVE  /\ Busy(v) => requests'[Task(v)] = IF pc'[v] = "acquire" THEN attempt'[v]
                                                                    ELSE attempt'[v] + 1
               /\ pc'[v] = "delay" => attempt'[v] < RetryDelays
    <3>1. CASE v = w BY <1>1, <1>2, <3>1
    <3>2. CASE v # w BY <1>1, <1>2, <1>4, <3>2 DEF Counts
    <3>3. QED BY <3>1, <3>2
  <2>2. QED BY <1>1, <2>1 DEF Counts
<1>6. Apart' BY <1>1 DEF Apart
<1>7. WithinRetries' BY <1>0, <1>2 DEF WithinRetries
<1>8. SettledStays BY <1>2 DEF SettledStays
<1>9. AheadUntouched'
  <2>1. ASSUME NEW i \in Items, NEW k \in Series, New(<<i, k>>, outcome, requests), <<i, k>> # Task(w)
        PROVE  New(<<i, k>>, outcome', requests')
    BY <1>2, <2>1, Pairs DEF New
  <2>2. item[w] \in Nat /\ next \in Nat /\ item[w] < next /\ Items \subseteq Nat
        /\ series[w] \in Nat /\ Series \subseteq Nat
    BY Pairs, Ranges DEF FetchInv, FetchTypeOK, AheadUntouched
  <2>3. \A i \in Items, k \in Series : i >= next => <<i, k>> # Task(w)
    BY <2>2 DEF Task
  <2>4. \A i \in Items, k \in Series : i >= next' => New(<<i, k>>, outcome', requests')
    BY <2>1, <2>3 DEF AheadUntouched
  <2>5. ASSUME NEW v \in Workers, Busy(v), NEW k \in Series, k > series[v]
        PROVE  New(<<item[v], k>>, outcome', requests')
    <3>1. New(<<item[v], k>>, outcome, requests) /\ item[v] \in Items BY <2>5, Pairs DEF AheadUntouched
    <3>2. <<item[v], k>> # Task(w)
      <4>1. CASE v = w BY <2>2, <2>5, <4>1 DEF Task
      <4>2. CASE v # w BY <1>4, <2>5, <4>2 DEF Task
      <4>3. QED BY <4>1, <4>2
    <3>3. QED BY <2>1, <3>1, <3>2
  <2>6. \A v \in Workers : Busy(v) => item'[v] < next' /\ outcome'[Task(v)] = "none"
    BY DEF AheadUntouched
  <2>7. \A v \in Workers : Busy(v)' => \A k \in Series :
           k > series'[v] => New(<<item[v], k>>, outcome', requests')
    BY <1>1, <2>5
  <2>8. QED BY <1>1, <2>4, <2>6, <2>7 DEF AheadUntouched, New
<1>10. QED BY <1>3, <1>5, <1>6, <1>7, <1>8, <1>9

(* A task is settled, and the next series begun or the item left.            *)
LEMMA SettleOnce ==
  ASSUME FetchInv, OnceInv, NEW w \in Workers, pc[w] = "fetch",
         NEW result, result # "none", Settle(w, result)
  PROVE  OnceInv' /\ SettledStays
<1> USE DEF OnceInv
<1>0. /\ DOMAIN pc = Workers /\ DOMAIN series = Workers /\ DOMAIN outcome = Tasks
      /\ Busy(w) /\ Task(w) \in Tasks /\ source \in Sources
      /\ RetryDelays \in Nat /\ 0 \in 0..RetryDelays /\ next \in Nat
      /\ attempt \in [Workers -> 0..RetryDelays] /\ requests \in [Tasks -> Nat]
      /\ Items \subseteq Nat /\ Series \subseteq Nat /\ item[w] \in Nat /\ series[w] \in Nat
  BY Pairs, Ranges, FetchAssumption DEF FetchInv, FetchTypeOK, CountTypeOK, Busy
<1>1. /\ outcome' = [outcome EXCEPT ![Task(w)] = result] /\ UNCHANGED <<source, next, item, requests>>
  BY DEF Settle
<1>2. /\ outcome[Task(w)] = "none" /\ item[w] < next
      /\ \A t \in Tasks \ {Task(w)} : outcome'[t] = outcome[t]
      /\ requests[Task(w)] > 0
  BY <1>0, <1>1 DEF AheadUntouched, Counts
<1>3. WithinRetries' BY <1>1, <1>2 DEF WithinRetries
<1>4. SettledStays BY <1>1, <1>2 DEF SettledStays
<1>5. \A v \in Workers \ {w} : Busy(v) => Task(v) \in Tasks /\ item[v] # item[w] /\ Task(v) # Task(w)
  BY <1>0, Pairs DEF Apart
<1>6. \A i \in Items, k \in Series : New(<<i, k>>, outcome, requests) /\ <<i, k>> # Task(w) => New(<<i, k>>, outcome', requests')
  BY <1>1, <1>2, Pairs DEF New
<1>7. \A i \in Items, k \in Series : i >= next' => New(<<i, k>>, outcome', requests')
  <2>1. \A i \in Items, k \in Series : i >= next => <<i, k>> # Task(w)
    BY <1>0, <1>2 DEF Task
  <2>2. QED BY <1>1, <1>6, <2>1 DEF AheadUntouched, New
(* Whoever is busy with another item stays so.                               *)
<1>8. ASSUME NEW v \in Workers \ {w}, Busy(v)
      PROVE  /\ item[v] < next' /\ outcome'[Task(v)] = "none"
             /\ \A k \in Series : k > series[v] => New(<<item[v], k>>, outcome', requests')
  <2>1. /\ item[v] \in Items /\ item[v] < next /\ outcome[Task(v)] = "none"
        /\ \A k \in Series : k > series[v] => New(<<item[v], k>>, outcome, requests)
    BY <1>8, Pairs DEF AheadUntouched
  <2>2. \A k \in Series : <<item[v], k>> # Task(w)
    BY <1>5, <1>8 DEF Task
  <2>3. \A k \in Series : k > series[v] => New(<<item[v], k>>, outcome', requests')
    BY <1>6, <2>1, <2>2 DEF New
  <2>4. QED BY <1>1, <1>2, <1>5, <1>8, <2>1, <2>3
<1>9. CASE series[w] + 1 \in SeriesOf(source)
  <2>1. /\ series' = [series EXCEPT ![w] = @ + 1]
        /\ attempt' = [attempt EXCEPT ![w] = 0]
        /\ pc' = [pc EXCEPT ![w] = "acquire"]
    BY <1>9 DEF Settle
  <2>2. series[w] + 1 \in Series BY <1>0, <1>9, Ranges
  <2>3. /\ \A v \in Workers \ {w} : /\ Busy(v)' <=> Busy(v)
                                    /\ pc'[v] = pc[v] /\ Task(v)' = Task(v)
                                    /\ series'[v] = series[v] /\ attempt'[v] = attempt[v]
        /\ Busy(w)' /\ pc'[w] = "acquire" /\ series'[w] = series[w] + 1 /\ attempt'[w] = 0
        /\ Task(w)' = <<item[w], series[w] + 1>>
    BY <1>0, <1>1, <2>1 DEF Busy, Task
  <2>4. \A k \in Series : k > series[w] => New(<<item[w], k>>, outcome, requests) /\ <<item[w], k>> # Task(w)
    <3>1. \A k \in Series : k > series[w] => New(<<item[w], k>>, outcome, requests)
      BY <1>0 DEF AheadUntouched
    <3>2. series[w] \in Nat /\ Task(w) = <<item[w], series[w]>>
      BY <1>0, Pairs DEF Task
    <3>3. ASSUME NEW k \in Series, k > series[w] PROVE <<item[w], k>> # Task(w)
      <4>1. k # series[w] BY <3>2, <3>3 DEF Series
      <4>2. QED BY <3>2, <4>1
    <3>4. QED BY <3>1, <3>3
  <2>5. New(<<item[w], series[w] + 1>>, outcome, requests) /\ <<item[w], series[w] + 1>> # Task(w)
    BY <1>0, <2>2, <2>4
  <2>6. CountTypeOK' BY <1>0, <1>1, <2>1 DEF CountTypeOK
  <2>7. Counts' BY <1>1, <2>3, <2>5 DEF Counts, New
  <2>8. Apart' BY <1>1, <2>3, <1>0 DEF Apart
  <2>9. ASSUME NEW v \in Workers, Busy(v)'
        PROVE  /\ item'[v] < next' /\ outcome'[Task(v)'] = "none"
               /\ \A k \in Series : k > series'[v] => New(<<item'[v], k>>, outcome', requests')
    <3>1. CASE v = w
      <4>1. \A k \in Series : k > series[w] + 1 => New(<<item[w], k>>, outcome', requests')
        <5>1. \A k \in Series : k > series[w] + 1 => k > series[w]
          BY <1>0
        <5>2. item[w] \in Items
          BY Pairs
        <5>3. QED
          BY <1>6, <2>4, <5>1, <5>2
      <4>2. outcome'[<<item[w], series[w] + 1>>] = "none"
        BY <1>2, <2>2, <2>5, Pairs DEF New
      <4>3. QED BY <1>1, <1>2, <2>3, <3>1, <4>1, <4>2 DEF New
    <3>2. CASE v # w BY <1>1, <1>8, <2>3, <2>9, <3>2 DEF New
    <3>3. QED BY <3>1, <3>2
  <2>10. AheadUntouched' BY <1>7, <2>9 DEF AheadUntouched, New, Task
  <2>11. QED BY <1>3, <1>4, <2>6, <2>7, <2>8, <2>10
<1>10. CASE series[w] + 1 \notin SeriesOf(source)
  <2>1. pc' = [pc EXCEPT ![w] = "next"] /\ UNCHANGED <<series, attempt>>
    BY <1>10 DEF Settle
  <2>2. /\ \A v \in Workers \ {w} : (Busy(v)' <=> Busy(v)) /\ pc'[v] = pc[v]
        /\ ~Busy(w)' /\ pc'[w] = "next"
        /\ \A v \in Workers : Task(v)' = Task(v)
    BY <1>0, <1>1, <2>1 DEF Busy, Task
  <2>3. CountTypeOK' BY <1>1, <2>1 DEF CountTypeOK
  <2>4. Counts' BY <1>1, <2>1, <2>2 DEF Counts
  <2>5. Apart' BY <1>1, <2>2 DEF Apart
  <2>6. AheadUntouched' BY <1>1, <1>7, <1>8, <2>1, <2>2 DEF AheadUntouched, New, Task
  <2>7. QED BY <1>3, <1>4, <2>3, <2>4, <2>5, <2>6
<1>11. QED BY <1>9, <1>10

LEMMA AnswerOnce ==
  ASSUME FetchInv, OnceInv, NEW w \in Workers, Answer(w) PROVE OnceInv' /\ SettledStays
<1>1. PICK a, r : Answered(w, a, r)
  BY DEF Answer, FredAnswer, BlsAnswer, BeaAnswer, CensusAnswer, NoaaAnswer
<1>2. pc[w] = "fetch" BY <1>1 DEF Answered
<1>3. CASE Settle(w, "answered") BY <1>2, <1>3, SettleOnce
<1>4. CASE Settle(w, "error") BY <1>2, <1>4, SettleOnce
<1>5. CASE Retry(w) /\ attempt[w] < RetryDelays
  <2>1. /\ pc' = [pc EXCEPT ![w] = "delay"]
        /\ UNCHANGED <<next, item, series, attempt, outcome, requests>>
    BY <1>5 DEF Retry
  <2> DEFINE n == attempt[w]
  <2>2. n \in 0..RetryDelays /\ RetryDelays \in Nat /\ Busy(w)
        /\ attempt' = [attempt EXCEPT ![w] = n]
    BY <1>2, <2>1, FetchAssumption DEF OnceInv, CountTypeOK, Busy
  <2>3. requests[Task(w)] = n + 1 /\ n + 1 \in 0..(RetryDelays + 1)
        /\ requests' = [requests EXCEPT ![Task(w)] = n + 1]
    BY <1>2, <2>1, <2>2, Pairs DEF OnceInv, Counts, CountTypeOK
  <2> HIDE DEF n
  <2>4. n < RetryDelays BY <1>5 DEF n
  <2>5. QED BY <2>1, <2>2, <2>3, <2>4, StaysOnce
<1>6. QED BY <1>1, <1>3, <1>4, <1>5 DEF Answered

LEMMA DelayOnce ==
  ASSUME FetchInv, OnceInv, NEW w \in Workers, DelayOver(w) PROVE OnceInv' /\ SettledStays
<1> DEFINE n == attempt[w] + 1
<1>1. /\ pc[w] = "delay" /\ pc' = [pc EXCEPT ![w] = "acquire"]
      /\ attempt' = [attempt EXCEPT ![w] = n]
      /\ UNCHANGED <<next, item, series, outcome, requests>>
  BY DEF DelayOver
<1>2. n \in 0..RetryDelays /\ n \in 0..(RetryDelays + 1) /\ Busy(w)
  BY <1>1, FetchAssumption DEF OnceInv, CountTypeOK, Counts, Busy
<1>3. requests[Task(w)] = n /\ requests' = [requests EXCEPT ![Task(w)] = n]
  BY <1>1, <1>2, Pairs DEF OnceInv, Counts, CountTypeOK
<1> HIDE DEF n
<1>4. QED BY <1>1, <1>2, <1>3, StaysOnce

LEMMA LimitOnce ==
  ASSUME FetchInv, SleeperWaits, OnceInv, Limit PROVE OnceInv' /\ SettledStays
<1> DEFINE w == Head(chain)
<1>1. CASE chain' = chain
  <2>1. UNCHANGED working BY <1>1 DEF Limit
  <2>2. QED
    BY <2>1 DEF working, OnceInv, CountTypeOK, Counts, Apart, AheadUntouched, New,
                WithinRetries, SettledStays, Busy, Task
<1>2. CASE chain' # chain
  <2> DEFINE n == attempt[w]
  <2>1. /\ pc' = [pc EXCEPT ![w] = "fetch"]
        /\ requests' = [requests EXCEPT ![Task(w)] = @ + 1]
        /\ UNCHANGED <<next, item, series, attempt, outcome>>
    BY <1>2 DEF Limit
  <2>2. w \in Workers /\ pc[w] = "acquire"
    BY <1>2, <2>1, LimitLetsGo, LetGo
  <2> HIDE DEF w
  <2>3. n \in 0..RetryDelays /\ RetryDelays \in Nat /\ Busy(w)
        /\ attempt' = [attempt EXCEPT ![w] = n]
    BY <2>1, <2>2, FetchAssumption DEF OnceInv, CountTypeOK, Busy
  <2>4. requests[Task(w)] = n /\ n + 1 \in 0..(RetryDelays + 1)
        /\ requests' = [requests EXCEPT ![Task(w)] = n + 1]
    <3>1. requests[Task(w)] = n
      BY <2>2, <2>3 DEF OnceInv, Counts
    <3>2. n + 1 \in 0..(RetryDelays + 1)
      BY <2>3
    <3>3. QED
      BY <2>1, <3>1, <3>2
  <2> HIDE DEF n
  <2>5. QED BY <2>1, <2>2, <2>3, <2>4, StaysOnce
<1>3. QED BY <1>1, <1>2

LEMMA FetchNextOnce ==
  ASSUME FetchInv, SleeperWaits, OnceInv, [FetchNext]_fetchVars PROVE OnceInv' /\ SettledStays
<1>1. CASE UNCHANGED fetchVars
  BY <1>1 DEF fetchVars, working, OnceInv, CountTypeOK, Counts, Apart, AheadUntouched, New,
              WithinRetries, SettledStays, Busy, Task
<1>2. CASE Limit BY <1>2, LimitOnce
<1>3. ASSUME NEW w \in Workers, Work(w) PROVE OnceInv' /\ SettledStays
  BY <1>3, TakeOnce, AnswerOnce, DelayOnce DEF Work
<1>4. QED BY <1>1, <1>2, <1>3 DEF FetchNext

LEMMA OnceHolds == FetchSpec => [](FetchInv /\ SleeperWaits /\ OnceInv)
<1>1. FetchInit => SleeperWaits BY DEF FetchInit, LimiterInit, SleeperWaits
<1>2. QED BY <1>1, FetchInitKeeps, OnceInit, FetchNextKeeps, FetchNextOnce, PTL DEF FetchSpec

(* A source that returns has an outcome for everything it asks for, and did  *)
(* ask within its retries: the workers lose nothing between them (fred.ts,   *)
(* the cursor of its workers; every other source), for any number of items,  *)
(* series, retries, failures.                                                *)
THEOREM FetchSettlesAll == FetchSpec => []AllSettled
<1>1. FetchInv /\ OnceInv => AllSettled
  <2>1. SUFFICES ASSUME FetchInv, OnceInv, Finished,
                        NEW i \in ItemsOf(source), NEW k \in SeriesOf(source)
                 PROVE  /\ outcome[<<i, k>>] # "none"
                        /\ requests[<<i, k>>] \in 1..(RetryDelays + 1)
    BY DEF AllSettled
  <2>2. 1 \in Workers BY FetchAssumption DEF Workers
  <2>3. i < next BY <2>1, <2>2 DEF Finished, FetchInv, DoneAtTheEnd
  <2>4. \A w \in Workers : ~Busy(w) BY <2>1 DEF Finished, Busy
  <2>5. outcome[<<i, k>>] # "none" BY <2>1, <2>3, <2>4 DEF FetchInv, TakenIsKept
  <2>6. <<i, k>> \in Tasks
    BY FetchAssumption DEF Tasks, Items, Series, ItemsOf, SeriesOf
  <2>7. QED BY <2>1, <2>5, <2>6, FetchAssumption DEF OnceInv, CountTypeOK, WithinRetries
<1>2. QED BY <1>1, OnceHolds, PTL

(* Nothing is asked for more often than the pauses between retries allow,    *)
(* nor settled without being asked for, by any of the five sources.          *)
THEOREM RetriesEnd == FetchSpec => []WithinRetries
<1>1. OnceInv => WithinRetries BY DEF OnceInv
<1>2. QED BY <1>1, OnceHolds, PTL

(* What one worker settled no other one asks for again, or settles again:    *)
(* the cursor they share gives each item to one of them (rate-limit.ts 61).  *)
THEOREM SettlesOnce == FetchSpec => SettledOnce
<1>1. FetchInv /\ SleeperWaits /\ OnceInv /\ [FetchNext]_fetchVars =>
        [\A t \in Tasks :
           outcome[t] # "none" => outcome'[t] = outcome[t] /\ requests'[t] = requests[t]]_fetchVars
  BY FetchNextOnce DEF SettledStays
<1>2. QED BY <1>1, OnceHolds, PTL DEF FetchSpec, SettledOnce

=============================================================================

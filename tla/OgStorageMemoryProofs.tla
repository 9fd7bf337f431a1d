----------------------- MODULE OgStorageMemoryProofs -----------------------
(***************************************************************************)
(* The memory's types, that no log entry is lost on its way to 0G, that    *)
(* the batches keep the order of the log while the manifest's writes       *)
(* succeed, and that the agent resumes from what was saved, and 0G keeps   *)
(* the newest state, but for what a misleading anchor takes: for every     *)
(* batch size, cap, bound and set of faults.                               *)
(***************************************************************************)
EXTENDS OgStorageMemory, SequenceTheorems, TLAPS

(* What a save or a hydration writes is a state.                             *)
WritingAgrees == phase \in {"saving", "stopping", "hydrating"} => writing \in Version

(* A process that is down has no memory, no timer and no uploads.            *)
DownIsEmpty ==
  phase = "down" => buffer = <<>> /\ ~ timer /\ jobs = <<>> /\ job = NoJob

(* A batch that is uploaded is named, or was and has been evicted.           *)
UploadedIsNamed ==
  job.kind = "log" /\ job.uploaded =>
    Range(job.entries) \subseteq Anchored(manifest) \cup evicted

IInv == TypeOK /\ WritingAgrees /\ DownIsEmpty /\ UploadedIsNamed /\ NoEntryLost

-----------------------------------------------------------------------------
(* A job is none, a state's upload or a batch's.                             *)
LEMMA JobKinds ==
  ASSUME TypeOK
  PROVE  /\ job = NoJob <=> job.kind = "none"
         /\ job.kind \in {"none", "state", "log"}
         /\ job.kind = "state" => job.blob \in Version /\ job.uploaded \in BOOLEAN
         /\ job.kind = "log" => job.entries \in Seq(Nat) /\ job.uploaded \in BOOLEAN
<1>. QED BY DEF TypeOK, Job, NoJob

(* What a crash or an error leaves on disk is a manifest, torn or absent.    *)
LEMMA RemainsTyped ==
  ASSUME TypeOK PROVE ManifestRemains \subseteq Manifest \cup {Absent, Torn}
<1>. QED BY DEF TypeOK, ManifestRemains, Remains

LEMMA LoadedTyped ==
  ASSUME TypeOK PROVE LoadedManifest \in Manifest
<1>1. <<>> \in Seq(Seq(Nat)) /\ Len(<<>>) = 0
  OBVIOUS
<1>2. EmptyManifest \in Manifest
  BY <1>1, MemoryAssumption DEF EmptyManifest, Manifest
<1>. QED BY <1>2 DEF TypeOK, LoadedManifest

(* The capped list is the head of the whole one.                             *)
LEMMA CappedList ==
  ASSUME NEW all \in Seq(Seq(Nat))
  PROVE  /\ Capped(all) \in Seq(Seq(Nat))
         /\ Len(Capped(all)) <= ManifestCap
         /\ Len(Capped(all)) <= Len(all)
         /\ Len(all) >= 1 => Len(Capped(all)) >= 1
         /\ \A i \in 1..Len(Capped(all)) : Capped(all)[i] = all[i]
<1>1. CASE Len(all) > ManifestCap
  <2>1. \A i \in 1..ManifestCap : all[i] \in Seq(Nat)
    BY <1>1, MemoryAssumption
  <2>2. /\ SubSeq(all, 1, ManifestCap) \in Seq(Seq(Nat))
        /\ Len(SubSeq(all, 1, ManifestCap)) = ManifestCap
        /\ \A i \in 1..ManifestCap : SubSeq(all, 1, ManifestCap)[i] = all[i]
    BY <2>1, MemoryAssumption, SubSeqProperties
  <2>. QED BY <1>1, <2>2, MemoryAssumption DEF Capped
<1>2. CASE ~ (Len(all) > ManifestCap)
  BY <1>2, MemoryAssumption DEF Capped
<1>. QED BY <1>1, <1>2

(* The new batch comes first, the old ones after it.                         *)
LEMMA UnshiftedList ==
  ASSUME TypeOK, NEW es \in Seq(Nat)
  PROVE  /\ Unshifted(es) \in Seq(Seq(Nat))
         /\ Len(Unshifted(es)) = Len(manifest.batches) + 1
         /\ Len(manifest.batches) \in Nat
         /\ Unshifted(es)[1] = es
         /\ \A i \in 1..Len(manifest.batches) :
              Unshifted(es)[i + 1] = manifest.batches[i]
<1>1. manifest.batches \in Seq(Seq(Nat)) /\ <<es>> \in Seq(Seq(Nat)) /\ Len(<<es>>) = 1
  BY DEF TypeOK, Manifest
<1>2. /\ <<es>> \o manifest.batches \in Seq(Seq(Nat))
      /\ Len(<<es>> \o manifest.batches) = 1 + Len(manifest.batches)
      /\ \A i \in 1..(1 + Len(manifest.batches)) :
           (<<es>> \o manifest.batches)[i] =
             IF i <= 1 THEN <<es>>[i] ELSE manifest.batches[i - 1]
      /\ Len(manifest.batches) \in Nat
  BY <1>1, ConcatProperties
<1>. QED BY <1>2 DEF Unshifted

(* The elements of sequences put together.                                   *)
LEMMA RangeOfSeqs ==
  ASSUME NEW s \in Seq(Nat), NEW u \in Seq(Nat), NEW n \in Nat
  PROVE  /\ Range(s \o u) = Range(s) \cup Range(u)
         /\ Range(Append(s, n)) = Range(s) \cup {n}
         /\ Range(<<>>) = {}
<1>1. Range(<<>>) = {}
  BY DEF Range
<1>2. /\ DOMAIN Append(s, n) = 1..(Len(s) + 1) /\ DOMAIN s = 1..Len(s)
      /\ Len(s) \in Nat
      /\ \A i \in 1..Len(s) : Append(s, n)[i] = s[i]
      /\ Append(s, n)[Len(s) + 1] = n
  OBVIOUS
<1>3. Range(Append(s, n)) = Range(s) \cup {n}
  BY <1>2 DEF Range
<1>4. /\ DOMAIN s = 1..Len(s) /\ DOMAIN u = 1..Len(u) /\ Len(s) \in Nat /\ Len(u) \in Nat
      /\ DOMAIN (s \o u) = 1..(Len(s) + Len(u))
      /\ \A i \in 1..(Len(s) + Len(u)) :
           (s \o u)[i] = IF i <= Len(s) THEN s[i] ELSE u[i - Len(s)]
  OBVIOUS
<1>5. Range(s \o u) \subseteq Range(s) \cup Range(u)
  BY <1>4 DEF Range
<1>6. Range(s) \subseteq Range(s \o u)
  BY <1>4 DEF Range
<1>7. Range(u) \subseteq Range(s \o u)
  <2>1. \A i \in 1..Len(u) : /\ i + Len(s) \in 1..(Len(s) + Len(u))
                             /\ (s \o u)[i + Len(s)] = u[i]
    BY <1>4
  <2>. QED BY <1>4, <2>1 DEF Range
<1>. QED BY <1>1, <1>3, <1>5, <1>6, <1>7

(* A failed job leaves a log in the buffer.                                  *)
LEMMA RequeuedTyped ==
  ASSUME TypeOK
  PROVE  /\ Requeued \in Seq(Nat)
         /\ Range(Requeued) = Range(InFlight) \cup Range(buffer)
<1>0. buffer \in Seq(Nat) /\ 0 \in Nat /\ <<>> \in Seq(Nat)
  BY DEF TypeOK
<1>1. CASE job.kind = "log"
  <2>1. job.entries \in Seq(Nat)
    BY <1>1, JobKinds
  <2>. QED BY <1>0, <1>1, <2>1, RangeOfSeqs DEF Requeued, InFlight
<1>2. CASE job.kind # "log"
  BY <1>0, <1>2, RangeOfSeqs DEF Requeued, InFlight
<1>. QED BY <1>1, <1>2

-----------------------------------------------------------------------------
LEMMA InitInv == Init => IInv
<1>. SUFFICES ASSUME Init PROVE IInv
  OBVIOUS
<1>1. /\ <<>> \in Seq(Nat) /\ <<>> \in Seq({"state", "log"})
      /\ <<>> \in Seq(Seq(Nat)) /\ Len(<<>>) = 0
  OBVIOUS
<1>2. EmptyManifest \in Manifest
  BY <1>1, MemoryAssumption DEF EmptyManifest, Manifest
<1>3. Fresh \in Version /\ NoJob \in Job
  BY MemoryAssumption DEF Fresh, Version, NoJob, Job
<1>4. TypeOK
  <2>1. /\ rev \in 0..MaxRev /\ acked \in 0..MaxRev
        /\ appended \in 0..MaxEntry /\ faults \in 0..MaxFaults
    BY MemoryAssumption DEF Init
  <2>. QED BY <1>1, <1>2, <1>3, <2>1 DEF Init, TypeOK
<1>5. WritingAgrees /\ DownIsEmpty /\ UploadedIsNamed /\ NoEntryLost
  BY DEF Init, WritingAgrees, DownIsEmpty, UploadedIsNamed, NoEntryLost, NoJob
<1>. QED BY <1>4, <1>5 DEF IInv

(* A process that goes down leaves a memory that is typed and empty.         *)
LEMMA DownTyped ==
  ASSUME TypeOK, Down, mirror' \in Version \cup {Absent, Torn},
         acked' \in 0..MaxRev, disk' \in ManifestRemains, missed' = missed,
         faults' \in 0..MaxFaults
  PROVE  TypeOK' /\ WritingAgrees' /\ DownIsEmpty' /\ UploadedIsNamed' /\ NoEntryLost'
<1>1. /\ <<>> \in Seq(Nat) /\ <<>> \in Seq({"state", "log"})
      /\ <<>> \in Seq(Seq(Nat)) /\ Len(<<>>) = 0
  OBVIOUS
<1>2. EmptyManifest \in Manifest
  BY <1>1, MemoryAssumption DEF EmptyManifest, Manifest
<1>3. Fresh \in Version /\ NoJob \in Job
  BY MemoryAssumption DEF Fresh, Version, NoJob, Job
<1>4. TypeOK'
  BY <1>1, <1>2, <1>3, RemainsTyped DEF TypeOK, Down, Running
<1>. QED BY <1>4 DEF Down, WritingAgrees, DownIsEmpty, UploadedIsNamed, NoEntryLost,
                     NoJob

(* The start of a process: it has appended nothing and uploads nothing.      *)
LEMMA LoadInv == ASSUME IInv, Load PROVE IInv'
<1>1. TypeOK /\ DownIsEmpty /\ LoadedManifest \in Manifest
  BY LoadedTyped DEF IInv
<1>2. LoadedManifest.state \in Anchor \cup {Absent}
  BY <1>1 DEF Manifest
<1>3. ShouldHydrate(LoadedManifest.state) => LoadedManifest.state.blob \in Version
  BY <1>2 DEF ShouldHydrate, Anchor
<1>4. Fresh \in Version
  BY MemoryAssumption DEF Fresh, Version
<1>5. live' \in Version
  BY <1>1, <1>4 DEF Load, TypeOK
<1>6. /\ phase' \in Running \cup {"down", "hydrating"}
      /\ writing' \in Version \cup {Absent}
      /\ phase' \in {"saving", "stopping", "hydrating"} => writing' \in Version
      /\ phase' # "down"
  BY <1>1, <1>3 DEF Load, TypeOK, Running
<1>7. first' \in Nat /\ first' = appended + 1 /\ appended \in Nat
  BY <1>1, MemoryAssumption DEF Load, TypeOK
<1>11. acked' \in 0..MaxRev
  BY <1>1, <1>3, MemoryAssumption DEF Load, Promised, TypeOK, Version
<1>8. TypeOK'
  BY <1>1, <1>5, <1>6, <1>7, <1>11 DEF Load, TypeOK
<1>9. NoEntryLost'
  BY <1>7 DEF NoEntryLost, Load
<1>10. job = NoJob /\ job' = NoJob
  BY <1>1 DEF DownIsEmpty, Load
<1>. QED BY <1>6, <1>8, <1>9, <1>10
         DEF IInv, WritingAgrees, DownIsEmpty, UploadedIsNamed, NoJob

-----------------------------------------------------------------------------
(* The steps that touch neither the log nor the manifest.                    *)
LEMMA StateSteps ==
  ASSUME IInv,
         Hydrate \/ DownloadFails \/ Mutate \/ TickStarts \/ TickFails
           \/ BeginSave \/ SaveFails
  PROVE  IInv'
<1>1. TypeOK /\ WritingAgrees /\ DownIsEmpty /\ UploadedIsNamed /\ NoEntryLost
  BY DEF IInv
<1>2. /\ UNCHANGED <<manifest, disk, buffer, timer, appended, first, evicted, jobs, job>>
      /\ phase # "down" /\ phase' # "down"
  BY DEF Hydrate, DownloadFails, Mutate, TickStarts, TickFails, BeginSave, SaveFails,
         logVars, stateVars, Running
<1>3. DownIsEmpty' /\ UploadedIsNamed' /\ NoEntryLost'
  BY <1>1, <1>2 DEF DownIsEmpty, UploadedIsNamed, NoEntryLost, InFlight, Anchored
<1>4. CASE Hydrate
  BY <1>1, <1>2, <1>3, <1>4
     DEF IInv, Hydrate, TypeOK, Running, WritingAgrees, logVars
<1>5. CASE DownloadFails
  <2>1. manifest.state \in Anchor \cup {Absent}
    BY <1>1 DEF TypeOK, Manifest
  <2>. QED BY <1>1, <1>2, <1>3, <1>5, <2>1, MemoryAssumption
           DEF IInv, DownloadFails, Fault, TypeOK, Running, WritingAgrees, logVars
<1>6. CASE Mutate
  <2>1. rev' \in 0..MaxRev
    BY <1>1, <1>6, MemoryAssumption DEF Mutate, TypeOK
  <2>2. live' \in Version
    BY <1>1, <1>6, <2>1 DEF Mutate, TypeOK, Version
  <2>. QED BY <1>1, <1>2, <1>3, <1>6, <2>1, <2>2 DEF IInv, Mutate, TypeOK, WritingAgrees, logVars
<1>7. CASE TickStarts
  <2>1. rev' \in 0..MaxRev /\ live' \in Version
    BY <1>1, <1>7, MemoryAssumption DEF TickStarts, TypeOK, Version
  <2>. QED BY <1>1, <1>2, <1>3, <1>7, <2>1
           DEF IInv, TickStarts, TypeOK, Running, WritingAgrees, logVars
<1>8. CASE TickFails
  BY <1>1, <1>2, <1>3, <1>8
     DEF IInv, TickFails, TypeOK, Running, WritingAgrees, stateVars, logVars
<1>9. CASE BeginSave
  BY <1>1, <1>2, <1>3, <1>9
     DEF IInv, BeginSave, TypeOK, Running, WritingAgrees, logVars
<1>10. CASE SaveFails
  BY <1>1, <1>2, <1>3, <1>10, MemoryAssumption
     DEF IInv, SaveFails, Fault, TypeOK, Running, WritingAgrees, logVars
<1>. QED BY <1>4, <1>5, <1>6, <1>7, <1>8, <1>9, <1>10

(* A write resolves, and the process chains an upload or exits.              *)
LEMMA MirrorWrittenInv == ASSUME IInv, MirrorWritten PROVE IInv'
<1>1. TypeOK /\ WritingAgrees /\ DownIsEmpty /\ UploadedIsNamed /\ NoEntryLost
  BY DEF IInv
<1>2. writing \in Version /\ mirror' = writing /\ acked' \in 0..MaxRev
  BY <1>1 DEF MirrorWritten, WritingAgrees, Version
<1>3. CASE phase = "saving"
  <2>1. /\ phase' = "idle" /\ writing' = Absent /\ jobs' = Append(jobs, "state")
        /\ UNCHANGED <<live, rev, poisoned, manifest, disk, logVars, job, missed, faults>>
    BY <1>3 DEF MirrorWritten
  <2>2. jobs' \in Seq({"state", "log"})
    BY <1>1, <2>1 DEF TypeOK
  <2>3. TypeOK'
    BY <1>1, <1>2, <2>1, <2>2 DEF TypeOK, Running, logVars
  <2>. QED BY <1>1, <1>3, <2>1, <2>3
           DEF IInv, WritingAgrees, DownIsEmpty, UploadedIsNamed, NoEntryLost,
               InFlight, Anchored, logVars
<1>4. CASE phase = "stopping"
  BY <1>1, <1>2, <1>4, DownTyped DEF MirrorWritten, IInv, TypeOK
<1>. QED BY <1>3, <1>4 DEF MirrorWritten

LEMMA StopInv == ASSUME IInv, Stop PROVE IInv'
<1>1. TypeOK /\ WritingAgrees /\ DownIsEmpty /\ UploadedIsNamed /\ NoEntryLost
  BY DEF IInv
<1>2. CASE ~ poisoned
  <2>1. /\ phase \in {"idle", "ticking"} /\ phase' = "stopping" /\ writing' = live
        /\ UNCHANGED <<live, rev, poisoned, manifest, disk, logVars, jobs, job,
                       mirror, acked, missed, faults>>
    BY <1>2 DEF Stop
  <2>2. TypeOK'
    BY <1>1, <2>1 DEF TypeOK, Running, logVars
  <2>. QED BY <1>1, <2>1, <2>2
           DEF IInv, TypeOK, WritingAgrees, DownIsEmpty, UploadedIsNamed, NoEntryLost,
               InFlight, Anchored, logVars
<1>3. CASE poisoned
  BY <1>1, <1>3, DownTyped DEF Stop, IInv, TypeOK
<1>. QED BY <1>2, <1>3

LEMMA CrashInv == ASSUME IInv, Crash PROVE IInv'
<1>1. TypeOK
  BY DEF IInv
<1>2. mirror' \in Version \cup {Absent, Torn}
  BY <1>1 DEF Crash, Remains, TypeOK
<1>3. faults' \in 0..MaxFaults
  BY <1>1, MemoryAssumption DEF Crash, Fault, TypeOK
<1>. QED BY <1>1, <1>2, <1>3, DownTyped DEF Crash, IInv, TypeOK

-----------------------------------------------------------------------------
(* The steps of the log and of the uploads.                                  *)

LEMMA AppendLogInv == ASSUME IInv, AppendLog PROVE IInv'
<1>1. TypeOK /\ WritingAgrees /\ DownIsEmpty /\ UploadedIsNamed /\ NoEntryLost
  BY DEF IInv
<1>2. /\ appended' = appended + 1 /\ appended' \in 0..MaxEntry
      /\ appended \in Nat /\ appended' \in Nat /\ first \in Nat
      /\ buffer' = Append(buffer, appended') /\ phase \in Running /\ phase' = phase
      /\ UNCHANGED <<first, job, manifest, evicted>>
  BY <1>1, MemoryAssumption DEF AppendLog, TypeOK
<1>3. /\ buffer \in Seq(Nat) /\ buffer' \in Seq(Nat)
      /\ Range(buffer') = Range(buffer) \cup {appended'}
  BY <1>1, <1>2, RangeOfSeqs DEF TypeOK
<1>4. jobs' \in Seq({"state", "log"}) /\ timer' \in BOOLEAN
  BY <1>1 DEF AppendLog, FlushLater, TypeOK
<1>5. TypeOK'
  BY <1>1, <1>2, <1>3, <1>4 DEF AppendLog, TypeOK, stateVars
<1>6. NoEntryLost'
  <2>1. phase # "down"
    BY <1>2 DEF Running
  <2>2. first'..appended' \subseteq (first..appended) \cup {appended'}
    BY <1>2
  <2>. QED BY <1>1, <1>2, <1>3, <2>1, <2>2 DEF NoEntryLost, InFlight, Anchored
<1>. QED BY <1>1, <1>2, <1>5, <1>6
         DEF IInv, AppendLog, WritingAgrees, DownIsEmpty, UploadedIsNamed, Running,
             Anchored, stateVars

LEMMA TimerFiresInv == ASSUME IInv, TimerFires PROVE IInv'
<1>1. TypeOK /\ WritingAgrees /\ DownIsEmpty /\ UploadedIsNamed /\ NoEntryLost
  BY DEF IInv
<1>2. jobs' \in Seq({"state", "log"})
  BY <1>1 DEF TimerFires, TypeOK
<1>3. TypeOK'
  BY <1>1, <1>2 DEF TimerFires, TypeOK, stateVars
<1>. QED BY <1>1, <1>3
         DEF IInv, TimerFires, WritingAgrees, DownIsEmpty, UploadedIsNamed, NoEntryLost,
             InFlight, Anchored, stateVars

LEMMA StartJobInv == ASSUME IInv, StartJob PROVE IInv'
<1>1. TypeOK /\ WritingAgrees /\ DownIsEmpty /\ UploadedIsNamed /\ NoEntryLost
  BY DEF IInv
<1>2. /\ jobs' \in Seq({"state", "log"}) /\ phase # "down" /\ job = NoJob
      /\ UNCHANGED <<phase, stateVars, manifest, disk, timer, appended, first, evicted,
                     missed, faults>>
  <2>1. jobs # <<>> /\ jobs \in Seq({"state", "log"})
    BY <1>1 DEF StartJob, TypeOK
  <2>2. jobs' \in Seq({"state", "log"})
    BY <2>1, HeadTailProperties DEF StartJob
  <2>. QED BY <1>1, <2>1, <2>2 DEF StartJob, DownIsEmpty
<1>3. <<>> \in Seq(Nat) /\ Range(<<>>) = {}
  BY DEF Range
<1>4. \/ UNCHANGED <<job, buffer>>
      \/ buffer' = buffer /\ job' = [kind |-> "state", blob |-> live, uploaded |-> FALSE]
      \/ /\ buffer' = <<>>
         /\ job' = [kind |-> "log", entries |-> buffer, uploaded |-> FALSE]
  BY DEF StartJob
<1>5. /\ buffer' \in Seq(Nat) /\ job' \in Job
      /\ Range(buffer) \cup Range(InFlight) = Range(buffer') \cup Range(InFlight')
      /\ ~ (job'.kind = "log" /\ job'.uploaded)
  <2>1. job.kind = "none" /\ InFlight = <<>> /\ job \in Job
        /\ buffer \in Seq(Nat) /\ live \in Version
    BY <1>1, <1>2 DEF NoJob, InFlight, TypeOK
  <2>2. CASE UNCHANGED <<job, buffer>>
    BY <2>1, <2>2 DEF InFlight
  <2>3. CASE buffer' = buffer /\ job' = [kind |-> "state", blob |-> live,
                                        uploaded |-> FALSE]
    BY <2>1, <2>3 DEF InFlight, Job
  <2>4. CASE /\ buffer' = <<>>
             /\ job' = [kind |-> "log", entries |-> buffer, uploaded |-> FALSE]
    BY <1>3, <2>1, <2>4 DEF InFlight, Job
  <2>. QED BY <1>4, <2>2, <2>3, <2>4
<1>6. TypeOK'
  BY <1>1, <1>2, <1>5 DEF TypeOK, stateVars
<1>. QED BY <1>1, <1>2, <1>5, <1>6
         DEF IInv, WritingAgrees, DownIsEmpty, UploadedIsNamed, NoEntryLost, Anchored,
             stateVars

(* Naming a batch keeps everything named: the batch comes in at the head,    *)
(* and what falls off the end is evicted.                                    *)
LEMMA BatchNamed ==
  ASSUME TypeOK, UploadSucceeds, job.kind = "log"
  PROVE  /\ manifest' \in Manifest
         /\ evicted' \in SUBSET Nat
         /\ Anchored(manifest) \cup evicted \cup Range(job.entries)
              \subseteq Anchored(manifest') \cup evicted'
<1>. DEFINE all == Unshifted(job.entries)
            cut == Capped(all)
            b == manifest.batches
<1>1. job.entries \in Seq(Nat) /\ manifest \in Manifest /\ evicted \in SUBSET Nat
  BY JobKinds DEF TypeOK
<1>2. /\ all \in Seq(Seq(Nat)) /\ Len(all) = Len(b) + 1 /\ Len(b) \in Nat
      /\ all[1] = job.entries /\ \A i \in 1..Len(b) : all[i + 1] = b[i]
      /\ DOMAIN b = 1..Len(b)
  <2>1. b \in Seq(Seq(Nat))
    BY <1>1 DEF Manifest
  <2>2. DOMAIN b = 1..Len(b)
    BY <2>1, LenProperties
  <2>. QED BY <1>1, <2>2, UnshiftedList
<1>3. /\ cut \in Seq(Seq(Nat)) /\ Len(cut) <= ManifestCap /\ Len(cut) <= Len(all)
      /\ Len(cut) \in Nat /\ DOMAIN cut = 1..Len(cut)
      /\ \A i \in 1..Len(cut) : cut[i] = all[i]
  BY <1>2, CappedList
<1>4. /\ manifest' = [manifest EXCEPT !.batches = cut]
      /\ evicted' = evicted \cup UNION {Range(all[i]) : i \in (Len(cut) + 1)..Len(all)}
  BY DEF UploadSucceeds
<1>5. manifest' \in Manifest /\ manifest'.batches = cut
  BY <1>1, <1>3, <1>4 DEF Manifest
<1>6. \A i \in 1..Len(all) : Range(all[i]) \subseteq Nat
  <2>1. ASSUME NEW i \in 1..Len(all) PROVE Range(all[i]) \subseteq Nat
    <3>1. all[i] \in Seq(Nat)
      BY <1>2, ElementOfSeq
    <3>. QED BY <3>1 DEF Range
  <2>. QED BY <2>1
<1>7. evicted' \in SUBSET Nat
  <2>. HIDE DEF all, cut, b
  <2>1. \A i \in (Len(cut) + 1)..Len(all) : i \in 1..Len(all)
    BY <1>2, <1>3
  <2>2. UNION {Range(all[i]) : i \in (Len(cut) + 1)..Len(all)} \subseteq Nat
    BY <1>6, <2>1
  <2>. QED BY <1>1, <1>4, <2>2
<1>8. ASSUME NEW i \in 1..Len(all)
      PROVE  Range(all[i]) \subseteq Anchored(manifest') \cup evicted'
  <2>1. CASE i <= Len(cut)
    <3>1. i \in DOMAIN cut /\ cut[i] = all[i]
      BY <1>2, <1>3, <2>1
    <3>. QED BY <1>5, <3>1 DEF Anchored
  <2>2. CASE i > Len(cut)
    <3>1. i \in (Len(cut) + 1)..Len(all)
      BY <1>2, <1>3, <2>2
    <3>. QED BY <1>4, <3>1
  <2>. QED BY <1>2, <1>3, <2>1, <2>2
<1>9. Range(job.entries) \subseteq Anchored(manifest') \cup evicted'
  <2>1. 1 \in 1..Len(all)
    BY <1>2
  <2>. QED BY <1>2, <1>8, <2>1
<1>10. Anchored(manifest) \subseteq Anchored(manifest') \cup evicted'
  <2>1. ASSUME NEW i \in DOMAIN b
        PROVE  Range(b[i]) \subseteq Anchored(manifest') \cup evicted'
    <3>. HIDE DEF all, b
    <3>1. i \in 1..Len(b) /\ i + 1 \in 1..Len(all)
      BY <1>2
    <3>2. b[i] = all[i + 1]
      BY <1>2, <3>1
    <3>. QED BY <1>8, <3>1, <3>2
  <2>. QED BY <2>1 DEF Anchored
<1>11. evicted \subseteq evicted'
  BY <1>4
<1>. QED BY <1>5, <1>7, <1>9, <1>10, <1>11

LEMMA UploadSucceedsInv == ASSUME IInv, UploadSucceeds PROVE IInv'
<1>1. TypeOK /\ WritingAgrees /\ DownIsEmpty /\ UploadedIsNamed /\ NoEntryLost
  BY DEF IInv
<1>2. /\ UNCHANGED <<phase, stateVars, disk, buffer, timer, appended, first, jobs, missed,
                   faults>>
      /\ job # NoJob /\ phase # "down"
      /\ job' = [job EXCEPT !.uploaded = TRUE]
      /\ job.kind \in {"state", "log"}
  BY <1>1, JobKinds DEF UploadSucceeds, Uploading, DownIsEmpty
<1>3. /\ job' \in Job /\ job'.kind = job.kind /\ InFlight' = InFlight
      /\ job.kind = "log" => job'.entries = job.entries /\ InFlight = job.entries
  <2>1. CASE job.kind = "state"
    <3>1. job \in [kind : {"state"}, blob : Version, uploaded : BOOLEAN]
      BY <1>1, <2>1 DEF TypeOK, Job
    <3>2. job' \in [kind : {"state"}, blob : Version, uploaded : BOOLEAN]
          /\ job'.kind = "state"
      BY <1>2, <3>1
    <3>. QED BY <2>1, <3>2 DEF Job, InFlight
  <2>2. CASE job.kind = "log"
    <3>1. job \in [kind : {"log"}, entries : Seq(Nat), uploaded : BOOLEAN]
      BY <1>1, <2>2 DEF TypeOK, Job
    <3>2. job' \in [kind : {"log"}, entries : Seq(Nat), uploaded : BOOLEAN]
          /\ job'.kind = "log" /\ job'.entries = job.entries
      BY <1>2, <3>1
    <3>. QED BY <2>2, <3>2 DEF Job, InFlight
  <2>. QED BY <1>2, <2>1, <2>2
<1>4. /\ manifest' \in Manifest /\ evicted' \in SUBSET Nat
      /\ Anchored(manifest) \cup evicted \subseteq Anchored(manifest') \cup evicted'
      /\ job.kind = "log" =>
           Range(job.entries) \subseteq Anchored(manifest') \cup evicted'
  <2>1. CASE job.kind = "log"
    BY <1>1, <2>1, BatchNamed
  <2>2. CASE job.kind = "state"
    <3>1. /\ manifest' = [manifest EXCEPT !.state = [blob |-> job.blob,
                                                     tick |-> live.tick]]
          /\ evicted' = evicted
      BY <2>2 DEF UploadSucceeds
    <3>2. [blob |-> job.blob, tick |-> live.tick] \in Anchor
      BY <1>1, <2>2, JobKinds DEF TypeOK, Anchor, Version
    <3>3. manifest' \in Manifest /\ manifest'.batches = manifest.batches
      BY <1>1, <3>1, <3>2 DEF TypeOK, Manifest
    <3>. QED BY <1>1, <2>2, <3>1, <3>3 DEF TypeOK, Anchored
  <2>. QED BY <1>2, <2>1, <2>2
<1>5. TypeOK'
  BY <1>1, <1>2, <1>3, <1>4 DEF TypeOK, stateVars
<1>6. UploadedIsNamed'
  BY <1>3, <1>4 DEF UploadedIsNamed
<1>7. NoEntryLost'
  BY <1>1, <1>2, <1>3, <1>4 DEF NoEntryLost
<1>. QED BY <1>1, <1>2, <1>5, <1>6, <1>7
         DEF IInv, WritingAgrees, DownIsEmpty, stateVars

LEMMA ManifestWrittenInv == ASSUME IInv, ManifestWritten PROVE IInv'
<1>1. TypeOK /\ WritingAgrees /\ DownIsEmpty /\ UploadedIsNamed /\ NoEntryLost
  BY DEF IInv
<1>2. job' = NoJob /\ NoJob \in Job /\ NoJob.kind = "none" /\ <<>> \in Seq(Nat)
  BY DEF ManifestWritten, NoJob, Job
<1>3. TypeOK'
  BY <1>1, <1>2 DEF ManifestWritten, TypeOK, stateVars, logVars
<1>4. NoEntryLost'
  <2>1. Range(InFlight) \subseteq Anchored(manifest) \cup evicted
    BY <1>1 DEF ManifestWritten, UploadedIsNamed, InFlight, Range
  <2>. QED BY <1>1, <2>1 DEF ManifestWritten, NoEntryLost, Anchored, logVars
<1>. QED BY <1>1, <1>2, <1>3, <1>4
         DEF IInv, ManifestWritten, WritingAgrees, DownIsEmpty, UploadedIsNamed,
             stateVars, logVars

(* An upload or a manifest write fails: what was in flight is requeued.      *)
LEMMA JobFailsInv == ASSUME IInv, UploadFails \/ ManifestFails PROVE IInv'
<1>1. TypeOK /\ WritingAgrees /\ DownIsEmpty /\ UploadedIsNamed /\ NoEntryLost
  BY DEF IInv
<1>2. /\ job # NoJob /\ phase # "down"
      /\ job' = NoJob /\ NoJob \in Job /\ NoJob.kind = "none"
      /\ buffer' = Requeued
      /\ disk' \in {disk, Torn}
      /\ faults' \in 0..MaxFaults
      /\ UNCHANGED <<phase, stateVars, manifest, timer, appended, first, evicted, jobs, missed>>
  BY <1>1, MemoryAssumption
     DEF UploadFails, ManifestFails, JobFails, Fault, Uploading, NoJob, Job, TypeOK,
         DownIsEmpty
<1>3. /\ buffer' \in Seq(Nat)
      /\ Range(buffer') = Range(InFlight) \cup Range(buffer)
  BY <1>1, <1>2, RequeuedTyped
<1>4. TypeOK'
  BY <1>1, <1>2, <1>3 DEF TypeOK, stateVars
<1>5. NoEntryLost'
  BY <1>1, <1>2, <1>3 DEF NoEntryLost, Anchored
<1>. QED BY <1>1, <1>2, <1>4, <1>5
         DEF IInv, WritingAgrees, DownIsEmpty, UploadedIsNamed, stateVars

LEMMA StutterInv == ASSUME IInv, UNCHANGED vars PROVE IInv'
BY DEF vars, stateVars, logVars, IInv, TypeOK, WritingAgrees, DownIsEmpty,
       UploadedIsNamed, NoEntryLost, InFlight, Anchored

LEMMA NextInv == IInv /\ [Next]_vars => IInv'
BY LoadInv, StateSteps, MirrorWrittenInv, StopInv, CrashInv, AppendLogInv,
   TimerFiresInv, StartJobInv, UploadSucceedsInv, ManifestWrittenInv, JobFailsInv,
   StutterInv DEF Next

-----------------------------------------------------------------------------
(* The memory never leaves the inductive invariant, whatever fails or        *)
(* crashes, and for every batch size, cap and bound.                         *)
THEOREM MemoryInvariant == Spec => []IInv
<1>. QED BY InitInv, NextInv, PTL DEF Spec

(* Every variable keeps its type, and both manifests stay within their cap   *)
(* of batches (flushBufferOnce).                                             *)
THEOREM TypeCorrect == Spec => []TypeOK
<1>1. IInv => TypeOK
  BY DEF IInv
<1>. QED BY MemoryInvariant, <1>1, PTL

(* No entry that a running process appended is lost between appendLog and    *)
(* the manifest: it is buffered, in flight, named, or was named.             *)
THEOREM NoEntryIsLost == Spec => []NoEntryLost
<1>1. IInv => NoEntryLost
  BY DEF IInv
<1>. QED BY MemoryInvariant, <1>1, PTL

-----------------------------------------------------------------------------
(* The order of the log, while the manifest's writes succeed.                *)

(* Entries are numbered as they are appended.                                *)
Seen ==
  \A x \in Range(buffer) \cup Range(InFlight) \cup Anchored(manifest) :
    x \in Nat /\ x <= appended

(* The manifest a restart loads is in order, too.                            *)
DiskInOrder ==
  disk \notin {Absent, Torn} =>
    /\ OrderedBatches(disk.batches)
    /\ \A x \in Anchored(disk) : x \in Nat /\ x <= appended

OInv == LogInOrder /\ Ascending(InFlight) /\ Seen /\ DiskInOrder

LEMMA OInitInv == Init => OInv
<1>. SUFFICES ASSUME Init PROVE OInv
  OBVIOUS
<1>1. Range(<<>>) = {} /\ DOMAIN <<>> = {}
  BY DEF Range
<1>2. InFlight = <<>> /\ Pending = <<>> /\ Anchored(manifest) = {}
  BY <1>1 DEF Init, NoJob, InFlight, Pending, Anchored, EmptyManifest
<1>3. OrderedBatches(manifest.batches) /\ Ascending(<<>>)
  BY <1>1 DEF Init, EmptyManifest, OrderedBatches, Ascending
<1>. QED BY <1>1, <1>2, <1>3
         DEF OInv, Init, LogInOrder, Seen, DiskInOrder, AllBefore

(* A process that starts or goes down has no log in memory but the manifest  *)
(* it loaded.                                                                *)
LEMMA EmptyInOrder ==
  ASSUME buffer' = <<>>, job' = NoJob, OrderedBatches(manifest'.batches),
         \A x \in Anchored(manifest') : x \in Nat /\ x <= appended'
  PROVE  LogInOrder' /\ Ascending(InFlight') /\ Seen'
<1>1. Range(<<>>) = {} /\ DOMAIN <<>> = {}
  BY DEF Range
<1>2. InFlight' = <<>> /\ Pending' = <<>>
  BY DEF NoJob, InFlight, Pending
<1>3. Ascending(<<>>)
  BY <1>1 DEF Ascending
<1>. QED BY <1>1, <1>2, <1>3 DEF LogInOrder, Seen, AllBefore

LEMMA EmptyManifestInOrder ==
  OrderedBatches(EmptyManifest.batches) /\ Anchored(EmptyManifest) = {}
<1>1. EmptyManifest.batches = <<>> /\ DOMAIN <<>> = {}
  BY DEF EmptyManifest
<1>. QED BY <1>1 DEF OrderedBatches, Anchored

LEMMA LoadOrder == ASSUME IInv, OInv, Load PROVE OInv'
<1>1. /\ buffer' = <<>> /\ job' = NoJob /\ manifest' = LoadedManifest
      /\ disk' = disk /\ appended' = appended
  BY DEF IInv, DownIsEmpty, Load
<1>2. /\ OrderedBatches(manifest'.batches)
      /\ \A x \in Anchored(manifest') : x \in Nat /\ x <= appended
  BY <1>1, EmptyManifestInOrder DEF OInv, DiskInOrder, LoadedManifest
<1>3. LogInOrder' /\ Ascending(InFlight') /\ Seen'
  BY <1>1, <1>2, EmptyInOrder
<1>. QED BY <1>1, <1>3 DEF OInv, DiskInOrder

(* Going down, the disk keeps its manifest or gets the process's.            *)
LEMMA DownOrder ==
  ASSUME OInv, Down, disk' \in ManifestRemains PROVE OInv'
<1>1. /\ buffer' = <<>> /\ job' = NoJob /\ manifest' = EmptyManifest
      /\ appended' = appended /\ disk' \in {disk, Torn, manifest}
  BY DEF Down, ManifestRemains, Remains
<1>2. LogInOrder' /\ Ascending(InFlight') /\ Seen'
  BY <1>1, EmptyInOrder, EmptyManifestInOrder
<1>3. /\ OrderedBatches(manifest.batches)
      /\ \A x \in Anchored(manifest) : x \in Nat /\ x <= appended
  BY DEF OInv, LogInOrder, Seen
<1>. QED BY <1>1, <1>2, <1>3 DEF OInv, DiskInOrder

(* The steps that leave the log, the queue's job and both manifests alone.   *)
LEMMA SameOrder ==
  ASSUME OInv, UNCHANGED <<buffer, job, manifest, disk, appended>> PROVE OInv'
<1>. QED BY DEF OInv, LogInOrder, Seen, DiskInOrder, InFlight, Pending

(* A new entry is younger than every other.                                  *)
LEMMA AppendLogOrder == ASSUME IInv, OInv, AppendLog PROVE OInv'
<1>1. /\ buffer \in Seq(Nat) /\ appended \in Nat /\ appended' = appended + 1
      /\ buffer' = Append(buffer, appended')
      /\ UNCHANGED <<job, manifest, disk>>
  BY DEF IInv, TypeOK, AppendLog
<1>2. /\ LogInOrder /\ Ascending(InFlight) /\ Seen /\ DiskInOrder
  BY DEF OInv
<1>3. Range(buffer') = Range(buffer) \cup {appended'}
  BY <1>1, RangeOfSeqs
<1>4. InFlight' = InFlight /\ Pending' = Pending /\ Anchored(manifest') = Anchored(manifest)
  BY <1>1 DEF InFlight, Pending
<1>5. Ascending(buffer')
  <2>1. /\ DOMAIN buffer' = 1..(Len(buffer) + 1) /\ DOMAIN buffer = 1..Len(buffer)
        /\ Len(buffer) \in Nat
        /\ \A i \in 1..Len(buffer) : buffer'[i] = buffer[i]
        /\ buffer'[Len(buffer) + 1] = appended'
    BY <1>1
  <2>2. \A i \in 1..Len(buffer) : buffer[i] \in Nat /\ buffer[i] <= appended
    BY <1>2, <2>1 DEF Seen, Range
  <2>3. \A i, j \in 1..Len(buffer) : i < j => buffer[i] < buffer[j]
    BY <1>2, <2>1 DEF LogInOrder, Ascending
  <2>4. ASSUME NEW i \in 1..(Len(buffer) + 1), NEW j \in 1..(Len(buffer) + 1), i < j
        PROVE  buffer'[i] < buffer'[j]
    <3>1. i \in 1..Len(buffer)
      BY <2>1, <2>4
    <3>2. CASE j \in 1..Len(buffer)
      BY <2>1, <2>3, <2>4, <3>1, <3>2
    <3>3. CASE j = Len(buffer) + 1
      BY <1>1, <2>1, <2>2, <3>1, <3>3
    <3>. QED BY <2>1, <2>4, <3>2, <3>3
  <2>. QED BY <2>1, <2>4 DEF Ascending
<1>6. Range(Pending) \subseteq Range(InFlight)
  BY DEF Pending, Range
<1>7. LogInOrder'
  BY <1>1, <1>2, <1>3, <1>4, <1>5, <1>6 DEF LogInOrder, AllBefore, Seen
<1>8. Seen'
  BY <1>1, <1>2, <1>3, <1>4 DEF Seen
<1>9. DiskInOrder'
  BY <1>1, <1>2 DEF DiskInOrder
<1>. QED BY <1>2, <1>4, <1>7, <1>8, <1>9 DEF OInv

(* The buffer becomes the batch in flight.                                   *)
LEMMA StartJobOrder == ASSUME IInv, OInv, StartJob PROVE OInv'
<1>1. /\ UNCHANGED <<manifest, disk, appended>> /\ job = NoJob
  BY DEF StartJob
<1>2. InFlight = <<>> /\ Pending = <<>>
  BY <1>1 DEF InFlight, Pending, NoJob
<1>3. Range(<<>>) = {} /\ Ascending(<<>>)
  BY DEF Range, Ascending
<1>4. CASE UNCHANGED <<job, buffer>>
  BY <1>1, <1>4, SameOrder
<1>5. CASE buffer' = buffer /\ job' = [kind |-> "state", blob |-> live, uploaded |-> FALSE]
  <2>1. InFlight' = <<>> /\ Pending' = <<>>
    BY <1>5 DEF InFlight, Pending
  <2>. QED BY <1>1, <1>2, <1>3, <1>5, <2>1 DEF OInv, LogInOrder, Seen, DiskInOrder
<1>6. CASE /\ buffer' = <<>>
           /\ job' = [kind |-> "log", entries |-> buffer, uploaded |-> FALSE]
  <2>1. InFlight' = buffer /\ Pending' = buffer
    BY <1>6 DEF InFlight, Pending, NoJob
  <2>. QED BY <1>1, <1>2, <1>3, <1>6, <2>1
           DEF OInv, LogInOrder, Seen, DiskInOrder, AllBefore
<1>. QED BY <1>4, <1>5, <1>6 DEF StartJob

(* The batch in flight is younger than every named one: it becomes the       *)
(* newest of the list.                                                       *)
LEMMA BatchInOrder ==
  ASSUME TypeOK, OInv, Uploading, job.kind = "log",
         manifest' = [manifest EXCEPT !.batches = Capped(Unshifted(job.entries))]
  PROVE  /\ OrderedBatches(manifest'.batches)
         /\ Anchored(manifest') \subseteq Range(job.entries) \cup Anchored(manifest)
<1>. DEFINE all == Unshifted(job.entries)
            cut == Capped(all)
            b == manifest.batches
<1>1. /\ InFlight = job.entries /\ Pending = job.entries
      /\ job.entries \in Seq(Nat) /\ manifest \in Manifest
  BY JobKinds DEF InFlight, Pending, Uploading, TypeOK
<1>2. /\ all \in Seq(Seq(Nat)) /\ Len(all) = Len(b) + 1 /\ Len(b) \in Nat
      /\ all[1] = job.entries /\ \A i \in 1..Len(b) : all[i + 1] = b[i]
      /\ DOMAIN b = 1..Len(b)
  <2>1. b \in Seq(Seq(Nat))
    BY <1>1 DEF Manifest
  <2>2. DOMAIN b = 1..Len(b)
    BY <2>1, LenProperties
  <2>. QED BY <1>1, <2>2, UnshiftedList
<1>3. /\ DOMAIN cut = 1..Len(cut) /\ Len(cut) \in Nat /\ Len(cut) <= Len(all)
      /\ \A i \in 1..Len(cut) : cut[i] = all[i]
  BY <1>2, CappedList, LenProperties
<1>4. manifest'.batches = cut
  BY <1>1 DEF Manifest
<1>. HIDE DEF all, cut, b
<1>5. \A i \in 1..Len(all) : i = 1 \/ (i - 1 \in 1..Len(b) /\ all[i] = b[i - 1])
  <2>1. ASSUME NEW i \in 1..Len(all), i # 1
        PROVE  i - 1 \in 1..Len(b) /\ all[i] = b[i - 1]
    <3>1. i - 1 \in 1..Len(b) /\ (i - 1) + 1 = i
      BY <1>2, <2>1
    <3>. QED BY <1>2, <3>1
  <2>. QED BY <2>1
<1>6. /\ Ascending(job.entries) /\ OrderedBatches(b)
      /\ AllBefore(Anchored(manifest), Range(job.entries))
  BY <1>1 DEF OInv, LogInOrder, AllBefore, b
<1>7. \A i \in 1..Len(b) : Range(b[i]) \subseteq Anchored(manifest)
  BY <1>2 DEF Anchored, b
<1>8. ASSUME NEW i \in 1..Len(all)
      PROVE  /\ Ascending(all[i])
             /\ Range(all[i]) \subseteq Range(job.entries) \cup Anchored(manifest)
             /\ \A j \in 1..Len(all) : i < j => AllBefore(Range(all[j]), Range(all[i]))
  <2>1. CASE i = 1
    <3>1. ASSUME NEW j \in 1..Len(all), i < j
          PROVE  AllBefore(Range(all[j]), Range(all[i]))
      <4>1. j - 1 \in 1..Len(b) /\ all[j] = b[j - 1]
        BY <1>5, <2>1, <3>1
      <4>. QED BY <1>2, <1>6, <1>7, <2>1, <4>1 DEF AllBefore
    <3>. QED BY <1>2, <1>6, <2>1, <3>1
  <2>2. CASE i # 1
    <3>1. i - 1 \in 1..Len(b) /\ all[i] = b[i - 1]
      BY <1>5, <2>2
    <3>2. ASSUME NEW j \in 1..Len(all), i < j
          PROVE  AllBefore(Range(all[j]), Range(all[i]))
      <4>1. j - 1 \in 1..Len(b) /\ all[j] = b[j - 1] /\ i - 1 < j - 1
        BY <1>2, <1>5, <2>2, <3>2
      <4>. QED BY <1>2, <1>6, <3>1, <4>1 DEF OrderedBatches
    <3>. QED BY <1>2, <1>6, <1>7, <3>1, <3>2 DEF OrderedBatches
  <2>. QED BY <2>1, <2>2
<1>9. \A i \in 1..Len(cut) : i \in 1..Len(all) /\ cut[i] = all[i]
  BY <1>2, <1>3
<1>10. OrderedBatches(cut)
  BY <1>3, <1>8, <1>9 DEF OrderedBatches
<1>11. Anchored(manifest') \subseteq Range(job.entries) \cup Anchored(manifest)
  BY <1>3, <1>4, <1>8, <1>9 DEF Anchored
<1>. QED BY <1>4, <1>10, <1>11

LEMMA UploadSucceedsOrder == ASSUME IInv, OInv, UploadSucceeds PROVE OInv'
<1>1. /\ TypeOK /\ Uploading /\ job.kind \in {"state", "log"}
      /\ UNCHANGED <<disk, buffer, appended>>
      /\ job' = [job EXCEPT !.uploaded = TRUE]
  BY JobKinds DEF IInv, UploadSucceeds, Uploading
<1>2. LogInOrder /\ Ascending(InFlight) /\ Seen /\ DiskInOrder
  BY DEF OInv
<1>3. Range(<<>>) = {}
  BY DEF Range
<1>4. CASE job.kind = "state"
  <2>1. job \in [kind : {"state"}, blob : Version, uploaded : BOOLEAN]
    BY <1>1, <1>4 DEF TypeOK, Job
  <2>2. job'.kind = "state" /\ InFlight = <<>> /\ InFlight' = <<>>
        /\ Pending = <<>> /\ Pending' = <<>>
    BY <1>1, <1>4, <2>1 DEF InFlight, Pending
  <2>3. manifest'.batches = manifest.batches /\ Anchored(manifest') = Anchored(manifest)
    BY <1>1, <1>4 DEF UploadSucceeds, TypeOK, Manifest, Anchored
  <2>. QED BY <1>1, <1>2, <2>2, <2>3 DEF OInv, LogInOrder, Seen, DiskInOrder
<1>5. CASE job.kind = "log"
  <2>1. job \in [kind : {"log"}, entries : Seq(Nat), uploaded : BOOLEAN]
    BY <1>1, <1>5 DEF TypeOK, Job
  <2>2. /\ job'.kind = "log" /\ job'.uploaded
        /\ InFlight = job.entries /\ InFlight' = job.entries
        /\ Pending = job.entries /\ Pending' = <<>>
    BY <1>1, <1>5, <2>1 DEF InFlight, Pending, Uploading, NoJob
  <2>3. manifest' = [manifest EXCEPT !.batches = Capped(Unshifted(job.entries))]
    BY <1>1, <1>5 DEF UploadSucceeds
  <2>4. /\ OrderedBatches(manifest'.batches)
        /\ Anchored(manifest') \subseteq Range(job.entries) \cup Anchored(manifest)
    BY <1>1, <1>5, <2>3, BatchInOrder
  <2>5. LogInOrder'
    BY <1>1, <1>2, <1>3, <2>2, <2>4 DEF LogInOrder, AllBefore
  <2>6. Seen'
    BY <1>1, <1>2, <2>2, <2>4 DEF Seen
  <2>. QED BY <1>1, <1>2, <2>2, <2>5, <2>6 DEF OInv, DiskInOrder
<1>. QED BY <1>1, <1>4, <1>5

LEMMA ManifestWrittenOrder == ASSUME IInv, OInv, ManifestWritten PROVE OInv'
<1>1. /\ disk' = manifest /\ job' = NoJob /\ UNCHANGED <<manifest, buffer, appended>>
      /\ Pending = <<>> /\ Pending' = <<>> /\ InFlight' = <<>>
  BY DEF ManifestWritten, Pending, InFlight, NoJob, logVars
<1>2. Range(<<>>) = {} /\ Ascending(<<>>)
  BY DEF Range, Ascending
<1>. QED BY <1>1, <1>2 DEF OInv, LogInOrder, Seen, DiskInOrder

(* A failed upload's entries go back before the younger ones of the buffer.  *)
LEMMA UploadFailsOrder == ASSUME IInv, OInv, UploadFails PROVE OInv'
<1>1. /\ TypeOK /\ UNCHANGED <<manifest, disk, appended>> /\ job' = NoJob
      /\ buffer' = Requeued /\ Pending = InFlight
      /\ InFlight' = <<>> /\ Pending' = <<>>
  BY DEF IInv, UploadFails, JobFails, Uploading, Pending, InFlight, NoJob
<1>2. LogInOrder /\ Ascending(InFlight) /\ Seen /\ DiskInOrder
  BY DEF OInv
<1>3. Range(<<>>) = {} /\ Ascending(<<>>)
  BY DEF Range, Ascending
<1>4. Range(buffer') = Range(InFlight) \cup Range(buffer)
  BY <1>1, RequeuedTyped
<1>5. Ascending(buffer')
  <2>1. CASE job.kind = "log"
    <3>1. /\ InFlight = job.entries /\ job.entries \in Seq(Nat) /\ buffer \in Seq(Nat)
          /\ buffer' = job.entries \o buffer
      BY <1>1, <2>1, JobKinds DEF InFlight, Requeued, TypeOK
    <3>. DEFINE s == job.entries
    <3>2. /\ DOMAIN s = 1..Len(s) /\ DOMAIN buffer = 1..Len(buffer)
          /\ Len(s) \in Nat /\ Len(buffer) \in Nat
          /\ DOMAIN buffer' = 1..(Len(s) + Len(buffer))
          /\ \A i \in 1..(Len(s) + Len(buffer)) :
               buffer'[i] = IF i <= Len(s) THEN s[i] ELSE buffer[i - Len(s)]
      BY <3>1
    <3>3. /\ \A i, j \in 1..Len(s) : i < j => s[i] < s[j]
          /\ \A i, j \in 1..Len(buffer) : i < j => buffer[i] < buffer[j]
          /\ \A i \in 1..Len(s), j \in 1..Len(buffer) : s[i] < buffer[j]
      <4>1. Ascending(s) /\ Ascending(buffer) /\ AllBefore(Range(s), Range(buffer))
        BY <1>1, <1>2, <3>1 DEF LogInOrder
      <4>2. /\ \A i \in 1..Len(s) : s[i] \in Range(s)
            /\ \A i \in 1..Len(buffer) : buffer[i] \in Range(buffer)
        BY <3>2 DEF Range
      <4>. QED BY <3>2, <4>1, <4>2 DEF Ascending, AllBefore
    <3>. HIDE DEF s
    <3>4. ASSUME NEW i \in 1..(Len(s) + Len(buffer)),
                 NEW j \in 1..(Len(s) + Len(buffer)), i < j
          PROVE  buffer'[i] < buffer'[j]
      <4>1. CASE j <= Len(s)
        BY <3>2, <3>3, <3>4, <4>1
      <4>2. CASE i <= Len(s) /\ j > Len(s)
        <5>1. i \in 1..Len(s) /\ j - Len(s) \in 1..Len(buffer)
          BY <3>2, <4>2
        <5>. QED BY <3>2, <3>3, <4>2, <5>1
      <4>3. CASE i > Len(s)
        <5>1. /\ i - Len(s) \in 1..Len(buffer) /\ j - Len(s) \in 1..Len(buffer)
              /\ i - Len(s) < j - Len(s) /\ j > Len(s)
          BY <3>2, <3>4, <4>3
        <5>. QED BY <3>2, <3>3, <4>3, <5>1
      <4>. QED BY <3>2, <3>4, <4>1, <4>2, <4>3
    <3>. QED BY <3>2, <3>4 DEF Ascending
  <2>2. CASE job.kind # "log"
    BY <1>1, <1>2, <2>2 DEF Requeued, LogInOrder
  <2>. QED BY <2>1, <2>2
<1>6. LogInOrder'
  BY <1>1, <1>2, <1>3, <1>4, <1>5 DEF LogInOrder, AllBefore
<1>7. Seen'
  BY <1>1, <1>2, <1>3, <1>4 DEF Seen
<1>. QED BY <1>1, <1>2, <1>3, <1>6, <1>7 DEF OInv, DiskInOrder

LEMMA NextOrder ==
  ASSUME "manifest" \notin Faults, IInv, OInv, [Next]_vars PROVE OInv'
<1>1. CASE Load
  BY <1>1, LoadOrder
<1>2. CASE Hydrate \/ DownloadFails \/ Mutate \/ TickStarts \/ TickFails
             \/ BeginSave \/ SaveFails \/ TimerFires \/ UNCHANGED vars
  BY <1>2, SameOrder
     DEF Hydrate, DownloadFails, Mutate, TickStarts, TickFails, BeginSave, SaveFails,
         TimerFires, vars, stateVars, logVars
<1>3. CASE Stop
  BY <1>3, SameOrder, DownOrder DEF Stop, logVars
<1>4. CASE MirrorWritten
  BY <1>4, SameOrder, DownOrder DEF MirrorWritten, logVars
<1>5. CASE Crash
  BY <1>5, DownOrder DEF Crash
<1>6. CASE AppendLog
  BY <1>6, AppendLogOrder
<1>7. CASE StartJob
  BY <1>7, StartJobOrder
<1>8. CASE UploadSucceeds
  BY <1>8, UploadSucceedsOrder
<1>9. CASE ManifestWritten
  BY <1>9, ManifestWrittenOrder
<1>10. CASE UploadFails
  BY <1>10, UploadFailsOrder
<1>11. ~ ManifestFails
  BY DEF ManifestFails, Fault
<1>. QED BY <1>1, <1>2, <1>3, <1>4, <1>5, <1>6, <1>7, <1>8, <1>9, <1>10, <1>11 DEF Next

(* While the manifest's writes succeed, the batches on 0G, the one in flight *)
(* and the buffer are the log in order, across crashes, restarts, requeues   *)
(* and the batch cap (flushBufferOnce, persistManifest, ensureManifest).     *)
THEOREM LogStaysInOrder ==
  ASSUME "manifest" \notin Faults PROVE Spec => []LogInOrder
<1>1. Init => OInv
  BY OInitInv
<1>2. IInv /\ OInv /\ [Next]_vars => OInv'
  BY NextOrder
<1>3. OInv => LogInOrder
  BY DEF OInv
<1>. QED BY MemoryInvariant, <1>1, <1>2, <1>3, PTL DEF Spec

-----------------------------------------------------------------------------
(* Resuming after crashes.                                                   *)

(* Nothing that was handed out is newer than the last revision.              *)
RevsKnown ==
  /\ acked <= rev /\ live.rev <= rev
  /\ mirror \notin {Absent, Torn} => mirror.rev <= rev
  /\ writing # Absent => writing.rev <= rev

(* The mirror, when it can be read, has what was saved.                      *)
MirrorHasSaved ==
  /\ mirror = Absent => acked = 0
  /\ mirror \notin {Absent, Torn} => acked <= mirror.rev

(* What is written is the live state, or the anchored one at the start.      *)
WritesLive ==
  /\ writing # Absent => phase \in {"saving", "stopping", "hydrating"} /\ acked <= writing.rev
  /\ phase \in {"saving", "stopping"} =>
       ~ poisoned /\ writing.tick = live.tick /\ writing.rev <= live.rev
  /\ phase = "hydrating" =>
       /\ manifest.state # Absent /\ writing = manifest.state.blob /\ RemoteState = manifest.state
       /\ jobs = <<>> /\ job = NoJob /\ ~ timer

(* So has the live state.                                                    *)
HasSaved == phase # "down" => acked <= live.rev

(* A version that a restart would prefer to the mirror is as new as what was *)
(* saved.                                                                    *)
Harmless(v) == mirror = Torn \/ v.tick <= LocalTick \/ acked <= v.rev

(* An anchor's content is of its tick or an earlier one, and a restart may   *)
(* take it unless it is misleading.                                          *)
Sound(a) ==
  a # Absent =>
    /\ a.blob.tick <= a.tick /\ a.blob.rev <= rev
    /\ Misleading(a) \/ Harmless(a.blob)

(* The anchor in memory and the one on disk are sound.                       *)
AnchorsSound == Sound(manifest.state) /\ Sound(RemoteState)

(* The process runs without the anchor of both manifests.                    *)
WentWithout == manifest.state = missed /\ RemoteState \in {missed, Absent}

(* A state being uploaded will be a sound anchor, and no older than the one  *)
(* it replaces.                                                              *)
UploadIsLive ==
  Uploading /\ job.kind = "state" =>
    /\ job.blob.tick <= live.tick /\ job.blob.rev <= rev
    /\ job.blob.tick = live.tick => Harmless(job.blob)
    /\ manifest.state # Absent => manifest.state.blob.tick <= job.blob.tick \/ WentWithout

(* The manifest on disk is not ahead of the one in memory, but for an anchor *)
(* the process went on without.                                              *)
RemoteBehind ==
  phase # "down" /\ RemoteState # Absent =>
    /\ manifest.state # Absent
    /\ RemoteState = missed \/ RemoteState.blob.tick <= manifest.state.blob.tick

(* A process that could not write what it downloaded goes on from an older   *)
(* state, and saves and uploads nothing.                                     *)
Mute ==
  /\ poisoned
  /\ \A i \in DOMAIN jobs : jobs[i] # "state"
  /\ Uploading => job.kind # "state"

(* The live state is not behind the anchor, unless the process went on       *)
(* without it, or will not upload.                                           *)
LiveAhead ==
  phase \in Running /\ manifest.state # Absent =>
    manifest.state.blob.tick <= live.tick \/ WentWithout \/ Mute

ResumeInv ==
  /\ RevsKnown /\ MirrorHasSaved /\ WritesLive /\ HasSaved
  /\ AnchorsSound /\ UploadIsLive /\ RemoteBehind /\ LiveAhead

(* The parts of a state, as numbers.                                         *)
LEMMA Numbers ==
  ASSUME TypeOK
  PROVE  /\ rev \in Nat /\ acked \in Nat /\ live \in Version
         /\ live.tick \in Nat /\ live.rev \in Nat
         /\ Absent # Torn /\ Absent \notin Version /\ Torn \notin Version
         /\ mirror \notin {Absent, Torn} =>
              mirror \in Version /\ mirror.tick \in Nat /\ mirror.rev \in Nat
         /\ writing # Absent =>
              writing \in Version /\ writing.tick \in Nat /\ writing.rev \in Nat
         /\ \A a \in {manifest.state, RemoteState} :
              a # Absent => /\ a.tick \in Nat /\ a.blob \in Version
                            /\ a.blob.tick \in Nat /\ a.blob.rev \in Nat
         /\ job.kind = "state" =>
              job.blob \in Version /\ job.blob.tick \in Nat /\ job.blob.rev \in Nat
         /\ LocalTick \in Int \/ mirror = Torn
<1>1. \A v \in Version : v.tick \in Nat /\ v.rev \in Nat
  BY MemoryAssumption DEF Version
<1>2. \A a \in Anchor : a.tick \in Nat /\ a.blob \in Version
  BY DEF Anchor
<1>3. manifest.state \in Anchor \cup {Absent} /\ RemoteState \in Anchor \cup {Absent}
  BY DEF TypeOK, Manifest, RemoteState
<1>4. job.kind = "state" => job.blob \in Version
  BY JobKinds
<1>5. Absent # Torn /\ Absent \notin Version /\ Torn \notin Version
  BY MemoryAssumption, AbsentAssumption
<1>6. rev \in Nat /\ acked \in Nat /\ live \in Version
      /\ mirror \in Version \cup {Absent, Torn} /\ writing \in Version \cup {Absent}
  BY MemoryAssumption DEF TypeOK
<1>7. LocalTick \in Int \/ mirror = Torn
  BY <1>1, <1>6 DEF LocalTick
<1>8. QED BY <1>1, <1>2, <1>3, <1>4, <1>5, <1>6, <1>7

LEMMA InitResume == Init => ResumeInv
<1>1. EmptyManifest.state = Absent BY DEF EmptyManifest
<1>2. Absent # Torn BY MemoryAssumption
<1>3. QED
  BY <1>1, <1>2 DEF Init, ResumeInv, RevsKnown, MirrorHasSaved, WritesLive, HasSaved, Harmless,
     Sound, AnchorsSound, UploadIsLive, RemoteBehind, LiveAhead, RemoteState, Fresh, NoJob,
     Running, Uploading

LEMMA LoadResume == ASSUME IInv, ResumeInv, Load PROVE ResumeInv'
<1>1. TypeOK BY DEF IInv
<1>2. LoadedManifest.state = RemoteState BY DEF LoadedManifest, EmptyManifest, RemoteState
<1>3. jobs = <<>> /\ job = NoJob /\ ~ timer /\ mirror # Torn
  BY DEF IInv, DownIsEmpty, Load
<1>4. RemoteState' = RemoteState /\ LocalTick' = LocalTick BY DEF Load, RemoteState, LocalTick
<1>5. /\ UNCHANGED <<rev, mirror, poisoned, jobs, job, timer, missed>>
      /\ (manifest').state = RemoteState
      /\ live' = IF mirror = Absent THEN Fresh ELSE mirror
      /\ IF ShouldHydrate(RemoteState)
           THEN /\ phase' = "hydrating" /\ writing' = RemoteState.blob
                /\ acked' = Promised(RemoteState)
           ELSE phase' = "boot" /\ UNCHANGED <<writing, acked>>
  BY <1>2 DEF Load
<1>6. acked' <= acked /\ acked' \in Nat
  BY <1>1, <1>5, Numbers DEF Promised, ShouldHydrate
<1>7. phase = "down" /\ writing = Absent BY <1>1 DEF Load, ResumeInv, WritesLive
<1>8. ShouldHydrate(RemoteState) => acked' <= RemoteState.blob.rev
  <2>1. RemoteState # Absent /\ ~ Misleading(RemoteState) /\ ShouldHydrate(RemoteState)
          => acked <= RemoteState.blob.rev
    BY <1>1, <1>3, Numbers
       DEF ResumeInv, AnchorsSound, Sound, Misleading, ShouldHydrate, Harmless
  <2>2. QED BY <1>1, <1>5, <2>1, Numbers DEF Promised, ShouldHydrate
<1>9. RevsKnown' /\ MirrorHasSaved' /\ HasSaved'
  BY <1>1, <1>3, <1>5, <1>6, <1>7, Numbers
     DEF ResumeInv, RevsKnown, MirrorHasSaved, HasSaved, AnchorsSound, Sound, Fresh, ShouldHydrate
<1>10. WritesLive'
  BY <1>3, <1>4, <1>5, <1>7, <1>8 DEF WritesLive, ShouldHydrate
<1>11. AnchorsSound'
  BY <1>1, <1>4, <1>5, <1>6, Numbers
     DEF ResumeInv, AnchorsSound, Sound, Harmless, Misleading
<1>12. RemoteBehind' BY <1>1, <1>4, <1>5, Numbers DEF RemoteBehind
<1>13. LiveAhead'
  BY <1>1, <1>3, <1>4, <1>5, Numbers
     DEF ResumeInv, AnchorsSound, Sound, LiveAhead, ShouldHydrate, LocalTick, Running, Fresh
<1>14. UploadIsLive' BY <1>3, <1>5 DEF UploadIsLive, Uploading
<1>15. QED BY <1>9, <1>10, <1>11, <1>12, <1>13, <1>14 DEF ResumeInv

LEMMA HydrateResume == ASSUME IInv, ResumeInv, Hydrate PROVE ResumeInv'
<1>1. TypeOK BY DEF IInv
<1>2. RemoteState' = RemoteState BY DEF Hydrate, RemoteState
<1>3. /\ phase = "hydrating" /\ phase' = "boot" /\ writing' = Absent
      /\ live' = writing /\ mirror' = writing
      /\ UNCHANGED <<rev, acked, poisoned, manifest, jobs, job>>
  BY DEF Hydrate
<1>4. /\ manifest.state # Absent /\ RemoteState = manifest.state /\ job = NoJob
      /\ writing = manifest.state.blob /\ writing \in Version
  BY <1>1, <1>3, Numbers DEF ResumeInv, WritesLive
<1>5. LocalTick' = writing.tick BY <1>1, <1>3, <1>4, Numbers DEF LocalTick
<1>6. RevsKnown' /\ MirrorHasSaved' /\ WritesLive' /\ HasSaved'
  BY <1>1, <1>3, <1>4, Numbers
     DEF ResumeInv, RevsKnown, MirrorHasSaved, WritesLive, HasSaved
<1>7. AnchorsSound'
  BY <1>1, <1>2, <1>3, <1>4, <1>5, Numbers DEF ResumeInv, AnchorsSound, Sound, Harmless
<1>8. RemoteBehind' /\ LiveAhead' /\ UploadIsLive'
  BY <1>1, <1>2, <1>3, <1>4, Numbers DEF RemoteBehind, LiveAhead, UploadIsLive, Uploading
<1>9. QED BY <1>6, <1>7, <1>8 DEF ResumeInv

(* The process goes on without the anchor it could not download.             *)
LEMMA DownloadFailsResume == ASSUME IInv, ResumeInv, DownloadFails PROVE ResumeInv'
<1>1. TypeOK BY DEF IInv
<1>2. RemoteState' = RemoteState /\ LocalTick' = LocalTick
  BY DEF DownloadFails, RemoteState, LocalTick
<1>3. /\ phase = "hydrating" /\ phase' = "boot" /\ writing' = Absent
      /\ missed' = manifest.state
      /\ UNCHANGED <<live, rev, mirror, acked, poisoned, manifest, jobs, job>>
  BY DEF DownloadFails
<1>4. manifest.state # Absent /\ RemoteState = manifest.state /\ job = NoJob
  BY <1>3 DEF ResumeInv, WritesLive
<1>5. RevsKnown' /\ MirrorHasSaved' /\ WritesLive' /\ HasSaved'
  BY <1>3 DEF ResumeInv, RevsKnown, MirrorHasSaved, WritesLive, HasSaved
<1>6. AnchorsSound'
  BY <1>2, <1>3, <1>4 DEF ResumeInv, AnchorsSound, Sound, Misleading
<1>7. RemoteBehind' /\ LiveAhead' /\ UploadIsLive'
  BY <1>2, <1>3, <1>4 DEF RemoteBehind, LiveAhead, WentWithout, UploadIsLive, Uploading
<1>8. QED BY <1>5, <1>6, <1>7 DEF ResumeInv

LEMMA MutateResume == ASSUME IInv, ResumeInv, Mutate PROVE ResumeInv'
<1>1. TypeOK BY DEF IInv
<1>2. RemoteState' = RemoteState BY DEF Mutate, RemoteState
<1>3. live'.tick = live.tick /\ live'.rev = rev + 1 /\ rev' = rev + 1
  BY <1>1, Numbers DEF Mutate, Version
<1>4. UNCHANGED <<phase, mirror, writing, acked, poisoned, manifest, jobs, job, missed>>
  BY DEF Mutate
<1>5. LocalTick' = LocalTick BY <1>4 DEF LocalTick
<1>6. RevsKnown' /\ MirrorHasSaved' /\ HasSaved'
  BY <1>1, Numbers, <1>3, <1>4 DEF ResumeInv, RevsKnown, MirrorHasSaved, HasSaved
<1>7. WritesLive'
  <2>1. phase # "hydrating" BY DEF Mutate, Running
  <2>2. QED
    BY <1>1, <2>1, Numbers, <1>3, <1>4 DEF IInv, WritingAgrees, ResumeInv, RevsKnown, WritesLive
<1>8. AnchorsSound' /\ RemoteBehind'
  BY <1>1, Numbers, <1>2, <1>3, <1>4, <1>5
     DEF ResumeInv, AnchorsSound, RemoteBehind, Sound, Harmless, Misleading
<1>9. UploadIsLive' /\ LiveAhead'
  BY <1>1, Numbers, <1>2, <1>3, <1>4, <1>5
     DEF ResumeInv, UploadIsLive, LiveAhead, Harmless, WentWithout, Uploading, Mute
<1>10. QED BY <1>6, <1>7, <1>8, <1>9 DEF ResumeInv

LEMMA TickStartsResume == ASSUME IInv, ResumeInv, TickStarts PROVE ResumeInv'
<1>1. TypeOK BY DEF IInv
<1>2. RemoteState' = RemoteState BY DEF TickStarts, RemoteState
<1>3. live'.tick = live.tick + 1 /\ live'.rev = rev + 1 /\ rev' = rev + 1
  BY DEF TickStarts
<1>4. /\ phase = "idle" /\ phase' = "ticking"
      /\ UNCHANGED <<mirror, writing, acked, poisoned, manifest, jobs, job, missed>>
  BY DEF TickStarts
<1>9. QED
  BY <1>1, Numbers, <1>2, <1>3, <1>4 DEF  ResumeInv, RevsKnown, MirrorHasSaved, WritesLive,
     HasSaved, Harmless, Misleading, WentWithout, Sound, AnchorsSound, UploadIsLive, RemoteBehind, LiveAhead,
     stateVars, logVars, Mute, NoJob, Running, Uploading, LocalTick

LEMMA TickFailsResume == ASSUME IInv, ResumeInv, TickFails PROVE ResumeInv'
<1>1. TypeOK BY DEF IInv
<1>2. RemoteState' = RemoteState BY DEF TickFails, stateVars, RemoteState
<1>9. QED
  BY <1>1, Numbers, <1>2 DEF TickFails, ResumeInv, RevsKnown, MirrorHasSaved, WritesLive,
     HasSaved, Harmless, Misleading, WentWithout, Sound, AnchorsSound, UploadIsLive, RemoteBehind, LiveAhead,
     stateVars, logVars, Mute, NoJob, Running, Uploading, LocalTick

LEMMA BeginSaveResume == ASSUME IInv, ResumeInv, BeginSave PROVE ResumeInv'
<1>1. TypeOK BY DEF IInv
<1>2. RemoteState' = RemoteState BY DEF BeginSave, RemoteState
<1>9. QED
  BY <1>1, Numbers, <1>2 DEF BeginSave, ResumeInv, RevsKnown, MirrorHasSaved, WritesLive,
     HasSaved, Harmless, Misleading, WentWithout, Sound, AnchorsSound, UploadIsLive, RemoteBehind, LiveAhead,
     stateVars, logVars, Mute, NoJob, Running, Uploading, LocalTick

LEMMA SaveFailsResume == ASSUME IInv, ResumeInv, SaveFails PROVE ResumeInv'
<1>1. TypeOK BY DEF IInv
<1>2. RemoteState' = RemoteState BY DEF SaveFails, RemoteState
<1>9. QED
  BY <1>1, Numbers, <1>2 DEF SaveFails, Fault, ResumeInv, RevsKnown, MirrorHasSaved, WritesLive,
     HasSaved, Harmless, Misleading, WentWithout, Sound, AnchorsSound, UploadIsLive, RemoteBehind, LiveAhead,
     stateVars, logVars, Mute, NoJob, Running, Uploading, LocalTick

(* The process ends: what is left are the files.                             *)
LEMMA DownResume ==
  ASSUME IInv, ResumeInv, Down, acked' \in {acked, writing.rev},
         RevsKnown', MirrorHasSaved', AnchorsSound'
  PROVE  ResumeInv'
<1>1. phase' = "down" /\ job' = NoJob /\ writing' = Absent BY DEF Down
<1>2. QED
  BY <1>1 DEF ResumeInv, WritesLive, HasSaved, UploadIsLive, RemoteBehind, LiveAhead, NoJob,
              Running, Uploading

(* No newer than the anchor in memory, or one the process went on without.   *)
Behind(a) ==
  manifest.state # Absent /\ (a = missed \/ a.blob.tick <= manifest.state.blob.tick)

(* The manifest a crash leaves names what one of the two did before.         *)
LEMMA RemainsNamed ==
  ASSUME IInv, ResumeInv, disk' \in ManifestRemains, phase # "down"
  PROVE  /\ RemoteState' \in {RemoteState, Absent, manifest.state}
         /\ RemoteState' # Absent =>
              /\ Sound(RemoteState') /\ manifest.state # Absent
              /\ Behind(RemoteState')
              /\ RemoteState # Absent =>
                   RemoteState = missed \/ RemoteState.blob.tick <= (RemoteState').blob.tick
<1>1. RemoteState' \in {RemoteState, Absent, manifest.state}
  BY DEF ManifestRemains, Remains, RemoteState
<1>2. TypeOK BY DEF IInv
<1>3. QED BY <1>1, <1>2, Numbers DEF ResumeInv, AnchorsSound, RemoteBehind, Behind

(* With the live state in the mirror no anchor is newer, but a misleading one.*)
LEMMA MirrorLive ==
  ASSUME IInv, ResumeInv, phase \in {"saving", "stopping"},
         mirror' = writing, UNCHANGED <<rev, missed>>,
         NEW a \in {Absent, RemoteState, manifest.state},
         a # Absent => Sound(a) /\ Behind(a)
  PROVE  a # Absent =>
           /\ a.blob.tick <= a.tick /\ a.blob.rev <= rev'
           /\ Misleading(a) \/ a.blob.tick <= LocalTick'
<1>1. TypeOK BY DEF IInv
<1>2. writing \in Version /\ writing.tick = live.tick /\ ~ poisoned
  BY DEF IInv, WritingAgrees, ResumeInv, WritesLive
<1>3. LocalTick' = live.tick BY <1>1, <1>2, Numbers DEF LocalTick
<1>4. manifest.state # Absent => manifest.state.blob.tick <= live.tick \/ WentWithout
  BY <1>2 DEF ResumeInv, LiveAhead, Mute, Running
<1>5. SUFFICES ASSUME a # Absent, ~ Misleading(a)
               PROVE  a.blob.tick <= live.tick
  BY <1>3 DEF Sound
<1>6. a # missed BY <1>5 DEF Misleading
<1>7. manifest.state # Absent /\ a.blob.tick <= manifest.state.blob.tick
  BY <1>5, <1>6 DEF Behind
<1>8. ~ WentWithout BY <1>5, <1>6 DEF WentWithout
<1>9. QED BY <1>1, <1>4, <1>5, <1>7, <1>8, Numbers

LEMMA MirrorWrittenResume == ASSUME IInv, ResumeInv, MirrorWritten PROVE ResumeInv'
<1>1. TypeOK BY DEF IInv
<1>2. /\ phase \in {"saving", "stopping"} /\ mirror' = writing /\ acked' = writing.rev
      /\ UNCHANGED <<rev, missed>> /\ ~ poisoned
      /\ writing \in Version /\ writing.rev <= live.rev /\ writing.tick = live.tick
  BY DEF MirrorWritten, Down, IInv, WritingAgrees, ResumeInv, WritesLive
<1>3. MirrorHasSaved' BY <1>1, <1>2, Numbers DEF MirrorHasSaved
<1>4. CASE phase = "stopping"
  <2>1. Down /\ disk' \in ManifestRemains BY <1>4 DEF MirrorWritten
  <2>2. RevsKnown'
    BY <1>1, <1>2, <2>1, Numbers DEF ResumeInv, RevsKnown, Down, Fresh
  <2>3. (manifest').state = Absent BY <2>1 DEF Down, EmptyManifest
  <2>4. Sound(RemoteState)'
    <3>1. /\ RemoteState' \in {Absent, RemoteState, manifest.state}
          /\ RemoteState' # Absent => Sound(RemoteState') /\ Behind(RemoteState')
      BY <1>2, <2>1, RemainsNamed
    <3>2. QED BY <1>2, <3>1, MirrorLive DEF Sound, Harmless, Misleading
  <2>5. AnchorsSound' BY <2>3, <2>4 DEF AnchorsSound, Sound
  <2>6. QED BY <1>2, <1>3, <2>1, <2>2, <2>5, DownResume
<1>5. CASE phase = "saving"
  <2>1. /\ phase' = "idle" /\ writing' = Absent /\ jobs' = Append(jobs, "state")
        /\ UNCHANGED <<live, poisoned, manifest, disk, job>>
    BY <1>5 DEF MirrorWritten, logVars
  <2>2. RemoteState' = RemoteState BY <2>1 DEF RemoteState
  <2>3. LocalTick' = live.tick BY <1>1, <1>2, Numbers DEF LocalTick
  <2>4. Sound(RemoteState)' /\ Sound(manifest.state)'
    <3>1. Sound(RemoteState) /\ Sound(manifest.state) BY DEF ResumeInv, AnchorsSound
    <3>2. RemoteState # Absent => Behind(RemoteState)
      BY <1>2 DEF ResumeInv, RemoteBehind, Behind
    <3>3. manifest.state # Absent => Behind(manifest.state)
      BY <1>1, Numbers DEF Behind
    <3>4. QED
      BY <1>2, <2>1, <2>2, <3>1, <3>2, <3>3, MirrorLive DEF Sound, Harmless, Misleading
  <2>5. UploadIsLive'
    BY <1>1, <1>2, <2>1, <2>2, <2>3, Numbers
       DEF ResumeInv, UploadIsLive, Uploading, Harmless, WentWithout
  <2>6. RevsKnown' /\ WritesLive' /\ HasSaved' /\ RemoteBehind'
    BY <1>1, <1>2, <2>1, <2>2, Numbers DEF ResumeInv, RevsKnown, WritesLive, HasSaved, RemoteBehind
  <2>7. LiveAhead' BY <1>2, <2>1, <2>2 DEF ResumeInv, LiveAhead, Mute, Running, WentWithout
  <2>8. QED BY <1>3, <2>4, <2>5, <2>6, <2>7 DEF ResumeInv, AnchorsSound
<1>6. QED BY <1>2, <1>4, <1>5

(* The anchors stay sound when the mirror stays as it was.                   *)
LEMMA DownSameMirror ==
  ASSUME IInv, ResumeInv, Down, disk' \in ManifestRemains, phase # "down",
         UNCHANGED <<mirror, acked, missed>>
  PROVE  ResumeInv'
<1>1. TypeOK BY DEF IInv
<1>2. rev' = rev /\ (live').rev = 0 /\ writing' = Absent /\ (manifest').state = Absent
  BY DEF Down, Fresh, EmptyManifest
<1>3. RevsKnown' /\ MirrorHasSaved'
  BY <1>1, <1>2, Numbers DEF ResumeInv, RevsKnown, MirrorHasSaved
<1>4. LocalTick' = LocalTick BY DEF LocalTick
<1>5. Sound(RemoteState)' BY <1>2, <1>4, RemainsNamed DEF Sound, Harmless, Misleading
<1>6. AnchorsSound' BY <1>2, <1>5 DEF AnchorsSound, Sound
<1>7. QED BY <1>3, <1>6, DownResume

LEMMA StopResume == ASSUME IInv, ResumeInv, Stop PROVE ResumeInv'
<1>1. TypeOK BY DEF IInv
<1>2. phase \in {"idle", "ticking"} /\ UNCHANGED <<mirror, acked, missed>> BY DEF Stop
<1>3. CASE phase' = "stopping"
  <2>1. /\ ~ poisoned /\ writing' = live
        /\ UNCHANGED <<mirror, acked, live, rev, poisoned, manifest, disk, jobs, job>>
    BY <1>3 DEF Stop, Down, logVars
  <2>2. RemoteState' = RemoteState /\ LocalTick' = LocalTick
    BY <2>1 DEF RemoteState, LocalTick
  <2>3. RevsKnown' /\ MirrorHasSaved' /\ WritesLive' /\ HasSaved'
    BY <1>1, <1>2, <1>3, <2>1, Numbers
       DEF ResumeInv, RevsKnown, MirrorHasSaved, WritesLive, HasSaved
  <2>4. AnchorsSound' /\ UploadIsLive' /\ RemoteBehind' /\ LiveAhead'
    BY <1>2, <1>3, <2>1, <2>2 DEF ResumeInv, AnchorsSound, UploadIsLive, RemoteBehind, LiveAhead,
         Sound, Harmless, Misleading, WentWithout, Uploading, Mute, Running
  <2>5. QED BY <2>3, <2>4 DEF ResumeInv
<1>4. CASE phase' # "stopping"
  <2>1. Down /\ disk' \in ManifestRemains /\ phase # "down" BY <1>4, <1>2 DEF Stop
  <2>2. QED BY <1>2, <2>1, DownSameMirror
<1>5. QED BY <1>3, <1>4

(* A crash may leave the mirror as it was, torn, or written.                 *)
LEMMA CrashResume == ASSUME IInv, ResumeInv, Crash PROVE ResumeInv'
<1>1. /\ TypeOK /\ phase # "down" /\ Down /\ disk' \in ManifestRemains
      /\ UNCHANGED <<acked, missed>>
  BY DEF IInv, Crash
<1>2. rev' = rev /\ (live').rev = 0 /\ writing' = Absent /\ (manifest').state = Absent
  BY <1>1 DEF Down, Fresh, EmptyManifest
<1>3. \/ mirror' = mirror \/ mirror' = Torn
      \/ writing # Absent /\ mirror' = writing
  BY DEF Crash, Remains
<1>4. CASE mirror' = mirror BY <1>1, <1>4, DownSameMirror
<1>5. CASE mirror' = Torn
  <2>1. RevsKnown' /\ MirrorHasSaved'
    BY <1>1, <1>2, <1>5, Numbers DEF ResumeInv, RevsKnown, MirrorHasSaved
  <2>2. AnchorsSound'
    BY <1>1, <1>2, <1>5, RemainsNamed DEF AnchorsSound, Sound, Harmless, Misleading
  <2>3. QED BY <1>1, <2>1, <2>2, DownResume
<1>6. CASE writing # Absent /\ mirror' = writing
  <2>1. /\ phase \in {"saving", "stopping", "hydrating"} /\ acked <= writing.rev
        /\ writing.rev <= rev /\ writing \in Version
    BY <1>1, <1>6, Numbers DEF ResumeInv, WritesLive, RevsKnown
  <2>2. RevsKnown' /\ MirrorHasSaved'
    BY <1>1, <1>2, <1>6, <2>1, Numbers DEF ResumeInv, RevsKnown, MirrorHasSaved
  <2>3. /\ RemoteState' \in {Absent, RemoteState, manifest.state}
        /\ RemoteState' # Absent => Sound(RemoteState') /\ Behind(RemoteState')
    BY <1>1, RemainsNamed
  <2>4. CASE phase \in {"saving", "stopping"}
    <3>1. Sound(RemoteState)'
      BY <1>1, <1>2, <1>6, <2>3, <2>4, MirrorLive DEF Sound, Harmless, Misleading
    <3>2. QED BY <1>1, <1>2, <2>2, <3>1, DownResume DEF AnchorsSound, Sound
  <2>5. CASE phase = "hydrating"
    <3>1. writing = manifest.state.blob /\ RemoteState = manifest.state
      BY <2>5 DEF ResumeInv, WritesLive
    <3>2. LocalTick' = writing.tick BY <1>1, <1>6, <2>1, Numbers DEF LocalTick
    <3>3. writing.tick \in Nat BY <1>1, <1>6, Numbers
    <3>4. Sound(RemoteState)' BY <1>2, <2>3, <3>1, <3>2, <3>3 DEF Sound, Harmless
    <3>5. QED BY <1>1, <1>2, <2>2, <3>4, DownResume DEF AnchorsSound, Sound
  <2>6. QED BY <2>1, <2>4, <2>5
<1>7. QED BY <1>3, <1>4, <1>5, <1>6

(* The log's own steps, and those of a log's job, leave the state alone.     *)
LEMMA SameResume ==
  ASSUME ResumeInv, UNCHANGED <<phase, stateVars, missed>>,
         (manifest').state = manifest.state, RemoteState' \in {RemoteState, Absent},
         \A i \in DOMAIN jobs' : jobs'[i] = "state" => \E k \in DOMAIN jobs : jobs[k] = "state",
         phase = "hydrating" => UNCHANGED <<jobs, job, timer>> /\ RemoteState' = RemoteState,
         Uploading' /\ (job').kind = "state" => Uploading /\ job' = job
  PROVE  ResumeInv'
<1>1. UNCHANGED <<phase, live, rev, mirror, writing, acked, poisoned, missed>> BY DEF stateVars
<1>2. LocalTick' = LocalTick BY <1>1 DEF LocalTick
<1>3. RevsKnown' /\ MirrorHasSaved' /\ WritesLive' /\ HasSaved'
  BY <1>1 DEF ResumeInv, RevsKnown, MirrorHasSaved, WritesLive, HasSaved
<1>4. AnchorsSound' /\ RemoteBehind'
  BY <1>1, <1>2 DEF ResumeInv, AnchorsSound, RemoteBehind, Sound, Harmless, Misleading
<1>5. UploadIsLive' BY <1>1, <1>2 DEF ResumeInv, UploadIsLive, Harmless, WentWithout
<1>6. Mute => Mute' BY <1>1 DEF Mute
<1>7. LiveAhead' BY <1>1, <1>6 DEF ResumeInv, LiveAhead, WentWithout
<1>8. QED BY <1>3, <1>4, <1>5, <1>7 DEF ResumeInv

LEMMA AppendedLog ==
  ASSUME NEW s \in Seq({"state", "log"}), NEW i \in DOMAIN Append(s, "log"),
         Append(s, "log")[i] = "state"
  PROVE  \E k \in DOMAIN s : s[k] = "state"
<1>1. QED OBVIOUS

LEMMA AppendLogResume == ASSUME IInv, ResumeInv, AppendLog PROVE ResumeInv'
<1>1. jobs \in Seq({"state", "log"}) BY DEF IInv, TypeOK
<1>2. RemoteState' = RemoteState BY DEF AppendLog, RemoteState
<1>3. phase # "hydrating" BY DEF AppendLog, Running
<1>4. \A i \in DOMAIN jobs' : jobs'[i] = "state" => \E k \in DOMAIN jobs : jobs[k] = "state"
  BY <1>1, AppendedLog DEF AppendLog
<1>5. QED BY <1>2, <1>3, <1>4, SameResume DEF AppendLog, Uploading

LEMMA TimerFiresResume == ASSUME IInv, ResumeInv, TimerFires PROVE ResumeInv'
<1>1. jobs \in Seq({"state", "log"}) BY DEF IInv, TypeOK
<1>2. RemoteState' = RemoteState BY DEF TimerFires, RemoteState
<1>3. phase # "hydrating" BY DEF TimerFires, ResumeInv, WritesLive
<1>4. \A i \in DOMAIN jobs' : jobs'[i] = "state" => \E k \in DOMAIN jobs : jobs[k] = "state"
  BY <1>1, AppendedLog DEF TimerFires
<1>5. QED BY <1>2, <1>3, <1>4, SameResume DEF TimerFires, Uploading

(* A state's upload takes the live state.                                    *)
LEMMA StartJobResume == ASSUME IInv, ResumeInv, StartJob PROVE ResumeInv'
<1>1. TypeOK /\ jobs \in Seq({"state", "log"}) /\ jobs # <<>> /\ job = NoJob /\ jobs' = Tail(jobs)
  BY DEF IInv, TypeOK, StartJob
<1>2. RemoteState' = RemoteState /\ LocalTick' = LocalTick
  BY DEF StartJob, stateVars, RemoteState, LocalTick
<1>3. \A i \in DOMAIN jobs' : jobs'[i] = "state" => \E k \in DOMAIN jobs : jobs[k] = "state"
  <2>1. \A i \in DOMAIN jobs' : i + 1 \in DOMAIN jobs /\ jobs'[i] = jobs[i + 1] BY <1>1
  <2>2. QED BY <2>1
<1>4. phase # "hydrating" /\ phase # "down" BY <1>1 DEF ResumeInv, WritesLive, IInv, DownIsEmpty
<1>5. UNCHANGED <<phase, stateVars, manifest, missed>> BY DEF StartJob
<1>6. CASE Head(jobs) = "state"
  <2>1. job' = [kind |-> "state", blob |-> live, uploaded |-> FALSE] BY <1>6 DEF StartJob
  <2>2. UNCHANGED <<phase, live, rev, mirror, writing, acked, poisoned, manifest, missed>>
    BY <1>5 DEF stateVars
  <2>3. RevsKnown' /\ MirrorHasSaved' /\ WritesLive' /\ HasSaved' /\ AnchorsSound' /\ RemoteBehind'
    BY <1>2, <1>4, <2>2
       DEF ResumeInv, RevsKnown, MirrorHasSaved, WritesLive, HasSaved, AnchorsSound, RemoteBehind,
           Sound, Harmless, Misleading
  <2>5. 1 \in DOMAIN jobs /\ jobs[1] = "state" BY <1>1, <1>6
  <2>4. UploadIsLive'
    <3>1. phase \in Running BY <1>1, <1>4 DEF TypeOK
    <3>2. manifest.state # Absent => manifest.state.blob.tick <= live.tick \/ WentWithout
      BY <2>5, <3>1 DEF ResumeInv, LiveAhead, Mute
    <3>3. QED
      BY <1>1, <1>2, <1>4, <2>1, <2>2, <3>2, Numbers
         DEF ResumeInv, RevsKnown, HasSaved, UploadIsLive, Harmless, WentWithout
  <2>6. LiveAhead' BY <1>2, <2>2, <2>5 DEF ResumeInv, LiveAhead, Mute, WentWithout
  <2>7. QED BY <2>3, <2>4, <2>6 DEF ResumeInv
<1>7. CASE Head(jobs) # "state"
  <2>1. job' = NoJob \/ (job').kind = "log" BY <1>1, <1>7 DEF StartJob
  <2>2. ~ (Uploading' /\ (job').kind = "state") BY <2>1 DEF NoJob, Uploading
  <2>3. QED BY <1>2, <1>3, <1>4, <1>5, <2>2, SameResume
<1>8. QED BY <1>6, <1>7

(* The manifest names the uploaded state, with the tick count it was of.     *)
LEMMA UploadSucceedsResume == ASSUME IInv, ResumeInv, UploadSucceeds PROVE ResumeInv'
<1>1. TypeOK /\ Uploading /\ job' = [job EXCEPT !.uploaded = TRUE]
      /\ UNCHANGED <<phase, stateVars, disk, jobs, missed>>
  BY DEF IInv, UploadSucceeds
<1>2. UNCHANGED <<live, rev, mirror, writing, acked, poisoned>> BY <1>1 DEF stateVars
<1>3. RemoteState' = RemoteState /\ LocalTick' = LocalTick
  BY <1>1, <1>2 DEF RemoteState, LocalTick
<1>4. phase # "hydrating" /\ phase # "down" /\ phase \in Running
  BY <1>1 DEF ResumeInv, WritesLive, IInv, DownIsEmpty, Uploading, TypeOK
<1>5. ~ Uploading'
  BY <1>1, JobKinds DEF TypeOK, Job, Uploading, NoJob
<1>6. CASE job.kind = "state"
  <2>1. (manifest').state = [blob |-> job.blob, tick |-> live.tick]
    BY <1>1, <1>6 DEF UploadSucceeds, TypeOK, Manifest
  <2>2. (manifest').state # Absent
    <3>1. [blob |-> job.blob, tick |-> live.tick] \in Anchor
      BY <1>1, <1>6, Numbers DEF Anchor
    <3>2. QED BY <2>1, <3>1, AbsentAssumption
  <2>3. /\ job.blob.tick <= live.tick /\ job.blob.rev <= rev
        /\ job.blob.tick = live.tick => Harmless(job.blob)
        /\ manifest.state # Absent => manifest.state.blob.tick <= job.blob.tick \/ WentWithout
    BY <1>1, <1>6 DEF ResumeInv, UploadIsLive
  <2>4. AnchorsSound'
    BY <1>1, <1>2, <1>3, <2>1, <2>2, <2>3
       DEF ResumeInv, AnchorsSound, Sound, Harmless, Misleading
  <2>6. RemoteBehind'
    <3>1. RemoteState # Absent =>
            RemoteState = missed \/ RemoteState.blob.tick <= job.blob.tick
      BY <1>1, <1>4, <1>6, <2>3, Numbers DEF ResumeInv, RemoteBehind, WentWithout
    <3>2. QED BY <1>1, <1>3, <2>1, <2>2, <3>1 DEF RemoteBehind
  <2>7. LiveAhead' BY <1>2, <2>1, <2>3 DEF LiveAhead
  <2>8. RevsKnown' /\ MirrorHasSaved' /\ WritesLive' /\ HasSaved'
    BY <1>1, <1>2, <1>4 DEF ResumeInv, RevsKnown, MirrorHasSaved, WritesLive, HasSaved
  <2>9. QED BY <1>5, <2>4, <2>6, <2>7, <2>8 DEF ResumeInv, UploadIsLive
<1>7. CASE job.kind = "log"
  <2>1. (manifest').state = manifest.state
    BY <1>1, <1>7 DEF UploadSucceeds, TypeOK, Manifest
  <2>2. QED BY <1>1, <1>3, <1>4, <1>5, <2>1, SameResume
<1>8. QED BY <1>6, <1>7 DEF UploadSucceeds

LEMMA ManifestWrittenResume == ASSUME IInv, ResumeInv, ManifestWritten PROVE ResumeInv'
<1>1. TypeOK /\ job # NoJob /\ disk' = manifest /\ job' = NoJob
      /\ UNCHANGED <<phase, stateVars, manifest, jobs, missed>>
  BY DEF IInv, ManifestWritten
<1>2. UNCHANGED <<live, rev, mirror, writing, acked, poisoned>> BY <1>1 DEF stateVars
<1>3. RemoteState' = manifest.state /\ LocalTick' = LocalTick
  BY <1>1, <1>2, AbsentAssumption DEF TypeOK, RemoteState, LocalTick
<1>4. phase # "hydrating" /\ phase # "down" BY <1>1 DEF ResumeInv, WritesLive, IInv, DownIsEmpty
<1>5. AnchorsSound'
  BY <1>1, <1>2, <1>3 DEF ResumeInv, AnchorsSound, Sound, Harmless, Misleading
<1>6. RemoteBehind' BY <1>1, <1>3, Numbers DEF ResumeInv, RemoteBehind
<1>7. UploadIsLive' BY <1>1 DEF UploadIsLive, Uploading
<1>8. LiveAhead'
  BY <1>1, <1>2, <1>3 DEF ResumeInv, LiveAhead, Mute, Uploading, WentWithout
<1>9. RevsKnown' /\ MirrorHasSaved' /\ WritesLive' /\ HasSaved'
  BY <1>1, <1>2, <1>4 DEF ResumeInv, RevsKnown, MirrorHasSaved, WritesLive, HasSaved
<1>10. QED BY <1>5, <1>6, <1>7, <1>8, <1>9 DEF ResumeInv

LEMMA JobFailsResume == ASSUME IInv, ResumeInv, UploadFails \/ ManifestFails PROVE ResumeInv'
<1>1. job # NoJob /\ job' = NoJob /\ disk' \in {disk, Torn}
      /\ UNCHANGED <<phase, stateVars, manifest, jobs, missed>>
  BY DEF UploadFails, ManifestFails, JobFails, Uploading
<1>2. RemoteState' \in {RemoteState, Absent} BY <1>1 DEF RemoteState
<1>3. phase # "hydrating" BY <1>1 DEF ResumeInv, WritesLive
<1>4. QED BY <1>1, <1>2, <1>3, SameResume DEF Uploading

LEMMA NextResume == ASSUME IInv, ResumeInv, [Next]_vars PROVE ResumeInv'
<1>1. CASE UNCHANGED vars
  <2>1. UNCHANGED <<phase, stateVars, manifest, disk, jobs, job, missed>> BY <1>1 DEF vars
  <2>2. RemoteState' = RemoteState /\ timer' = timer BY <1>1, <2>1 DEF RemoteState, vars, logVars
  <2>3. QED BY <2>1, <2>2, SameResume DEF Uploading
<1>3. QED
  BY <1>1, LoadResume, HydrateResume, DownloadFailsResume, MutateResume, TickStartsResume, TickFailsResume,
     BeginSaveResume, SaveFailsResume, StopResume, MirrorWrittenResume, CrashResume,
     AppendLogResume, TimerFiresResume, StartJobResume, UploadSucceedsResume,
     ManifestWrittenResume, JobFailsResume
     DEF Next

(* The state on 0G is replaced by a newer one only, unless it was missed.    *)
LEMMA NewerAnchor ==
  ASSUME IInv, ResumeInv, [Next]_vars, RemoteState # Absent, RemoteState' # Absent
  PROVE  RemoteState.blob.tick <= (RemoteState').blob.tick \/ RemoteState = missed
<1>1. TypeOK /\ RemoteState.blob.tick \in Nat
  BY Numbers DEF IInv
<1>3. CASE disk' = disk BY <1>1, <1>3 DEF RemoteState
<1>4. CASE phase # "down" /\ disk' \in ManifestRemains
  BY <1>4, RemainsNamed
<1>5. CASE ManifestWritten
  <2>1. disk' = manifest /\ phase # "down"
    BY <1>5 DEF ManifestWritten, IInv, DownIsEmpty
  <2>2. RemoteState' = manifest.state
    BY <1>1, <2>1, AbsentAssumption DEF TypeOK, RemoteState
  <2>3. QED BY <2>1, <2>2 DEF ResumeInv, RemoteBehind
<1>6. CASE ManifestFails
  <2>1. disk' = disk \/ disk' = Torn BY <1>6 DEF ManifestFails
  <2>2. QED BY <1>3, <2>1 DEF RemoteState
<1>7. QED
  BY <1>3, <1>4, <1>5, <1>6
     DEF Next, vars, Load, Hydrate, DownloadFails, Mutate, TickStarts, TickFails, BeginSave,
         SaveFails, Stop, MirrorWritten, Crash, AppendLog, TimerFires, StartJob, UploadSucceeds,
         UploadFails

(* Short of what a misleading anchor takes, the agent resumes from the last  *)
(* state that was saved or a later one, however many crashes, torn files,    *)
(* late uploads, and failed writes, uploads and downloads there are          *)
(* (loadState, saveState, scheduleStateUpload).                              *)
THEOREM ResumesFromTheSaved == Spec => []ResumesFromSaved
<1>1. Init => ResumeInv BY InitResume
<1>2. IInv /\ ResumeInv /\ [Next]_vars => ResumeInv' BY NextResume
<1>3. ResumeInv => ResumesFromSaved
  BY DEF ResumeInv, HasSaved, ResumesFromSaved, Running
<1>4. QED BY MemoryInvariant, <1>1, <1>2, <1>3, PTL DEF Spec

(* The state on 0G never goes back to an earlier tick, but for an anchor the *)
(* process could not download: every step that rewrites og-manifest.json, or *)
(* loses it, replaces the anchored state by one at least as new              *)
(* (scheduleStateUpload, persistManifest, ensureManifest).                   *)
THEOREM AnchorsStayNewest == Spec => AnchorNeverOlder
<1>1. Init => ResumeInv BY InitResume
<1>2. IInv /\ ResumeInv /\ [Next]_vars => ResumeInv' BY NextResume
<1>3. IInv /\ ResumeInv /\ [Next]_vars
        => (RemoteState # Absent /\ RemoteState' # Absent
              => RemoteState.blob.tick <= (RemoteState').blob.tick \/ RemoteState = missed)
  BY NewerAnchor
<1>4. QED BY MemoryInvariant, <1>1, <1>2, <1>3, PTL DEF Spec, AnchorNeverOlder

-----------------------------------------------------------------------------
(* What the agent relies on.                                                 *)
LEMMA AgentsInit == Init => AgentsView!Init
BY DEF Init, AgentsView!Init, Running, Misleading, RemoteState

LEMMA RunningPhases ==
  /\ Running = {"boot", "idle", "ticking", "saving", "stopping"}
  /\ "down" \notin Running /\ "hydrating" \notin Running
BY DEF Running

LEMMA DoubtIsBoolean == Misleading(RemoteState) \in BOOLEAN
BY DEF Misleading

(* A step by which nothing changes but the memory's own.                     *)
LEMMA AgentsStutter ==
  ASSUME UNCHANGED <<rev, acked, disk, missed>>,
         \/ phase \in Running /\ phase' \in Running /\ live' = live
         \/ phase \notin Running /\ phase' \notin Running
  PROVE  UNCHANGED AgentsView!vars
BY DEF AgentsView!vars, Misleading, RemoteState

(* An upload's end changes the copy on 0G.                                   *)
LEMMA AgentsCopy ==
  ASSUME UNCHANGED <<phase, live, rev, acked>>, phase \in Running
  PROVE  AgentsView!Copy
BY DoubtIsBoolean DEF AgentsView!Copy, Misleading

(* The agent gets what it resumes from.                                      *)
LEMMA AgentsComeUp ==
  ASSUME IInv', ResumeInv', UNCHANGED <<rev, acked>>, phase \notin Running, phase' \in Running
  PROVE  AgentsView!ComeUp
<1>1. live'.rev \in Nat /\ acked' \in Nat /\ rev' \in Nat
  BY MemoryAssumption DEF IInv, TypeOK, Version
<1>2. acked' <= live'.rev /\ live'.rev <= rev'
  BY RunningPhases DEF ResumeInv, RevsKnown, HasSaved
<1>3. live'.rev \in acked..rev
  BY <1>1, <1>2
<1>4. QED
  BY <1>3 DEF AgentsView!ComeUp, Misleading

(* It changes its state, in a tick or a handler.                             *)
LEMMA AgentsChange ==
  ASSUME IInv, Mutate \/ TickStarts
  PROVE  AgentsView!Change
<1>1. live'.rev = rev + 1 /\ rev' = rev + 1 /\ acked' = acked
  BY Numbers DEF Mutate, TickStarts, IInv, Version
<1>2. phase \in Running /\ phase' \in Running
  BY RunningPhases DEF Mutate, TickStarts
<1>3. Misleading(RemoteState)' = Misleading(RemoteState)
  BY DEF Mutate, TickStarts, Misleading, RemoteState
<1>4. QED
  BY <1>1, <1>2, <1>3 DEF AgentsView!Change

(* A save is of a state it had since the last one.                           *)
LEMMA AgentsSave ==
  ASSUME IInv, ResumeInv, MirrorWritten
  PROVE  AgentsView!Save \/ AgentsView!GoDown
<1>1. TypeOK
  BY DEF IInv
<1>2. /\ phase \in {"saving", "stopping"} /\ phase \in Running /\ writing # Absent
      /\ acked' = writing.rev /\ rev' = rev
  BY <1>1, Numbers, RunningPhases DEF MirrorWritten, Down, IInv, WritingAgrees
<1>3. acked' \in acked..live.rev
  BY <1>1, <1>2, Numbers DEF ResumeInv, WritesLive
<1>4. CASE phase = "saving"
  <2>1. phase' \in Running /\ live' = live /\ Misleading(RemoteState)' = Misleading(RemoteState)
    BY <1>4, RunningPhases DEF MirrorWritten, Misleading, RemoteState
  <2>2. QED
    BY <1>2, <1>3, <2>1 DEF AgentsView!Save, AgentsView!Saves
<1>5. CASE phase = "stopping"
  <2>1. phase' \notin Running
    BY <1>5, RunningPhases DEF MirrorWritten, Down
  <2>2. QED
    BY <1>2, <1>3, <2>1 DEF AgentsView!GoDown, AgentsView!Saves, Misleading
<1>6. QED
  BY <1>2, <1>4, <1>5

(* It goes down without a save, or before it was up.                         *)
LEMMA AgentsGoDown ==
  ASSUME IInv, ResumeInv, Down, UNCHANGED <<acked, missed>>, disk' \in ManifestRemains,
         phase # "down"
  PROVE  AgentsView!GoDown \/ UNCHANGED AgentsView!vars
<1>1. phase' \notin Running /\ rev' = rev
  BY RunningPhases DEF Down
<1>2. CASE phase \in Running
  <2>1. acked' \in acked..live.rev
    BY Numbers DEF IInv, ResumeInv, HasSaved
  <2>2. QED
    BY <1>1, <1>2, <2>1 DEF AgentsView!GoDown, AgentsView!Saves, Misleading
<1>3. CASE phase \notin Running
  <2>1. job = NoJob
    BY <1>3 DEF IInv, TypeOK, ResumeInv, WritesLive
  <2>2. QED
    BY <1>1, <1>3, <2>1, AgentsStutter DEF ManifestRemains
<1>4. QED
  BY <1>2, <1>3

LEMMA AgentsNext ==
  IInv /\ ResumeInv /\ [Next]_vars /\ IInv' /\ ResumeInv'
    => [AgentsView!Next]_(AgentsView!vars)
<1> SUFFICES ASSUME IInv, ResumeInv, [Next]_vars, IInv', ResumeInv'
             PROVE  AgentsView!Next \/ UNCHANGED AgentsView!vars
  OBVIOUS
<1>1. CASE Load
  <2>1. phase \notin Running /\ UNCHANGED <<rev, disk, missed>>
    BY <1>1, RunningPhases DEF Load
  <2>2. CASE phase' \in Running
    <3>1. acked' = acked
      BY <1>1, <2>2, RunningPhases DEF Load
    <3>2. QED
      BY <2>1, <2>2, <3>1, AgentsComeUp DEF AgentsView!Next
  <2>3. CASE phase' \notin Running /\ acked' = acked
    BY <2>1, <2>3, AgentsStutter
  <2>4. CASE phase' \notin Running /\ acked' # acked
    <3>1. LoadedManifest.state = RemoteState
      BY DEF LoadedManifest, EmptyManifest, RemoteState
    <3>2. Misleading(RemoteState) /\ acked' = RemoteState.blob.rev /\ RemoteState.blob.rev < acked
      BY <1>1, <2>4, <3>1 DEF Load, Promised
    <3>3. RemoteState # Absent
      BY <3>2 DEF Misleading
    <3>4. acked' \in 0..acked
      BY <3>2, <3>3, Numbers DEF IInv
    <3>5. Misleading(RemoteState)' = Misleading(RemoteState)
      BY <2>1 DEF Misleading, RemoteState
    <3>6. AgentsView!Lose
      BY <2>1, <2>4, <3>2, <3>4, <3>5 DEF AgentsView!Lose
    <3>7. QED
      BY <3>6 DEF AgentsView!Next
  <2>5. QED
    BY <2>2, <2>3, <2>4
<1>2. CASE Hydrate \/ DownloadFails \/ (SaveFails /\ phase = "hydrating")
  <2>1. phase \notin Running /\ phase' \in Running /\ UNCHANGED <<rev, acked>>
    BY <1>2, RunningPhases DEF Hydrate, DownloadFails, SaveFails
  <2>2. QED
    BY <2>1, AgentsComeUp DEF AgentsView!Next
<1>3. CASE Mutate \/ TickStarts
  BY <1>3, AgentsChange DEF AgentsView!Next
<1>4. CASE TickFails \/ BeginSave \/ (SaveFails /\ phase = "saving")
           \/ (Stop /\ phase' = "stopping")
  <2>1. phase \in Running /\ phase' \in Running /\ UNCHANGED <<rev, acked, live, disk, missed>>
    BY <1>4, RunningPhases DEF TickFails, BeginSave, SaveFails, Stop, Down, stateVars
  <2>2. QED
    BY <2>1, AgentsStutter
<1>5. CASE MirrorWritten
  BY <1>5, AgentsSave DEF AgentsView!Next
<1>6. CASE Crash \/ (Stop /\ Down)
  <2>1. /\ Down /\ UNCHANGED <<acked, missed>> /\ phase # "down"
        /\ disk' \in ManifestRemains
    BY <1>6 DEF Crash, Stop, Down
  <2>2. QED
    BY <2>1, AgentsGoDown DEF AgentsView!Next
<1>7. CASE AppendLog \/ TimerFires \/ StartJob \/ UploadSucceeds \/ UploadFails \/ UNCHANGED vars
  <2>1. UNCHANGED <<phase, live, rev, acked, disk, missed>>
    BY <1>7 DEF AppendLog, TimerFires, StartJob, UploadSucceeds, UploadFails, JobFails,
                stateVars, vars
  <2>2. QED
    BY <2>1, AgentsStutter
<1>11. CASE ManifestWritten \/ ManifestFails
  <2>1. UNCHANGED <<phase, live, rev, acked>> /\ job # NoJob
    BY <1>11 DEF ManifestWritten, ManifestFails, JobFails, stateVars
  <2>2. phase \in Running
    BY <2>1 DEF IInv, TypeOK, DownIsEmpty, ResumeInv, WritesLive
  <2>3. QED
    BY <2>1, <2>2, AgentsCopy DEF AgentsView!Next
<1>8. Stop => phase' = "stopping" \/ Down
  BY DEF Stop
<1>9. SaveFails => phase \in {"saving", "hydrating"}
  BY DEF SaveFails
<1>10. QED
  BY <1>1, <1>2, <1>3, <1>4, <1>5, <1>6, <1>7, <1>8, <1>9, <1>11 DEF Next

(* The memory implements what its agent relies on, whatever fails: no later  *)
(* save takes back what was saved, and no restart but one that turns to a    *)
(* misleading anchor (AgentMemory: loadState and saveState of memory.ts, and *)
(* of og-storage-memory.ts over it).                                         *)
THEOREM MemoryImplementsSavedState == Spec => KeepsSaved
<1>1. Init => ResumeInv BY InitResume
<1>2. IInv /\ ResumeInv /\ [Next]_vars => ResumeInv' BY NextResume
<1>3. QED
  BY MemoryInvariant, <1>1, <1>2, AgentsInit, AgentsNext, PTL
  DEF Spec, KeepsSaved, AgentsView!Spec

=============================================================================

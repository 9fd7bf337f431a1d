-------------------------- MODULE OgStorageMemory --------------------------
(***************************************************************************)
(* One agent's memory with the 0G backend: OgStorageMemory over its local  *)
(* mirror (LocalDiskMemory), the tick loop that saves the state, and the   *)
(* process around them, which may crash at any await and start again.      *)
(*                                                                         *)
(* The agent's state is one live object, mutated between saves; a version  *)
(* of it is its tick count and a revision that no two contents share.  Log *)
(* entries are numbered as they are appended.  Encryption is left out: a   *)
(* blob that does not decrypt or verify is a failed download.              *)
(***************************************************************************)
EXTENDS Integers, Sequences, Functions

CONSTANTS
  BatchSize,    (* opts.batchSize                                            *)
  ManifestCap,  (* opts.manifestBatchCap                                     *)
  MaxRev,       (* bound: mutations of the live state                        *)
  MaxEntry,     (* bound: log entries                                        *)
  MaxFaults,    (* bound: faults injected, crashes included                  *)
  Faults,       (* the kinds of fault that may happen                        *)
  Absent,       (* no file, or no anchor                                     *)
  Torn          (* a file that a write left cut short                        *)

FaultKinds == {"crash", "upload", "download", "mirror", "manifest", "slow"}

ASSUME MemoryAssumption ==
  /\ BatchSize \in Nat \ {0} /\ ManifestCap \in Nat \ {0}
  /\ MaxRev \in Nat /\ MaxEntry \in Nat /\ MaxFaults \in Nat
  /\ Faults \subseteq FaultKinds
  /\ Absent # Torn

VARIABLES
  phase,     (* what the process is doing                                    *)
  live,      (* the AgentState object in memory                              *)
  rev,       (* history: revisions handed out                                *)
  mirror,    (* state.json                                                   *)
  writing,   (* the version a mirror write holds                             *)
  acked,     (* history: the last revision a saveState resolved for          *)
  poisoned,  (* LocalDiskMemory.writeQueue is rejected                       *)
  manifest,  (* this.manifest                                                *)
  disk,      (* og-manifest.json                                             *)
  buffer,    (* log entries awaiting a flush                                 *)
  timer,     (* flushTimer is set                                            *)
  jobs,      (* jobs chained on inFlight and not begun                       *)
  job,       (* the job that runs                                            *)
  appended,  (* entries ever appended: all of them are in log.jsonl          *)
  first,     (* history: the first entry this process may append             *)
  evicted,   (* history: entries whose batch left the manifest               *)
  missed,    (* history: the anchor whose download failed last               *)
  faults     (* faults so far                                                *)

stateVars == <<live, rev, mirror, writing, acked, poisoned>>
logVars == <<buffer, timer, appended, first, evicted>>
vars == <<phase, stateVars, manifest, disk, logVars, jobs, job, missed, faults>>

Version == [tick : Nat, rev : 0..MaxRev]
Anchor == [blob : Version, tick : Nat]
Manifest == [state : Anchor \cup {Absent},
             batches : {b \in Seq(Seq(Nat)) : Len(b) <= ManifestCap}]
Job == [kind : {"none"}]
         \cup [kind : {"state"}, blob : Version, uploaded : BOOLEAN]
         \cup [kind : {"log"}, entries : Seq(Nat), uploaded : BOOLEAN]

(* What is not there, or cannot be read, is no content.                      *)
ASSUME AbsentAssumption == {Absent, Torn} \cap (Version \cup Anchor \cup Manifest) = {}

EmptyManifest == [state |-> Absent, batches |-> <<>>]
NoJob == [kind |-> "none"]
Fresh == [tick |-> 0, rev |-> 0]

Running == {"boot", "idle", "ticking", "saving", "stopping"}

(* Types, with the cap on the batches of both manifests.                     *)
TypeOK ==
  /\ phase \in Running \cup {"down", "hydrating"}
  /\ live \in Version /\ rev \in 0..MaxRev /\ acked \in 0..MaxRev
  /\ mirror \in Version \cup {Absent, Torn}
  /\ writing \in Version \cup {Absent}
  /\ poisoned \in BOOLEAN /\ timer \in BOOLEAN
  /\ manifest \in Manifest
  /\ disk \in Manifest \cup {Absent, Torn}
  /\ buffer \in Seq(Nat) /\ jobs \in Seq({"state", "log"}) /\ job \in Job
  /\ appended \in 0..MaxEntry /\ first \in Nat /\ evicted \in SUBSET Nat
  /\ missed \in Anchor \cup {Absent} /\ faults \in 0..MaxFaults

Init ==
  /\ phase = "down" /\ live = Fresh /\ rev = 0
  /\ mirror = Absent /\ writing = Absent /\ acked = 0 /\ poisoned = FALSE
  /\ manifest = EmptyManifest /\ disk = Absent
  /\ buffer = <<>> /\ timer = FALSE /\ jobs = <<>> /\ job = NoJob
  /\ appended = 0 /\ first = 1 /\ evicted = {}
  /\ missed = Absent /\ faults = 0

(* A fault of a kind the instance allows, within the bound.                  *)
Fault(kind) ==
  /\ kind \in Faults
  /\ faults < MaxFaults
  /\ faults' = faults + 1

-----------------------------------------------------------------------------
(* loadState at a cold start; a torn state.json throws and nothing starts.   *)

(* ensureManifest: an unreadable manifest starts fresh.                      *)
LoadedManifest == IF disk \in {Absent, Torn} THEN EmptyManifest ELSE disk

LocalTick == IF mirror = Absent THEN -1 ELSE mirror.tick

(* Faulty variants: a remote anchor of the same tick is preferred too; the   *)
(* local mirror always wins.                                                 *)
PreferEqual(a) == a # Absent /\ a.tick >= LocalTick
PreferLocal(a) == a # Absent /\ mirror = Absent

(* The remote is from a strictly later tick.                                 *)
ShouldHydrate(a) == a # Absent /\ a.tick > LocalTick

(* An anchor whose content is not of the tick it claims, since its upload    *)
(* ended in a later one, or that a process went on without.                  *)
Misleading(a) == a # Absent /\ (a.blob.tick # a.tick \/ a = missed)

(* What stays promised to an agent that turns to an anchor: all of it, or,   *)
(* when the anchor is misleading, no more than the anchor has.               *)
Promised(a) == IF Misleading(a) /\ a.blob.rev < acked THEN a.blob.rev ELSE acked

(* Read the manifest and the mirror: serve local, or begin to hydrate.       *)
Load ==
  LET m == LoadedManifest
      a == m.state
  IN  /\ phase = "down"
      /\ mirror # Torn
      /\ manifest' = m
      /\ live' = IF mirror = Absent THEN Fresh ELSE mirror
      /\ IF ShouldHydrate(a)
           THEN phase' = "hydrating" /\ writing' = a.blob /\ acked' = Promised(a)
           ELSE phase' = "boot" /\ UNCHANGED <<writing, acked>>
      /\ first' = appended + 1
      /\ UNCHANGED <<rev, mirror, poisoned, disk, buffer, timer, appended, evicted,
                     jobs, job, missed, faults>>

(* The blob is downloaded and written to the mirror.                         *)
Hydrate ==
  /\ phase = "hydrating"
  /\ phase' = "boot"
  /\ live' = writing /\ mirror' = writing /\ writing' = Absent
  /\ missed' = Absent
  /\ UNCHANGED <<rev, acked, poisoned, manifest, disk, logVars, jobs, job, faults>>

(* Hydration fails: local, or a fresh state, is served.                      *)
DownloadFails ==
  /\ phase = "hydrating"
  /\ Fault("download")
  /\ phase' = "boot" /\ writing' = Absent
  /\ missed' = manifest.state
  /\ UNCHANGED <<live, rev, mirror, acked, poisoned, manifest, disk, logVars,
                 jobs, job>>

-----------------------------------------------------------------------------
(* The live state and its saves.                                             *)

(* A message handler mutates the live state.                                 *)
Mutate ==
  /\ phase \in Running
  /\ rev < MaxRev
  /\ rev' = rev + 1
  /\ live' = [live EXCEPT !.rev = rev']
  /\ UNCHANGED <<phase, mirror, writing, acked, poisoned, manifest, disk, logVars,
                 jobs, job, missed, faults>>

Uploading == job # NoJob /\ ~ job.uploaded

(* tick: an instance without the fault "slow" ends every upload in its tick. *)
TickStarts ==
  /\ phase = "idle"
  /\ Uploading => "slow" \in Faults
  /\ rev < MaxRev
  /\ rev' = rev + 1
  /\ live' = [tick |-> live.tick + 1, rev |-> rev']
  /\ phase' = "ticking"
  /\ UNCHANGED <<mirror, writing, acked, poisoned, manifest, disk, logVars, jobs,
                 job, missed, faults>>

(* The tick throws before its save, or the save rejects on a poisoned queue. *)
TickFails ==
  /\ phase \in {"boot", "ticking"}
  /\ phase = "boot" => poisoned
  /\ phase' = "idle"
  /\ UNCHANGED <<stateVars, manifest, disk, logVars, jobs, job, missed, faults>>

(* saveState at the end of a tick and after start-up: the state is           *)
(* serialized when its turn in the write queue comes.                        *)
BeginSave ==
  /\ phase \in {"boot", "ticking"}
  /\ ~ poisoned
  /\ phase' = "saving"
  /\ writing' = live
  /\ UNCHANGED <<live, rev, mirror, acked, poisoned, manifest, disk, logVars, jobs,
                 job, missed, faults>>

(* Everything the process holds in memory is gone.                           *)
Down ==
  /\ phase' = "down"
  /\ live' = Fresh /\ writing' = Absent /\ poisoned' = FALSE
  /\ manifest' = EmptyManifest
  /\ buffer' = <<>> /\ timer' = FALSE /\ jobs' = <<>> /\ job' = NoJob
  /\ UNCHANGED <<rev, appended, first, evicted>>

(* The file a crash or an error leaves where new was being written over old. *)
Remains(old, new) == {old, Torn, new}

(* The manifest a crash leaves: only a job that has uploaded writes it.      *)
ManifestRemains ==
  IF job # NoJob /\ job.uploaded THEN Remains(disk, manifest) ELSE {disk}

(* shutdown: the process saves once more and exits; the save of a poisoned   *)
(* queue rejects at once.  Buffered entries and queued uploads are not       *)
(* waited for.                                                               *)
Stop ==
  /\ phase \in {"idle", "ticking"}
  /\ \/ /\ ~ poisoned
        /\ phase' = "stopping" /\ writing' = live
        /\ UNCHANGED <<live, rev, poisoned, manifest, disk, logVars, jobs, job>>
     \/ /\ poisoned
        /\ Down
        /\ disk' \in ManifestRemains
  /\ UNCHANGED <<mirror, acked, missed, faults>>

(* The write resolves: the state's upload is chained, or the process exits.  *)
MirrorWritten ==
  /\ phase \in {"saving", "stopping"}
  /\ mirror' = writing /\ acked' = writing.rev
  /\ \/ /\ phase = "saving"
        /\ phase' = "idle" /\ writing' = Absent
        /\ jobs' = Append(jobs, "state")
        /\ UNCHANGED <<live, rev, poisoned, manifest, disk, logVars, job>>
     \/ /\ phase = "stopping"
        /\ Down
        /\ disk' \in ManifestRemains
  /\ UNCHANGED <<missed, faults>>

(* The write throws: this save and every later one of the process rejects.   *)
SaveFails ==
  /\ phase \in {"saving", "hydrating"}
  /\ Fault("mirror")
  /\ phase' = IF phase = "saving" THEN "idle" ELSE "boot"
  /\ mirror' \in {mirror, Torn}
  /\ writing' = Absent /\ poisoned' = TRUE
  /\ UNCHANGED <<live, rev, acked, manifest, disk, logVars, jobs, job, missed>>

Crash ==
  /\ phase # "down"
  /\ Fault("crash")
  /\ mirror' \in IF writing = Absent THEN {mirror} ELSE Remains(mirror, writing)
  /\ disk' \in ManifestRemains
  /\ Down
  /\ UNCHANGED <<acked, missed>>

-----------------------------------------------------------------------------
(* The log.                                                                  *)

(* Faulty variant: the timer waits for a second entry.                       *)
FlushSecond(n) == n > 1 /\ n < BatchSize

(* A buffer of n entries waits for the timer; a full one is flushed at once. *)
FlushLater(n) == n < BatchSize

(* appendLog, from where the mirror has the entry: a full buffer chains a    *)
(* flush at once and clears the timer, a shorter one restarts the timer.  An *)
(* append that a crash cuts short before that is in log.jsonl at most.       *)
AppendLog ==
  /\ phase \in Running
  /\ appended < MaxEntry
  /\ appended' = appended + 1
  /\ buffer' = Append(buffer, appended')
  /\ timer' = FlushLater(Len(buffer'))
  /\ jobs' = IF Len(buffer') < BatchSize THEN jobs ELSE Append(jobs, "log")
  /\ UNCHANGED <<phase, stateVars, manifest, disk, first, evicted, job, missed, faults>>

TimerFires ==
  /\ timer
  /\ timer' = FALSE
  /\ jobs' = Append(jobs, "log")
  /\ UNCHANGED <<phase, stateVars, manifest, disk, buffer, appended, first,
                 evicted, job, missed, faults>>

-----------------------------------------------------------------------------
(* The upload queue: one job at a time.                                      *)

(* flushBufferOnce splices the whole buffer out before it uploads.           *)
StartJob ==
  /\ job = NoJob /\ jobs # <<>>
  /\ jobs' = Tail(jobs)
  /\ IF Head(jobs) = "state"
       THEN /\ job' = [kind |-> "state", blob |-> live, uploaded |-> FALSE]
            /\ UNCHANGED buffer
       ELSE IF buffer = <<>> THEN UNCHANGED <<job, buffer>>
       ELSE /\ job' = [kind |-> "log", entries |-> buffer, uploaded |-> FALSE]
            /\ buffer' = <<>>
  /\ UNCHANGED <<phase, stateVars, manifest, disk, timer, appended, first, evicted,
                 missed, faults>>

(* Faulty variant: the batch is added at the old end of the list.            *)
OldestFirst(es) == Append(manifest.batches, es)

(* The batch list, newest first, before it is cut to the cap.                *)
Unshifted(es) == <<es>> \o manifest.batches

Capped(all) == IF Len(all) > ManifestCap THEN SubSeq(all, 1, ManifestCap) ELSE all

(* 0G returns: the in-memory manifest names the blob, with the tick count    *)
(* the live state has by now, and is written to disk next.                   *)
UploadSucceeds ==
  /\ Uploading
  /\ job' = [job EXCEPT !.uploaded = TRUE]
  /\ \/ /\ job.kind = "state"
        /\ manifest' = [manifest EXCEPT !.state = [blob |-> job.blob,
                                                   tick |-> live.tick]]
        /\ UNCHANGED evicted
     \/ /\ job.kind = "log"
        /\ LET all == Unshifted(job.entries) IN
             /\ manifest' = [manifest EXCEPT !.batches = Capped(all)]
             /\ evicted' = evicted \cup
                  UNION {Range(all[i]) : i \in (Len(Capped(all)) + 1)..Len(all)}
  /\ UNCHANGED <<phase, stateVars, disk, buffer, timer, appended, first, jobs,
                 missed, faults>>

ManifestWritten ==
  /\ job # NoJob /\ job.uploaded
  /\ disk' = manifest
  /\ job' = NoJob
  /\ UNCHANGED <<phase, stateVars, manifest, logVars, jobs, missed, faults>>

(* Faulty variant: the entries of a failed flush are not requeued.           *)
NotRequeued == buffer

(* A failed flush puts its entries back at the head of the buffer.           *)
Requeued == IF job.kind = "log" THEN job.entries \o buffer ELSE buffer

JobFails ==
  /\ job' = NoJob
  /\ buffer' = Requeued
  /\ UNCHANGED <<phase, stateVars, manifest, timer, appended, first, evicted, jobs,
                 missed>>

UploadFails ==
  /\ Uploading
  /\ Fault("upload")
  /\ JobFails
  /\ UNCHANGED disk

(* The upload is done and the manifest's write throws.                       *)
ManifestFails ==
  /\ job # NoJob /\ job.uploaded
  /\ Fault("manifest")
  /\ JobFails
  /\ disk' \in {disk, Torn}

-----------------------------------------------------------------------------
Next ==
  \/ Load \/ Hydrate \/ DownloadFails
  \/ Mutate \/ TickStarts \/ TickFails \/ BeginSave \/ Stop
  \/ MirrorWritten \/ SaveFails \/ Crash
  \/ AppendLog \/ TimerFires
  \/ StartJob \/ UploadSucceeds \/ ManifestWritten \/ UploadFails \/ ManifestFails

Spec == Init /\ [][Next]_vars

(* Timers fire, queued jobs start, 0G calls and file writes return.  Nobody  *)
(* owes the memory a tick, an entry, a fault or a restart.                   *)
Fairness ==
  /\ WF_vars(TimerFires)
  /\ WF_vars(StartJob)
  /\ WF_vars(UploadSucceeds \/ UploadFails)
  /\ WF_vars(ManifestWritten \/ ManifestFails)

FairSpec == Spec /\ Fairness

-----------------------------------------------------------------------------
(* The agent resumes from the last state a saveState resolved for, or from a *)
(* later one, short of what a misleading anchor took (loadState, saveState). *)
ResumesFromSaved == phase \in Running => live.rev >= acked

RemoteState == IF disk \in {Absent, Torn} THEN Absent ELSE disk.state

(* The memory as the agent sees it: the process is up once it has loaded.    *)
AgentsView == INSTANCE SavedState WITH
  up <- phase \in Running,
  current <- IF phase \in Running THEN live.rev ELSE 0,
  newest <- rev,
  saved <- acked,
  doubtful <- Misleading(RemoteState)

(* Nothing the agent was told is saved is taken back, by a restart or by a   *)
(* later save, save for a restart that turns to a misleading anchor, and it  *)
(* never runs on a state that it did not have (loadState, saveState).        *)
KeepsSaved == AgentsView!Spec

(* The state on 0G never goes back to an earlier tick, across crashes and    *)
(* late uploads too, but for one that a process could not download           *)
(* (scheduleStateUpload, persistManifest, ensureManifest).                   *)
AnchorNeverOlder ==
  [][RemoteState # Absent /\ RemoteState' # Absent
       => RemoteState.blob.tick <= (RemoteState').blob.tick \/ RemoteState = missed]_vars

InFlight == IF job.kind = "log" THEN job.entries ELSE <<>>

Anchored(m) == UNION {Range(m.batches[i]) : i \in DOMAIN m.batches}

(* No entry of this process is lost on its way to 0G: it waits in the        *)
(* buffer, is being uploaded, or is in a batch the manifest names or named.  *)
NoEntryLost ==
  phase # "down" =>
    first..appended \subseteq Range(buffer) \cup Range(InFlight)
                               \cup Anchored(manifest) \cup evicted

Ascending(s) == \A i, j \in DOMAIN s : i < j => s[i] < s[j]
AllBefore(S, T) == \A x \in S, y \in T : x < y

(* Newest batch first, each in order.                                        *)
OrderedBatches(b) ==
  \A i \in DOMAIN b :
    /\ Ascending(b[i])
    /\ \A j \in DOMAIN b : i < j => AllBefore(Range(b[j]), Range(b[i]))

(* The entries being uploaded, until the manifest names them.                *)
Pending == IF job # NoJob /\ job.uploaded THEN <<>> ELSE InFlight

(* Batches keep the order of the log, whatever fails or crashes: those on 0G *)
(* come before the one in flight, and that before the buffer.                *)
LogInOrder ==
  /\ Ascending(buffer)
  /\ AllBefore(Range(Pending), Range(buffer))
  /\ AllBefore(Anchored(manifest), Range(Pending) \cup Range(buffer))
  /\ OrderedBatches(manifest.batches)

(* While the process stays up, an entry is in the end named by the manifest  *)
(* on disk, or, after a fault only, back in the buffer until the next append. *)
EveryEntryAnchored ==
  \A e \in 1..MaxEntry :
    e \in Range(buffer) ~>
      \/ phase = "down"
      \/ disk \notin {Absent, Torn} /\ e \in Anchored(disk) \cup evicted
      \/ faults > 0 /\ e \in Range(buffer) /\ ~timer

=============================================================================

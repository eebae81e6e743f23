------------------------------- MODULE LogSpool -------------------------------
(***************************************************************************)
(* The log collector and its spool, between the FIFO that the clients      *)
(* write to and the batches that LogSync uploads.  One collector appends   *)
(* events to one active batch, a directory <id>.building, and publishes it *)
(* as a ready batch when it is old or full, when a sync asks for it, when  *)
(* the target of the log changes, and when collection is disabled.  Around *)
(* it: sctx logs init, which assigns the log to a target, the sync, which  *)
(* takes ready batches away under sync.lock, crashes, and failures of the  *)
(* file system.  An event is a number, in the order of emission; a target  *)
(* is the number of its stream, 0 for the unassigned one.                  *)
(***************************************************************************)
EXTENDS Integers, Sequences, FiniteSets, SequencesExt

CONSTANTS BatchMax,   \* events that make a batch full, batch_max_mib
          FifoMax,    \* frames the FIFO holds
          DrainReads, \* reads that a seal request may take to empty the FIFO
          ReadMax,    \* lines of an events file that seal and recover read, MAX_BATCH_READ_BYTES
          Nothing,    \* no directory, no lock holder
          MaxEvents, MaxFaults, MaxCrashes, MaxInits, MaxSyncs, MaxToggles \* bounds of the instance

Unassigned == 0

ASSUME SpoolAssumption ==
    /\ BatchMax \in Nat \ {0} /\ FifoMax \in Nat \ {0} /\ DrainReads \in Nat \ {0} /\ ReadMax \in Nat
    /\ {MaxEvents, MaxFaults, MaxCrashes, MaxInits, MaxSyncs, MaxToggles} \subseteq Nat

VARIABLES
    config,   \* config.toml: its stream, and whether collection is enabled
    building, \* the directory in spool/active, Nothing without one
    published, \* spool/ready, in the order of sealed_at
    request,  \* nonce of seal-request.json
    ack,      \* seal-ack.json, and whether there was an active batch to seal
    lock,     \* holder of sync.lock
    fifo,     \* events written and not read yet
    pc,       \* where the collector is
    why,      \* what it seals or opens a batch for
    active,   \* self.active is there; it is always the directory in spool/active
    known,    \* self.config
    serving,  \* nonce of the seal request it handles, 0 without one
    reads,    \* its reads for that request
    init,     \* sctx logs init: "idle" or "bind"
    syncing,  \* the sync: "idle", "wait" or "upload"
    asked,    \* events that had been accepted when it asked for a seal
    told,     \* what it was answered
    uploaded, \* batches it took away
    persisted,\* events counted as persisted
    doubtful, \* those of them that were appended behind a torn line
    emitted, failures, crashes, inits, syncs, toggles

directories == <<building, published>>
seal == <<request, ack>>
self == <<pc, why, active, known, serving, reads>>
tool == <<init, syncing, asked, told>>
history == <<uploaded, persisted, doubtful>>
counters == <<emitted, failures, crashes, inits, syncs, toggles>>
spoolVars == <<config, directories, seal, lock, fifo, self, tool, history, counters>>

NoAck == [nonce |-> 0, sealed |-> FALSE, had |-> FALSE]

SpoolInit ==
    /\ config \in [stream : {Unassigned, 1}, enabled : {TRUE}]
    /\ building = Nothing /\ published = <<>>
    /\ request = 0 /\ ack = NoAck /\ lock = Nothing /\ fifo = <<>>
    /\ pc = "down" /\ why = "nothing" /\ active = FALSE
    /\ known = config /\ serving = 0 /\ reads = 0
    /\ init = "idle" /\ syncing = "idle" /\ asked = {} /\ told = NoAck
    /\ uploaded = {} /\ persisted = {} /\ doubtful = {}
    /\ emitted = 0 /\ failures = 0 /\ crashes = 0 /\ inits = 0 /\ syncs = 0 /\ toggles = 0

\* A call to the file system fails: a bounded number of times.
Fault == failures < MaxFaults /\ failures' = failures + 1

(***************************************************************************)
(* Files.                                                                  *)
(***************************************************************************)
Stream == 0..(MaxInits + 1)
WrittenLine == [event : 1..MaxEvents, stream : Stream, whole : BOOLEAN]

\* The active directory: whether both binding.json and events.jsonl are there, the event count of
\* manifest.json, 0 without one, the lines of events.jsonl, each with the stream that the event was
\* accepted for, whether the file ends in a part of a line, and the event whose line that is when it
\* lacks nothing but the newline, 0 otherwise.
Directory ==
    [stream : Stream, files : BOOLEAN, manifest : Nat, lines : Seq(WrittenLine), torn : BOOLEAN,
     unended : 0..MaxEvents]

\* Nothing is a value of its own.
ASSUME NothingAssumption == Nothing \notin Directory

EmptyDirectory(stream) ==
    [stream |-> stream, files |-> FALSE, manifest |-> 0, lines |-> <<>>, torn |-> FALSE, unended |-> 0]

Line(e, stream, whole) == [event |-> e, stream |-> stream, whole |-> whole]
EventsIn(lines) == {line.event : line \in ToSet(lines)}
AllWhole(lines) == \A line \in ToSet(lines) : line.whole

\* Mutant: recovery starts the file anew.
EmptyPrefix(lines) == <<>>

\* recover keeps the lines before the first one that does not parse.
ValidPrefix(lines) ==
    LET valid == {n \in 0..Len(lines) : \A i \in 1..n : lines[i].whole}
    IN SubSeq(lines, 1, Max(valid))

\* write_all wrote a part of the line of e: at most all of it but the newline.
CutShort(directory, e) ==
    {[directory EXCEPT !.torn = TRUE, !.unended = tail] : tail \in IF directory.torn THEN {0} ELSE {0, e}}

Readable(directory) == Len(directory.lines) + (IF directory.torn THEN 1 ELSE 0) <= ReadMax

\* What seal and load_ready_batch count: whatever parses between newlines, the unended tail too.
EventCount(directory) == Len(directory.lines) + (IF directory.unended = 0 THEN 0 ELSE 1)

\* A ready batch is what its manifest says and what its events file holds.
SealedBatch(directory) ==
    [stream |-> directory.stream, count |-> directory.manifest, lines |-> directory.lines,
     unended |-> directory.unended]

\* What load_ready_batch asks of a batch, but for the last newline: whole lines, as many as the
\* manifest says, none of them accepted for another target.
FitsManifest(batch) ==
    /\ batch.lines # <<>> /\ AllWhole(batch.lines)
    /\ batch.count = EventCount(batch)
    /\ \A line \in ToSet(batch.lines) : line.stream \in {Unassigned, batch.stream}

Loads(batch) == FitsManifest(batch) /\ batch.unended = 0

\* list_ready_batches: one batch that does not load, and the list is an error.
Listed(batches) == IF \A i \in DOMAIN batches : Loads(batches[i]) THEN DOMAIN batches ELSE {}

\* bind_unassigned_batches: the target of a batch without one becomes that of the configuration.
Bind(batch, stream) == IF batch.stream = Unassigned THEN [batch EXCEPT !.stream = stream] ELSE batch

\* It writes one manifest of the list after the other.
BindThese(batches, stream, these) ==
    [i \in DOMAIN batches |-> IF i \in these THEN Bind(batches[i], stream) ELSE batches[i]]
BindAll(batches, stream) == BindThese(batches, stream, Listed(batches))
BindSome(batches, stream) == {BindThese(batches, stream, done) : done \in SUBSET Listed(batches)}

InReady(e) == \E batch \in ToSet(published) \cup uploaded : e \in EventsIn(batch.lines)
InBuilding(e) == building # Nothing /\ e \in EventsIn(building.lines)

(***************************************************************************)
(* The clients: one write that does not wait.                              *)
(***************************************************************************)
\* Without a collector, or into a full FIFO, the event is dropped.
Emit ==
    /\ emitted < MaxEvents /\ emitted' = emitted + 1
    /\ IF pc # "down" /\ Len(fifo) < FifoMax THEN fifo' = Append(fifo, emitted') ELSE UNCHANGED fifo
    /\ UNCHANGED <<config, directories, seal, lock, self, tool, history, failures, crashes, inits, syncs, toggles>>

(***************************************************************************)
(* ActiveBatch::open_or_create, for the reason `why`.                      *)
(***************************************************************************)
\* launchd starts the collector again whenever it has ended.
StartCollector ==
    /\ pc = "down" /\ config.enabled
    /\ pc' = "open" /\ why' = "start" /\ known' = config
    /\ UNCHANGED <<config, directories, seal, lock, fifo, active, serving, reads, tool, history, counters>>

Returns == pc' = (IF serving = 0 THEN "idle" ELSE "drain") /\ why' = "nothing" /\ UNCHANGED fifo
Ends == pc' = "down" /\ why' = "nothing" /\ fifo' = <<>>

\* The caller of open_or_create goes on: collect_once, the answer to a seal request, or the exit.
Opened ==
    /\ active' = (why # "exit")
    /\ CASE why = "request" -> pc' = "sealed" /\ UNCHANGED <<why, fifo>>
         [] why = "exit" -> Ends
         [] OTHER -> Returns

\* seal_best_effort tries once more; the others go on without an active batch.
NotOpened ==
    /\ active' = FALSE
    /\ CASE why = "due" -> pc' = "open" /\ why' = "again" /\ UNCHANGED fifo
         [] why = "request" -> pc' = "rejected" /\ UNCHANGED <<why, fifo>>
         [] why \in {"start", "exit"} -> Ends
         [] OTHER -> Returns

\* recover: the tail behind the first line that does not parse is cut off.
Recover ==
    /\ pc = "open" /\ building # Nothing /\ building.files /\ Readable(building)
    /\ building' = [building EXCEPT !.lines = ValidPrefix(@), !.torn = FALSE, !.unended = 0]
    /\ Opened
    /\ UNCHANGED <<config, published, seal, lock, known, serving, reads, tool, history, counters>>

\* A directory that lacks one of its files, or has too much in one, is never opened again.
Unopenable == building # Nothing /\ (~building.files \/ ~Readable(building))

CannotRecover ==
    /\ pc = "open" /\ Unopenable /\ NotOpened
    /\ UNCHANGED <<config, directories, seal, lock, known, serving, reads, tool, history, counters>>

CreateDirectory ==
    /\ pc = "open" /\ building = Nothing
    /\ building' = EmptyDirectory(known.stream) /\ pc' = "create"
    /\ UNCHANGED <<config, published, seal, lock, fifo, why, active, known, serving, reads, tool, history, counters>>

CreateFiles ==
    /\ pc = "create" /\ building' = [building EXCEPT !.files = TRUE] /\ Opened
    /\ UNCHANGED <<config, published, seal, lock, known, serving, reads, tool, history, counters>>

OpenFails ==
    /\ pc \in {"open", "create"} /\ Fault /\ NotOpened
    /\ UNCHANGED <<config, directories, seal, lock, known, serving, reads, tool, history, emitted, crashes, inits, syncs, toggles>>

(***************************************************************************)
(* collect_once: read the FIFO and append.                                 *)
(***************************************************************************)
\* One read of the FIFO, of collect_once or of a seal request.
Read ==
    /\ fifo # <<>> /\ fifo' = Tail(fifo)
    /\ \/ pc = "idle" /\ known.enabled /\ UNCHANGED reads
       \/ pc = "drain" /\ reads < DrainReads /\ reads' = reads + 1

\* append writes the line in one call; a batch that is full then is sealed.
AppendEvent ==
    /\ Read /\ active
    /\ LET e == Head(fifo)
           lines == Append(building.lines, Line(e, building.stream, ~building.torn))
       IN /\ building' = [building EXCEPT !.lines = lines, !.torn = FALSE, !.unended = 0]
          /\ persisted' = persisted \cup {e}
          /\ doubtful' = IF building.torn \/ ~AllWhole(building.lines) THEN doubtful \cup {e} ELSE doubtful
          /\ IF Len(lines) >= BatchMax
             THEN pc' = "seal" /\ why' = "due" /\ active' = FALSE
             ELSE UNCHANGED <<pc, why, active>>
    /\ UNCHANGED <<config, published, seal, lock, known, serving, tool, uploaded, counters>>

\* Under storage pressure, or without an active batch, the event is dropped and counted.
DropEvent ==
    /\ Read
    /\ UNCHANGED <<config, directories, seal, lock, pc, why, active, known, serving, tool, history, counters>>

\* write_all fails behind a part of the line; the event is not counted.
AppendFails ==
    /\ Read /\ active /\ Fault
    /\ building' \in CutShort(building, Head(fifo))
    /\ UNCHANGED <<config, published, seal, lock, pc, why, active, known, serving, tool, history,
                   emitted, crashes, inits, syncs, toggles>>

(***************************************************************************)
(* Collector::seal and ActiveBatch::seal, for the reason `why`.            *)
(***************************************************************************)
\* seal_best_effort opens a batch again; a seal request is refused; housekeeping goes on.
SealFails ==
    /\ CASE why = "due" -> pc' = "open" /\ why' = "again" /\ UNCHANGED fifo
         [] why = "request" -> pc' = "rejected" /\ UNCHANGED <<why, fifo>>
         [] why = "config" -> pc' = "open" /\ UNCHANGED <<why, fifo>>
         [] why = "exit" -> Ends
    /\ UNCHANGED <<config, seal, active, known, serving, reads, tool, history>>

\* After housekeeping sealed a batch of the unassigned log, it binds the ready batches to the new
\* target, unless somebody else holds sync.lock.
Sealed ==
    /\ IF why = "config" /\ building.stream = Unassigned /\ known.stream # Unassigned /\ lock = Nothing
       THEN pc' = "bind" /\ lock' = "collector"
       ELSE pc' = "open" /\ UNCHANGED lock
    /\ UNCHANGED <<config, seal, fifo, why, active, known, serving, reads, tool, history, counters>>

\* An empty batch is removed file by file, events.jsonl first.
RemoveEvents ==
    /\ pc = "seal" /\ building.lines = <<>>
    /\ building' = [building EXCEPT !.files = FALSE, !.torn = FALSE, !.unended = 0] /\ pc' = "rmdir"
    /\ UNCHANGED <<config, published, seal, lock, fifo, why, active, known, serving, reads, tool, history, counters>>

RemoveDirectory ==
    /\ pc = "rmdir" /\ building' = Nothing /\ Sealed /\ UNCHANGED published

\* The file is read and every line parsed before the manifest is written; nothing asks whether the
\* last one has ended.
Intact == Readable(building) /\ AllWhole(building.lines) /\ (building.torn => building.unended # 0)

Corrupt ==
    /\ pc = "seal" /\ building.lines # <<>> /\ ~Intact
    /\ SealFails /\ UNCHANGED <<directories, lock, counters>>

\* Mutant: a manifest that an earlier attempt left is kept.
KeepManifest ==
    /\ pc = "seal" /\ building.lines # <<>> /\ Intact
    /\ building' = [building EXCEPT !.manifest = IF @ # 0 THEN @ ELSE EventCount(building)] /\ pc' = "publish"
    /\ UNCHANGED <<config, published, seal, lock, fifo, why, active, known, serving, reads, tool, history, counters>>

WriteManifest ==
    /\ pc = "seal" /\ building.lines # <<>> /\ Intact
    /\ building' = [building EXCEPT !.manifest = EventCount(building)] /\ pc' = "publish"
    /\ UNCHANGED <<config, published, seal, lock, fifo, why, active, known, serving, reads, tool, history, counters>>

\* Behind the rename seal loads the batch: when the last line has not ended, seal fails after all.
Publish ==
    /\ pc = "publish" /\ published' = Append(published, SealedBatch(building)) /\ building' = Nothing
    /\ IF building.unended = 0 THEN Sealed ELSE SealFails /\ UNCHANGED <<lock, counters>>

\* A call fails before it took effect; or, behind the rename, the sync of the directories does.
SealFault ==
    /\ pc \in {"seal", "rmdir", "publish"} /\ Fault /\ SealFails
    /\ \/ UNCHANGED directories
       \/ pc = "publish" /\ published' = Append(published, SealedBatch(building)) /\ building' = Nothing
       \/ pc = "rmdir" /\ building' = Nothing /\ UNCHANGED published
    /\ UNCHANGED <<lock, emitted, crashes, inits, syncs, toggles>>

BindReady ==
    /\ pc = "bind" /\ published' = BindAll(published, known.stream) /\ lock' = Nothing /\ pc' = "open"
    /\ UNCHANGED <<config, building, seal, fifo, why, active, known, serving, reads, tool, history, counters>>

BindFails ==
    /\ pc = "bind" /\ Fault /\ published' \in BindSome(published, known.stream) /\ lock' = Nothing /\ pc' = "open"
    /\ UNCHANGED <<config, building, seal, fifo, why, active, known, serving, reads, tool, history,
                   emitted, crashes, inits, syncs, toggles>>

\* should_seal_by_time.
SealByTime ==
    /\ pc = "idle" /\ fifo = <<>> /\ active /\ building.lines # <<>>
    /\ pc' = "seal" /\ why' = "due" /\ active' = FALSE
    /\ UNCHANGED <<config, directories, seal, lock, fifo, known, serving, reads, tool, history, counters>>

\* Mutant: housekeeping looks only at a batch that is there.
OtherTarget == active /\ building.stream # config.stream

\* is_none_or: no active batch, or one that is bound to another target.
Outdated == active => building.stream # config.stream

\* housekeeping, once a second.
Housekeeping ==
    /\ pc = "idle" /\ (Outdated \/ known # config)
    /\ known' = config
    /\ IF Outdated
       THEN pc' = (IF active THEN "seal" ELSE "open") /\ why' = "config" /\ active' = FALSE
       ELSE UNCHANGED <<pc, why, active>>
    /\ UNCHANGED <<config, directories, seal, lock, fifo, serving, reads, tool, history, counters>>

\* run ends when collection is disabled, and seals what there is.
Exit ==
    /\ pc = "idle" /\ ~known.enabled
    /\ IF active
       THEN pc' = "seal" /\ why' = "exit" /\ active' = FALSE /\ UNCHANGED fifo
       ELSE Ends /\ UNCHANGED active
    /\ UNCHANGED <<config, directories, seal, lock, known, serving, reads, tool, history, counters>>

(***************************************************************************)
(* handle_seal_request.                                                    *)
(***************************************************************************)
HandleRequest ==
    /\ pc = "idle" /\ known.enabled /\ request # 0 /\ ack.nonce # request
    /\ pc' = "drain" /\ serving' = request /\ reads' = 0
    /\ UNCHANGED <<config, directories, seal, lock, fifo, why, active, known, tool, history, counters>>

\* Mutant: the batch is sealed without reading the FIFO first.
SealUndrained ==
    /\ pc = "drain"
    /\ IF active
       THEN pc' = "seal" /\ why' = "request" /\ active' = FALSE
       ELSE pc' = "sealed" /\ UNCHANGED <<why, active>>
    /\ UNCHANGED <<config, directories, seal, lock, fifo, known, serving, reads, tool, history, counters>>

\* The FIFO has been read until it was empty. Without an active batch seal answers Ok.
Drained ==
    /\ pc = "drain" /\ fifo = <<>> /\ reads < DrainReads
    /\ IF active
       THEN pc' = "seal" /\ why' = "request" /\ active' = FALSE
       ELSE pc' = "sealed" /\ UNCHANGED <<why, active>>
    /\ UNCHANGED <<config, directories, seal, lock, fifo, known, serving, reads, tool, history, counters>>

DrainExhausted ==
    /\ pc = "drain" /\ reads = DrainReads /\ pc' = "rejected"
    /\ UNCHANGED <<config, directories, seal, lock, fifo, why, active, known, serving, reads, tool, history, counters>>

Served == pc' = "idle" /\ why' = "nothing" /\ serving' = 0 /\ reads' = 0

Acknowledge ==
    /\ pc \in {"sealed", "rejected"} /\ Served
    /\ ack' = [nonce |-> serving, sealed |-> pc = "sealed", had |-> why = "request"]
    /\ UNCHANGED <<config, directories, request, lock, fifo, active, known, tool, history, counters>>

AcknowledgeFails ==
    /\ pc \in {"sealed", "rejected"} /\ Served /\ Fault
    /\ UNCHANGED <<config, directories, seal, lock, fifo, active, known, tool, history,
                   emitted, crashes, inits, syncs, toggles>>

\* The collector is killed: in the middle of an append, or of binding one batch after the other.
CollectorCrash ==
    /\ pc # "down" /\ crashes < MaxCrashes /\ crashes' = crashes + 1
    /\ Ends /\ active' = FALSE /\ serving' = 0 /\ reads' = 0
    /\ lock' = IF lock = "collector" THEN Nothing ELSE lock
    /\ \/ UNCHANGED directories
       \/ fifo # <<>> /\ active /\ building' \in CutShort(building, Head(fifo)) /\ UNCHANGED published
       \/ pc = "bind" /\ UNCHANGED building /\ published' \in BindSome(published, known.stream)
    /\ UNCHANGED <<config, seal, known, tool, history, emitted, failures, inits, syncs, toggles>>

(***************************************************************************)
(* sctx logs init, enable and disable.                                     *)
(***************************************************************************)
\* It waits for sync.lock; the target is then another one, with a stream of its own, or the old one.
InitWrite ==
    /\ init = "idle" /\ lock = Nothing /\ inits < MaxInits
    /\ lock' = "init" /\ init' = "bind" /\ inits' = inits + 1
    /\ \E stream \in {config.stream, inits' + 1} : config' = [stream |-> stream, enabled |-> TRUE]
    /\ UNCHANGED <<directories, seal, fifo, self, syncing, asked, told, history, emitted, failures, crashes, syncs, toggles>>

InitBind ==
    /\ init = "bind" /\ init' = "idle" /\ lock' = Nothing
    /\ published' = IF config.stream # Unassigned THEN BindAll(published, config.stream) ELSE published
    /\ UNCHANGED <<config, building, seal, fifo, self, syncing, asked, told, history, counters>>

InitCut ==
    /\ init # "idle" /\ crashes < MaxCrashes /\ crashes' = crashes + 1
    /\ init' = "idle" /\ lock' = Nothing /\ published' \in BindSome(published, config.stream)
    /\ UNCHANGED <<config, building, seal, fifo, self, syncing, asked, told, history, emitted, failures, inits, syncs, toggles>>

SetEnabled ==
    /\ init = "idle" /\ toggles < MaxToggles /\ toggles' = toggles + 1
    /\ config' = [config EXCEPT !.enabled = ~@]
    /\ UNCHANGED <<directories, seal, lock, fifo, self, tool, history, emitted, failures, crashes, inits, syncs>>

(***************************************************************************)
(* The sync, as far as it touches the spool: LogSync is about the rest.    *)
(***************************************************************************)
RequestSeal ==
    /\ syncing = "idle" /\ lock = Nothing /\ syncs < MaxSyncs
    /\ lock' = "sync" /\ syncing' = "wait" /\ syncs' = syncs + 1
    /\ request' = syncs' /\ asked' = persisted \cup ToSet(fifo)
    /\ UNCHANGED <<config, directories, ack, fifo, self, init, told, history, emitted, failures, crashes, inits, toggles>>

\* The answer to this request, or none within two seconds; then spool/ready is listed, and an error
\* there ends the sync.
Answered ==
    /\ syncing = "wait" /\ syncing' = "upload" /\ Listed(published) = DOMAIN published
    /\ told' = IF ack.nonce = request THEN ack ELSE NoAck
    /\ UNCHANGED <<config, directories, seal, lock, fifo, self, init, asked, history, counters>>

\* Mutant: the newest batch first.
TakeNewest ==
    /\ syncing = "upload" /\ published # <<>> /\ Last(published).stream # Unassigned /\ Loads(Last(published))
    /\ uploaded' = uploaded \cup {Last(published)} /\ published' = Front(published)
    /\ UNCHANGED <<config, building, seal, lock, fifo, self, tool, persisted, doubtful, counters>>

\* A batch that is not assigned to a target is an error that ends the sync.
TakeBatch ==
    /\ syncing = "upload" /\ published # <<>> /\ Head(published).stream # Unassigned /\ Loads(Head(published))
    /\ uploaded' = uploaded \cup {Head(published)} /\ published' = Tail(published)
    /\ UNCHANGED <<config, building, seal, lock, fifo, self, tool, persisted, doubtful, counters>>

\* It is done, has an error, or is cut short.
SyncEnd ==
    /\ syncing # "idle" /\ syncing' = "idle" /\ lock' = Nothing /\ asked' = {} /\ told' = NoAck
    /\ UNCHANGED <<config, directories, seal, fifo, self, init, history, counters>>

Collect == AppendEvent \/ DropEvent \/ AppendFails
CollectorStep ==
    \/ Recover \/ CannotRecover \/ CreateDirectory \/ CreateFiles \/ OpenFails
    \/ RemoveEvents \/ RemoveDirectory \/ Corrupt \/ WriteManifest \/ Publish \/ SealFault
    \/ BindReady \/ BindFails \/ Drained \/ DrainExhausted \/ Acknowledge \/ AcknowledgeFails
UploadStep == Answered \/ TakeBatch \/ SyncEnd

SpoolNext ==
    \/ Emit \/ StartCollector \/ Collect \/ CollectorStep
    \/ SealByTime \/ Housekeeping \/ Exit \/ HandleRequest \/ CollectorCrash
    \/ InitWrite \/ InitBind \/ InitCut \/ SetEnabled
    \/ RequestSeal \/ UploadStep

SpoolSpec == SpoolInit /\ [][SpoolNext]_spoolVars

\* A running process runs on, and launchd keeps the collector running. Nothing is assumed of the
\* clients, of faults and crashes, or of when somebody calls init, enable, disable or sync.
FairSpoolSpec ==
    /\ SpoolSpec
    /\ WF_spoolVars(StartCollector) /\ WF_spoolVars(Collect) /\ WF_spoolVars(CollectorStep)
    /\ WF_spoolVars(SealByTime) /\ WF_spoolVars(Housekeeping) /\ WF_spoolVars(Exit) /\ WF_spoolVars(HandleRequest)
    /\ WF_spoolVars(InitBind) /\ WF_spoolVars(UploadStep)

(***************************************************************************)
(* Properties.                                                             *)
(***************************************************************************)
\* Types of the variables that the steps of the collector depend on.
SpoolTypeOK ==
    /\ config.stream \in Stream /\ known.stream \in Stream
    /\ building = Nothing \/ building \in Directory
    /\ lock \in {Nothing, "collector", "init", "sync"}
    /\ active => building # Nothing /\ building.files
    /\ (lock = "init") = (init # "idle") /\ (lock = "sync") = (syncing # "idle")
    /\ (lock = "collector") = (pc = "bind")

\* An event that was counted as persisted is in the active batch or in one published batch, never
\* in both and never in none, through failed seals, restarts and the removal of empty batches; only
\* what was appended behind the rest of a failed write may be cut off.
PersistedIsKept ==
    \A e \in persisted \ doubtful :
        Cardinality({batch \in ToSet(published) \cup uploaded : e \in EventsIn(batch.lines)})
            + (IF InBuilding(e) THEN 1 ELSE 0) = 1

\* A batch in spool/ready fits its manifest, however many attempts it took to seal it: whole lines, as
\* many as the manifest counts, none of them accepted for another target. The one thing that
\* load_ready_batch may still refuse is a missing last newline, and then the line that lacks it is of
\* an event that was never counted as persisted, neither before nor after.
ReadyFitsManifest ==
    \A batch \in ToSet(published) \cup uploaded : FitsManifest(batch) /\ batch.unended \notin persisted

\* What is published passes load_ready_batch: seal "returns an error when active data cannot be
\* validated, synced, or atomically renamed", and does not publish it.
ReadyLoads == \A batch \in ToSet(published) : Loads(batch)

\* A sync that is told Sealed has before it everything the collector had accepted when it asked,
\* unless the collector had lost its active batch to a failure.
AckCoversEarlier ==
    syncing = "upload" /\ told.sealed /\ told.had =>
        \A e \in asked : e \notin ToSet(fifo) /\ ~InBuilding(e)

\* What the active directory will publish: recovery cuts off what is in doubt.
Collected == IF building = Nothing THEN {} ELSE EventsIn(building.lines) \ doubtful

Queue == INSTANCE EventQueue WITH
    Event     <- 1..MaxEvents,
    collected <- Collected,
    ready     <- [i \in DOMAIN published |-> EventsIn(published[i].lines)],
    taken     <- UNION {EventsIn(batch.lines) : batch \in uploaded}

\* Through torn lines, recoveries, failed seals, new targets and crashes the spool is a queue: events
\* enter the active batch in the order of emission, leave it all at once, and the sync gets whole
\* batches in that order; what was appended behind a torn line never turns up again.
ImplementsQueue == Queue!QueueSpec

\* Whatever is persisted is published in the end, also after failed seals and crashes, as long as
\* collection stays enabled.
EventuallyReady ==
    \A e \in 1..MaxEvents : e \in persisted \ doubtful ~> (InReady(e) \/ ~config.enabled)

\* What was collected before the log got its target is assigned to it: a live collector "seals and
\* binds active unassigned data on first assignment".
EventuallyBound ==
    \A e \in 1..MaxEvents :
        e \in persisted \ doubtful /\ config.stream # Unassigned
            ~> \/ ~config.enabled
               \/ \E batch \in ToSet(published) \cup uploaded : e \in EventsIn(batch.lines) /\ batch.stream # Unassigned
=============================================================================

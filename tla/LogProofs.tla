------------------------------- MODULE LogProofs -------------------------------
(***************************************************************************)
(* What the log keeps on its way from the FIFO of the collector to the     *)
(* remote: first what LogSpool promises of the batches in the spool, for   *)
(* any size of batches and of the FIFO and any number of events, failures, *)
(* crashes, assignments and syncs; then what LogSync promises of their     *)
(* upload, for any batches, branches, capacities, failures and losses.     *)
(***************************************************************************)
EXTENDS LogSpool, LogSync, FiniteSetTheorems, SequenceTheorems, WellFoundedInduction, TLAPS

(***************************************************************************)
(* The collector and its spool: the invariant.                             *)
(***************************************************************************)
USE SpoolAssumption DEF SpoolAssumption

\* Where the collector is, and for what: the reason goes with the place, and it appends only where it
\* holds the active batch.
Control ==
  /\ pc \in {"down", "idle", "drain", "open", "create", "seal", "rmdir", "publish", "bind", "sealed", "rejected"}
  /\ pc \in {"down", "idle", "drain"} => why = "nothing"
  /\ pc \in {"open", "create"} => why \in {"start", "due", "again", "request", "config", "exit"}
  /\ pc \in {"seal", "rmdir", "publish"} => why \in {"due", "request", "config", "exit"}
  /\ pc = "bind" => why = "config"
  /\ pc \in {"sealed", "rejected"} => why \in {"nothing", "request"}
  /\ active \in BOOLEAN
  /\ active => pc \in {"idle", "drain", "sealed", "rejected"}

\* A target of the log.
Target == [stream : Stream, enabled : BOOLEAN]

\* The target of the log, and the one the collector has read last.
Targets == config \in Target /\ known \in Target /\ inits \in 0 .. MaxInits

\* A batch in spool/ready: what its manifest says, and its lines.
PublishedBatch == [stream : Stream, count : Nat, lines : Seq(WrittenLine), unended : 0 .. MaxEvents]

\* Events are numbered in the order of emission.
Fifo == fifo \in Seq(1 .. MaxEvents) /\ emitted \in 0 .. MaxEvents

\* The directory in spool/active is there while the collector works on it, with both files while it
\* appends.
Files ==
  /\ building \in {Nothing} \cup Directory
  /\ active \/ pc \in {"create", "seal", "rmdir", "publish"} => building \in Directory
  /\ active => building.files
  /\ pc \in {"create", "rmdir"} => building.lines = <<>>
  /\ published \in Seq(PublishedBatch)
  /\ uploaded \subseteq PublishedBatch

\* What the variables hold.
SpoolTyped == Control /\ Targets /\ Fifo /\ Files

\* The first half of ReadyFitsManifest, and what leads to it: the events of the active directory were
\* accepted for its target, and what is about to be renamed fits its manifest already.
AllReadyFits ==
  /\ building \in Directory => \A line \in ToSet(building.lines) : line.stream = building.stream
  /\ pc = "publish" => FitsManifest(SealedBatch(building))
  /\ \A i \in DOMAIN published : FitsManifest(published[i])
  /\ \A batch \in uploaded : FitsManifest(batch)

\* The events of a published batch.
Events(i) == EventsIn(published[i].lines)

\* Each number is in the FIFO at most once, and what is there has not been persisted yet.
Waiting ==
  /\ \A i, j \in DOMAIN fifo : fifo[i] = fifo[j] => i = j
  /\ \A i \in DOMAIN fifo : fifo[i] <= emitted /\ fifo[i] \notin persisted
  /\ persisted \subseteq 1 .. emitted

\* An event whose append failed will not be persisted any more: it has left the FIFO.
NeverCounted(e) == e \in 0 .. emitted /\ e \notin persisted /\ \A i \in DOMAIN fifo : fifo[i] # e

\* The other half of ReadyFitsManifest: no unended line is of an event that is counted, ever.
Unended ==
  /\ building \in Directory => NeverCounted(building.unended)
  /\ \A i \in DOMAIN published : NeverCounted(published[i].unended)
  /\ \A batch \in uploaded : NeverCounted(batch.unended)

\* Whatever is in a batch was counted as persisted.
Held ==
  /\ building \in Directory => EventsIn(building.lines) \subseteq persisted
  /\ \A i \in DOMAIN published : Events(i) \subseteq persisted
  /\ \A batch \in uploaded : EventsIn(batch.lines) \subseteq persisted

\* No two batches hold the same event.
OnePlace ==
  /\ \A i, j \in DOMAIN published : i # j => Events(i) \cap Events(j) = {}
  /\ \A i \in DOMAIN published, batch \in uploaded : Events(i) \cap EventsIn(batch.lines) = {}
  /\ \A batch, other \in uploaded : batch # other => EventsIn(batch.lines) \cap EventsIn(other.lines) = {}
  /\ building \in Directory =>
       /\ \A i \in DOMAIN published : Events(i) \cap EventsIn(building.lines) = {}
       /\ \A batch \in uploaded : EventsIn(batch.lines) \cap EventsIn(building.lines) = {}

\* An event that is not in doubt is in a batch.
SomePlace ==
  \A e \in persisted \ doubtful :
    \/ \E i \in DOMAIN published : e \in Events(i)
    \/ \E batch \in uploaded : e \in EventsIn(batch.lines)
    \/ building \in Directory /\ e \in EventsIn(building.lines)

\* Before an event that is not in doubt, every line is whole: recovery does not cut it off.
Undoubted ==
  building \in Directory =>
    \A i \in DOMAIN building.lines :
      building.lines[i].event \notin doubtful => \A j \in 1 .. i : building.lines[j].whole

\* No event is lost, none is in two places.
Keeping == Waiting /\ Held /\ OnePlace /\ SomePlace /\ Undoubted

\* What the sync asked for is behind it.
Covered == \A e \in asked : e \notin ToSet(fifo) /\ ~InBuilding(e)

\* Requests are numbered, and no answer and no handler is ahead of the last one.
Nonces ==
  /\ request \in Nat /\ syncs = request
  /\ serving \in 0 .. request /\ ack.nonce \in 0 .. request
  /\ asked \subseteq 1 .. emitted
  /\ syncing = "idle" => asked = {}

\* On its way to answer the request that is waiting, the collector has nothing left in the FIFO of what
\* was asked for, then nothing in the active batch; and so has whoever reads the answer.
Answers ==
  /\ pc \in {"open", "create"} /\ why = "request" => building = Nothing \/ building.lines = <<>>
  /\ why = "request" /\ serving = request /\ pc \in {"seal", "rmdir", "publish", "open", "create"} =>
       asked \cap ToSet(fifo) = {}
  /\ pc = "sealed" /\ why = "request" /\ serving = request => Covered
  /\ ack.nonce = request /\ ack.sealed /\ ack.had => Covered
  /\ syncing = "upload" /\ told.sealed /\ told.had => Covered

\* The inductive invariant of the collector and its spool.
SpoolInv == SpoolTyped /\ AllReadyFits /\ Unended /\ Keeping /\ Nonces /\ Answers

\* What the caller of open_or_create does next.
LEMMA OpenedLeads ==
  ASSUME Control, pc \in {"open", "create"}, Opened
  PROVE  /\ active' \in BOOLEAN
         /\ \/ pc' = "sealed" /\ why = "request" /\ why' = why /\ fifo' = fifo
            \/ pc' \in {"down", "idle", "drain"} /\ why' = "nothing" /\ fifo' \in {fifo, <<>>}
                 /\ (active' => pc' # "down")
<1>1. active' = (why # "exit") /\ ((why # "exit") \in BOOLEAN)
  BY DEF Opened
<1>2. CASE why = "request"
  BY <1>1, <1>2 DEF Opened
<1>3. CASE why = "exit"
  BY <1>1, <1>3 DEF Opened, Ends
<1>4. CASE why # "request" /\ why # "exit"
  BY <1>1, <1>4 DEF Opened, Returns
<1> QED
  BY <1>2, <1>3, <1>4

\* What it does next when that fails.
LEMMA NotOpenedLeads ==
  ASSUME Control, pc \in {"open", "create"}, NotOpened
  PROVE  /\ active' = FALSE
         /\ \/ pc' = "open" /\ why' = "again" /\ fifo' = fifo
            \/ pc' = "rejected" /\ why = "request" /\ why' = why /\ fifo' = fifo
            \/ pc' \in {"down", "idle", "drain"} /\ why' = "nothing" /\ fifo' \in {fifo, <<>>}
<1>1. CASE why = "due"
  BY <1>1 DEF NotOpened
<1>2. CASE why = "request"
  BY <1>2 DEF NotOpened
<1>3. CASE why \in {"start", "exit"}
  BY <1>3 DEF NotOpened, Ends
<1>4. CASE why \notin {"due", "request", "start", "exit"}
  BY <1>4 DEF NotOpened, Returns
<1> QED
  BY <1>1, <1>2, <1>3, <1>4

\* What the caller of seal does next when that fails.
LEMMA SealFailsLeads ==
  ASSUME Control, pc \in {"seal", "rmdir", "publish"}, SealFails
  PROVE  /\ active' = FALSE
         /\ \/ pc' = "open" /\ why' \in {"again", "config"} /\ fifo' = fifo
            \/ pc' = "rejected" /\ why' = why /\ why = "request" /\ fifo' = fifo
            \/ pc' = "down" /\ why' = "nothing" /\ fifo' = <<>>
         /\ UNCHANGED <<config, seal, known, serving, reads, tool, history>>
<1>0. active = FALSE /\ UNCHANGED <<config, seal, active, known, serving, reads, tool, history>>
  BY DEF Control, SealFails
<1>1. CASE why = "due"
  BY <1>0, <1>1 DEF SealFails
<1>2. CASE why = "request"
  BY <1>0, <1>2 DEF SealFails
<1>3. CASE why = "config"
  BY <1>0, <1>3 DEF SealFails
<1>4. CASE why = "exit"
  BY <1>0, <1>4 DEF SealFails, Ends
<1> QED
  BY <1>1, <1>2, <1>3, <1>4 DEF Control

\* Every step keeps Control: each action by itself.
LEMMA ControlNext ==
  ASSUME Control, [SpoolNext]_spoolVars
  PROVE  Control'
<1> USE DEF self
<1>0. CASE UNCHANGED spoolVars
  BY <1>0 DEF spoolVars, Control
<1>1. CASE Emit
  BY <1>1 DEF Emit, Control
<1>2. CASE StartCollector
  BY <1>2 DEF StartCollector, Control
<1>3. CASE AppendEvent
  BY <1>3 DEF AppendEvent, Read, Control
<1>4. CASE DropEvent
  BY <1>4 DEF DropEvent, Read, Control
<1>5. CASE AppendFails
  BY <1>5 DEF AppendFails, Read, Control
<1>6. CASE Recover
  BY <1>6, OpenedLeads DEF Recover, Control
<1>7. CASE CannotRecover
  BY <1>7, NotOpenedLeads DEF CannotRecover, Control
<1>8. CASE CreateDirectory
  BY <1>8 DEF CreateDirectory, Control
<1>9. CASE CreateFiles
  BY <1>9, OpenedLeads DEF CreateFiles, Control
<1>10. CASE OpenFails
  BY <1>10, NotOpenedLeads DEF OpenFails, Control
<1>11. CASE RemoveEvents
  BY <1>11 DEF RemoveEvents, Control
<1>12. CASE RemoveDirectory
  BY <1>12 DEF RemoveDirectory, Sealed, Control
<1>13. CASE Corrupt
  BY <1>13, SealFailsLeads DEF Corrupt, Control
<1>14. CASE WriteManifest
  BY <1>14 DEF WriteManifest, Control
<1>15. CASE Publish
  BY <1>15, SealFailsLeads DEF Publish, Sealed, Control
<1>16. CASE SealFault
  BY <1>16, SealFailsLeads DEF SealFault, Control
<1>17. CASE BindReady
  BY <1>17 DEF BindReady, Control
<1>18. CASE BindFails
  BY <1>18 DEF BindFails, Control
<1>19. CASE Drained
  BY <1>19 DEF Drained, Control
<1>20. CASE DrainExhausted
  BY <1>20 DEF DrainExhausted, Control
<1>21. CASE Acknowledge
  BY <1>21 DEF Acknowledge, Served, Control
<1>22. CASE AcknowledgeFails
  BY <1>22 DEF AcknowledgeFails, Served, Control
<1>23. CASE SealByTime
  BY <1>23 DEF SealByTime, Control
<1>24. CASE Housekeeping
  <2>1. CASE Outdated
    <3>1. active = TRUE \/ active = FALSE
      BY DEF Control
    <3>2. pc' \in {"seal", "open"} /\ why' = "config" /\ active' = FALSE
      BY <1>24, <2>1, <3>1, Zenon DEF Housekeeping
    <3> QED
      BY <3>2 DEF Control
  <2>2. CASE ~Outdated
    <3>1. UNCHANGED <<pc, why, active>>
      BY <1>24, <2>2, Zenon DEF Housekeeping
    <3> QED
      BY <3>1 DEF Control
  <2> QED
    BY <2>1, <2>2
<1>25. CASE Exit
  BY <1>25 DEF Exit, Ends, Control
<1>26. CASE HandleRequest
  BY <1>26 DEF HandleRequest, Control
<1>27. CASE CollectorCrash
  BY <1>27 DEF CollectorCrash, Ends, Control
<1>28. CASE InitWrite
  BY <1>28 DEF InitWrite, Control
<1>29. CASE InitBind
  BY <1>29 DEF InitBind, Control
<1>30. CASE InitCut
  BY <1>30 DEF InitCut, Control
<1>31. CASE SetEnabled
  BY <1>31 DEF SetEnabled, Control
<1>32. CASE RequestSeal
  BY <1>32 DEF RequestSeal, Control
<1>33. CASE Answered
  BY <1>33 DEF Answered, Control
<1>34. CASE TakeBatch
  BY <1>34 DEF TakeBatch, Control
<1>35. CASE SyncEnd
  BY <1>35 DEF SyncEnd, Control
<1> QED
  BY <1>0, <1>1, <1>2, <1>3, <1>4, <1>5, <1>6, <1>7, <1>8, <1>9, <1>10, <1>11, <1>12, <1>13, <1>14, <1>15,
     <1>16, <1>17, <1>18, <1>19, <1>20, <1>21, <1>22, <1>23, <1>24, <1>25, <1>26, <1>27, <1>28, <1>29,
     <1>30, <1>31, <1>32, <1>33, <1>34, <1>35
  DEF SpoolNext, Collect, CollectorStep, UploadStep

\* Only init, enable and disable change the configuration, and the collector reads it.
LEMMA TargetsNext ==
  ASSUME Control, Targets, [SpoolNext]_spoolVars
  PROVE  Targets'
<1>1. UNCHANGED config \/ InitWrite \/ SetEnabled
  BY DEF Control, spoolVars, tool, self, history, counters, seal, directories, SpoolNext, Emit,
     StartCollector, Collect, AppendEvent, DropEvent, AppendFails,
   CollectorStep, Recover, CannotRecover, CreateDirectory, CreateFiles, OpenFails, RemoveEvents,
   RemoveDirectory, Corrupt,
   WriteManifest, Publish, SealFault, BindReady, BindFails, Drained, DrainExhausted, Acknowledge,
   AcknowledgeFails, SealByTime,
   Housekeeping, Exit, HandleRequest, CollectorCrash, InitBind, InitCut, RequestSeal, UploadStep, Answered, TakeBatch,
   SyncEnd, Sealed, SealFails
<1>2. UNCHANGED known \/ known' = config
  <2> USE DEF tool, self, history, counters, seal, directories
  <2>1. CASE Emit \/ StartCollector \/ Collect
    BY <2>1 DEF Emit, StartCollector, Collect, AppendEvent, DropEvent, AppendFails
  <2>2. CASE \/ Recover \/ CannotRecover \/ CreateDirectory \/ CreateFiles \/ OpenFails
             \/ RemoveEvents \/ RemoveDirectory \/ Corrupt
    <3>1. CASE Recover \/ CannotRecover \/ CreateDirectory
      BY <3>1 DEF Recover, CannotRecover, CreateDirectory
    <3>2. CASE CreateFiles \/ OpenFails
      BY <3>2 DEF CreateFiles, OpenFails
    <3>3. CASE RemoveEvents \/ RemoveDirectory \/ Corrupt
      BY <3>3 DEF RemoveEvents, RemoveDirectory, Corrupt, Sealed, SealFails
    <3> QED
      BY <2>2, <3>1, <3>2, <3>3
  <2>3. CASE \/ WriteManifest \/ Publish \/ SealFault \/ BindReady \/ BindFails \/ Drained
             \/ DrainExhausted \/ Acknowledge \/ AcknowledgeFails
    BY <2>3 DEF WriteManifest, Publish, SealFault, BindReady, BindFails, Drained, DrainExhausted,
       Acknowledge, AcknowledgeFails, Sealed, SealFails
  <2>4. CASE SealByTime \/ Housekeeping \/ Exit \/ HandleRequest \/ CollectorCrash
    BY <2>4 DEF SealByTime, Housekeeping, Exit, HandleRequest, CollectorCrash
  <2>5. CASE InitWrite \/ InitBind \/ InitCut \/ SetEnabled \/ RequestSeal
    BY <2>5 DEF InitWrite, InitBind, InitCut, SetEnabled, RequestSeal
  <2>6. CASE UploadStep
    BY <2>6 DEF UploadStep, Answered, TakeBatch, SyncEnd
  <2>7. CASE UNCHANGED spoolVars
    BY <2>7 DEF spoolVars
  <2> QED
    BY <2>1, <2>2, <2>3, <2>4, <2>5, <2>6, <2>7 DEF SpoolNext, CollectorStep
<1>3. UNCHANGED inits \/ InitWrite
  BY DEF Control, spoolVars, tool, self, history, counters, seal, directories, SpoolNext, Emit,
     StartCollector, Collect, AppendEvent, DropEvent, AppendFails,
   CollectorStep, Recover, CannotRecover, CreateDirectory, CreateFiles, OpenFails, RemoveEvents,
   RemoveDirectory, Corrupt,
   WriteManifest, Publish, SealFault, BindReady, BindFails, Drained, DrainExhausted, Acknowledge,
   AcknowledgeFails, SealByTime,
   Housekeeping, Exit, HandleRequest, CollectorCrash, InitBind, InitCut, SetEnabled, RequestSeal,
   UploadStep, Answered, TakeBatch,
   SyncEnd, Sealed, SealFails, Fault
<1>4. config' \in Target
  <2>1. CASE InitWrite
    <3>1. PICK stream \in {config.stream, inits' + 1} : config' = [stream |-> stream, enabled |-> TRUE]
      BY <2>1 DEF InitWrite
    <3>2. stream \in Stream
      BY <2>1, <3>1 DEF InitWrite, Targets, Target, Stream
    <3> QED
      BY <3>1, <3>2 DEF Target
  <2>2. CASE SetEnabled
    <3>1. config \in Target /\ (~config.enabled) \in BOOLEAN
      BY DEF Targets
    <3>2. config' = [config EXCEPT !.enabled = ~config.enabled]
      BY <2>2 DEF SetEnabled
    <3> QED
      BY <3>1, <3>2, Zenon DEF Target
  <2> QED
    BY <1>1, <2>1, <2>2 DEF Targets
<1> QED
  BY <1>2, <1>3, <1>4 DEF Targets, InitWrite

\* The FIFO is read, written to, or gone with its last process.
LEMMA FifoMoves ==
  ASSUME Control, [SpoolNext]_spoolVars
  PROVE  \/ fifo' \in {fifo, <<>>}
         \/ fifo' = Append(fifo, emitted') /\ emitted' = emitted + 1 /\ emitted < MaxEvents
         \/ fifo # <<>> /\ fifo' = Tail(fifo)
<1>1. \/ fifo' \in {fifo, <<>>} \/ Emit \/ Read
  BY OpenedLeads, NotOpenedLeads, SealFailsLeads
   DEF spoolVars, tool, self, history, counters, seal, directories, SpoolNext, StartCollector, Collect,
   AppendEvent, DropEvent, AppendFails,
   CollectorStep, Recover, CannotRecover, CreateDirectory, CreateFiles, OpenFails, RemoveEvents,
   RemoveDirectory, Corrupt,
   WriteManifest, Publish, SealFault, BindReady, BindFails, Drained, DrainExhausted, Acknowledge,
   AcknowledgeFails, SealByTime,
   Housekeeping, Exit, HandleRequest, CollectorCrash, InitWrite, InitBind, InitCut, SetEnabled, RequestSeal,
   UploadStep, Answered, TakeBatch,
   SyncEnd, Sealed, Ends
<1> QED
  BY <1>1 DEF Emit, Read

\* Every step keeps Fifo.
LEMMA FifoNext ==
  ASSUME Control, Fifo, [SpoolNext]_spoolVars
  PROVE  Fifo' /\ emitted <= emitted'
<1>2. UNCHANGED emitted \/ Emit
  BY SealFailsLeads DEF spoolVars, tool, self, history, counters, seal, directories, SpoolNext,
     StartCollector, Collect, AppendEvent, DropEvent, AppendFails,
   CollectorStep, Recover, CannotRecover, CreateDirectory, CreateFiles, OpenFails, RemoveEvents,
   RemoveDirectory, Corrupt,
   WriteManifest, Publish, SealFault, BindReady, BindFails, Drained, DrainExhausted, Acknowledge,
   AcknowledgeFails, SealByTime,
   Housekeeping, Exit, HandleRequest, CollectorCrash, InitWrite, InitBind, InitCut, SetEnabled, RequestSeal,
   UploadStep, Answered, TakeBatch,
   SyncEnd, Sealed
<1>0. MaxEvents \in Nat /\ emitted \in Nat /\ fifo \in Seq(1 .. MaxEvents)
  BY DEF Fifo
<1>4. emitted' \in 0 .. MaxEvents /\ emitted <= emitted'
  BY <1>0, <1>2 DEF Fifo, Emit
<1>5. fifo' \in Seq(1 .. MaxEvents)
  <2>1. fifo # <<>> => Tail(fifo) \in Seq(1 .. MaxEvents)
    BY <1>0
  <2>2. emitted < MaxEvents => Append(fifo, emitted + 1) \in Seq(1 .. MaxEvents)
    BY <1>0
  <2>3. \/ fifo' = fifo
        \/ fifo' = <<>>
        \/ fifo' = Append(fifo, emitted + 1) /\ emitted < MaxEvents
        \/ fifo # <<>> /\ fifo' = Tail(fifo)
    BY FifoMoves
  <2>4. <<>> \in Seq(1 .. MaxEvents)
    OBVIOUS
  <2> QED
    BY <1>0, <2>1, <2>2, <2>3, <2>4, Zenon
<1> QED
  BY <1>4, <1>5 DEF Fifo

\* Max of a finite set of numbers is one of them, and none is greater.
LEMMA GreatestIsIn ==
  ASSUME NEW n \in Nat, NEW S, S \subseteq 0 .. n, S # {}
  PROVE  Max(S) \in S /\ \A m \in S : m <= Max(S)
<1>1. PICK x \in S : \A m \in S : ~(m > x)
  <2> DEFINE gap == {n - x : x \in S}
  <2>1. gap \subseteq Nat /\ gap # {}
    <3>1. \A x \in S : n - x \in Nat
      OBVIOUS
    <3> QED
      BY <3>1
  <2>2. PICK g \in gap : \A h \in gap : <<h, g>> \notin OpToRel(<, Nat)
    BY <2>1, NatLessThanWellFounded, WFMin
  <2>3. \A h \in gap : ~(h < g)
    BY <2>1, <2>2 DEF OpToRel
  <2>4. PICK x \in S : g = n - x
    BY <2>2
  <2>5. \A m \in S : ~(n - m < n - x)
    BY <2>3, <2>4
  <2> QED
    BY <2>5
<1>2. \A m \in S : x >= m
  BY <1>1
<1>3. \E y \in S : \A m \in S : y >= m
  BY <1>2
<1>4. Max(S) \in S /\ \A m \in S : Max(S) >= m
  BY <1>3, Zenon DEF Max
<1> QED
  BY <1>4

\* recover keeps the longest prefix of whole lines.
LEMMA PrefixIsValid ==
  ASSUME NEW lines \in Seq(WrittenLine)
  PROVE  \E n \in 0 .. Len(lines) :
           /\ ValidPrefix(lines) = SubSeq(lines, 1, n)
           /\ \A m \in 0 .. Len(lines) : (\A i \in 1 .. m : lines[i].whole) => m <= n
<1> DEFINE valid == {n \in 0 .. Len(lines) : \A i \in 1 .. n : lines[i].whole}
<1>1. 0 \in valid /\ valid \subseteq 0 .. Len(lines) /\ Len(lines) \in Nat
  OBVIOUS
<1>2. Max(valid) \in valid /\ \A m \in valid : m <= Max(valid)
  BY <1>1, GreatestIsIn
<1> QED
  BY <1>1, <1>2 DEF ValidPrefix

\* The lines of a prefix.
LEMMA Prefix ==
  ASSUME NEW lines \in Seq(WrittenLine), NEW n \in 0 .. Len(lines), NEW prefix, prefix = SubSeq(lines, 1, n)
  PROVE  prefix \in Seq(WrittenLine) /\ Len(prefix) = n /\ \A i \in 1 .. n : prefix[i] = lines[i]
  OBVIOUS

\* Binding changes targets only.
Rebinds(batches) ==
  /\ batches \in Seq(PublishedBatch) /\ Len(batches) = Len(published)
  /\ \A i \in DOMAIN published :
       /\ batches[i].lines = published[i].lines /\ batches[i].count = published[i].count
       /\ batches[i].unended = published[i].unended
       /\ batches[i].stream = published[i].stream \/ published[i].stream = Unassigned

\* Binding some of the batches, and all of them, is that.
LEMMA BindingRebinds ==
  ASSUME Files, NEW stream \in Stream, NEW batches \in BindSome(published, stream)
  PROVE  Rebinds(batches)
<1>1. PICK done \in SUBSET DOMAIN published :
        batches = [i \in DOMAIN published |-> IF i \in done THEN Bind(published[i], stream) ELSE published[i]]
  BY DEF BindSome, BindThese, Listed
<1>2. published \in Seq(PublishedBatch) /\ Len(published) \in Nat /\ DOMAIN published = 1 .. Len(published)
  BY DEF Files
<1>3. ASSUME NEW i \in DOMAIN published
      PROVE  /\ batches[i] \in PublishedBatch
             /\ batches[i].lines = published[i].lines /\ batches[i].count = published[i].count
             /\ batches[i].unended = published[i].unended
             /\ batches[i].stream = published[i].stream \/ published[i].stream = Unassigned
  <2>1. published[i] \in PublishedBatch
    BY <1>2
  <2>2. batches[i] \in {published[i], Bind(published[i], stream)}
    BY <1>1
  <2>3. CASE published[i].stream = Unassigned
    BY <2>1, <2>2, <2>3 DEF Bind, PublishedBatch
  <2>4. CASE published[i].stream # Unassigned
    BY <2>1, <2>2, <2>4 DEF Bind
  <2> QED
    BY <2>3, <2>4
<1>4. batches \in [1 .. Len(published) -> PublishedBatch]
  BY <1>1, <1>2, <1>3
<1>5. batches \in Seq(PublishedBatch)
  BY <1>2, <1>4, SeqDef
<1>6. Len(batches) = Len(published)
  BY <1>2, <1>4, <1>5
<1> QED
  BY <1>3, <1>5, <1>6 DEF Rebinds

\* Likewise for all of them.
LEMMA BindingAllRebinds ==
  ASSUME Files, NEW stream \in Stream
  PROVE  Rebinds(BindAll(published, stream))
<1>1. BindAll(published, stream) \in BindSome(published, stream)
  BY DEF BindAll, BindSome
<1> QED
  BY <1>1, BindingRebinds

(***************************************************************************)
(* What a step does to the events in the spool.                            *)
(***************************************************************************)
\* The rest of what holds events.
others == <<published, uploaded, persisted, doubtful>>

\* bind_unassigned_batches.
Binds == Rebinds(published') /\ UNCHANGED <<building, uploaded, persisted, doubtful>>

\* The active directory becomes a ready batch.
Publishes ==
  /\ pc = "publish" /\ building \in Directory /\ building' = Nothing
  /\ published' = Append(published, SealedBatch(building))
  /\ UNCHANGED <<uploaded, persisted, doubtful>>

\* The sync takes the first batch away.
Takes ==
  /\ published # <<>> /\ published' = Tail(published) /\ uploaded' = uploaded \cup {Head(published)}
  /\ UNCHANGED <<building, persisted, doubtful>>

\* An empty directory is removed.
Removes == pc = "rmdir" /\ building' = Nothing /\ UNCHANGED others

\* A directory is created.
Creates ==
  /\ building = Nothing /\ building' \in Directory /\ building'.lines = <<>>
  /\ building'.files = FALSE /\ building'.unended = 0 /\ pc' = "create" /\ UNCHANGED others

\* The files of the directory change, not its lines; the head of the FIFO may have left a line without
\* its newline behind.
Touches ==
  /\ building \in Directory /\ building' \in Directory
  /\ building'.lines = building.lines /\ building'.stream = building.stream
  /\ (building'.files = building.files \/ pc' = "rmdir" \/ building'.files = TRUE)
  /\ \/ building'.unended \in {0, building.unended}
     \/ fifo # <<>> /\ fifo' \in {Tail(fifo), <<>>} /\ building'.unended = Head(fifo)
  /\ UNCHANGED others

\* recover cuts the lines off behind the whole ones.
Recovers ==
  /\ building \in Directory /\ building' \in Directory
  /\ building'.lines = ValidPrefix(building.lines) /\ building'.stream = building.stream
  /\ building'.files = TRUE /\ building'.unended = 0
  /\ UNCHANGED others

\* An event is appended.
Appends ==
  /\ active /\ building \in Directory /\ building' \in Directory
  /\ fifo # <<>> /\ fifo' = Tail(fifo)
  /\ building'.stream = building.stream /\ building'.files = building.files /\ building'.unended = 0
  /\ building'.lines = Append(building.lines, Line(Head(fifo), building.stream, ~building.torn))
  /\ persisted' = persisted \cup {Head(fifo)}
  /\ doubtful' = IF building.torn \/ ~AllWhole(building.lines) THEN doubtful \cup {Head(fifo)} ELSE doubtful
  /\ UNCHANGED <<published, uploaded>>

\* All that happens to the events: a batch is bound, published or taken away, the active directory is
\* created, removed, recovered or changed in its other files, or an event is appended.
SpoolMove ==
  \/ UNCHANGED <<building, others>>
  \/ Binds \/ Publishes \/ Takes \/ Removes \/ Creates \/ Touches \/ Recovers \/ Appends

\* No unended line is one of the values that the field holds.
LEMMA NoUnended == 0 \in 0 .. MaxEvents
OBVIOUS

\* A directory with other fields is a directory.
LEMMA TouchedFields ==
  ASSUME building \in Directory, NEW cut \in BOOLEAN, NEW files \in BOOLEAN, NEW manifest \in Nat,
         NEW tail \in 0 .. MaxEvents
  PROVE  /\ [building EXCEPT !.files = files] \in Directory
         /\ [building EXCEPT !.manifest = manifest] \in Directory
         /\ [building EXCEPT !.torn = cut, !.unended = tail] \in Directory
         /\ [building EXCEPT !.files = files, !.torn = cut, !.unended = tail] \in Directory
  BY DEF Directory

\* A directory that a write was cut short in has another tail, and nothing else.
LEMMA CutTouches ==
  ASSUME SpoolTyped, building \in Directory, fifo # <<>>, fifo' \in {Tail(fifo), <<>>},
         building' \in CutShort(building, Head(fifo)), UNCHANGED others
  PROVE  Touches /\ building'.files = building.files
<1>1. PICK tail \in {0, Head(fifo)} : building' = [building EXCEPT !.torn = TRUE, !.unended = tail]
  BY DEF CutShort
<1>2. tail \in 0 .. MaxEvents
  BY DEF SpoolTyped, Fifo
<1>3. building' \in Directory
  BY <1>1, <1>2, TouchedFields
<1>4. /\ building'.files = building.files /\ building'.lines = building.lines
      /\ building'.stream = building.stream /\ building'.unended = tail
  BY <1>1 DEF Directory
<1> QED
  BY <1>1, <1>3, <1>4 DEF Touches

\* What the manifest counts is a number.
LEMMA CountIsNat == building \in Directory => EventCount(building) \in Nat
BY DEF EventCount, Directory

\* The three actions that write lines, each as its move.
LEMMA AppendEventAppends ==
  ASSUME SpoolTyped, AppendEvent
  PROVE  Appends
<1> USE DEF directories, history, others
<1>1. building \in Directory /\ fifo # <<>> /\ fifo' = Tail(fifo) /\ active
  BY DEF AppendEvent, Read, SpoolTyped, Files
<1>2. PICK e, line, lines : /\ e = Head(fifo) /\ line = Line(e, building.stream, ~building.torn)
                            /\ lines = Append(building.lines, line)
  OBVIOUS
<1>3. line \in WrittenLine
  <2>1. e \in 1 .. MaxEvents
    BY <1>1, <1>2 DEF SpoolTyped, Fifo
  <2>2. building.stream \in Stream /\ (~building.torn) \in BOOLEAN
    BY <1>1 DEF Directory
  <2> QED
    BY <1>2, <2>1, <2>2, Zenon DEF Line, WrittenLine
<1>4. building.lines \in Seq(WrittenLine)
  BY <1>1 DEF Directory
<1>5. lines \in Seq(WrittenLine)
  BY <1>2, <1>3, <1>4
<1>6. building' = [building EXCEPT !.lines = lines, !.torn = FALSE, !.unended = 0]
  BY <1>2 DEF AppendEvent
<1>7. building' \in Directory /\ building'.lines = lines /\ building'.stream = building.stream
      /\ building'.files = building.files /\ building'.unended = 0
  BY <1>1, <1>5, <1>6, NoUnended DEF Directory
<1>8. /\ persisted' = persisted \cup {e}
      /\ doubtful' = IF building.torn \/ ~AllWhole(building.lines) THEN doubtful \cup {e} ELSE doubtful
      /\ UNCHANGED <<published, uploaded>>
  BY <1>2 DEF AppendEvent
<1> QED
  BY <1>1, <1>2, <1>7, <1>8 DEF Appends

\* Recover is one.
LEMMA RecoverRecovers ==
  ASSUME SpoolTyped, Recover
  PROVE  Recovers
<1> USE DEF directories, history, others
<1>1. building \in Directory /\ building.lines \in Seq(WrittenLine) /\ building.files = TRUE
  BY DEF Recover, SpoolTyped, Files, Directory
<1>2. ValidPrefix(building.lines) \in Seq(WrittenLine)
  BY <1>1, PrefixIsValid, Prefix
<1>3. building' = [building EXCEPT !.lines = ValidPrefix(building.lines), !.torn = FALSE, !.unended = 0]
  BY DEF Recover
<1>4. /\ building' \in Directory /\ building'.lines = ValidPrefix(building.lines)
      /\ building'.stream = building.stream /\ building'.files = TRUE /\ building'.unended = 0
  BY <1>1, <1>2, <1>3, NoUnended DEF Directory
<1> QED
  BY <1>1, <1>4 DEF Recover, Recovers

\* CreateDirectory is one.
LEMMA CreateDirectoryCreates ==
  ASSUME SpoolTyped, CreateDirectory
  PROVE  Creates
<1> USE DEF directories, history, others
<1>1. building' = EmptyDirectory(known.stream) /\ known.stream \in Stream /\ <<>> \in Seq(WrittenLine)
  BY DEF CreateDirectory, SpoolTyped, Targets, Target
<1>2. building' \in Directory /\ building'.lines = <<>> /\ building'.files = FALSE /\ building'.unended = 0
  BY <1>1 DEF EmptyDirectory, Directory
<1> QED
  BY <1>2 DEF CreateDirectory, Creates

\* Every step is one of them, or none.
LEMMA SpoolMoves ==
  ASSUME SpoolTyped, [SpoolNext]_spoolVars
  PROVE  SpoolMove
<1> USE DEF directories, history, others
<1>0. CASE UNCHANGED spoolVars
  BY <1>0 DEF spoolVars, SpoolMove
<1>1. CASE Emit
  BY <1>1 DEF Emit, SpoolMove
<1>2. CASE StartCollector
  BY <1>2 DEF StartCollector, SpoolMove
<1>3. CASE AppendEvent
  BY <1>3, AppendEventAppends DEF SpoolMove
<1>4. CASE DropEvent
  BY <1>4 DEF DropEvent, SpoolMove
<1>5. CASE AppendFails
  <2>1. building \in Directory
    BY <1>5 DEF AppendFails, SpoolTyped, Files
  <2>2. Touches
    BY <1>5, <2>1, CutTouches DEF AppendFails, Read
  <2> QED
    BY <2>2 DEF SpoolMove
<1>6. CASE Recover
  BY <1>6, RecoverRecovers DEF SpoolMove
<1>7. CASE CannotRecover
  BY <1>7 DEF CannotRecover, SpoolMove
<1>8. CASE CreateDirectory
  BY <1>8, CreateDirectoryCreates DEF SpoolMove
<1>9. CASE CreateFiles
  <2>1. building \in Directory
    BY <1>9 DEF CreateFiles, SpoolTyped, Files
  <2>2. building' \in Directory
    BY <1>9, <2>1, NoUnended, TouchedFields DEF CreateFiles
  <2> QED
    BY <1>9, <2>1, <2>2 DEF CreateFiles, Touches, SpoolMove, Directory
<1>10. CASE OpenFails
  BY <1>10 DEF OpenFails, SpoolMove
<1>11. CASE RemoveEvents
  <2>1. building \in Directory
    BY <1>11 DEF RemoveEvents, SpoolTyped, Files
  <2>2. building' \in Directory
    BY <1>11, <2>1, NoUnended, TouchedFields DEF RemoveEvents
  <2> QED
    BY <1>11, <2>1, <2>2 DEF RemoveEvents, Touches, SpoolMove, Directory
<1>12. CASE RemoveDirectory
  BY <1>12 DEF RemoveDirectory, Removes, Sealed, SpoolMove
<1>13. CASE Corrupt
  BY <1>13, SealFailsLeads DEF Corrupt, SpoolMove, SpoolTyped
<1>14. CASE WriteManifest
  <2>1. building \in Directory
    BY <1>14 DEF WriteManifest, SpoolTyped, Files
  <2>2. building' \in Directory
    BY <1>14, <2>1, NoUnended, CountIsNat, TouchedFields DEF WriteManifest
  <2> QED
    BY <1>14, <2>1, <2>2 DEF WriteManifest, Touches, SpoolMove, Directory
<1>15. CASE Publish
  <2>1. UNCHANGED <<uploaded, persisted, doubtful>>
    BY <1>15, SealFailsLeads DEF Publish, Sealed, SpoolTyped
  <2> QED
    BY <1>15, <2>1 DEF Publish, Publishes, SpoolMove, SpoolTyped, Files
<1>16. CASE SealFault
  <2>1. UNCHANGED <<uploaded, persisted, doubtful>> /\ pc \in {"seal", "rmdir", "publish"}
    BY <1>16, SealFailsLeads DEF SealFault, SpoolTyped
  <2> QED
    BY <1>16, <2>1 DEF SealFault, Publishes, Removes, SpoolMove, SpoolTyped, Files
<1>17. CASE BindReady
  <2>1. known.stream \in Stream /\ Files
    BY DEF SpoolTyped, Targets, Target
  <2> QED
    BY <1>17, <2>1, BindingAllRebinds DEF BindReady, Binds, SpoolMove
<1>18. CASE BindFails
  <2>1. known.stream \in Stream /\ Files
    BY DEF SpoolTyped, Targets, Target
  <2> QED
    BY <1>18, <2>1, BindingRebinds DEF BindFails, Binds, SpoolMove
<1>19. CASE Drained
  BY <1>19 DEF Drained, SpoolMove
<1>20. CASE DrainExhausted
  BY <1>20 DEF DrainExhausted, SpoolMove
<1>21. CASE Acknowledge
  BY <1>21 DEF Acknowledge, SpoolMove
<1>22. CASE AcknowledgeFails
  BY <1>22 DEF AcknowledgeFails, SpoolMove
<1>23. CASE SealByTime
  BY <1>23 DEF SealByTime, SpoolMove
<1>24. CASE Housekeeping
  BY <1>24 DEF Housekeeping, SpoolMove
<1>25. CASE Exit
  BY <1>25 DEF Exit, SpoolMove
<1>26. CASE HandleRequest
  BY <1>26 DEF HandleRequest, SpoolMove
<1>27. CASE CollectorCrash
  <2>1. known.stream \in Stream /\ Files
    BY DEF SpoolTyped, Targets, Target
  <2>2. CASE UNCHANGED directories
    BY <1>27, <2>2 DEF CollectorCrash, SpoolMove
  <2>3. CASE fifo # <<>> /\ active /\ building' \in CutShort(building, Head(fifo)) /\ UNCHANGED published
    <3>1. building \in Directory
      BY <2>1, <2>3 DEF Files
    <3>2. Touches
      BY <1>27, <2>3, <3>1, CutTouches DEF CollectorCrash, Ends
    <3> QED
      BY <3>2 DEF SpoolMove
  <2>4. CASE UNCHANGED building /\ published' \in BindSome(published, known.stream)
    BY <1>27, <2>1, <2>4, BindingRebinds DEF CollectorCrash, Binds, SpoolMove
  <2> QED
    BY <1>27, <2>2, <2>3, <2>4 DEF CollectorCrash
<1>28. CASE InitWrite
  BY <1>28 DEF InitWrite, SpoolMove
<1>29. CASE InitBind
  <2>1. config.stream \in Stream /\ Files
    BY DEF SpoolTyped, Targets, Target
  <2> QED
    BY <1>29, <2>1, BindingAllRebinds DEF InitBind, Binds, SpoolMove
<1>30. CASE InitCut
  <2>1. config.stream \in Stream /\ Files
    BY DEF SpoolTyped, Targets, Target
  <2> QED
    BY <1>30, <2>1, BindingRebinds DEF InitCut, Binds, SpoolMove
<1>31. CASE SetEnabled
  BY <1>31 DEF SetEnabled, SpoolMove
<1>32. CASE RequestSeal
  BY <1>32 DEF RequestSeal, SpoolMove
<1>33. CASE Answered
  BY <1>33 DEF Answered, SpoolMove
<1>34. CASE TakeBatch
  BY <1>34 DEF TakeBatch, Takes, SpoolMove
<1>35. CASE SyncEnd
  BY <1>35 DEF SyncEnd, SpoolMove
<1> QED
  BY <1>0, <1>1, <1>2, <1>3, <1>4, <1>5, <1>6, <1>7, <1>8, <1>9, <1>10, <1>11, <1>12, <1>13, <1>14, <1>15,
     <1>16, <1>17, <1>18, <1>19, <1>20, <1>21, <1>22, <1>23, <1>24, <1>25, <1>26, <1>27, <1>28, <1>29,
     <1>30, <1>31, <1>32, <1>33, <1>34, <1>35
  DEF SpoolNext, Collect, CollectorStep, UploadStep

\* A batch in hand is there.
BatchInHand ==
  /\ active \/ pc \in {"create", "seal", "rmdir", "publish"} => building \in Directory
  /\ active => building.files
  /\ pc \in {"create", "rmdir"} => building.lines = <<>>

\* Every step keeps it: each action by itself.
LEMMA BatchInHandNext ==
  ASSUME SpoolTyped, [SpoolNext]_spoolVars
  PROVE  BatchInHand'
<1> USE DEF directories, self
<1>hand. BatchInHand /\ Control
  BY DEF SpoolTyped, Files, BatchInHand
<1>dir. building \in Directory => building' \in {building} \cup Directory \/ building' = Nothing
  BY SpoolMoves DEF SpoolMove, Binds, Publishes, Takes, Removes, Creates, Touches, Recovers, Appends, others
<1>0. CASE UNCHANGED spoolVars
  BY <1>hand, <1>0 DEF spoolVars, BatchInHand
<1>1. CASE Emit
  BY <1>hand, <1>1 DEF Emit, BatchInHand, Control
<1>2. CASE StartCollector
  BY <1>hand, <1>2 DEF StartCollector, BatchInHand, Control
<1>3. CASE AppendEvent
  <2>1. building \in Directory /\ active
    BY <1>hand, <1>3 DEF AppendEvent, BatchInHand
  <2>2. building' \in Directory
    BY <1>3, AppendEventAppends DEF Appends
  <2>3. building'.files = building.files
    BY <1>3, <2>1 DEF AppendEvent, Directory
  <2> QED
    BY <1>hand, <1>3, <2>1, <2>2, <2>3 DEF AppendEvent, BatchInHand, Control
<1>4. CASE DropEvent
  BY <1>hand, <1>4 DEF DropEvent, Read, BatchInHand, Control
<1>5. CASE AppendFails
  <2>1. building \in Directory
    BY <1>hand, <1>5 DEF AppendFails, BatchInHand
  <2>2. building' \in Directory /\ building'.files = building.files
    BY <1>5, <2>1, CutTouches DEF AppendFails, Read, Touches, history, others
  <2> QED
    BY <1>hand, <1>5, <2>1, <2>2 DEF AppendFails, BatchInHand, Control, Read
<1>6. CASE Recover
  <2>1. Recovers
    BY <1>6, RecoverRecovers
  <2> QED
    BY <1>hand, <1>6, <2>1, OpenedLeads DEF Recover, Recovers, BatchInHand, Control
<1>7. CASE CannotRecover
  BY <1>hand, <1>7, NotOpenedLeads DEF CannotRecover, BatchInHand, Control
<1>8. CASE CreateDirectory
  <2>1. Creates
    BY <1>8, CreateDirectoryCreates
  <2> QED
    BY <1>hand, <1>8, <2>1 DEF CreateDirectory, Creates, BatchInHand, Control
<1>9. CASE CreateFiles
  <2>1. building \in Directory
    BY <1>hand, <1>9 DEF CreateFiles, BatchInHand
  <2>2. building' \in Directory
    BY <2>1, <1>9, NoUnended, TouchedFields DEF CreateFiles
  <2> QED
    BY <1>hand, <1>9, <2>1, <2>2, OpenedLeads DEF CreateFiles, BatchInHand, Control, Directory
<1>10. CASE OpenFails
  BY <1>hand, <1>10, NotOpenedLeads DEF OpenFails, BatchInHand, Control
<1>11. CASE RemoveEvents
  <2>1. building \in Directory
    BY <1>hand, <1>11 DEF RemoveEvents, BatchInHand
  <2>2. building' \in Directory
    BY <2>1, <1>11, NoUnended, TouchedFields DEF RemoveEvents
  <2> QED
    BY <1>hand, <1>11, <2>1, <2>2 DEF RemoveEvents, BatchInHand, Control, Directory
<1>12. CASE RemoveDirectory
  BY <1>hand, <1>12 DEF RemoveDirectory, Sealed, BatchInHand, Control
<1>13. CASE Corrupt
  BY <1>hand, <1>13, SealFailsLeads DEF Corrupt, BatchInHand, Control
<1>14. CASE WriteManifest
  <2>1. building \in Directory
    BY <1>hand, <1>14 DEF WriteManifest, BatchInHand
  <2>2. building' \in Directory
    BY <2>1, <1>14, NoUnended, CountIsNat, TouchedFields DEF WriteManifest
  <2> QED
    BY <1>hand, <1>14, <2>1, <2>2 DEF WriteManifest, BatchInHand, Control, Directory
<1>15. CASE Publish
  BY <1>hand, <1>15, SealFailsLeads DEF Publish, Sealed, BatchInHand, Control
<1>16. CASE SealFault
  BY <1>hand, <1>16, SealFailsLeads DEF SealFault, BatchInHand, Control
<1>17. CASE BindReady
  BY <1>hand, <1>17 DEF BindReady, BatchInHand, Control
<1>18. CASE BindFails
  BY <1>hand, <1>18 DEF BindFails, BatchInHand, Control
<1>19. CASE Drained
  BY <1>hand, <1>19 DEF Drained, BatchInHand, Control
<1>20. CASE DrainExhausted
  BY <1>hand, <1>20 DEF DrainExhausted, BatchInHand, Control
<1>21. CASE Acknowledge
  BY <1>hand, <1>21 DEF Acknowledge, Served, BatchInHand, Control
<1>22. CASE AcknowledgeFails
  BY <1>hand, <1>22 DEF AcknowledgeFails, Served, BatchInHand, Control
<1>23. CASE SealByTime
  BY <1>hand, <1>23 DEF SealByTime, BatchInHand, Control
<1>24. CASE Housekeeping
  <2>1. CASE Outdated
    <3>1. active => building \in Directory
      BY <1>hand DEF BatchInHand
    <3>2. active = TRUE \/ active = FALSE
      BY <1>hand DEF Control
    <3>3. active' = FALSE /\ building' = building /\ ((pc' = "seal" /\ active) \/ pc' = "open")
      BY <1>24, <2>1, <3>2, Zenon DEF Housekeeping
    <3> QED
      BY <3>1, <3>3 DEF BatchInHand
  <2>2. CASE ~Outdated
    <3>1. UNCHANGED <<pc, why, active>>
      BY <1>24, <2>2, Zenon DEF Housekeeping
    <3> QED
      BY <1>hand, <1>24, <3>1 DEF Housekeeping, BatchInHand
  <2> QED
    BY <2>1, <2>2
<1>25. CASE Exit
  BY <1>hand, <1>25 DEF Exit, Ends, BatchInHand, Control
<1>26. CASE HandleRequest
  BY <1>hand, <1>26 DEF HandleRequest, BatchInHand, Control
<1>27. CASE CollectorCrash
  BY <1>27 DEF CollectorCrash, Ends, BatchInHand
<1>28. CASE InitWrite
  BY <1>hand, <1>28 DEF InitWrite, BatchInHand, Control
<1>29. CASE InitBind
  BY <1>hand, <1>29 DEF InitBind, BatchInHand, Control
<1>30. CASE InitCut
  BY <1>hand, <1>30 DEF InitCut, BatchInHand, Control
<1>31. CASE SetEnabled
  BY <1>hand, <1>31 DEF SetEnabled, BatchInHand, Control
<1>32. CASE RequestSeal
  BY <1>hand, <1>32 DEF RequestSeal, BatchInHand, Control
<1>33. CASE Answered
  BY <1>hand, <1>33 DEF Answered, BatchInHand, Control
<1>34. CASE TakeBatch
  BY <1>hand, <1>34 DEF TakeBatch, BatchInHand, Control
<1>35. CASE SyncEnd
  BY <1>hand, <1>35 DEF SyncEnd, BatchInHand, Control
<1> QED
  BY <1>0, <1>1, <1>2, <1>3, <1>4, <1>5, <1>6, <1>7, <1>8, <1>9, <1>10, <1>11, <1>12, <1>13, <1>14, <1>15,
     <1>16, <1>17, <1>18, <1>19, <1>20, <1>21, <1>22, <1>23, <1>24, <1>25, <1>26, <1>27, <1>28, <1>29,
     <1>30, <1>31, <1>32, <1>33, <1>34, <1>35
  DEF SpoolNext, Collect, CollectorStep, UploadStep

\* The directories keep their types.
LEMMA PublishedNext ==
  ASSUME SpoolTyped, [SpoolNext]_spoolVars
  PROVE  /\ building' \in {Nothing} \cup Directory
         /\ published' \in Seq(PublishedBatch) /\ uploaded' \subseteq PublishedBatch
<1>0. building \in {Nothing} \cup Directory /\ published \in Seq(PublishedBatch) /\ uploaded \subseteq PublishedBatch
  BY DEF SpoolTyped, Files
<1>1. CASE Publishes
  <2>1. SealedBatch(building) \in PublishedBatch
    BY <1>1 DEF Publishes, SealedBatch, Directory, PublishedBatch
  <2> QED
    BY <1>0, <1>1, <2>1 DEF Publishes
<1>2. CASE Takes
  BY <1>0, <1>2 DEF Takes
<1>3. CASE Binds
  BY <1>0, <1>3 DEF Binds, Rebinds
<1> QED
  BY <1>0, <1>1, <1>2, <1>3, SpoolMoves DEF SpoolMove, Removes, Creates, Touches, Recovers, Appends, others

\* Every step keeps SpoolTyped.
LEMMA SpoolTypedNext == SpoolTyped /\ [SpoolNext]_spoolVars => SpoolTyped'
BY ControlNext, TargetsNext, FifoNext, BatchInHandNext, PublishedNext DEF SpoolTyped, Files, BatchInHand

\* It holds at first.
LEMMA SpoolTypedInit == SpoolInit => SpoolTyped
<1> SUFFICES ASSUME SpoolInit PROVE SpoolTyped
  OBVIOUS
<1>1. Control
  BY DEF SpoolInit, Control
<1>4. Fifo
  <2>1. fifo = <<>> /\ emitted = 0 /\ MaxEvents \in Nat
    BY DEF SpoolInit
  <2> QED
    BY <2>1 DEF Fifo
<1>2. Targets
  <2>1. config \in Target
    <3>1. MaxInits \in Nat
      OBVIOUS
    <3>2. {0, 1} \subseteq Stream
      BY <3>1 DEF Stream
    <3> QED
      BY <3>2 DEF SpoolInit, Target, Unassigned
  <2> QED
    BY <2>1 DEF SpoolInit, Targets
<1>3. Files
  BY DEF SpoolInit, Files
<1> QED
  BY <1>1, <1>2, <1>3, <1>4 DEF SpoolTyped

(***************************************************************************)
(* What is published fits its manifest.                                    *)
(***************************************************************************)
\* Sequences and the sets of what is in them.
LEMMA SetOfAppend ==
  ASSUME NEW S, NEW seq \in Seq(S), NEW x \in S
  PROVE  ToSet(Append(seq, x)) = ToSet(seq) \cup {x}
<1>1. Append(seq, x) \in Seq(S) /\ Len(Append(seq, x)) = Len(seq) + 1 /\ Len(seq) \in Nat
  OBVIOUS
<1>2. \A i \in 1 .. Len(seq) : Append(seq, x)[i] = seq[i]
  OBVIOUS
<1>3. Append(seq, x)[Len(seq) + 1] = x
  OBVIOUS
<1>4. DOMAIN seq = 1 .. Len(seq) /\ DOMAIN Append(seq, x) = 1 .. Len(seq) + 1
  BY <1>1
<1> QED
  BY <1>1, <1>2, <1>3, <1>4 DEF ToSet

\* recover adds no line.
LEMMA SetOfPrefix ==
  ASSUME NEW lines \in Seq(WrittenLine)
  PROVE  ToSet(ValidPrefix(lines)) \subseteq ToSet(lines)
<1>1. PICK n \in 0 .. Len(lines) : ValidPrefix(lines) = SubSeq(lines, 1, n)
  BY PrefixIsValid
<1>2. PICK prefix : prefix = SubSeq(lines, 1, n)
  OBVIOUS
<1>3. Len(prefix) = n /\ prefix \in Seq(WrittenLine) /\ \A i \in 1 .. n : prefix[i] = lines[i]
  BY <1>2, Prefix
<1>4. \A i \in DOMAIN prefix : prefix[i] = lines[i] /\ i \in DOMAIN lines
  BY <1>3
<1> QED
  BY <1>1, <1>2, <1>4 DEF ToSet

\* An append adds one line.
LEMMA AppendedLine ==
  ASSUME SpoolTyped, Appends
  PROVE  ToSet(building'.lines) = ToSet(building.lines) \cup {Line(Head(fifo), building.stream, ~building.torn)}
<1>1. PICK line : line = Line(Head(fifo), building.stream, ~building.torn)
  OBVIOUS
<1>2. building.lines \in Seq(WrittenLine) /\ building'.lines \in Seq(WrittenLine)
      /\ building'.lines = Append(building.lines, line)
  BY <1>1 DEF Appends, Directory
<1>3. line \in WrittenLine
  <2>1. Head(fifo) \in 1 .. MaxEvents
    BY DEF Appends, SpoolTyped, Fifo
  <2>2. building.stream \in Stream /\ (~building.torn) \in BOOLEAN
    BY DEF Appends, Directory
  <2> QED
    BY <1>1, <2>1, <2>2, Zenon DEF Line, WrittenLine
<1> QED
  BY <1>1, <1>2, <1>3, SetOfAppend

\* Where the lines of the active directory come from.
LEMMA LinesMove ==
  ASSUME SpoolTyped, [SpoolNext]_spoolVars, building' \in Directory
  PROVE  \/ building \in Directory /\ building'.stream = building.stream
              /\ ToSet(building'.lines) \subseteq ToSet(building.lines)
         \/ Appends /\ ToSet(building'.lines) =
              ToSet(building.lines) \cup {Line(Head(fifo), building.stream, ~building.torn)}
         \/ Creates /\ ToSet(building'.lines) = {}
<1>1. CASE Appends
  BY <1>1, AppendedLine
<1>2. CASE Recovers
  BY <1>2, SetOfPrefix DEF Recovers, Directory
<1>3. CASE Creates
  BY <1>3 DEF Creates, ToSet
<1> QED
  BY <1>1, <1>2, <1>3, SpoolMoves, NothingAssumption DEF SpoolMove, Binds, Publishes, Takes, Removes, Touches, others

\* What leads to a directory that is about to be renamed.
LEMMA PublishComes ==
  ASSUME SpoolTyped, [SpoolNext]_spoolVars, pc' = "publish"
  PROVE  WriteManifest \/ (pc = "publish" /\ building' = building)
<1>0. Control
  BY DEF SpoolTyped
<1>1. CASE Recover \/ CannotRecover \/ CreateFiles \/ OpenFails
  BY <1>0, <1>1, OpenedLeads, NotOpenedLeads DEF Recover, CannotRecover, CreateFiles, OpenFails
<1>2. CASE Corrupt \/ Publish \/ SealFault
  BY <1>0, <1>2, SealFailsLeads DEF Corrupt, Publish, SealFault, Sealed
<1>3. CASE Housekeeping
  <2>1. (active = TRUE \/ active = FALSE) /\ pc = "idle"
    BY <1>0, <1>3 DEF Control, Housekeeping
  <2>2. pc' \in {pc, "seal", "open"}
    BY <1>3, <2>1, Zenon DEF Housekeeping
  <2> QED
    BY <2>1, <2>2
<1>4. CASE RemoveEvents \/ RemoveDirectory \/ BindReady \/ BindFails \/ CreateDirectory
  BY <1>4 DEF RemoveEvents, RemoveDirectory, BindReady, BindFails, CreateDirectory, Sealed
<1>5. CASE AppendEvent \/ DropEvent \/ AppendFails
  BY <1>5 DEF AppendEvent, DropEvent, AppendFails, Read
<1>6. CASE Drained \/ DrainExhausted \/ Acknowledge \/ AcknowledgeFails \/ SealByTime \/ HandleRequest
  BY <1>6 DEF Drained, DrainExhausted, Acknowledge, AcknowledgeFails, SealByTime, HandleRequest, Served
<1>7. CASE StartCollector \/ CollectorCrash \/ Exit
  BY <1>7 DEF StartCollector, CollectorCrash, Exit, Ends
<1>8. CASE \/ UNCHANGED spoolVars \/ Emit \/ InitWrite \/ InitBind \/ InitCut \/ SetEnabled
           \/ RequestSeal \/ Answered \/ TakeBatch \/ SyncEnd
  BY <1>8 DEF spoolVars, Emit, InitWrite, InitBind, InitCut, SetEnabled, RequestSeal, Answered, TakeBatch,
     SyncEnd, self,
              directories
<1>9. CASE WriteManifest
  BY <1>9
<1> QED
  BY <1>1, <1>2, <1>3, <1>4, <1>5, <1>6, <1>7, <1>8, <1>9 DEF SpoolNext, Collect, CollectorStep, UploadStep

\* Every step keeps AllReadyFits: what is published was whole when its manifest was written.
LEMMA AllReadyFitsNext ==
  ASSUME SpoolTyped, AllReadyFits, [SpoolNext]_spoolVars
  PROVE  AllReadyFits'
<1>0. published \in Seq(PublishedBatch) /\ uploaded \subseteq PublishedBatch
  BY DEF SpoolTyped, Files
<1>1. ASSUME building' \in Directory
      PROVE  \A line \in ToSet(building'.lines) : line.stream = building'.stream
  BY <1>1, LinesMove DEF AllReadyFits, Appends, Line
<1>2. ASSUME pc' = "publish"
      PROVE  FitsManifest(SealedBatch(building))'
  <2>1. CASE WriteManifest
    <3>1. building \in Directory /\ building.lines # <<>> /\ Intact
      BY <2>1 DEF WriteManifest, SpoolTyped, Files
    <3>2. /\ building'.lines = building.lines /\ building'.stream = building.stream
          /\ building'.manifest = EventCount(building) /\ building'.unended = building.unended
      BY <2>1, <3>1 DEF WriteManifest, Directory
    <3>3. \A line \in ToSet(building.lines) : line.stream = building.stream
      BY <3>1 DEF AllReadyFits
    <3> QED
      BY <3>1, <3>2, <3>3 DEF FitsManifest, SealedBatch, Intact, AllWhole, EventCount
  <2>2. CASE pc = "publish" /\ building' = building
    BY <2>2 DEF AllReadyFits, FitsManifest, SealedBatch, AllWhole
  <2> QED
    BY <1>2, <2>1, <2>2, PublishComes
<1>3. \A batch \in PublishedBatch : FitsManifest(batch)' <=> FitsManifest(batch)
  BY DEF FitsManifest, EventCount, AllWhole
<1>4. CASE Publishes
  <2>1. PICK batch : batch = SealedBatch(building)
    OBVIOUS
  <2>2. batch \in PublishedBatch /\ FitsManifest(batch)
    BY <1>4, <2>1 DEF Publishes, AllReadyFits, SealedBatch, Directory, PublishedBatch
  <2>3. \A i \in DOMAIN published' : published'[i] \in PublishedBatch /\ FitsManifest(published'[i])
    BY <1>0, <1>4, <2>1, <2>2 DEF Publishes, AllReadyFits
  <2>4. uploaded' = uploaded
    BY <1>4 DEF Publishes
  <2> QED
    BY <1>0, <1>1, <1>2, <1>3, <2>3, <2>4 DEF AllReadyFits, FitsManifest, EventCount, AllWhole
<1>5. CASE Takes
  <2>1. \A i \in DOMAIN published' : published'[i] \in PublishedBatch /\ FitsManifest(published'[i])
    BY <1>0, <1>5 DEF Takes, AllReadyFits
  <2>2. \A batch \in uploaded' : batch \in PublishedBatch /\ FitsManifest(batch)
    BY <1>0, <1>5 DEF Takes, AllReadyFits
  <2> QED
    BY <1>1, <1>2, <2>1, <2>2 DEF AllReadyFits, FitsManifest, EventCount, AllWhole
<1>6. CASE Binds
  <2>1. ASSUME NEW i \in DOMAIN published'
        PROVE  FitsManifest(published'[i])
    <3>1. i \in DOMAIN published /\ published'[i] \in PublishedBatch /\ published[i] \in PublishedBatch
      BY <1>0, <1>6, <2>1 DEF Binds, Rebinds
    <3>2. FitsManifest(published[i])
      BY <3>1 DEF AllReadyFits
    <3>3. /\ published'[i].lines = published[i].lines /\ published'[i].count = published[i].count
          /\ published'[i].unended = published[i].unended
          /\ published'[i].stream = published[i].stream \/ published[i].stream = Unassigned
      BY <1>6, <3>1 DEF Binds, Rebinds
    <3> QED
      BY <3>2, <3>3 DEF FitsManifest, EventCount
  <2>2. uploaded' = uploaded
    BY <1>6 DEF Binds
  <2> QED
    BY <1>1, <1>2, <2>1, <2>2 DEF AllReadyFits, FitsManifest, EventCount, AllWhole
<1>7. CASE UNCHANGED <<published, uploaded>>
  BY <1>1, <1>2, <1>7 DEF AllReadyFits, FitsManifest, EventCount, AllWhole
<1> QED
  BY <1>4, <1>5, <1>6, <1>7, SpoolMoves DEF SpoolMove, Removes, Creates, Touches, Recovers, Appends, others

\* It holds at first.
LEMMA AllReadyFitsInit ==
  ASSUME SpoolInit
  PROVE  AllReadyFits
<1>1. building \notin Directory /\ pc # "publish" /\ DOMAIN published = {} /\ uploaded = {}
  BY NothingAssumption DEF SpoolInit
<1> QED
  BY <1>1 DEF AllReadyFits

(***************************************************************************)
(* No event is lost, and none is in two places.                            *)
(***************************************************************************)
\* An append adds one event.
LEMMA AppendedEvents ==
  ASSUME SpoolTyped, Appends
  PROVE  EventsIn(building'.lines) = EventsIn(building.lines) \cup {Head(fifo)}
<1>1. PICK line : line = Line(Head(fifo), building.stream, ~building.torn)
  OBVIOUS
<1>2. ToSet(building'.lines) = ToSet(building.lines) \cup {line} /\ line.event = Head(fifo)
  BY <1>1, AppendedLine DEF Line
<1> QED
  BY <1>2 DEF EventsIn

\* Where the events of the active directory come from.
LEMMA BuildingEvents ==
  ASSUME SpoolTyped, [SpoolNext]_spoolVars, building' \in Directory
  PROVE  \/ building \in Directory /\ EventsIn(building'.lines) \subseteq EventsIn(building.lines)
         \/ Appends /\ EventsIn(building'.lines) = EventsIn(building.lines) \cup {Head(fifo)}
         \/ EventsIn(building'.lines) = {}
<1>1. CASE building \in Directory /\ ToSet(building'.lines) \subseteq ToSet(building.lines)
  BY <1>1 DEF EventsIn
<1>2. CASE Appends
  BY <1>2, AppendedEvents
<1>3. CASE ToSet(building'.lines) = {}
  BY <1>3 DEF EventsIn
<1> QED
  BY <1>1, <1>2, <1>3, LinesMove

\* Where the published batches come from.
LEMMA BatchesMove ==
  ASSUME SpoolTyped, SpoolMove
  PROVE  /\ Publishes =>
              /\ DOMAIN published' = 1 .. Len(published) + 1
              /\ \A i \in DOMAIN published : published'[i] = published[i]
              /\ published'[Len(published) + 1].lines = building.lines
         /\ Takes =>
              /\ DOMAIN published' = 1 .. Len(published) - 1 /\ 1 \in DOMAIN published
              /\ uploaded' = uploaded \cup {published[1]}
              /\ \A i \in DOMAIN published' : i + 1 \in DOMAIN published /\ published'[i] = published[i + 1]
              /\ \A i \in DOMAIN published : i # 1 => i - 1 \in DOMAIN published' /\ published'[i - 1] = published[i]
         /\ \/ Publishes \/ Takes
            \/ /\ DOMAIN published' = DOMAIN published /\ UNCHANGED uploaded
               /\ \A i \in DOMAIN published : published'[i].lines = published[i].lines
<1>0. published \in Seq(PublishedBatch) /\ DOMAIN published = 1 .. Len(published) /\ Len(published) \in Nat
  BY DEF SpoolTyped, Files
<1>1. ASSUME Publishes
      PROVE  /\ DOMAIN published' = 1 .. Len(published) + 1
             /\ \A i \in DOMAIN published : published'[i] = published[i]
             /\ published'[Len(published) + 1].lines = building.lines
  <2>1. PICK batch : batch = SealedBatch(building)
    OBVIOUS
  <2>2. batch \in PublishedBatch /\ batch.lines = building.lines
    BY <1>1, <2>1 DEF Publishes, SealedBatch, Directory, PublishedBatch
  <2>3. published' = Append(published, batch)
    BY <1>1, <2>1 DEF Publishes
  <2>4. DOMAIN published' = 1 .. Len(published) + 1 /\ published'[Len(published) + 1] = batch
    BY <1>0, <2>2, <2>3
  <2>5. \A i \in DOMAIN published : published'[i] = published[i]
    BY <1>0, <2>2, <2>3
  <2> QED
    BY <1>1, <2>2, <2>4, <2>5
<1>2. ASSUME Takes
      PROVE  /\ DOMAIN published' = 1 .. Len(published) - 1 /\ 1 \in DOMAIN published
             /\ uploaded' = uploaded \cup {published[1]}
             /\ \A i \in DOMAIN published' : i + 1 \in DOMAIN published /\ published'[i] = published[i + 1]
             /\ \A i \in DOMAIN published : i # 1 => i - 1 \in DOMAIN published' /\ published'[i - 1] = published[i]
  <2>1. published # <<>> /\ published' = Tail(published) /\ uploaded' = uploaded \cup {Head(published)}
    BY <1>2 DEF Takes
  <2>2. DOMAIN published' = 1 .. Len(published) - 1 /\ 1 \in DOMAIN published /\ Head(published) = published[1]
    BY <1>0, <2>1
  <2>3. \A i \in 1 .. Len(published) - 1 : published'[i] = published[i + 1]
    BY <1>0, <2>1
  <2>4. \A i \in DOMAIN published' : i + 1 \in DOMAIN published /\ published'[i] = published[i + 1]
    BY <1>0, <2>2, <2>3
  <2>5. ASSUME NEW i \in DOMAIN published, i # 1
        PROVE  i - 1 \in DOMAIN published' /\ published'[i - 1] = published[i]
    <3>1. i - 1 \in DOMAIN published' /\ (i - 1) + 1 = i
      BY <1>0, <2>2, <2>5
    <3> QED
      BY <2>4, <3>1
  <2> QED
    BY <1>2, <2>1, <2>2, <2>4, <2>5
<1>3. ASSUME Binds
      PROVE  /\ DOMAIN published' = DOMAIN published /\ UNCHANGED uploaded
             /\ \A i \in DOMAIN published : published'[i].lines = published[i].lines
  <2>1. Len(published') = Len(published) /\ published' \in Seq(PublishedBatch)
    BY <1>3 DEF Binds, Rebinds
  <2> QED
    BY <1>0, <1>3, <2>1 DEF Binds, Rebinds
<1>5. \/ Publishes \/ Takes
      \/ /\ DOMAIN published' = DOMAIN published /\ UNCHANGED uploaded
         /\ \A i \in DOMAIN published : published'[i].lines = published[i].lines
  BY <1>3 DEF SpoolMove, Removes, Creates, Touches, Recovers, Appends, others
<1> QED
  BY <1>1, <1>2, <1>5

\* Every step keeps Waiting: an event leaves the FIFO before it is persisted.
LEMMA WaitingNext ==
  ASSUME SpoolTyped, Waiting, [SpoolNext]_spoolVars
  PROVE  Waiting'
<1>1. fifo \in Seq(1 .. MaxEvents) /\ emitted \in Nat /\ emitted <= emitted' /\ emitted' \in Nat
  BY FifoNext DEF SpoolTyped, Fifo
<1>2. CASE Appends
  <2>0. fifo # <<>> /\ fifo' = Tail(fifo)
    BY <1>2 DEF Appends
  <2>1. \A i \in DOMAIN fifo' : i + 1 \in DOMAIN fifo /\ fifo'[i] = fifo[i + 1] /\ i + 1 # 1
    <3>1. Len(fifo) \in Nat /\ Len(fifo) > 0 /\ DOMAIN fifo = 1 .. Len(fifo)
      BY <1>1, <2>0
    <3>2. DOMAIN fifo' = 1 .. Len(fifo) - 1 /\ \A i \in 1 .. Len(fifo) - 1 : fifo'[i] = fifo[i + 1]
      BY <1>1, <2>0
    <3> QED
      BY <3>1, <3>2
  <2>2. 1 \in DOMAIN fifo /\ Head(fifo) = fifo[1] /\ fifo[1] \in 1 .. MaxEvents
    BY <1>1, <1>2 DEF Appends
  <2>3. persisted' = persisted \cup {fifo[1]}
    BY <1>2, <2>2 DEF Appends
  <2>4. \A i, j \in DOMAIN fifo' : fifo'[i] = fifo'[j] => i = j
    <3> SUFFICES ASSUME NEW i \in DOMAIN fifo', NEW j \in DOMAIN fifo', fifo'[i] = fifo'[j] PROVE i = j
      OBVIOUS
    <3>1. i + 1 = j + 1
      BY <2>1 DEF Waiting
    <3>2. i \in Nat /\ j \in Nat
      <4>1. fifo' \in Seq(1 .. MaxEvents)
        BY FifoNext DEF SpoolTyped, Fifo
      <4> QED
        BY <4>1
    <3> QED
      BY <3>1, <3>2
  <2>5. \A i \in DOMAIN fifo' : fifo'[i] <= emitted' /\ fifo'[i] \notin persisted'
    <3> SUFFICES ASSUME NEW i \in DOMAIN fifo' PROVE fifo'[i] <= emitted' /\ fifo'[i] \notin persisted'
      OBVIOUS
    <3>1. fifo[i + 1] <= emitted /\ fifo[i + 1] \notin persisted /\ fifo[i + 1] # fifo[1] /\ fifo[i + 1] \in 1 .. MaxEvents
      BY <1>1, <2>1, <2>2 DEF Waiting
    <3> QED
      BY <1>1, <2>1, <2>3, <3>1
  <2>6. persisted' \subseteq 1 .. emitted'
    <3>1. PICK e : e = fifo[1]
      OBVIOUS
    <3>2. e \in 1 .. MaxEvents /\ e <= emitted /\ persisted \subseteq 1 .. emitted /\ persisted' = persisted \cup {e}
      BY <2>2, <2>3, <3>1 DEF Waiting
    <3>3. e \in 1 .. emitted' /\ 1 .. emitted \subseteq 1 .. emitted'
      BY <1>1, <3>2
    <3> QED
      BY <3>2, <3>3
  <2> QED
    BY <2>4, <2>5, <2>6 DEF Waiting
<1>3. CASE ~Appends
  <2>1. persisted' = persisted
    BY <1>3, SpoolMoves DEF SpoolMove, Binds, Publishes, Takes, Removes, Creates, Touches, Recovers, others
  <2>2. persisted' \subseteq 1 .. emitted'
    BY <1>1, <2>1 DEF Waiting
  <2>3. CASE fifo' = fifo
    BY <1>1, <2>1, <2>2, <2>3 DEF Waiting
  <2>4. CASE fifo' = <<>>
    BY <2>2, <2>4 DEF Waiting
  <2>5. CASE fifo' = Append(fifo, emitted') /\ emitted' = emitted + 1
    <3>1. DOMAIN fifo' = DOMAIN fifo \cup {Len(fifo) + 1} /\ fifo'[Len(fifo) + 1] = emitted + 1
          /\ \A i \in DOMAIN fifo : fifo'[i] = fifo[i] /\ fifo[i] \in Nat
      <4>1. /\ fifo \in Seq(Nat) /\ Len(fifo) \in Nat /\ DOMAIN fifo = 1 .. Len(fifo)
            /\ fifo' = Append(fifo, emitted + 1)
        BY <1>1, <2>5
      <4>2. DOMAIN fifo' = 1 .. Len(fifo) + 1 /\ fifo'[Len(fifo) + 1] = emitted + 1
        BY <4>1
      <4>3. \A i \in 1 .. Len(fifo) : fifo'[i] = fifo[i] /\ fifo[i] \in Nat
        BY <4>1
      <4>4. 1 .. Len(fifo) + 1 = 1 .. Len(fifo) \cup {Len(fifo) + 1}
        BY <4>1
      <4> QED
        BY <4>1, <4>2, <4>3, <4>4
    <3>2. emitted + 1 \notin persisted /\ \A i \in DOMAIN fifo : fifo[i] # emitted + 1
      BY <1>1, <3>1 DEF Waiting
    <3>3. \A i, j \in DOMAIN fifo' : fifo'[i] = fifo'[j] => i = j
      BY <3>1, <3>2 DEF Waiting
    <3>4. \A i \in DOMAIN fifo' : fifo'[i] <= emitted' /\ fifo'[i] \notin persisted'
      BY <1>1, <2>1, <2>5, <3>1, <3>2 DEF Waiting
    <3> QED
      BY <2>2, <3>3, <3>4 DEF Waiting
  <2>6. CASE fifo # <<>> /\ fifo' = Tail(fifo)
    <3>1. \A i \in DOMAIN fifo' : i \in Nat /\ i + 1 \in DOMAIN fifo /\ fifo'[i] = fifo[i + 1]
      <4>1. fifo \in Seq(Nat) /\ Len(fifo) \in Nat \ {0} /\ DOMAIN fifo = 1 .. Len(fifo)
        BY <1>1, <2>6
      <4>2. Len(Tail(fifo)) = Len(fifo) - 1 /\ DOMAIN Tail(fifo) = 1 .. Len(fifo) - 1
        BY <4>1
      <4>3. \A i \in 1 .. Len(fifo) - 1 : Tail(fifo)[i] = fifo[i + 1]
        BY <4>1
      <4>4. \A i \in 1 .. Len(fifo) - 1 : i \in Nat /\ i + 1 \in 1 .. Len(fifo)
        BY <4>1
      <4> QED
        BY <2>6, <4>1, <4>2, <4>3, <4>4
    <3>2. \A i \in DOMAIN fifo' : fifo'[i] <= emitted' /\ fifo'[i] \notin persisted'
      <4> SUFFICES ASSUME NEW i \in DOMAIN fifo' PROVE fifo'[i] <= emitted' /\ fifo'[i] \notin persisted'
        OBVIOUS
      <4>1. fifo[i + 1] <= emitted /\ fifo[i + 1] \notin persisted /\ fifo[i + 1] \in 1 .. MaxEvents
        BY <1>1, <3>1 DEF Waiting
      <4> QED
        BY <1>1, <2>1, <3>1, <4>1
    <3>3. \A i, j \in DOMAIN fifo' : fifo'[i] = fifo'[j] => i = j
      <4> SUFFICES ASSUME NEW i \in DOMAIN fifo', NEW j \in DOMAIN fifo', fifo'[i] = fifo'[j] PROVE i = j
        OBVIOUS
      <4>1. i + 1 = j + 1
        BY <3>1 DEF Waiting
      <4> QED
        BY <3>1, <4>1
    <3> QED
      BY <2>2, <3>2, <3>3 DEF Waiting
  <2> QED
    BY <2>3, <2>4, <2>5, <2>6, FifoMoves DEF SpoolTyped
<1> QED
  BY <1>2, <1>3

\* What is in the FIFO once its head is read.
LEMMA TailOfFifo ==
  ASSUME fifo \in Seq(1 .. MaxEvents), fifo # <<>>
  PROVE  \A i \in DOMAIN Tail(fifo) : i + 1 \in DOMAIN fifo /\ i + 1 # 1 /\ Tail(fifo)[i] = fifo[i + 1]
<1>1. fifo \in Seq(Nat) /\ Len(fifo) \in Nat \ {0} /\ DOMAIN fifo = 1 .. Len(fifo)
  OBVIOUS
<1>2. DOMAIN Tail(fifo) = 1 .. Len(fifo) - 1 /\ \A i \in 1 .. Len(fifo) - 1 : Tail(fifo)[i] = fifo[i + 1]
  BY <1>1
<1>3. \A i \in 1 .. Len(fifo) - 1 : i + 1 \in 1 .. Len(fifo) /\ i + 1 # 1
  BY <1>1
<1> QED
  BY <1>1, <1>2, <1>3

(***************************************************************************)
(* What an unended line holds is not counted.                              *)
(***************************************************************************)
\* Once an event has left the FIFO without being persisted, it stays so.
LEMMA NeverCountedNext ==
  ASSUME SpoolTyped, Waiting, [SpoolNext]_spoolVars, NEW e, NeverCounted(e)
  PROVE  NeverCounted(e)'
<1>1. fifo \in Seq(1 .. MaxEvents) /\ emitted \in Nat /\ emitted <= emitted' /\ emitted' \in Nat
  BY FifoNext DEF SpoolTyped, Fifo
<1>2. e \in 0 .. emitted' /\ e <= emitted
  BY <1>1 DEF NeverCounted
<1>3. e \notin persisted'
  <2>1. CASE Appends
    <3>1. 1 \in DOMAIN fifo /\ persisted' = persisted \cup {fifo[1]}
      BY <1>1, <2>1 DEF Appends
    <3> QED
      BY <3>1 DEF NeverCounted
  <2>2. CASE persisted' = persisted
    BY <2>2 DEF NeverCounted
  <2> QED
    BY <2>1, <2>2, SpoolMoves DEF SpoolMove, Binds, Publishes, Takes, Removes, Creates, Touches, Recovers, others
<1>4. \A i \in DOMAIN fifo' : fifo'[i] # e
  <2>1. CASE fifo' \in {fifo, <<>>}
    BY <2>1 DEF NeverCounted
  <2>2. CASE fifo' = Append(fifo, emitted') /\ emitted' = emitted + 1
    <3>1. DOMAIN fifo' = 1 .. Len(fifo) + 1 /\ DOMAIN fifo = 1 .. Len(fifo) /\ Len(fifo) \in Nat
      BY <1>1, <2>2
    <3>2. fifo'[Len(fifo) + 1] = emitted' /\ \A i \in 1 .. Len(fifo) : fifo'[i] = fifo[i]
      BY <1>1, <2>2
    <3>3. emitted' # e
      BY <1>1, <1>2, <2>2
    <3> QED
      BY <3>1, <3>2, <3>3 DEF NeverCounted
  <2>3. CASE fifo # <<>> /\ fifo' = Tail(fifo)
    BY <1>1, <2>3, TailOfFifo DEF NeverCounted
  <2> QED
    BY <2>1, <2>2, <2>3, FifoMoves DEF SpoolTyped
<1> QED
  BY <1>2, <1>3, <1>4 DEF NeverCounted

\* Every step keeps Unended: a line without its newline is of the event that was at the head.
LEMMA UnendedNext ==
  ASSUME SpoolTyped, Waiting, Unended, [SpoolNext]_spoolVars
  PROVE  Unended'
<1>0. /\ published \in Seq(PublishedBatch) /\ uploaded \subseteq PublishedBatch /\ SpoolMove
      /\ fifo \in Seq(1 .. MaxEvents) /\ emitted \in Nat /\ emitted <= emitted' /\ emitted' \in Nat
  BY SpoolMoves, FifoNext DEF SpoolTyped, Files, Fifo
<1>1. NeverCounted(0)'
  BY <1>0, WaitingNext, FifoNext DEF NeverCounted, Waiting, SpoolTyped, Fifo
<1>2. \A e : NeverCounted(e) => NeverCounted(e)'
  BY NeverCountedNext
<1>3. ASSUME building' \in Directory
      PROVE  NeverCounted(building.unended)'
  <2>1. CASE building \in Directory /\ building'.unended = building.unended
    BY <1>2, <2>1 DEF Unended, NeverCounted
  <2>2. CASE building'.unended = 0
    BY <1>1, <2>2 DEF NeverCounted
  <2>3. CASE Touches /\ fifo # <<>> /\ fifo' \in {Tail(fifo), <<>>} /\ building'.unended = Head(fifo)
    <3>1. PICK e : e = Head(fifo)
      OBVIOUS
    <3>2. 1 \in DOMAIN fifo /\ e = fifo[1] /\ e \in 1 .. MaxEvents /\ e <= emitted
      BY <1>0, <2>3, <3>1 DEF Waiting
    <3>3. e \in 0 .. emitted' /\ e \notin persisted'
      BY <1>0, <2>3, <3>2 DEF Waiting, Touches, others
    <3>4. \A i \in DOMAIN fifo' : fifo'[i] # e
      <4>1. CASE fifo' = Tail(fifo)
        BY <1>0, <2>3, <3>2, <4>1, TailOfFifo DEF Waiting
      <4>2. CASE fifo' = <<>>
        BY <4>2
      <4> QED
        BY <2>3, <4>1, <4>2
    <3> QED
      BY <2>3, <3>1, <3>3, <3>4 DEF NeverCounted
  <2> QED
    BY <1>0, <1>3, <2>1, <2>2, <2>3, NothingAssumption
    DEF SpoolMove, Binds, Publishes, Takes, Removes, Creates, Touches, Recovers, Appends, others
<1>4. \A i \in DOMAIN published' : NeverCounted(published[i].unended)'
  <2> SUFFICES ASSUME NEW i \in DOMAIN published' PROVE NeverCounted(published[i].unended)'
    OBVIOUS
  <2>1. CASE Publishes
    <3>1. PICK batch : batch = SealedBatch(building)
      OBVIOUS
    <3>2. batch \in PublishedBatch /\ batch.unended = building.unended /\ NeverCounted(building.unended)
      BY <2>1, <3>1 DEF Publishes, Unended, SealedBatch, Directory, PublishedBatch
    <3>3. published'[i] = batch \/ (i \in DOMAIN published /\ published'[i] = published[i])
      BY <1>0, <2>1, <3>1, <3>2 DEF Publishes
    <3> QED
      BY <1>2, <3>2, <3>3 DEF Unended, NeverCounted
  <2>2. CASE Takes
    <3>1. i + 1 \in DOMAIN published /\ published'[i] = published[i + 1]
      BY <1>0, <2>2 DEF Takes
    <3> QED
      BY <1>2, <3>1 DEF Unended, NeverCounted
  <2>3. CASE Binds
    <3>1. i \in DOMAIN published /\ published'[i].unended = published[i].unended
      BY <1>0, <2>3 DEF Binds, Rebinds
    <3> QED
      BY <1>2, <3>1 DEF Unended, NeverCounted
  <2>4. CASE UNCHANGED published
    BY <1>2, <2>4 DEF Unended, NeverCounted
  <2> QED
    BY <1>0, <2>1, <2>2, <2>3, <2>4 DEF SpoolMove, Removes, Creates, Touches, Recovers, Appends, others
<1>5. \A batch \in uploaded' : NeverCounted(batch.unended)'
  <2>1. CASE Takes
    <3>1. published # <<>> /\ uploaded' = uploaded \cup {published[1]} /\ 1 \in DOMAIN published
      BY <1>0, <2>1 DEF Takes
    <3> QED
      BY <1>2, <3>1 DEF Unended, NeverCounted
  <2>2. CASE UNCHANGED uploaded
    BY <1>2, <2>2 DEF Unended, NeverCounted
  <2> QED
    BY <1>0, <2>1, <2>2 DEF SpoolMove, Publishes, Binds, Removes, Creates, Touches, Recovers, Appends, others
<1> QED
  BY <1>3, <1>4, <1>5 DEF Unended, NeverCounted

\* It holds at first.
LEMMA UnendedInit == SpoolInit => Unended
BY NothingAssumption DEF SpoolInit, Unended

(***************************************************************************)
(* No two batches hold the same event.                                     *)
(***************************************************************************)
\* Every step keeps Held.
LEMMA HeldNext ==
  ASSUME SpoolTyped, Held, [SpoolNext]_spoolVars
  PROVE  Held'
<1>0. SpoolMove /\ persisted \subseteq persisted'
  BY SpoolMoves DEF SpoolMove, Binds, Publishes, Takes, Removes, Creates, Touches, Recovers, Appends, others
<1>1. building' \in Directory => EventsIn(building'.lines) \subseteq persisted'
  <2> SUFFICES ASSUME building' \in Directory PROVE EventsIn(building'.lines) \subseteq persisted'
    OBVIOUS
  <2>1. CASE Appends /\ EventsIn(building'.lines) = EventsIn(building.lines) \cup {Head(fifo)}
    BY <2>1 DEF Held, Appends
  <2> QED
    BY <1>0, <2>1, BuildingEvents DEF Held
<1>2. (\A i \in DOMAIN published : Events(i) \subseteq persisted) /\ (\A batch \in uploaded : EventsIn(batch.lines) \subseteq persisted)
  BY DEF Held
<1>3. \A i \in DOMAIN published' : Events(i)' \subseteq persisted'
  <2> SUFFICES ASSUME NEW i \in DOMAIN published' PROVE EventsIn(published'[i].lines) \subseteq persisted
    BY <1>0 DEF Events, EventsIn
  <2>1. CASE Publishes /\ published'[i].lines = building.lines
    BY <2>1 DEF Held, Publishes
  <2>2. CASE \E j \in DOMAIN published : published'[i].lines = published[j].lines
    BY <1>2, <2>2 DEF Events
  <2>3. DOMAIN published = 1 .. Len(published) /\ Len(published) \in Nat
    BY DEF SpoolTyped, Files
  <2>4. DOMAIN published' = 1 .. Len(published) + 1 /\ i \notin DOMAIN published => i = Len(published) + 1
    BY <2>3
  <2> QED
    BY <1>0, <2>1, <2>2, <2>4, BatchesMove
<1>4. \A batch \in uploaded' : EventsIn(batch.lines) \subseteq persisted'
  BY <1>0, <1>2, BatchesMove DEF Events, Publishes
<1> QED
  BY <1>1, <1>3, <1>4 DEF Held, EventsIn

\* Two batches never share an event.
LEMMA OnePlaceNext ==
  ASSUME SpoolTyped, Waiting, Held, OnePlace, [SpoolNext]_spoolVars
  PROVE  OnePlace'
<1>0. SpoolMove /\ Len(published) \in Nat /\ DOMAIN published = 1 .. Len(published)
  BY SpoolMoves DEF SpoolTyped, Files
<1>1. CASE Publishes
  <2>0. PICK n : n = Len(published) + 1
    OBVIOUS
  <2>1. /\ building \in Directory /\ building' \notin Directory /\ uploaded' = uploaded
        /\ DOMAIN published' = DOMAIN published \cup {n}
        /\ \A i \in DOMAIN published : published'[i] = published[i]
        /\ published'[n].lines = building.lines
    <3>1. DOMAIN published' = 1 .. n /\ (\A i \in DOMAIN published : published'[i] = published[i])
          /\ published'[n].lines = building.lines
      BY <1>0, <1>1, <2>0, BatchesMove
    <3>2. 1 .. n = DOMAIN published \cup {n}
      BY <1>0, <2>0
    <3> QED
      BY <1>1, <3>1, <3>2, NothingAssumption DEF Publishes
  <2>2. \A i \in DOMAIN published : Events(i)' = Events(i)
    BY <2>1 DEF Events
  <2>3. Events(n)' = EventsIn(building.lines)
    BY <2>1 DEF Events
  <2>4. \A i, j \in DOMAIN published' : i # j => Events(i)' \cap Events(j)' = {}
    BY <2>1, <2>2, <2>3 DEF OnePlace
  <2>5. \A i \in DOMAIN published', batch \in uploaded' : Events(i)' \cap EventsIn(batch.lines) = {}
    BY <2>1, <2>2, <2>3 DEF OnePlace
  <2> QED
    BY <2>1, <2>4, <2>5 DEF OnePlace
<1>2. CASE Takes
  <2>1. /\ building' = building /\ uploaded' = uploaded \cup {published[1]} /\ 1 \in DOMAIN published
        /\ \A i \in DOMAIN published' : i + 1 \in DOMAIN published /\ published'[i] = published[i + 1]
        /\ \A i \in DOMAIN published' : i \in 1 .. Len(published) - 1
    BY <1>0, <1>2, BatchesMove DEF Takes
  <2>2. \A i \in DOMAIN published' : Events(i)' = Events(i + 1)
    BY <2>1 DEF Events
  <2>3. EventsIn(published[1].lines) = Events(1)
    BY DEF Events
  <2>8. \A i, j \in DOMAIN published' : i + 1 # 1 /\ (i # j => i + 1 # j + 1)
    BY <1>0, <2>1
  <2>4. \A i, j \in DOMAIN published' : i # j => Events(i)' \cap Events(j)' = {}
    BY <2>1, <2>2, <2>8 DEF OnePlace
  <2>5. \A i \in DOMAIN published', batch \in uploaded' : Events(i)' \cap EventsIn(batch.lines) = {}
    BY <2>1, <2>2, <2>3, <2>8 DEF OnePlace
  <2>6. \A batch, other \in uploaded' : batch # other => EventsIn(batch.lines) \cap EventsIn(other.lines) = {}
    <3> SUFFICES ASSUME NEW batch \in uploaded', NEW other \in uploaded', batch # other
                 PROVE  EventsIn(batch.lines) \cap EventsIn(other.lines) = {}
      OBVIOUS
    <3>1. CASE batch \in uploaded /\ other \in uploaded
      BY <3>1 DEF OnePlace
    <3>2. CASE batch = published[1] /\ other \in uploaded
      BY <2>1, <2>3, <3>2 DEF OnePlace
    <3>3. CASE other = published[1] /\ batch \in uploaded
      <4>1. Events(1) \cap EventsIn(batch.lines) = {}
        BY <2>1, <3>3 DEF OnePlace
      <4> QED
        BY <2>3, <3>3, <4>1
    <3> QED
      BY <2>1, <3>1, <3>2, <3>3
  <2>7. building \in Directory =>
          /\ \A i \in DOMAIN published' : Events(i)' \cap EventsIn(building.lines) = {}
          /\ \A batch \in uploaded' : EventsIn(batch.lines) \cap EventsIn(building.lines) = {}
    BY <2>1, <2>2, <2>3 DEF OnePlace
  <2> QED
    BY <2>1, <2>4, <2>5, <2>6, <2>7 DEF OnePlace
<1>3. CASE /\ DOMAIN published' = DOMAIN published /\ uploaded' = uploaded
           /\ \A i \in DOMAIN published : published'[i].lines = published[i].lines
  <2>1. \A i \in DOMAIN published' : Events(i)' = Events(i)
    BY <1>3 DEF Events
  <2>2. ASSUME building' \in Directory
        PROVE  /\ \A i \in DOMAIN published : Events(i) \cap EventsIn(building'.lines) = {}
               /\ \A batch \in uploaded : EventsIn(batch.lines) \cap EventsIn(building'.lines) = {}
    <3>1. CASE building \in Directory /\ EventsIn(building'.lines) \subseteq EventsIn(building.lines)
      BY <3>1 DEF OnePlace
    <3>2. CASE Appends /\ EventsIn(building'.lines) = EventsIn(building.lines) \cup {Head(fifo)}
      <4>1. building \in Directory /\ 1 \in DOMAIN fifo /\ Head(fifo) = fifo[1]
        BY <3>2 DEF Appends, SpoolTyped, Fifo
      <4>2. Head(fifo) \notin persisted
        BY <4>1 DEF Waiting
      <4> QED
        BY <3>2, <4>1, <4>2 DEF OnePlace, Held
    <3> QED
      BY <2>2, <3>1, <3>2, BuildingEvents
  <2>3. building' \in Directory =>
          /\ \A i \in DOMAIN published' : Events(i)' \cap EventsIn(building'.lines) = {}
          /\ \A batch \in uploaded' : EventsIn(batch.lines) \cap EventsIn(building'.lines) = {}
    BY <1>3, <2>1, <2>2
  <2> QED
    BY <1>3, <2>1, <2>3 DEF OnePlace
<1> QED
  BY <1>0, <1>1, <1>2, <1>3, BatchesMove

\* Recovery cuts off nothing but what is in doubt.
LEMMA RecoverKeeps ==
  ASSUME SpoolTyped, Undoubted, Recovers, NEW e \in EventsIn(building.lines) \ doubtful
  PROVE  e \in EventsIn(building'.lines)
<1>0. building \in Directory /\ building.lines \in Seq(WrittenLine)
  BY DEF Recovers, Directory
<1>1. PICK n \in 0 .. Len(building.lines) :
        /\ ValidPrefix(building.lines) = SubSeq(building.lines, 1, n)
        /\ \A m \in 0 .. Len(building.lines) : (\A i \in 1 .. m : building.lines[i].whole) => m <= n
  BY <1>0, PrefixIsValid
<1>2. PICK i \in DOMAIN building.lines : building.lines[i].event = e
  BY DEF EventsIn, ToSet
<1>3. \A j \in 1 .. i : building.lines[j].whole
  BY <1>0, <1>2 DEF Undoubted
<1>4. i \in 1 .. n
  <2>1. i \in 0 .. Len(building.lines) /\ i \in 1 .. Len(building.lines)
    BY <1>0
  <2>2. i <= n
    BY <1>1, <1>3, <2>1
  <2> QED
    BY <2>1, <2>2
<1>5. PICK prefix : prefix = SubSeq(building.lines, 1, n)
  OBVIOUS
<1>6. Len(prefix) = n /\ prefix \in Seq(WrittenLine) /\ \A j \in 1 .. n : prefix[j] = building.lines[j]
  BY <1>0, <1>5, Prefix
<1>7. i \in DOMAIN prefix /\ prefix[i].event = e
  BY <1>2, <1>4, <1>6
<1>8. building'.lines = prefix
  BY <1>1, <1>5 DEF Recovers
<1> QED
  BY <1>7, <1>8 DEF EventsIn, ToSet

\* None of the events that are accounted for vanishes.
LEMMA SomePlaceNext ==
  ASSUME SpoolTyped, Undoubted, SomePlace, [SpoolNext]_spoolVars
  PROVE  SomePlace'
<1>0. SpoolMove /\ Len(published) \in Nat /\ DOMAIN published = 1 .. Len(published)
  BY SpoolMoves DEF SpoolTyped, Files
<1>1. SUFFICES ASSUME NEW e \in persisted' \ doubtful'
               PROVE  \/ \E i \in DOMAIN published' : e \in EventsIn(published'[i].lines)
                      \/ \E batch \in uploaded' : e \in EventsIn(batch.lines)
                      \/ building' \in Directory /\ e \in EventsIn(building'.lines)
  BY DEF SomePlace, Events
<1>2. \/ e \in persisted \ doubtful
      \/ Appends /\ e = Head(fifo)
  BY <1>0 DEF SpoolMove, Binds, Publishes, Takes, Removes, Creates, Touches, Recovers, Appends, others
<1>3. CASE \E i \in DOMAIN published : e \in Events(i)
  <2>1. PICK i \in DOMAIN published : e \in EventsIn(published[i].lines)
    BY <1>3 DEF Events
  <2>2. CASE Publishes /\ i \in DOMAIN published' /\ published'[i] = published[i]
    BY <2>1, <2>2
  <2>3. CASE Takes
    <3>1. CASE i = 1
      <4>1. published[1] \in uploaded'
        BY <1>0, <2>3, BatchesMove
      <4> QED
        BY <2>1, <3>1, <4>1
    <3>2. CASE i # 1
      <4>1. i - 1 \in DOMAIN published' /\ published'[i - 1] = published[i]
        BY <1>0, <2>3, <3>2, BatchesMove
      <4> QED
        BY <2>1, <4>1
    <3> QED
      BY <3>1, <3>2
  <2>4. CASE i \in DOMAIN published' /\ published'[i].lines = published[i].lines
    BY <2>1, <2>4
  <2>5. 1 .. Len(published) \subseteq 1 .. Len(published) + 1
    BY <1>0
  <2> QED
    BY <1>0, <2>2, <2>3, <2>4, <2>5, BatchesMove
<1>4. CASE \E batch \in uploaded : e \in EventsIn(batch.lines)
  <2>1. uploaded \subseteq uploaded'
    BY <1>0, BatchesMove DEF Publishes
  <2> QED
    BY <1>4, <2>1
<1>5. CASE building \in Directory /\ e \in EventsIn(building.lines) /\ e \notin doubtful
  <2>1. CASE UNCHANGED building
    BY <1>5, <2>1
  <2>2. CASE Publishes
    <3>1. Len(published) + 1 \in DOMAIN published' /\ published'[Len(published) + 1].lines = building.lines
      <4>1. DOMAIN published' = 1 .. Len(published) + 1 /\ published'[Len(published) + 1].lines = building.lines
        BY <1>0, <2>2, BatchesMove
      <4>2. Len(published) + 1 \in 1 .. Len(published) + 1
        BY <1>0
      <4> QED
        BY <4>1, <4>2
    <3> QED
      BY <1>5, <3>1
  <2>3. CASE Removes
    <3>1. building.lines = <<>>
      BY <2>3 DEF Removes, SpoolTyped, Files
    <3> QED
      BY <1>5, <3>1 DEF EventsIn, ToSet
  <2>4. CASE Creates
    BY <1>5, <2>4, NothingAssumption DEF Creates
  <2>5. CASE Touches
    BY <1>5, <2>5 DEF Touches
  <2>6. CASE Recovers
    <3>1. building' \in Directory
      BY <2>6 DEF Recovers
    <3> QED
      BY <1>5, <2>6, <3>1, RecoverKeeps
  <2>7. CASE Appends
    <3>1. building' \in Directory
      BY <2>7 DEF Appends
    <3>2. EventsIn(building.lines) \subseteq EventsIn(building'.lines)
      BY <2>7, AppendedEvents
    <3> QED
      BY <1>5, <3>1, <3>2
  <2> QED
    BY <1>0, <2>1, <2>2, <2>3, <2>4, <2>5, <2>6, <2>7 DEF SpoolMove, Binds, Takes
<1>6. CASE Appends /\ e = Head(fifo)
  <2>1. building' \in Directory
    BY <1>6 DEF Appends
  <2>2. EventsIn(building'.lines) = EventsIn(building.lines) \cup {Head(fifo)}
    BY <1>6, <2>1, AppendedEvents
  <2> QED
    BY <1>6, <2>1, <2>2
<1> QED
  BY <1>2, <1>3, <1>4, <1>5, <1>6 DEF SomePlace

\* Every step keeps Undoubted: what is appended behind a torn line is in doubt.
LEMMA UndoubtedNext ==
  ASSUME SpoolTyped, Undoubted, [SpoolNext]_spoolVars
  PROVE  Undoubted'
<1>1. SUFFICES ASSUME building' \in Directory, NEW i \in DOMAIN building'.lines,
                      building'.lines[i].event \notin doubtful'
               PROVE  \A j \in 1 .. i : building'.lines[j].whole
  BY DEF Undoubted
<1>2. CASE building \in Directory /\ building'.lines = building.lines /\ doubtful' = doubtful
  BY <1>1, <1>2 DEF Undoubted
<1>3. CASE Creates
  BY <1>1, <1>3 DEF Creates
<1>4. CASE Recovers
  <2>0. building.lines \in Seq(WrittenLine) /\ building \in Directory /\ doubtful' = doubtful
    BY <1>4 DEF Recovers, Directory, others
  <2>1. PICK n \in 0 .. Len(building.lines) : ValidPrefix(building.lines) = SubSeq(building.lines, 1, n)
    BY <2>0, PrefixIsValid
  <2>2. PICK prefix : prefix = SubSeq(building.lines, 1, n)
    OBVIOUS
  <2>3. Len(prefix) = n /\ prefix \in Seq(WrittenLine) /\ \A j \in 1 .. n : prefix[j] = building.lines[j]
    BY <2>0, <2>2, Prefix
  <2>4. building'.lines = prefix
    BY <1>4, <2>1, <2>2 DEF Recovers
  <2>5. i \in 1 .. n /\ i \in DOMAIN building.lines
    BY <1>1, <2>0, <2>3, <2>4
  <2>6. \A j \in 1 .. i : building.lines[j].whole
    BY <1>1, <2>0, <2>3, <2>4, <2>5 DEF Undoubted
  <2>7. \A j \in 1 .. i : j \in 1 .. n
    BY <2>5
  <2> QED
    BY <2>3, <2>4, <2>6, <2>7
<1>5. CASE Appends
  <2>0. building \in Directory /\ building.lines \in Seq(WrittenLine) /\ DOMAIN building.lines = 1 .. Len(building.lines)
        /\ Len(building.lines) \in Nat
    BY <1>5 DEF Appends, Directory
  <2>1. PICK line : line = Line(Head(fifo), building.stream, ~building.torn)
    OBVIOUS
  <2>2. building'.lines = Append(building.lines, line) /\ line.event = Head(fifo) /\ line.whole = ~building.torn
    BY <1>5, <2>1 DEF Appends, Line
  <2>3. /\ DOMAIN building'.lines = 1 .. Len(building.lines) + 1
        /\ building'.lines[Len(building.lines) + 1] = line
        /\ \A j \in 1 .. Len(building.lines) : building'.lines[j] = building.lines[j]
    BY <2>0, <2>2
  <2>4. CASE i \in 1 .. Len(building.lines)
    <3>1. building.lines[i].event \notin doubtful
      BY <1>1, <1>5, <2>3, <2>4 DEF Appends
    <3>2. \A j \in 1 .. i : building.lines[j].whole /\ j \in 1 .. Len(building.lines)
      BY <2>0, <2>4, <3>1 DEF Undoubted
    <3> QED
      BY <2>3, <3>2
  <2>5. CASE i = Len(building.lines) + 1
    <3>1. Head(fifo) \notin doubtful'
      BY <1>1, <2>2, <2>3, <2>5
    <3>2. ~(building.torn \/ ~AllWhole(building.lines))
      BY <1>5, <3>1 DEF Appends
    <3>3. line.whole /\ \A j \in 1 .. Len(building.lines) : building.lines[j].whole
      BY <2>0, <2>2, <3>2, Zenon DEF AllWhole, ToSet
    <3>4. \A j \in 1 .. i : j \in 1 .. Len(building.lines) \/ j = Len(building.lines) + 1
      BY <2>0, <2>5
    <3> QED
      BY <2>3, <3>3, <3>4
  <2> QED
    BY <1>1, <2>0, <2>3, <2>4, <2>5
<1> QED
  BY <1>1, <1>2, <1>3, <1>4, <1>5, SpoolMoves, NothingAssumption
   DEF SpoolMove, Binds, Publishes, Takes, Removes, Touches, others

\* An event that was counted as persisted is in one place.
LEMMA KeptInOnePlace ==
  ASSUME SpoolTyped, OnePlace, SomePlace
  PROVE  PersistedIsKept
<1> SUFFICES ASSUME NEW e \in persisted \ doubtful
             PROVE  Cardinality({batch \in ToSet(published) \cup uploaded : e \in EventsIn(batch.lines)})
                      + (IF InBuilding(e) THEN 1 ELSE 0) = 1
  BY DEF PersistedIsKept
<1> DEFINE batches == {batch \in ToSet(published) \cup uploaded : e \in EventsIn(batch.lines)}
<1>1. InBuilding(e) <=> building \in Directory /\ e \in EventsIn(building.lines)
  BY NothingAssumption DEF InBuilding, SpoolTyped, Files
<1>2. \A batch \in ToSet(published) : \E i \in DOMAIN published : batch = published[i]
  BY DEF ToSet
<1>3. CASE InBuilding(e)
  <2>1. batches = {}
    BY <1>1, <1>2, <1>3 DEF OnePlace, Events
  <2>2. Cardinality(batches) = 0
    BY <2>1, FS_EmptySet
  <2> QED
    BY <1>3, <2>2
<1>4. CASE ~InBuilding(e)
  <2>1. PICK batch \in batches : TRUE
    BY <1>1, <1>4 DEF SomePlace, Events, ToSet
  <2>2. ASSUME NEW other \in batches
        PROVE  other = batch
    <3>1. CASE other \in uploaded /\ batch \in uploaded
      BY <3>1 DEF OnePlace
    <3>2. CASE other \in uploaded /\ batch \in ToSet(published)
      BY <1>2, <3>2 DEF OnePlace, Events
    <3>3. CASE other \in ToSet(published) /\ batch \in uploaded
      BY <1>2, <3>3 DEF OnePlace, Events
    <3>4. CASE other \in ToSet(published) /\ batch \in ToSet(published)
      <4>1. PICK i \in DOMAIN published : other = published[i]
        BY <1>2, <3>4
      <4>2. PICK j \in DOMAIN published : batch = published[j]
        BY <1>2, <3>4
      <4>3. e \in Events(i) /\ e \in Events(j)
        BY <4>1, <4>2 DEF Events
      <4> QED
        BY <4>1, <4>2, <4>3 DEF OnePlace
    <3> QED
      BY <3>1, <3>2, <3>3, <3>4
  <2>3. batches = {batch}
    BY <2>1, <2>2
  <2>4. Cardinality({batch}) = 1
    BY FS_Singleton
  <2>5. Cardinality(batches) = 1
    BY <2>3, <2>4
  <2> QED
    BY <1>4, <2>5
<1> QED
  BY <1>3, <1>4

\* All of that holds at first.
LEMMA KeepingInit ==
  ASSUME SpoolInit
  PROVE  Keeping
<1>1. /\ building \notin Directory /\ DOMAIN published = {} /\ uploaded = {} /\ persisted = {}
      /\ DOMAIN fifo = {}
  BY NothingAssumption DEF SpoolInit
<1> QED
  BY <1>1 DEF Keeping, Waiting, Held, OnePlace, SomePlace, Undoubted

\* Every step keeps all of that.
LEMMA KeepingNext ==
  ASSUME SpoolTyped, Keeping, [SpoolNext]_spoolVars
  PROVE  Keeping'
  BY WaitingNext, HeldNext, OnePlaceNext, SomePlaceNext, UndoubtedNext DEF Keeping

(***************************************************************************)
(* What a sync is told.                                                    *)
(***************************************************************************)
\* Who writes the request, the answer, and what the sync remembers.
LEMMA TalkMoves ==
  ASSUME SpoolTyped, [SpoolNext]_spoolVars
  PROVE  /\ RequestSeal \/ (UNCHANGED <<request, syncs>> /\ asked' \in {asked, {}})
         /\ UNCHANGED ack \/ Acknowledge
         /\ serving' \in {serving, 0} \/ HandleRequest
         /\ \/ UNCHANGED <<syncing, asked, told>>
            \/ RequestSeal
            \/ Answered
            \/ SyncEnd
         /\ emitted' \in {emitted, emitted + 1}
<1>0. Control
  BY DEF SpoolTyped
<1>1. CASE Corrupt \/ Publish \/ SealFault
  BY <1>0, <1>1, SealFailsLeads DEF Corrupt, Publish, SealFault, Sealed, tool, seal, counters
<1>2. CASE \/ UNCHANGED spoolVars \/ Emit \/ InitWrite \/ InitBind \/ InitCut \/ SetEnabled
           \/ RequestSeal \/ Answered \/ TakeBatch \/ SyncEnd \/ StartCollector
  BY <1>2 DEF spoolVars, Emit, InitWrite, InitBind, InitCut, SetEnabled, RequestSeal, Answered, TakeBatch, SyncEnd,
              StartCollector, self, seal, tool, counters
<1>3. CASE AppendEvent \/ DropEvent \/ AppendFails
  BY <1>3 DEF AppendEvent, DropEvent, AppendFails, seal, tool, counters
<1>4. CASE Recover \/ CannotRecover \/ CreateDirectory \/ CreateFiles \/ OpenFails
  BY <1>4 DEF Recover, CannotRecover, CreateDirectory, CreateFiles, OpenFails, seal, tool, counters
<1>5. CASE RemoveEvents \/ RemoveDirectory \/ WriteManifest \/ BindReady \/ BindFails
  BY <1>5 DEF RemoveEvents, RemoveDirectory, WriteManifest, BindReady, BindFails, Sealed, seal,
     tool, counters
<1>6. CASE Drained \/ DrainExhausted \/ Acknowledge \/ AcknowledgeFails \/ SealByTime \/ HandleRequest
  BY <1>6 DEF Drained, DrainExhausted, Acknowledge, AcknowledgeFails, SealByTime, HandleRequest, Served,
     seal, tool, counters
<1>7. CASE CollectorCrash \/ Exit \/ Housekeeping
  BY <1>7 DEF CollectorCrash, Exit, Housekeeping, seal, tool, counters
<1> QED
  BY <1>1, <1>2, <1>3, <1>4, <1>5, <1>6, <1>7 DEF SpoolNext, Collect, CollectorStep, UploadStep

\* Every step keeps Nonces.
LEMMA NoncesNext ==
  ASSUME SpoolTyped, Waiting, Nonces, [SpoolNext]_spoolVars
  PROVE  Nonces'
<1>0. emitted \in Nat /\ emitted' \in Nat /\ emitted <= emitted' /\ fifo \in Seq(1 .. MaxEvents) /\ MaxEvents \in Nat
  BY FifoNext DEF SpoolTyped, Fifo
<1>1. request' \in Nat /\ request <= request' /\ syncs' = request'
  BY TalkMoves DEF Nonces, RequestSeal
<1>2. serving' \in 0 .. request'
  BY <1>1, TalkMoves DEF Nonces, HandleRequest
<1>3. ack'.nonce \in 0 .. request'
  BY <1>1, TalkMoves DEF Nonces, Acknowledge
<1>4. asked' \subseteq 1 .. emitted'
  <2>1. CASE RequestSeal
    <3>1. ToSet(fifo) \subseteq 1 .. emitted
      BY <1>0 DEF ToSet, Waiting
    <3> QED
      BY <1>0, <2>1, <3>1 DEF RequestSeal, Waiting
  <2>2. CASE asked' \in {asked, {}}
    BY <1>0, <2>2 DEF Nonces
  <2> QED
    BY <2>1, <2>2, TalkMoves
<1>5. syncing' = "idle" => asked' = {}
  BY TalkMoves DEF Nonces, RequestSeal, Answered, SyncEnd
<1> QED
  BY <1>1, <1>2, <1>3, <1>4, <1>5 DEF Nonces

\* What an event was asked about when it was, it is not again.
LEMMA FifoLater ==
  ASSUME SpoolTyped, Nonces, [SpoolNext]_spoolVars, ~RequestSeal, asked \cap ToSet(fifo) = {}
  PROVE  asked' \subseteq asked /\ asked' \cap ToSet(fifo') = {}
<1>0. emitted \in Nat /\ fifo \in Seq(1 .. MaxEvents)
  BY DEF SpoolTyped, Fifo
<1>1. asked' \subseteq asked /\ emitted + 1 \notin asked
  BY <1>0, TalkMoves DEF Nonces
<1>2. CASE fifo' = fifo
  BY <1>1, <1>2
<1>3. CASE fifo' = <<>>
  BY <1>1, <1>3 DEF ToSet
<1>4. CASE fifo' = Append(fifo, emitted + 1) /\ emitted < MaxEvents
  <2>1. emitted + 1 \in 1 .. MaxEvents
    BY <1>0, <1>4
  <2>2. ToSet(fifo') = ToSet(fifo) \cup {emitted + 1}
    BY <1>0, <1>4, <2>1, SetOfAppend
  <2> QED
    BY <1>1, <2>2
<1>5. CASE fifo # <<>> /\ fifo' = Tail(fifo)
  <2>1. \A i \in DOMAIN fifo' : i + 1 \in DOMAIN fifo /\ fifo'[i] = fifo[i + 1]
    BY <1>0, <1>5
  <2>2. ToSet(fifo') \subseteq ToSet(fifo)
    BY <2>1 DEF ToSet
  <2> QED
    BY <1>1, <2>2
<1> QED
  BY <1>2, <1>3, <1>4, <1>5, FifoMoves DEF SpoolTyped

\* Once behind the sync, an event stays there until the next request.
LEMMA CoveredNext ==
  ASSUME SpoolTyped, Nonces, Covered, [SpoolNext]_spoolVars, ~RequestSeal
  PROVE  Covered'
<1>1. asked \cap ToSet(fifo) = {} /\ \A e \in asked : building \in Directory => e \notin EventsIn(building.lines)
  BY NothingAssumption DEF Covered, InBuilding, SpoolTyped, Files
<1>2. asked' \subseteq asked /\ asked' \cap ToSet(fifo') = {}
  BY <1>1, FifoLater
<1>3. ASSUME NEW e \in asked', building' \in Directory
      PROVE  e \notin EventsIn(building'.lines)
  <2>1. e \in asked
    BY <1>2
  <2>2. CASE Appends /\ EventsIn(building'.lines) = EventsIn(building.lines) \cup {Head(fifo)}
    <3>1. Head(fifo) \in ToSet(fifo) /\ building \in Directory
      BY <2>2 DEF Appends, SpoolTyped, Fifo, ToSet
    <3> QED
      BY <1>1, <2>1, <2>2, <3>1
  <2> QED
    BY <1>1, <1>3, <2>1, <2>2, BuildingEvents
<1>4. building' \in {Nothing} \cup Directory
  BY SpoolTypedNext DEF SpoolTyped, Files
<1> QED
  BY <1>2, <1>3, <1>4 DEF Covered, InBuilding, EventsIn

\* How the collector gets through a seal request.
LEMMA RequestComes ==
  ASSUME SpoolTyped, [SpoolNext]_spoolVars, why' = "request"
  PROVE  \/ Drained
         \/ /\ why = "request" /\ UNCHANGED serving
            /\ \/ UNCHANGED <<pc, building>>
               \/ pc' = "rejected"
               \/ pc' = "sealed" /\ (Recover \/ CreateFiles)
               \/ pc = "seal" /\ pc' \in {"rmdir", "publish"}
               \/ pc \in {"rmdir", "publish"} /\ pc' = "open" /\ building' = Nothing
               \/ CreateDirectory
<1>0. Control
  BY DEF SpoolTyped
<1>1. CASE Recover \/ CannotRecover \/ CreateFiles \/ OpenFails
  BY <1>0, <1>1, OpenedLeads, NotOpenedLeads DEF Recover, CannotRecover, CreateFiles, OpenFails
<1>2. CASE Corrupt \/ Publish \/ SealFault
  BY <1>0, <1>2, SealFailsLeads DEF Corrupt, Publish, SealFault, Sealed
<1>3. CASE Housekeeping
  <2>1. (active = TRUE \/ active = FALSE) /\ pc = "idle" /\ why = "nothing"
    BY <1>0, <1>3 DEF Control, Housekeeping
  <2>2. why' \in {why, "config"}
    BY <1>3, <2>1, Zenon DEF Housekeeping
  <2> QED
    BY <2>1, <2>2
<1>4. CASE RemoveEvents \/ RemoveDirectory \/ WriteManifest \/ BindReady \/ BindFails \/ CreateDirectory
  BY <1>0, <1>4 DEF Control, RemoveEvents, RemoveDirectory, WriteManifest, BindReady, BindFails,
     CreateDirectory, Sealed
<1>5. CASE AppendEvent \/ DropEvent \/ AppendFails
  BY <1>0, <1>5 DEF Control, AppendEvent, DropEvent, AppendFails, Read
<1>6. CASE Drained
  BY <1>6
<1>7. CASE DrainExhausted \/ Acknowledge \/ AcknowledgeFails \/ SealByTime \/ HandleRequest
  BY <1>0, <1>7 DEF Control, DrainExhausted, Acknowledge, AcknowledgeFails, SealByTime, HandleRequest, Served
<1>8. CASE StartCollector \/ CollectorCrash \/ Exit
  BY <1>0, <1>8 DEF Control, StartCollector, CollectorCrash, Exit, Ends
<1>9. CASE \/ UNCHANGED spoolVars \/ Emit \/ InitWrite \/ InitBind \/ InitCut \/ SetEnabled
           \/ RequestSeal \/ Answered \/ TakeBatch \/ SyncEnd
  BY <1>9 DEF spoolVars, Emit, InitWrite, InitBind, InitCut, SetEnabled, RequestSeal, Answered, TakeBatch,
     SyncEnd, self,
              directories
<1> QED
  BY <1>1, <1>2, <1>3, <1>4, <1>5, <1>6, <1>7, <1>8, <1>9 DEF SpoolNext, Collect, CollectorStep, UploadStep

\* Nobody opens a file that has lines in it for a seal request: the batch was published before.
LEMMA NothingLeft ==
  ASSUME SpoolTyped, Answers, [SpoolNext]_spoolVars, pc' \in {"open", "create"}, why' = "request"
  PROVE  building' = Nothing \/ building'.lines = <<>>
<1>1. CASE UNCHANGED <<pc, building>> /\ why = "request"
  BY <1>1 DEF Answers
<1>2. CASE CreateDirectory
  BY <1>2 DEF CreateDirectory, EmptyDirectory
<1>3. CASE building' = Nothing
  BY <1>3
<1> QED
  BY <1>1, <1>2, <1>3, RequestComes DEF Drained

\* A batch that is sealed for the request in hand is sealed after the FIFO was read until it was empty.
LEMMA SealsWhatWasAsked ==
  ASSUME SpoolTyped, Nonces, Answers, [SpoolNext]_spoolVars, ~RequestSeal,
         why' = "request", serving' = request', pc' \in {"seal", "rmdir", "publish", "open", "create"}
  PROVE  asked' \cap ToSet(fifo') = {}
<1>1. CASE Drained
  BY <1>1 DEF Drained, ToSet
<1>2. CASE why = "request" /\ serving = request /\ pc \in {"seal", "rmdir", "publish", "open", "create"}
  BY <1>2, FifoLater DEF Answers
<1> QED
  BY <1>1, <1>2, RequestComes, TalkMoves DEF CreateDirectory

\* Once that is done, everything the sync asked for is in a published batch.
LEMMA SealedWhatWasAsked ==
  ASSUME SpoolTyped, Nonces, Answers, [SpoolNext]_spoolVars, ~RequestSeal,
         why' = "request", serving' = request', pc' = "sealed"
  PROVE  Covered'
<1>0. request' = request
  BY TalkMoves
<1>1. CASE UNCHANGED <<pc, serving>> /\ why = "request"
  BY <1>0, <1>1, CoveredNext DEF Answers
<1>2. CASE UNCHANGED serving /\ why = "request" /\ (Recover \/ CreateFiles)
  <2>1. pc \in {"open", "create"} /\ building \in Directory /\ building.lines = <<>>
    BY <1>2, NothingAssumption DEF Recover, CreateFiles, Answers, SpoolTyped, Files
  <2>2. asked \cap ToSet(fifo) = {}
    BY <1>0, <1>2, <2>1 DEF Answers
  <2>3. asked' \cap ToSet(fifo') = {}
    BY <2>2, FifoLater
  <2>4. building' \in Directory => ToSet(building'.lines) = {}
    <3>1. ToSet(building.lines) = {} /\ ~Appends
      BY <2>1 DEF ToSet, Appends, SpoolTyped, Control
    <3> QED
      BY <3>1, LinesMove
  <2>5. building' \in {Nothing} \cup Directory
    BY SpoolTypedNext DEF SpoolTyped, Files
  <2> QED
    BY <2>3, <2>4, <2>5 DEF Covered, InBuilding, EventsIn
<1>3. CASE Drained
  <2>1. why = "nothing" /\ (active = TRUE \/ active = FALSE)
    BY <1>3 DEF Drained, SpoolTyped, Control
  <2>2. pc' = "seal" \/ why' = why
    BY <1>3, <2>1, Zenon DEF Drained
  <2> QED
    BY <2>1, <2>2
<1> QED
  BY <1>1, <1>2, <1>3, RequestComes DEF CreateDirectory

\* Every step keeps Answers.
LEMMA AnswersNext ==
  ASSUME SpoolTyped, Nonces, Answers, [SpoolNext]_spoolVars
  PROVE  Answers'
<1>1. CASE RequestSeal
  <2>1. /\ request' = request + 1 /\ UNCHANGED <<pc, why, serving, ack, building, told>> /\ syncing' = "wait"
        /\ request \in Nat
    BY <1>1 DEF RequestSeal, self, directories, Nonces
  <2>2. serving' # request' /\ ack'.nonce # request'
    BY <2>1 DEF Nonces
  <2> QED
    BY <2>1, <2>2, NothingLeft DEF Answers
<1>2. CASE ~RequestSeal
  <2>1. ack'.nonce = request' /\ ack'.sealed /\ ack'.had => Covered'
    <3>1. CASE UNCHANGED ack
      BY <1>2, <3>1, CoveredNext, TalkMoves DEF Answers
    <3>2. CASE Acknowledge
      <4> SUFFICES ASSUME ack'.nonce = request', ack'.sealed, ack'.had PROVE Covered'
        OBVIOUS
      <4>1. ack'.nonce = serving /\ ack'.sealed = (pc = "sealed") /\ ack'.had = (why = "request")
        BY <3>2 DEF Acknowledge
      <4>2. serving = request /\ pc = "sealed" /\ why = "request"
        BY <1>2, <4>1, TalkMoves
      <4> QED
        BY <1>2, <4>2, CoveredNext DEF Answers
    <3> QED
      BY <3>1, <3>2, TalkMoves
  <2>2. syncing' = "upload" /\ told'.sealed /\ told'.had => Covered'
    <3>1. CASE UNCHANGED <<syncing, told>>
      BY <1>2, <3>1, CoveredNext DEF Answers
    <3>2. CASE Answered
      <4>1. CASE ack.nonce = request
        BY <1>2, <3>2, <4>1, CoveredNext DEF Answered, Answers
      <4>2. CASE ack.nonce # request
        BY <3>2, <4>2 DEF Answered, NoAck
      <4> QED
        BY <4>1, <4>2
    <3>3. CASE SyncEnd
      BY <3>3 DEF SyncEnd
    <3> QED
      BY <1>2, <3>1, <3>2, <3>3, TalkMoves
  <2> QED
    BY <1>2, <2>1, <2>2, NothingLeft, SealsWhatWasAsked, SealedWhatWasAsked DEF Answers
<1> QED
  BY <1>1, <1>2

\* Both hold at first.
LEMMA AnswersInit ==
  ASSUME SpoolInit
  PROVE  Nonces /\ Answers
<1>1. ack.nonce = 0 /\ ack.sealed = FALSE /\ told.sealed = FALSE
  BY DEF SpoolInit, NoAck
<1>2. Nonces
  BY <1>1, SpoolTypedInit DEF SpoolInit, Nonces, SpoolTyped, Fifo
<1>3. Answers
  BY <1>1 DEF SpoolInit, Answers
<1> QED
  BY <1>2, <1>3

(***************************************************************************)
(* The theorems about the spool.                                           *)
(***************************************************************************)
\* The invariant holds in every state, for every size of batches and of the FIFO and every number of
\* events, failures, crashes, assignments and syncs.
THEOREM LogSpoolInvariant == SpoolSpec => []SpoolInv
<1>1. SpoolInit => SpoolInv
  BY SpoolTypedInit, AllReadyFitsInit, UnendedInit, KeepingInit, AnswersInit DEF SpoolInv
<1>2. SpoolInv /\ [SpoolNext]_spoolVars => SpoolInv'
  <2> SUFFICES ASSUME SpoolInv, [SpoolNext]_spoolVars
               PROVE  SpoolInv'
    OBVIOUS
  <2>1. SpoolTyped /\ AllReadyFits /\ Unended /\ Keeping /\ Nonces /\ Answers /\ Waiting
    BY DEF SpoolInv, Keeping
  <2>2. SpoolTyped'
    BY <2>1, SpoolTypedNext
  <2>3. AllReadyFits'
    BY <2>1, AllReadyFitsNext
  <2>4. Unended'
    BY <2>1, UnendedNext
  <2>5. Keeping'
    BY <2>1, KeepingNext
  <2>6. Nonces' /\ Answers'
    BY <2>1, NoncesNext, AnswersNext
  <2> QED
    BY <2>2, <2>3, <2>4, <2>5, <2>6 DEF SpoolInv
<1> QED
  BY <1>1, <1>2, PTL DEF SpoolSpec

\* A batch in spool/ready fits its manifest, however many attempts it took to seal it: whole lines, as
\* many as the manifest counts, each accepted for the target of the batch. load_ready_batch refuses it
\* for a missing last newline at most, and then nothing that was counted as persisted is in that line.
THEOREM LogReadyFitsManifest == SpoolSpec => []ReadyFitsManifest
<1>1. SpoolInv => ReadyFitsManifest
  BY DEF SpoolInv, AllReadyFits, Unended, NeverCounted, ReadyFitsManifest, ToSet
<1> QED
  BY <1>1, LogSpoolInvariant, PTL

\* An event that was counted as persisted is in the active batch or in one published or uploaded
\* batch, and in no other, unless it was appended behind the rest of a failed write.
THEOREM LogPersistedIsKept == SpoolSpec => []PersistedIsKept
<1>1. SpoolInv => PersistedIsKept
  BY KeptInOnePlace DEF SpoolInv, Keeping
<1> QED
  BY <1>1, LogSpoolInvariant, PTL

\* A sync that is answered Sealed by a collector with an active batch has before it every event that
\* was accepted when it asked.
THEOREM LogAckCoversEarlier == SpoolSpec => []AckCoversEarlier
<1>1. SpoolInv => AckCoversEarlier
  BY DEF SpoolInv, Answers, Covered, AckCoversEarlier
<1> QED
  BY <1>1, LogSpoolInvariant, PTL

(***************************************************************************)
(* The spool as a queue.                                                   *)
(***************************************************************************)
\* Events wait in the order of emission, behind all that were persisted.
InEmissionOrder ==
  /\ \A i, j \in DOMAIN fifo : i < j => fifo[i] < fifo[j]
  /\ \A e \in persisted, i \in DOMAIN fifo : e < fifo[i]

\* What is in doubt has a torn line before it, or is one: recovery cuts it off, and no batch that holds
\* it is sealed.
Doomed ==
  /\ doubtful \subseteq persisted
  /\ building \in Directory =>
       \A i \in DOMAIN building.lines :
         building.lines[i].event \in doubtful => \E j \in 1 .. i : ~building.lines[j].whole

\* At first nothing waits.
LEMMA QueueInvInit == SpoolInit => InEmissionOrder /\ Doomed
<1> SUFFICES ASSUME SpoolInit PROVE InEmissionOrder /\ Doomed
  OBVIOUS
<1>1. fifo = <<>> /\ persisted = {} /\ doubtful = {} /\ building = Nothing
  BY DEF SpoolInit
<1> QED
  BY <1>1, NothingAssumption DEF InEmissionOrder, Doomed

\* Every step keeps the order: the FIFO grows by the event emitted last and shrinks from its head, and
\* only its head is persisted.
LEMMA InEmissionOrderNext ==
  ASSUME SpoolTyped, Waiting, InEmissionOrder, [SpoolNext]_spoolVars
  PROVE  InEmissionOrder'
<1>0. /\ fifo \in Seq(1 .. MaxEvents) /\ DOMAIN fifo = 1 .. Len(fifo) /\ Len(fifo) \in Nat /\ emitted \in Nat
      /\ persisted \subseteq 1 .. emitted
  BY DEF SpoolTyped, Fifo, Waiting
<1>1. CASE Appends
  <2>1. /\ fifo # <<>> /\ fifo' = Tail(fifo) /\ persisted' = persisted \cup {Head(fifo)}
    BY <1>1 DEF Appends
  <2>2. /\ Head(fifo) = fifo[1] /\ 1 \in DOMAIN fifo /\ DOMAIN fifo' = 1 .. Len(fifo) - 1
        /\ \A i \in DOMAIN fifo' : fifo'[i] = fifo[i + 1] /\ i + 1 \in DOMAIN fifo /\ 1 < i + 1
    BY <1>0, <2>1
  <2>3. \A i, j \in DOMAIN fifo' : i < j => i + 1 < j + 1
    BY <1>0, <2>2
  <2>4. \A i, j \in DOMAIN fifo' : i < j => fifo'[i] < fifo'[j]
    BY <2>2, <2>3 DEF InEmissionOrder
  <2>5. \A e \in persisted', i \in DOMAIN fifo' : e < fifo'[i]
    BY <2>1, <2>2 DEF InEmissionOrder
  <2> QED
    BY <2>4, <2>5 DEF InEmissionOrder
<1>2. CASE ~Appends
  <2>1. persisted' = persisted
    BY <1>2, SpoolMoves DEF SpoolMove, Binds, Publishes, Takes, Removes, Creates, Touches, Recovers, others
  <2>2. CASE fifo' \in {fifo, <<>>}
    BY <2>1, <2>2 DEF InEmissionOrder
  <2>3. CASE fifo' = Append(fifo, emitted') /\ emitted' = emitted + 1 /\ emitted < MaxEvents
    <3>1. /\ DOMAIN fifo' = 1 .. Len(fifo) + 1 /\ fifo'[Len(fifo) + 1] = emitted + 1
          /\ \A i \in 1 .. Len(fifo) : fifo'[i] = fifo[i]
      BY <1>0, <2>3
    <3>2. ASSUME NEW i \in 1 .. Len(fifo) PROVE fifo[i] < emitted + 1
      <4>1. i \in DOMAIN fifo /\ fifo[i] \in Nat
        BY <1>0
      <4>2. fifo[i] <= emitted
        BY <4>1 DEF Waiting
      <4> QED
        BY <1>0, <4>1, <4>2
    <3>3. \A i \in 1 .. Len(fifo) + 1 : i \in 1 .. Len(fifo) \/ i = Len(fifo) + 1
      BY <1>0
    <3>4. \A i, j \in 1 .. Len(fifo) + 1 : i < j => i \in 1 .. Len(fifo)
      BY <1>0
    <3>5. \A i, j \in DOMAIN fifo' : i < j => fifo'[i] < fifo'[j]
      BY <1>0, <3>1, <3>2, <3>3, <3>4 DEF InEmissionOrder
    <3>6. ASSUME NEW e \in persisted PROVE e < emitted + 1
      <4>1. e \in 1 .. emitted
        BY <1>0
      <4> QED
        BY <1>0, <4>1
    <3>7. ASSUME NEW e \in persisted, NEW i \in DOMAIN fifo' PROVE e < fifo'[i]
      <4>1. CASE i \in 1 .. Len(fifo)
        BY <1>0, <3>1, <4>1 DEF InEmissionOrder
      <4>2. CASE i = Len(fifo) + 1
        BY <3>1, <3>6, <4>2
      <4> QED
        BY <3>1, <3>3, <3>7, <4>1, <4>2
    <3> QED
      BY <2>1, <3>5, <3>7 DEF InEmissionOrder
  <2>4. CASE fifo # <<>> /\ fifo' = Tail(fifo)
    <3>1. /\ DOMAIN fifo' = 1 .. Len(fifo) - 1
          /\ \A i \in DOMAIN fifo' : fifo'[i] = fifo[i + 1] /\ i + 1 \in DOMAIN fifo
      BY <1>0, <2>4
    <3>2. \A i, j \in DOMAIN fifo' : i < j => i + 1 < j + 1
      BY <1>0, <3>1
    <3> QED
      BY <2>1, <3>1, <3>2 DEF InEmissionOrder
  <2> QED
    BY <2>2, <2>3, <2>4, FifoMoves DEF SpoolTyped
<1> QED
  BY <1>1, <1>2

\* Every step keeps Doomed: an event is in doubt from the moment it is appended, and what recovery
\* keeps is whole.
LEMMA DoomedNext ==
  ASSUME SpoolTyped, Waiting, Held, Doomed, [SpoolNext]_spoolVars
  PROVE  Doomed'
<1>0. doubtful' \subseteq persisted'
  BY SpoolMoves DEF SpoolMove, Binds, Publishes, Takes, Removes, Creates, Touches, Recovers, Appends, others, Doomed
<1>1. SUFFICES ASSUME building' \in Directory, NEW i \in DOMAIN building'.lines,
                      building'.lines[i].event \in doubtful'
               PROVE  \E j \in 1 .. i : ~building'.lines[j].whole
  BY <1>0 DEF Doomed
<1>2. CASE building \in Directory /\ building'.lines = building.lines /\ doubtful' = doubtful
  BY <1>1, <1>2 DEF Doomed
<1>3. CASE Creates
  BY <1>1, <1>3 DEF Creates
<1>4. CASE Recovers
  <2>0. building.lines \in Seq(WrittenLine) /\ building \in Directory /\ doubtful' = doubtful
    BY <1>4 DEF Recovers, Directory, others
  <2>1. PICK n \in 0 .. Len(building.lines) : ValidPrefix(building.lines) = SubSeq(building.lines, 1, n)
    BY <2>0, PrefixIsValid
  <2>2. PICK prefix : prefix = SubSeq(building.lines, 1, n)
    OBVIOUS
  <2>3. Len(prefix) = n /\ prefix \in Seq(WrittenLine) /\ \A j \in 1 .. n : prefix[j] = building.lines[j]
    BY <2>0, <2>2, Prefix
  <2>4. building'.lines = prefix
    BY <1>4, <2>1, <2>2 DEF Recovers
  <2>5. i \in 1 .. n /\ i \in DOMAIN building.lines
    BY <1>1, <2>0, <2>3, <2>4
  <2>6. \E j \in 1 .. i : ~building.lines[j].whole
    BY <1>1, <2>0, <2>3, <2>4, <2>5 DEF Doomed
  <2>7. \A j \in 1 .. i : j \in 1 .. n
    BY <2>5
  <2> QED
    BY <2>3, <2>4, <2>6, <2>7
<1>5. CASE Appends
  <2>0. building \in Directory /\ building.lines \in Seq(WrittenLine) /\ DOMAIN building.lines = 1 .. Len(building.lines)
        /\ Len(building.lines) \in Nat
    BY <1>5 DEF Appends, Directory
  <2>1. PICK line : line = Line(Head(fifo), building.stream, ~building.torn)
    OBVIOUS
  <2>2. building'.lines = Append(building.lines, line) /\ line.event = Head(fifo) /\ line.whole = ~building.torn
    BY <1>5, <2>1 DEF Appends, Line
  <2>3. /\ DOMAIN building'.lines = 1 .. Len(building.lines) + 1
        /\ building'.lines[Len(building.lines) + 1] = line
        /\ \A j \in 1 .. Len(building.lines) : building'.lines[j] = building.lines[j]
    BY <2>0, <2>2
  <2>4. CASE i \in 1 .. Len(building.lines)
    <3>1. building.lines[i].event \in persisted
      BY <2>0, <2>4 DEF Held, EventsIn, ToSet
    <3>2. Head(fifo) \notin persisted
      BY <1>5 DEF Appends, Waiting, SpoolTyped, Fifo
    <3>3. building.lines[i].event \in doubtful
      BY <1>1, <1>5, <2>3, <2>4, <3>1, <3>2 DEF Appends
    <3>4. \E j \in 1 .. i : ~building.lines[j].whole /\ j \in 1 .. Len(building.lines)
      BY <2>0, <2>4, <3>3 DEF Doomed
    <3> QED
      BY <2>3, <3>4
  <2>5. CASE i = Len(building.lines) + 1
    <3>1. Head(fifo) \in doubtful' /\ Head(fifo) \notin doubtful
      <4>1. Head(fifo) \notin persisted
        BY <1>5 DEF Appends, Waiting, SpoolTyped, Fifo
      <4> QED
        BY <1>1, <2>2, <2>3, <2>5, <4>1 DEF Doomed
    <3>2. building.torn \/ ~AllWhole(building.lines)
      BY <1>5, <3>1 DEF Appends
    <3>3. CASE building.torn
      <4>1. line.whole = FALSE
        BY <2>2, <3>3, Zenon
      <4>2. i \in 1 .. i
        BY <2>0, <2>5
      <4> QED
        BY <2>3, <2>5, <4>1, <4>2
    <3>4. CASE ~AllWhole(building.lines)
      <4>1. PICK j \in 1 .. Len(building.lines) : ~building.lines[j].whole
        BY <2>0, <3>4 DEF AllWhole, ToSet
      <4>2. j \in 1 .. i
        BY <2>0, <2>5
      <4> QED
        BY <2>3, <4>1, <4>2
    <3> QED
      BY <3>2, <3>3, <3>4
  <2>6. i \in 1 .. Len(building.lines) \/ i = Len(building.lines) + 1
    BY <1>1, <2>0, <2>3
  <2> QED
    BY <2>4, <2>5, <2>6
<1> QED
  BY <1>1, <1>2, <1>3, <1>4, <1>5, SpoolMoves, NothingAssumption
   DEF SpoolMove, Binds, Publishes, Takes, Removes, Touches, others

\* What the abstract queue sees of the spool.
readyBar == [i \in DOMAIN published |-> EventsIn(published[i].lines)]
takenBar == UNION {EventsIn(batch.lines) : batch \in uploaded}

\* In terms of the batches.
LEMMA ReadyShape ==
  ASSUME SpoolTyped
  PROVE  /\ readyBar \in Seq(SUBSET Nat) /\ DOMAIN readyBar = DOMAIN published /\ Len(readyBar) = Len(published)
         /\ \A i \in DOMAIN published : readyBar[i] = Events(i)
<1>1. published \in Seq(PublishedBatch) /\ DOMAIN published = 1 .. Len(published) /\ Len(published) \in Nat
  BY DEF SpoolTyped, Files
<1>2. ASSUME NEW i \in DOMAIN published
      PROVE  EventsIn(published[i].lines) \in SUBSET Nat
  <2>1. published[i] \in PublishedBatch
    BY <1>1
  <2>2. \A line \in ToSet(published[i].lines) : line \in WrittenLine
    BY <2>1 DEF ToSet, PublishedBatch
  <2> QED
    BY <2>2 DEF EventsIn, WrittenLine
<1>3. readyBar \in [1 .. Len(published) -> SUBSET Nat]
  BY <1>1, <1>2 DEF readyBar
<1>4. readyBar \in Seq(SUBSET Nat) /\ Len(readyBar) = Len(published)
  BY <1>1, <1>3
<1> QED
  BY <1>1, <1>3, <1>4 DEF readyBar, Events

\* After a step too.
LEMMA ReadyShapeNext ==
  ASSUME SpoolTyped'
  PROVE  (readyBar \in Seq(SUBSET Nat) /\ Len(readyBar) = Len(published))'
  BY ReadyShape, PTL

\* The queue holds persisted events only.
LEMMA SeenIsPersisted ==
  ASSUME SpoolTyped, Held
  PROVE  Collected \cup takenBar \cup (UNION {readyBar[i] : i \in DOMAIN readyBar}) \subseteq persisted
<1>1. Collected \subseteq persisted
  BY DEF Collected, Held, SpoolTyped, Files
<1>2. UNION {readyBar[i] : i \in DOMAIN readyBar} \subseteq persisted
  BY ReadyShape DEF Held
<1>3. takenBar \subseteq persisted
  BY DEF takenBar, Held
<1> QED
  BY <1>1, <1>2, <1>3

\* Publishing puts the events of the active batch behind the others.
LEMMA PublishesSeals ==
  ASSUME SpoolTyped, AllReadyFits, Doomed, Publishes, SpoolTyped'
  PROVE  Queue!SealBatch
<1>0. /\ building \in Directory /\ building # Nothing /\ building' = Nothing
      /\ UNCHANGED <<uploaded, doubtful>> /\ pc = "publish"
  BY NothingAssumption DEF Publishes
<1>1. building.lines \in Seq(WrittenLine) /\ DOMAIN building.lines = 1 .. Len(building.lines) /\ Len(building.lines) \in Nat
  BY <1>0 DEF Directory
<1>2. building.lines # <<>> /\ AllWhole(building.lines)
  BY <1>0 DEF AllReadyFits, FitsManifest, SealedBatch
<1>3. \A i \in DOMAIN building.lines : building.lines[i].event \notin doubtful
  <2> SUFFICES ASSUME NEW i \in DOMAIN building.lines, building.lines[i].event \in doubtful PROVE FALSE
    OBVIOUS
  <2>1. PICK j \in 1 .. i : ~building.lines[j].whole
    BY <1>0 DEF Doomed
  <2>2. j \in DOMAIN building.lines
    BY <1>1, <2>1
  <2> QED
    BY <1>2, <2>1, <2>2 DEF AllWhole, ToSet
<1>4. Collected = EventsIn(building.lines) /\ Collected' = {}
  BY <1>0, <1>3 DEF Collected, EventsIn, ToSet
<1>5. Collected # {}
  <2>1. 1 \in DOMAIN building.lines
    BY <1>1, <1>2
  <2> QED
    BY <1>4, <2>1 DEF EventsIn, ToSet
<1>6. Collected \in SUBSET Nat
  <2>1. \A line \in ToSet(building.lines) : line \in WrittenLine
    BY <1>1 DEF ToSet
  <2> QED
    BY <1>4, <2>1 DEF EventsIn, WrittenLine
<1>7. readyBar' = Append(readyBar, Collected)
  <2>1. /\ DOMAIN published' = 1 .. Len(published) + 1 /\ Len(published) \in Nat
        /\ \A i \in DOMAIN published : published'[i] = published[i]
        /\ published'[Len(published) + 1].lines = building.lines
    BY BatchesMove DEF SpoolMove, SpoolTyped, Files
  <2>2. readyBar' = [i \in DOMAIN published' |-> EventsIn(published'[i].lines)]
    BY DEF readyBar, EventsIn
  <2>3. /\ readyBar \in Seq(SUBSET Nat) /\ Len(readyBar) = Len(published)
        /\ DOMAIN published = 1 .. Len(published)
        /\ \A i \in DOMAIN published : readyBar[i] = EventsIn(published[i].lines)
    BY ReadyShape DEF Events, SpoolTyped, Files
  <2>4. /\ Append(readyBar, Collected) \in Seq(SUBSET Nat) /\ Len(Append(readyBar, Collected)) = Len(published) + 1
        /\ \A i \in 1 .. Len(published) : Append(readyBar, Collected)[i] = readyBar[i]
        /\ Append(readyBar, Collected)[Len(published) + 1] = Collected
    BY <1>6, <2>3, AppendProperties
  <2>5. \A i \in 1 .. Len(published) + 1 : readyBar'[i] = Append(readyBar, Collected)[i]
    <3>1. \A i \in 1 .. Len(published) + 1 : i \in 1 .. Len(published) \/ i = Len(published) + 1
      BY <2>1
    <3> QED
      BY <1>4, <2>1, <2>2, <2>3, <2>4, <3>1
  <2>6. readyBar' \in Seq(SUBSET Nat) /\ Len(readyBar') = Len(published) + 1
    <3>1. (readyBar \in Seq(SUBSET Nat) /\ Len(readyBar) = Len(published))'
      BY ReadyShapeNext
    <3>2. (Len(published))' = Len(published) + 1
      BY <2>1 DEF SpoolTyped, Files
    <3> QED
      BY <3>1, <3>2
  <2> QED
    BY <2>4, <2>5, <2>6, SeqEqual
<1>8. takenBar' = takenBar
  BY <1>0 DEF takenBar, EventsIn
<1> QED
  BY <1>4, <1>5, <1>7, <1>8 DEF Queue!SealBatch, readyBar, takenBar

\* The sync takes the oldest batch over.
LEMMA TakesHandsOver ==
  ASSUME SpoolTyped, Takes, SpoolTyped'
  PROVE  Queue!HandOver
<1>1. /\ DOMAIN published = 1 .. Len(published) /\ Len(published) \in Nat
      /\ DOMAIN published' = 1 .. Len(published) - 1 /\ 1 \in DOMAIN published
      /\ uploaded' = uploaded \cup {published[1]}
      /\ \A i \in DOMAIN published' : i + 1 \in DOMAIN published /\ published'[i] = published[i + 1]
  BY BatchesMove DEF SpoolMove, SpoolTyped, Files
<1>2. /\ readyBar \in Seq(SUBSET Nat) /\ Len(readyBar) = Len(published)
      /\ \A i \in DOMAIN published : readyBar[i] = EventsIn(published[i].lines)
  BY ReadyShape DEF Events
<1>3. readyBar # <<>> /\ Head(readyBar) = EventsIn(published[1].lines)
  BY <1>1, <1>2
<1>4. readyBar' = Tail(readyBar)
  <2>1. /\ Tail(readyBar) \in Seq(SUBSET Nat) /\ Len(Tail(readyBar)) = Len(published) - 1
        /\ \A i \in 1 .. Len(published) - 1 : Tail(readyBar)[i] = readyBar[i + 1]
    BY <1>1, <1>2
  <2>2. readyBar' \in Seq(SUBSET Nat) /\ Len(readyBar') = Len(published) - 1
    <3>1. (readyBar \in Seq(SUBSET Nat) /\ Len(readyBar) = Len(published))'
      BY ReadyShapeNext
    <3>2. (Len(published))' = Len(published) - 1
      BY <1>1 DEF Takes, SpoolTyped, Files
    <3> QED
      BY <3>1, <3>2
  <2>3. readyBar' = [i \in DOMAIN published' |-> EventsIn(published'[i].lines)]
    BY DEF readyBar, EventsIn
  <2>4. \A i \in 1 .. Len(published) - 1 : readyBar'[i] = Tail(readyBar)[i]
    BY <1>1, <1>2, <2>1, <2>3
  <2> QED
    BY <2>1, <2>2, <2>4, SeqEqual
<1>5. takenBar' = takenBar \cup Head(readyBar)
  <2>1. takenBar' = UNION {EventsIn(batch.lines) : batch \in uploaded'}
    BY DEF takenBar, EventsIn
  <2>2. takenBar' = takenBar \cup EventsIn(published[1].lines)
    BY <1>1, <2>1 DEF takenBar
  <2> QED
    BY <1>3, <2>2
<1>6. Collected' = Collected
  BY DEF Takes, Collected, EventsIn
<1> QED
  BY <1>3, <1>4, <1>5, <1>6 DEF Queue!HandOver, readyBar, takenBar

\* Nothing changes for the queue while the batches hold the same lines.
LEMMA SameQueue ==
  ASSUME /\ DOMAIN published' = DOMAIN published /\ UNCHANGED uploaded
         /\ \A i \in DOMAIN published : published'[i].lines = published[i].lines
  PROVE  UNCHANGED <<readyBar, takenBar>>
  BY DEF readyBar, takenBar, EventsIn

\* An event that is appended is collected, or in doubt.
LEMMA AppendsCollects ==
  ASSUME SpoolTyped, Waiting, Held, InEmissionOrder, Doomed, Appends
  PROVE  Queue!CollectEvent(Head(fifo)) \/ UNCHANGED <<Collected, readyBar, takenBar>>
<1>1. /\ building \in Directory /\ building' \in Directory /\ UNCHANGED <<published, uploaded>>
      /\ doubtful' \in {doubtful, doubtful \cup {Head(fifo)}}
  BY DEF Appends
<1>2. 1 \in DOMAIN fifo /\ Head(fifo) = fifo[1]
  BY DEF Appends, SpoolTyped, Fifo
<1>3. Head(fifo) \notin persisted
  BY <1>2 DEF Waiting
<1>4. Head(fifo) \notin EventsIn(building.lines) /\ Head(fifo) \notin doubtful
  BY <1>1, <1>3 DEF Held, Doomed
<1>5. Collected = EventsIn(building.lines) \ doubtful
      /\ Collected' = (EventsIn(building.lines) \cup {Head(fifo)}) \ doubtful'
  BY <1>1, AppendedEvents, NothingAssumption DEF Collected, EventsIn
<1>6. UNCHANGED <<readyBar, takenBar>>
  BY <1>1, SameQueue
<1>7. CASE doubtful' = doubtful \cup {Head(fifo)}
  BY <1>4, <1>5, <1>6, <1>7
<1>8. CASE doubtful' = doubtful
  <2>1. Collected' = Collected \cup {Head(fifo)}
    BY <1>4, <1>5, <1>8
  <2>2. \A earlier \in Collected \cup takenBar \cup (UNION {readyBar[i] : i \in DOMAIN readyBar}) : earlier < Head(fifo)
    BY <1>2, SeenIsPersisted DEF InEmissionOrder
  <2> QED
    BY <1>6, <2>1, <2>2 DEF Queue!CollectEvent, Queue!Seen, readyBar, takenBar
<1> QED
  BY <1>1, <1>7, <1>8

\* Every other step keeps what the active directory will publish.
LEMMA RestKeepsCollected ==
  ASSUME SpoolTyped, Undoubted, Removes \/ Creates \/ Touches \/ Recovers
  PROVE  Collected' = Collected
<1>1. CASE Removes
  <2>1. building' = Nothing /\ building.lines = <<>>
    BY <1>1 DEF Removes, SpoolTyped, Files
  <2> QED
    BY <2>1 DEF Collected, EventsIn, ToSet
<1>2. CASE Creates
  BY <1>2, NothingAssumption DEF Creates, Collected, EventsIn, ToSet
<1>3. CASE Touches
  BY <1>3, NothingAssumption DEF Touches, others, Collected, EventsIn
<1>4. CASE Recovers
  <2>1. building \in Directory /\ building' \in Directory /\ doubtful' = doubtful
    BY <1>4 DEF Recovers, others
  <2>2. EventsIn(building'.lines) \subseteq EventsIn(building.lines)
    BY <1>4, SetOfPrefix DEF Recovers, Directory, EventsIn
  <2>3. EventsIn(building.lines) \ doubtful \subseteq EventsIn(building'.lines)
    BY <1>4, RecoverKeeps
  <2> QED
    BY <2>1, <2>2, <2>3, NothingAssumption DEF Collected, EventsIn
<1> QED
  BY <1>1, <1>2, <1>3, <1>4

\* Each step of the spool is one of the queue, or none.
LEMMA QueueStep ==
  ASSUME SpoolInv, SpoolTyped', InEmissionOrder, Doomed, [SpoolNext]_spoolVars
  PROVE  Queue!QueueNext \/ UNCHANGED <<Collected, readyBar, takenBar>>
<1>0. SpoolTyped /\ AllReadyFits /\ Waiting /\ Held /\ Undoubted /\ SpoolMove
  BY SpoolMoves DEF SpoolInv, Keeping
<1>1. CASE Publishes
  BY <1>0, <1>1, PublishesSeals DEF Queue!QueueNext
<1>2. CASE Takes
  BY <1>0, <1>2, TakesHandsOver DEF Queue!QueueNext
<1>3. CASE Appends
  <2>1. Head(fifo) \in 1 .. MaxEvents
    BY <1>0, <1>3 DEF Appends, SpoolTyped, Fifo
  <2> QED
    BY <1>0, <1>3, <2>1, AppendsCollects DEF Queue!QueueNext
<1>4. CASE ~Publishes /\ ~Takes /\ ~Appends
  <2>1. UNCHANGED <<readyBar, takenBar>>
    BY <1>0, <1>4, BatchesMove, SameQueue
  <2>2. CASE UNCHANGED <<building, others>> \/ Binds
    BY <2>1, <2>2 DEF Binds, others, Collected, EventsIn
  <2>3. CASE Removes \/ Creates \/ Touches \/ Recovers
    BY <1>0, <2>1, <2>3, RestKeepsCollected
  <2> QED
    BY <1>0, <1>4, <2>2, <2>3 DEF SpoolMove
<1> QED
  BY <1>1, <1>2, <1>3, <1>4

\* The spool implements the queue: through torn lines, recoveries, failed seals, new targets and crashes
\* events are collected in the order of emission, published in whole batches and taken over in that
\* order; what was appended behind a torn line never turns up again (append, recover, seal,
\* list_ready_batches).
THEOREM LogImplementsQueue == SpoolSpec => ImplementsQueue
<1>1. SpoolInit => Queue!QueueInit
  <2> SUFFICES ASSUME SpoolInit PROVE Queue!QueueInit
    OBVIOUS
  <2>1. building = Nothing /\ published = <<>> /\ uploaded = {}
    BY DEF SpoolInit
  <2>2. readyBar = <<>> /\ Collected = {} /\ takenBar = {}
    BY <2>1 DEF readyBar, Collected, takenBar
  <2> QED
    BY <2>2 DEF Queue!QueueInit, readyBar, takenBar
<1>2. SpoolSpec => [](InEmissionOrder /\ Doomed)
  <2>1. SpoolInv /\ InEmissionOrder /\ Doomed /\ [SpoolNext]_spoolVars => InEmissionOrder' /\ Doomed'
    BY InEmissionOrderNext, DoomedNext DEF SpoolInv, Keeping
  <2> QED
    BY <2>1, QueueInvInit, LogSpoolInvariant, PTL DEF SpoolSpec
<1>3. SpoolInv /\ SpoolInv' /\ InEmissionOrder /\ Doomed /\ [SpoolNext]_spoolVars
        => [Queue!QueueNext]_<<Collected, readyBar, takenBar>>
  BY QueueStep DEF SpoolInv
<1> QED
  BY <1>1, <1>2, <1>3, LogSpoolInvariant, PTL
   DEF SpoolSpec, ImplementsQueue, Queue!QueueSpec, readyBar, takenBar

(***************************************************************************)
(* The upload: the invariant.                                              *)
(***************************************************************************)
HIDE SpoolAssumption DEF SpoolAssumption
USE SyncAssumption DEF SyncAssumption

\* A commit: its parent, its tree by batch, how many other batches it holds, and whether a sync made it.
Commit == [parent : Nat, tree : [Batch -> Content], extra : Nat, ours : BOOLEAN]

\* The shard of a month, in state/shards.
Shard == [branch : Branch, confirmed : BOOLEAN]

\* The clone of the remote.
Cached == [branch : Branch, head : {0} \cup Oid, state : {"ok", "unowned", "unmarked", "gutted"}]

\* A sync works on a group of batches, the one in its journal, from the choice of the tip to the
\* deletion.
Grouped == {"check_tip", "protect", "attempt", "prepare", "stage", "own", "clone", "unstage",
  "verify", "fit", "rotate", "drop_rotated", "commit", "mark_committed", "push", "check",
  "discard", "confirm", "receipts", "confirm_shard", "delete"}

\* Where a sync can be.
Place == {"list", "select", "journal", "more"} \cup Grouped

\* A sync that runs.
Running == [at : Place, local : BOOLEAN, found : Nat, todo : SUBSET Nat, retries : Nat]

\* The sync.
SyncTyped == sync \in {None} \cup Running

\* The spool.
QueueTyped ==
  /\ sealed \in 0 .. Batches /\ ready \subseteq 1 .. sealed
  /\ month \in 1 .. Months

\* While it does, the journal is there.
InHand == sync # None /\ sync.at \in Grouped => journal \in Journal

\* The shard and the journal: a group is never empty, and it is of sealed batches.
JournalTyped ==
  /\ shard \in {None} \cup Shard /\ journal \in {None} \cup Journal
  /\ journal \in Journal \/ At("journal") => shard \in Shard
  /\ journal # None => journal.group # {} /\ journal.group \subseteq 1 .. sealed
  /\ InHand
  /\ At("select") \/ At("journal") => journal = None

\* The tips of the remote.
RemoteTyped == remote \in [Branch -> Nat]

\* A commit is newer than its parent.
GitTyped ==
  /\ objects \in Seq(Commit)
  /\ \A oid \in Oid : objects[oid].parent < oid
  /\ remote \in [Branch -> 0 .. Len(objects)]
  /\ inflight \in {None} \cup [branch : Branch, oid : Oid]
  /\ rewrites \in Nat

\* The clone is there while the sync works in it, and the commit of a journal exists once the journal
\* has one.
CacheTyped ==
  /\ cache \in {None} \cup Cached
  /\ sync # None /\ sync.at \in {"unstage", "verify", "fit", "commit", "mark_committed", "push"} =>
       cache \in Cached
  /\ At("mark_committed") \/ At("push") => cache.head \in Oid
  /\ At("verify") /\ sync.local => journal.phase = "Committed" /\ cache.head = journal.oid
  /\ sync # None /\ sync.at \in {"prepare", "stage", "own", "clone", "unstage"} => ~sync.local
  /\ At("confirm") => sync.found \in Oid
  /\ At("receipts") => journal.phase = "RemoteConfirmed"
  /\ journal \in Journal /\ journal.phase # "Prepared" => journal.oid \in Oid

\* What the variables hold.
Typed == QueueTyped /\ SyncTyped /\ JournalTyped /\ GitTyped /\ CacheTyped

\* The batches a commit holds in full.
Has(oid) == {b \in Batch : Tree(oid)[b] = "same"}

\* The clone is a fresh checkout of a tip of the branch in the journal, with nothing added yet.
Fresh ==
  /\ sync # None
  /\ \/ sync.at \in {"unstage", "fit", "commit"}
     \/ sync.at = "verify" /\ ~sync.local

\* What a tip, a parent or a fresh checkout holds has been on the remote, and so has whatever the sync
\* has found there or has a receipt for.
Landed ==
  /\ \A br \in Branch : Has(remote[br]) \subseteq landed
  /\ \A oid \in Oid : Has(objects[oid].parent) \subseteq landed
  /\ Fresh => Has(cache.head) \subseteq landed
  /\ DOMAIN receipts = Batch
  /\ \A b \in Batch : receipts[b] # None => b \in landed
  /\ sync # None /\ sync.at \in {"check_tip", "confirm", "receipts", "confirm_shard", "delete"} =>
       journal.group \subseteq landed
  /\ At("receipts") => sync.todo \subseteq journal.group

\* The batches in the journal.
Group == IF journal = None THEN {} ELSE journal.group

\* A commit keeps the batches of its parent.
Monotone == \A oid \in Oid : Has(objects[oid].parent) \subseteq Has(oid)

\* What a commit holds was sealed, and is no longer in the spool unless it is in the journal.
Known == \A oid \in Oid : \A b \in Has(oid) : b <= sealed /\ (b \in ready => b \in Group)

\* A commit holds all of the group or nothing of it.
WholeGroup == \A oid \in Oid : Group \subseteq Has(oid) \/ Group \cap Has(oid) = {}

\* No batch is at two tips.
Apart == \A br, other \in Branch : br # other => Has(remote[br]) \cap Has(remote[other]) = {}

\* Nothing of the group is at a branch other than its own.
Elsewhere == \A br \in Branch : journal # None /\ br # journal.branch => Has(remote[br]) \cap Group = {}

\* The group fits on top of this commit.
Room(oid) == Size(oid) + Cardinality(journal.group) <= ShardCap

\* A push whose answer was lost may still arrive, and would be accepted.
Awaited == inflight # None /\ remote[inflight.branch] = objects[inflight.oid].parent

\* Then it brings nothing that another branch has, and of the group only to its branch and where it
\* fits.
Late ==
  /\ inflight # None => objects[inflight.oid].parent <= remote[inflight.branch]
  /\ Awaited =>
      /\ \A br \in Branch : br # inflight.branch => Has(remote[br]) \cap Has(inflight.oid) = {}
      /\ Has(inflight.oid) \cap Group # {} =>
            inflight.branch = journal.branch /\ Room(objects[inflight.oid].parent)

\* A commit of the group on top of a former or present tip of its branch.
Committed(oid) ==
  /\ oid \in Oid
  /\ Has(oid) = Has(objects[oid].parent) \cup journal.group
  /\ Room(objects[oid].parent)
  /\ objects[oid].parent <= remote[journal.branch]

\* The group is at the tip of its branch.
OnRemote == journal.group \subseteq Has(remote[journal.branch])

\* What the phase of the journal, and the place of the sync, says of the group.
Phases ==
  /\ journal # None /\ journal.phase \in {"RemoteConfirmed", "ReceiptDurable"} => OnRemote
  /\ journal # None /\ journal.phase = "Committed" => OnRemote \/ Committed(journal.oid)
  /\ At("confirm") => OnRemote
  /\ At("mark_committed") \/ At("push") => Committed(cache.head)

\* A fresh checkout is no newer than its branch, and no push still under way was built on a newer one.
Checkout ==
  Fresh =>
    /\ cache.head <= remote[journal.branch]
    /\ inflight # None /\ inflight.branch = journal.branch =>
         objects[inflight.oid].parent <= cache.head

\* A group is committed where it fits, and moved to another branch only when it cannot come to this
\* one.
Capacity ==
  /\ At("fit") /\ OnRemote => Fits
  /\ At("commit") => Fits
  /\ At("rotate") => /\ Has(remote[journal.branch]) \cap Group = {}
                     /\ Awaited => Has(inflight.oid) \cap Group = {}

\* Of the group, what is not deleted yet is still in the spool.
Deleting == At("delete") => sync.todo = journal.group \cap ready

\* Where nobody rewrites history, no batch is at two tips.
Copies ==
  /\ Monotone /\ Known /\ WholeGroup /\ Apart /\ Elsewhere /\ Late /\ Phases /\ Checkout /\ Capacity

\* The inductive invariant of the upload.
SyncInv == Typed /\ Landed /\ NothingIsLost /\ Deleting /\ (rewrites = 0 => Copies)

\* Who changes what.
LEMMA Changes ==
  ASSUME [Next]_vars
  PROVE  /\ UNCHANGED <<sealed, ready, month>> \/ Seal \/ NextMonth \/ DeleteSource \/ CutInside
         /\ UNCHANGED shard \/ SelectShard \/ FitShard \/ ConfirmShard
         /\ \/ UNCHANGED journal
            \/ WriteJournal \/ Protect \/ Verify \/ RotateJournal \/ MarkCommitted \/ CheckPush \/ Confirm
            \/ ReceiptsDurable \/ RemoveJournal
         /\ \/ UNCHANGED cache
            \/ RefreshCache \/ DropCache \/ CloneCache \/ DropRotated \/ CommitGroup \/ Discard
            \/ CutInside \/ PruneCache
         /\ UNCHANGED receipts \/ WriteReceipt \/ Foreign
         /\ UNCHANGED objects \/ CommitGroup \/ Foreign
         /\ UNCHANGED <<remote, landed>> \/ Push \/ LatePush \/ Foreign \/ Rewrite
         /\ UNCHANGED rewrites \/ Rewrite
         /\ UNCHANGED inflight \/ PushLost \/ LatePush
<1> USE DEF spool, state, local, git, faults
<1>1. CASE (\E manual \in BOOLEAN : Start(manual)) \/ SpoolCorrupt \/ NothingToDo \/ ListReady \/ CheckTip
  BY <1>1 DEF Start, SpoolCorrupt, NothingToDo, ListReady, CheckTip
<1>2. CASE SelectShard \/ WriteJournal \/ Protect \/ Attempt \/ RefreshCache \/ DropCache
  BY <1>2 DEF SelectShard, WriteJournal, Protect, Attempt, RefreshCache, DropCache
<1>3. CASE CreateStaging \/ OwnStaging \/ CloneCache \/ RemoveStaging \/ Verify
  BY <1>3 DEF CreateStaging, OwnStaging, CloneCache, RemoveStaging, Verify
<1>4. CASE FitShard \/ RotateJournal \/ DropRotated \/ CommitGroup \/ MarkCommitted
  BY <1>4 DEF FitShard, RotateJournal, DropRotated, CommitGroup, MarkCommitted
<1>5. CASE Push \/ CheckPush \/ Discard \/ Confirm \/ WriteReceipt
  BY <1>5 DEF Push, CheckPush, Discard, Confirm, WriteReceipt
<1>6. CASE ReceiptsDurable \/ ConfirmShard \/ DeleteSource \/ RemoveJournal \/ More
  BY <1>6 DEF ReceiptsDurable, ConfirmShard, DeleteSource, RemoveJournal, More
<1>7. CASE Cut \/ GitFails \/ PushLost \/ LatePush
  BY <1>7 DEF Cut, GitFails, PushLost, LatePush
<1>8. CASE CutInside
  BY <1>8 DEF CutInside, TearSource, TearCache, TearStaging
<1>9. CASE Seal \/ NextMonth \/ PruneCache \/ Foreign \/ Rewrite
  BY <1>9 DEF Seal, NextMonth, PruneCache, Foreign, LoseReceipt, Rewrite
<1>10. CASE UNCHANGED vars
  BY <1>10 DEF vars
<1> QED
  BY <1>1, <1>2, <1>3, <1>4, <1>5, <1>6, <1>7, <1>8, <1>9, <1>10 DEF Next, SyncStep

\* What a failed step leads to.
LEMMA FailedLeads ==
  ASSUME SyncTyped, sync # None, NEW result, Failed(result)
  PROVE  SyncTyped' /\ (sync' = None \/ sync'.at = "attempt")
<1>1. CASE sync' = None
  BY <1>1 DEF SyncTyped
<1>2. CASE sync' = [sync EXCEPT !.at = "attempt", !.retries = @ + 1]
  <2>1. sync \in Running
    BY DEF SyncTyped
  <2>2. "attempt" \in Place /\ sync.retries + 1 \in Nat
    BY <2>1 DEF Running, Place, Grouped
  <2>3. sync' \in Running /\ sync'.at = "attempt"
    BY <1>2, <2>1, <2>2 DEF Running
  <2> QED
    BY <2>3 DEF SyncTyped
<1> QED
  BY <1>1, <1>2 DEF Failed, End

\* Where each step of a sync leads to.
Moves ==
  \/ At("list")' /\ sync = None
  \/ ListReady /\ At("list") /\ sync'.at \in {"select", "check_tip", "protect"}
  \/ CheckTip /\ At("check_tip") /\ sync'.at \in {"confirm_shard"}
  \/ SelectShard /\ At("select") /\ sync'.at \in {"journal"}
  \/ WriteJournal /\ At("journal") /\ sync'.at \in {"protect"}
  \/ Protect /\ At("protect") /\ sync'.at \in {"attempt"}
  \/ Attempt /\ At("attempt") /\ sync'.at \in {"verify", "prepare", "attempt"}
  \/ RefreshCache /\ At("prepare") /\ sync'.at \in {"verify", "attempt"}
  \/ DropCache /\ At("prepare") /\ sync'.at \in {"stage"}
  \/ CreateStaging /\ At("stage") /\ sync'.at \in {"own", "attempt"}
  \/ OwnStaging /\ At("own") /\ sync'.at \in {"clone"}
  \/ CloneCache /\ At("clone") /\ sync'.at \in {"unstage"}
  \/ RemoveStaging /\ At("unstage") /\ sync'.at \in {"verify"}
  \/ Verify /\ At("verify") /\ sync'.at \in {"confirm", "push", "fit"}
  \/ FitShard /\ At("fit") /\ sync'.at \in {"commit", "rotate"}
  \/ RotateJournal /\ At("rotate") /\ sync'.at \in {"drop_rotated"}
  \/ DropRotated /\ At("drop_rotated") /\ sync'.at \in {"attempt"}
  \/ CommitGroup /\ At("commit") /\ sync'.at \in {"attempt", "mark_committed"}
  \/ MarkCommitted /\ At("mark_committed") /\ sync'.at \in {"push"}
  \/ Push /\ At("push") /\ sync'.at \in {"check"}
  \/ PushLost /\ At("push") /\ sync'.at \in {"check"}
  \/ CheckPush /\ At("check") /\ sync'.at \in {"confirm", "discard", "attempt"}
  \/ Discard /\ At("discard") /\ sync'.at \in {"attempt"}
  \/ Confirm /\ At("confirm") /\ sync'.at \in {"receipts"}
  \/ WriteReceipt /\ At("receipts") /\ sync'.at \in {"receipts"}
  \/ ReceiptsDurable /\ At("receipts") /\ sync'.at \in {"confirm_shard"}
  \/ ConfirmShard /\ At("confirm_shard") /\ sync'.at \in {"delete"}
  \/ DeleteSource /\ At("delete") /\ sync'.at \in {"delete"}
  \/ RemoveJournal /\ At("delete") /\ sync'.at \in {"more"}
  \/ More /\ At("more") /\ sync'.at \in {"list"}
  \/ GitFails /\ At("attempt")' /\ sync # None
       /\ sync.at \in {"prepare", "clone", "verify", "commit", "check"}

\* Every step is one of them, for the sync.
LEMMA SyncMoves ==
  ASSUME SyncTyped, InHand, RemoteTyped, [Next]_vars
  PROVE  SyncTyped' /\ (sync' \in {None, sync} \/ Moves)
<1> USE DEF SyncTyped, Running, Place, Grouped, At, Go, End
<1>0. CASE UNCHANGED <<vars>>
  BY <1>0 DEF vars
<1>1. ASSUME NEW manual \in BOOLEAN, Start(manual)
      PROVE  SyncTyped' /\ (sync' \in {None, sync} \/ Moves)
  BY <1>1 DEF Start, Moves
<1>2. CASE SpoolCorrupt
  BY <1>2 DEF SpoolCorrupt, Moves
<1>3. CASE NothingToDo
  BY <1>3 DEF NothingToDo, Moves
<1>4. CASE ListReady
  BY <1>4 DEF ListReady, Moves
<1>5. CASE CheckTip
  BY <1>5 DEF CheckTip, Moves
<1>6. CASE SelectShard
  BY <1>6 DEF SelectShard, Moves
<1>7. CASE WriteJournal
  BY <1>7 DEF WriteJournal, Moves
<1>8. CASE Protect
  BY <1>8 DEF Protect, Moves
<1>9. CASE Attempt
  <2>1. (LocalCommit = TRUE) \/ (LocalCommit = FALSE)
    BY DEF LocalCommit
  <2>2. \/ sync' = None
        \/ Failed("io")
        \/ sync' = [sync EXCEPT !.at = "verify", !.local = TRUE]
        \/ sync' = [sync EXCEPT !.at = "prepare", !.local = FALSE]
    BY <1>9, <2>1, Zenon DEF Attempt
  <2>3. CASE Failed("io")
    <3>1. SyncTyped' /\ (sync' = None \/ sync'.at = "attempt")
      BY <1>9, <2>3, FailedLeads DEF Attempt
    <3> QED
      BY <1>9, <3>1 DEF Attempt, Moves
  <2> QED
    BY <1>9, <2>2, <2>3 DEF Attempt, Moves
<1>10. CASE RefreshCache
  <2>1. CASE Failed("git")
    <3>1. SyncTyped' /\ (sync' = None \/ sync'.at = "attempt")
      BY <1>10, <2>1, FailedLeads DEF RefreshCache
    <3> QED
      BY <1>10, <3>1 DEF RefreshCache, Moves
  <2> QED
    BY <1>10, <2>1 DEF RefreshCache, Moves
<1>11. CASE DropCache
  BY <1>11 DEF DropCache, Moves
<1>12. CASE CreateStaging
  <2>1. CASE Failed("io")
    <3>1. SyncTyped' /\ (sync' = None \/ sync'.at = "attempt")
      BY <1>12, <2>1, FailedLeads DEF CreateStaging
    <3> QED
      BY <1>12, <3>1 DEF CreateStaging, Moves
  <2> QED
    BY <1>12, <2>1 DEF CreateStaging, Moves
<1>13. CASE OwnStaging
  BY <1>13 DEF OwnStaging, Moves
<1>14. CASE CloneCache
  BY <1>14 DEF CloneCache, Moves
<1>15. CASE RemoveStaging
  BY <1>15 DEF RemoveStaging, Moves
<1>16. CASE Verify
  <2>1. remote[journal.branch] \in Nat
    BY <1>16 DEF Verify, InHand, RemoteTyped, Journal
  <2>2. \/ sync' = [sync EXCEPT !.at = "confirm", !.found = remote[journal.branch]]
        \/ sync' = None
        \/ sync' = [sync EXCEPT !.at = "push"]
        \/ sync' = [sync EXCEPT !.at = "fit"]
    BY <1>16, Zenon DEF Verify
  <2>3. sync \in Running /\ sync # None /\ sync.at = "verify"
    BY <1>16 DEF Verify
  <2>5. sync'.at \in {"confirm", "push", "fit"} => Moves
    BY <1>16, <2>3, Zenon DEF Moves
  <2>c. CASE sync' = [sync EXCEPT !.at = "confirm", !.found = remote[journal.branch]]
    <3>1. sync' \in Running /\ sync'.at = "confirm"
      BY <2>1, <2>3, <2>c
    <3> QED
      BY <3>1, <2>5
  <2>g. ASSUME NEW place \in {"push", "fit"}, sync' = [sync EXCEPT !.at = place]
        PROVE  SyncTyped' /\ (sync' \in {None, sync} \/ Moves)
    <3>1. sync' \in Running /\ sync'.at = place
      BY <2>3, <2>g
    <3> QED
      BY <3>1, <2>5
  <2> QED
    BY <2>2, <2>c, <2>g
<1>17. CASE FitShard
  BY <1>17 DEF FitShard, Moves
<1>18. CASE RotateJournal
  BY <1>18 DEF RotateJournal, Moves
<1>19. CASE DropRotated
  BY <1>19 DEF DropRotated, Moves
<1>20. CASE CommitGroup
  <2>1. CASE Failed("git")
    <3>1. SyncTyped' /\ (sync' = None \/ sync'.at = "attempt")
      BY <1>20, <2>1, FailedLeads DEF CommitGroup
    <3> QED
      BY <1>20, <3>1 DEF CommitGroup, Moves
  <2>2. CASE ~Failed("git")
    <3>1. sync \in Running /\ sync # None /\ sync.at = "commit" /\ sync' = [sync EXCEPT !.at = "mark_committed"]
      BY <1>20, <2>2 DEF CommitGroup
    <3>2. sync' \in Running /\ sync'.at = "mark_committed"
      BY <3>1
    <3> QED
      BY <1>20, <3>1, <3>2, Zenon DEF Moves
  <2> QED
    BY <2>1, <2>2
<1>21. CASE MarkCommitted
  BY <1>21 DEF MarkCommitted, Moves
<1>22. CASE Push
  BY <1>22 DEF Push, Moves
<1>23. CASE CheckPush
  <2>1. CASE Failed("git")
    <3>1. SyncTyped' /\ (sync' = None \/ sync'.at = "attempt")
      BY <1>23, <2>1, FailedLeads DEF CheckPush
    <3> QED
      BY <1>23, <3>1 DEF CheckPush, Moves
  <2>2. remote[journal.branch] \in Nat
    BY <1>23 DEF CheckPush, InHand, RemoteTyped, Journal
  <2>3. sync \in Running /\ sync # None /\ sync.at = "check"
    BY <1>23 DEF CheckPush
  <2>4. \/ sync' = None \/ Failed("git") \/ sync' = [sync EXCEPT !.at = "discard"]
        \/ sync' = [sync EXCEPT !.at = "confirm", !.found = remote[journal.branch]]
    BY <1>23, Zenon DEF CheckPush
  <2>5. sync'.at \in {"confirm", "discard"} => Moves
    BY <1>23, <2>3, Zenon DEF Moves
  <2>6. CASE sync' = [sync EXCEPT !.at = "discard"]
    <3>1. sync' \in Running /\ sync'.at = "discard"
      BY <2>3, <2>6
    <3> QED
      BY <2>5, <3>1
  <2>7. CASE sync' = [sync EXCEPT !.at = "confirm", !.found = remote[journal.branch]]
    <3>1. sync' \in Running /\ sync'.at = "confirm"
      BY <2>2, <2>3, <2>7
    <3> QED
      BY <2>5, <3>1
  <2> QED
    BY <2>1, <2>4, <2>6, <2>7
<1>24. CASE Discard
  <2>1. CASE Failed("git")
    <3>1. SyncTyped' /\ (sync' = None \/ sync'.at = "attempt")
      BY <1>24, <2>1, FailedLeads DEF Discard
    <3> QED
      BY <1>24, <3>1 DEF Discard, Moves
  <2> QED
    BY <1>24, <2>1 DEF Discard, Moves
<1>25. CASE Confirm
  <2>1. journal.group \in SUBSET Nat /\ journal.group \cap ready \in SUBSET Nat
    BY <1>25 DEF Confirm, InHand, Journal, Batch
  <2> QED
    BY <1>25, <2>1 DEF Confirm, Moves
<1>26. CASE WriteReceipt
  BY <1>26 DEF WriteReceipt, Moves
<1>27. CASE ReceiptsDurable
  BY <1>27 DEF ReceiptsDurable, Moves
<1>28. CASE ConfirmShard
  <2>1. journal.group \in SUBSET Nat /\ journal.group \cap ready \in SUBSET Nat
    BY <1>28 DEF ConfirmShard, InHand, Journal, Batch
  <2>2. sync \in Running /\ sync # None /\ sync.at = "confirm_shard"
    BY <1>28 DEF ConfirmShard
  <2>3. sync' = None \/ sync' = [sync EXCEPT !.at = "delete", !.todo = journal.group \cap ready]
    BY <1>28, Zenon DEF ConfirmShard
  <2>4. CASE sync' = [sync EXCEPT !.at = "delete", !.todo = journal.group \cap ready]
    <3>1. sync' \in Running /\ sync'.at = "delete"
      BY <2>1, <2>2, <2>4
    <3> QED
      BY <1>28, <2>2, <3>1, Zenon DEF Moves
  <2> QED
    BY <2>3, <2>4
<1>29. CASE DeleteSource
  BY <1>29 DEF DeleteSource, Moves
<1>30. CASE RemoveJournal
  BY <1>30 DEF RemoveJournal, Moves
<1>31. CASE More
  BY <1>31 DEF More, Moves
<1>32. CASE PushLost
  BY <1>32 DEF PushLost, Moves
<1>33. CASE Cut
  BY <1>33 DEF Cut, Moves
<1>34. CASE GitFails
  <2>1. CASE \E where \in {"select", "check_tip", "protect"} : At(where) /\ End("git")
    BY <2>1
  <2>2. CASE /\ Failed("git")
             /\ \E where \in {"prepare", "clone", "verify", "commit", "check"} : At(where)
    <3>1. SyncTyped' /\ (sync' = None \/ sync'.at = "attempt")
      BY <2>2, FailedLeads
    <3> QED
      BY <1>34, <2>2, <3>1 DEF Moves
  <2> QED
    BY <1>34, <2>1, <2>2 DEF GitFails
<1>35. CASE CutInside
  BY <1>35 DEF CutInside, Moves
<1>36. CASE LatePush
  BY <1>36 DEF LatePush, Moves
<1>37. CASE Seal
  BY <1>37 DEF Seal, Moves
<1>38. CASE NextMonth
  BY <1>38 DEF NextMonth, Moves
<1>39. CASE PruneCache
  BY <1>39 DEF PruneCache, Moves
<1>40. CASE Foreign
  BY <1>40 DEF Foreign, Moves
<1>41. CASE Rewrite
  BY <1>41 DEF Rewrite, Moves
<1> QED
  BY <1>0, <1>1, <1>2, <1>3, <1>4, <1>5, <1>6, <1>7, <1>8, <1>9, <1>10, <1>11, <1>12, <1>13, <1>14, <1>15,
     <1>16, <1>17, <1>18, <1>19, <1>20, <1>21, <1>22, <1>23, <1>24, <1>25, <1>26, <1>27, <1>28, <1>29,
     <1>30, <1>31, <1>32, <1>33, <1>34, <1>35, <1>36, <1>37, <1>38, <1>39, <1>40, <1>41 DEF Next, SyncStep,
     vars

\* That much of GitTyped is all that the sync needs.
LEMMA RemoteIsTyped ==
  ASSUME GitTyped
  PROVE  RemoteTyped
  BY DEF GitTyped, RemoteTyped

\* Every step keeps QueueTyped.
LEMMA QueueNext ==
  ASSUME QueueTyped, [Next]_vars
  PROVE  QueueTyped' /\ sealed <= sealed'
<1>1. CASE UNCHANGED <<sealed, ready, month>>
  BY <1>1 DEF QueueTyped
<1>2. CASE Seal
  BY <1>2 DEF QueueTyped, Seal
<1>3. CASE NextMonth
  BY <1>3 DEF QueueTyped, NextMonth
<1>4. CASE DeleteSource
  BY <1>4 DEF QueueTyped, DeleteSource
<1>5. CASE CutInside
  BY <1>5 DEF QueueTyped, CutInside, TearSource, TearCache, TearStaging, spool
<1> QED
  BY <1>1, <1>2, <1>3, <1>4, <1>5, Changes

\* Min of a set of numbers is one of them.
LEMMA MinIn ==
  ASSUME NEW S, S \subseteq Nat, S # {}
  PROVE  Min(S) \in S
<1>1. PICK n \in S : \A m \in S : <<m, n>> \notin OpToRel(<, Nat)
  BY NatLessThanWellFounded, WFMin
<1>2. \A m \in S : n <= m
  <2>1. \A m \in Nat : m < n => <<m, n>> \in OpToRel(<, Nat)
    BY DEF OpToRel
  <2>2. \A m \in S : ~(m < n)
    BY <1>1, <2>1, Zenon
  <2> QED
    BY <2>2
<1>3. \E x \in S : \A y \in S : x =< y
  BY <1>2
<1> QED
  BY <1>3 DEF Min

\* latest_shard: the index of a shard is a month's index.
LEMMA LatestIsIndex == LatestIndex \in 1 .. MaxIndex
<1> DEFINE found == {i \in 1 .. MaxIndex : Exists(<<month, i>>)}
<1>1. found \subseteq 0 .. MaxIndex /\ MaxIndex \in Nat
  OBVIOUS
<1>2. found # {} => Max(found) \in found
  BY <1>1, GreatestIsIn
<1> QED
  BY <1>2 DEF LatestIndex

\* Every step keeps the shard.
LEMMA ShardNext ==
  ASSUME JournalTyped, SyncTyped, RemoteTyped, QueueTyped, [Next]_vars
  PROVE  /\ shard' \in {None} \cup Shard
         /\ shard \in Shard => shard' \in Shard
         /\ At("journal")' => shard' \in Shard
<1>1. CASE UNCHANGED shard /\ ~SelectShard
  BY <1>1, SyncMoves, SyncTyped DEF JournalTyped, Moves, At
<1>2. CASE SelectShard
  <2>1. <<month, LatestIndex>> \in Branch
    BY LatestIsIndex DEF QueueTyped, Branch
  <2>2. CASE shard # None /\ shard.branch[1] = month
    BY <1>2, <2>2 DEF SelectShard, JournalTyped
  <2>3. CASE ~(shard # None /\ shard.branch[1] = month)
    <3>1. \/ (LatestIndex > 1 \/ Exists(<<month, LatestIndex>>)) = TRUE
          \/ (LatestIndex > 1 \/ Exists(<<month, LatestIndex>>)) = FALSE
      BY Zenon
    <3>2. \E c \in BOOLEAN : shard' = [branch |-> <<month, LatestIndex>>, confirmed |-> c]
      BY <1>2, <2>3, <3>1, Zenon DEF SelectShard
    <3> QED
      BY <2>1, <3>2 DEF Shard
  <2> QED
    BY <2>2, <2>3
<1>3. CASE FitShard
  <2>0. shard \in Shard
    BY <1>3 DEF FitShard, JournalTyped, InHand, At, Grouped
  <2>1. CASE UNCHANGED shard
    BY <2>0, <2>1
  <2>2. CASE shard' = [branch |-> NextShard, confirmed |-> FALSE] /\ shard.branch[2] < MaxIndex
    <3>1. shard.branch \in Branch
      BY <2>0 DEF Shard
    <3>2. NextShard \in Branch
      BY <2>2, <3>1 DEF NextShard, Branch
    <3> QED
      BY <2>2, <3>2 DEF Shard
  <2> QED
    BY <1>3, <2>1, <2>2 DEF FitShard
<1>4. CASE ConfirmShard
  <2>1. shard \in Shard
    BY <1>4 DEF ConfirmShard, JournalTyped, InHand, At, Grouped
  <2> QED
    BY <1>4, <2>1 DEF ConfirmShard, Shard
<1> QED
  BY <1>1, <1>2, <1>3, <1>4, Changes

\* The journal keeps its group from the first write to the removal.
LEMMA JournalKept ==
  ASSUME Typed, [Next]_vars
  PROVE  /\ journal' \in {None} \cup Journal
         /\ journal \in Journal /\ ~RemoveJournal => journal' \in Journal
         /\ WriteJournal => /\ journal' \in Journal
                            /\ journal'.group # {} /\ journal'.group \subseteq 1 .. sealed
         /\ journal \in Journal /\ journal' \in Journal /\ ~WriteJournal =>
              journal'.group = journal.group
<1> USE DEF Journal, Phase
<1>1. CASE UNCHANGED journal /\ ~WriteJournal
  BY <1>1 DEF Typed, JournalTyped
<1>2. CASE WriteJournal
  <2>1. PICK g \in Groups :
          journal' = [group |-> g, branch |-> shard.branch, phase |-> "Prepared", oid |-> 0]
    BY <1>2 DEF WriteJournal
  <2>2. g # {} /\ g \subseteq 1 .. sealed /\ g \subseteq Batch
    <3>1. g # {} /\ g \subseteq ready
      BY DEF Groups
    <3>2. ready \subseteq 1 .. sealed /\ sealed \in 0 .. Batches
      BY DEF Typed, QueueTyped
    <3>3. 1 .. sealed \subseteq Batch
      BY <3>2 DEF Batch
    <3> QED
      BY <3>1, <3>2, <3>3
  <2>3. shard.branch \in Branch
    BY <1>2 DEF WriteJournal, Typed, JournalTyped, Shard
  <2>4. journal = None
    BY <1>2 DEF WriteJournal, Typed, JournalTyped
  <2>5. journal' \in Journal /\ journal'.group = g
    BY <2>1, <2>2, <2>3
  <2> QED
    BY <1>2, <2>2, <2>4, <2>5, NoneAssumption
<1>3. ASSUME At("protect") \/ At("verify") \/ At("rotate") \/ At("mark_committed") \/ At("check")
             \/ At("confirm") \/ At("receipts") \/ At("delete")
      PROVE  journal \in Journal
  BY <1>3 DEF Typed, JournalTyped, InHand, At, Grouped
<1>4. CASE Protect
  BY <1>3, <1>4 DEF Protect, Write, At, WriteJournal
<1>5. CASE Verify
  <2>1. journal' \in {journal, BackToPrepared}
    BY <1>5 DEF Verify
  <2>2. journal \in Journal
    BY <1>3, <1>5 DEF Verify
  <2>3. ~WriteJournal
    BY <1>5 DEF Verify, WriteJournal, At
  <2>4. BackToPrepared \in Journal /\ BackToPrepared.group = journal.group
    BY <2>2 DEF BackToPrepared
  <2> QED
    BY <2>1, <2>2, <2>3, <2>4
<1>6. CASE RotateJournal
  <2>1. shard.branch \in Branch
    BY <1>3, <1>6 DEF RotateJournal, Typed, JournalTyped, Shard
  <2> QED
    BY <1>3, <1>6, <2>1 DEF RotateJournal, BackToPrepared, At, WriteJournal
<1>7. CASE MarkCommitted
  <2>1. cache.head \in Nat
    BY <1>7 DEF MarkCommitted, Typed, CacheTyped, Oid
  <2> QED
    BY <1>3, <1>7, <2>1 DEF MarkCommitted, At, WriteJournal
<1>8. CASE CheckPush
  <2>1. journal' \in {journal, BackToPrepared}
    BY <1>8 DEF CheckPush
  <2>2. journal \in Journal
    BY <1>3, <1>8 DEF CheckPush
  <2>3. ~WriteJournal
    BY <1>8 DEF CheckPush, WriteJournal, At
  <2>4. BackToPrepared \in Journal /\ BackToPrepared.group = journal.group
    BY <2>2 DEF BackToPrepared
  <2> QED
    BY <2>1, <2>2, <2>3, <2>4
<1>9. CASE Confirm
  <2>1. sync.found \in Nat
    BY <1>9 DEF Confirm, Typed, SyncTyped, Running, At
  <2> QED
    BY <1>3, <1>9, <2>1 DEF Confirm, At, WriteJournal
<1>10. CASE ReceiptsDurable
  BY <1>3, <1>10 DEF ReceiptsDurable, Write, At, WriteJournal
<1>11. CASE RemoveJournal
  BY <1>3, <1>11, NoneAssumption DEF RemoveJournal, At, WriteJournal
<1> QED
  BY <1>1, <1>2, <1>4, <1>5, <1>6, <1>7, <1>8, <1>9, <1>10, <1>11, Changes

\* Every step keeps JournalTyped.
LEMMA JournalNext ==
  ASSUME Typed, [Next]_vars
  PROVE  JournalTyped'
<1>1. QueueTyped /\ SyncTyped /\ JournalTyped /\ RemoteTyped /\ InHand
  BY RemoteIsTyped DEF Typed, JournalTyped
<1>2. shard' \in {None} \cup Shard /\ journal' \in {None} \cup Journal
  BY <1>1, ShardNext, JournalKept
<1>3. journal' \in Journal \/ At("journal")' => shard' \in Shard
  <2>1. CASE journal \in Journal
    BY <1>1, <2>1, ShardNext DEF JournalTyped
  <2>2. CASE WriteJournal
    BY <1>1, <2>2, ShardNext DEF WriteJournal, JournalTyped
  <2>3. CASE journal' = journal
    BY <1>1, <2>3, ShardNext DEF JournalTyped
  <2> QED
    BY <1>1, <2>1, <2>2, <2>3, Changes, NoneAssumption
       DEF JournalTyped, InHand, Protect, Verify, RotateJournal, MarkCommitted, CheckPush, Confirm,
           ReceiptsDurable, RemoveJournal, At, Grouped
<1>4. journal' # None => journal'.group # {} /\ journal'.group \subseteq 1 .. sealed'
  <2>1. 1 .. sealed \subseteq 1 .. sealed'
    BY <1>1, QueueNext DEF QueueTyped
  <2>2. CASE WriteJournal
    BY <2>1, <2>2, JournalKept
  <2>3. CASE journal = None /\ ~WriteJournal
    BY <1>1, <2>3, Changes, NoneAssumption
       DEF InHand, Protect, Verify, RotateJournal, MarkCommitted, CheckPush, Confirm,
           ReceiptsDurable, RemoveJournal, At, Grouped
  <2>4. CASE journal \in Journal /\ ~WriteJournal
    BY <1>1, <2>1, <2>4, JournalKept, NoneAssumption DEF JournalTyped
  <2> QED
    BY <1>1, <2>2, <2>3, <2>4 DEF JournalTyped
<1>5. InHand'
  <2>1. RemoveJournal => sync'.at = "more"
    BY <1>1 DEF RemoveJournal, Go, SyncTyped, Running, At
  <2>2. CASE journal \in Journal
    BY <2>1, <2>2, JournalKept DEF InHand, Grouped
  <2>3. CASE WriteJournal
    BY <2>3, JournalKept DEF InHand
  <2>4. CASE journal = None /\ ~WriteJournal
    <3>1. ListReady => sync'.at = "select" \/ sync' = None
      BY <1>1, <2>4 DEF ListReady, Go, SyncTyped, Running, At
    <3> QED
      BY <1>1, <2>4, <3>1, SyncMoves, NoneAssumption DEF Moves, InHand, At, Grouped
  <2> QED
    BY <1>1, <2>2, <2>3, <2>4 DEF JournalTyped
<1>6. At("select")' \/ At("journal")' => journal' = None
  <2>1. SUFFICES ASSUME At("select")' \/ At("journal")'
                 PROVE  journal' = None
    OBVIOUS
  <2>2. CASE sync' = sync
    BY <1>1, <2>1, <2>2, Changes
       DEF JournalTyped, At, WriteJournal, Protect, Verify, RotateJournal, MarkCommitted, CheckPush,
           Confirm, ReceiptsDurable, RemoveJournal, Go, SyncTyped, Running
  <2>3. CASE ListReady
    <3>1. \/ journal = None
          \/ sync' = None
          \/ sync'.at \in {"check_tip", "protect"}
      BY <1>1, <2>3 DEF ListReady, At, Go, End, SyncTyped, Running
    <3>2. journal' = journal
      BY <2>3 DEF ListReady, state
    <3> QED
      BY <2>1, <3>1, <3>2 DEF At
  <2>4. CASE SelectShard
    BY <1>1, <2>4 DEF SelectShard, JournalTyped
  <2> QED
    BY <1>1, <2>1, <2>2, <2>3, <2>4, SyncMoves DEF Moves, At
<1> QED
  BY <1>2, <1>3, <1>4, <1>5, <1>6 DEF JournalTyped

\* The group on top of the checkout is a commit.
LEMMA AppliedIsCommit ==
  ASSUME Typed, At("commit")
  PROVE  Applied \in Commit /\ Applied.parent = cache.head /\ cache.head \in 0 .. Len(objects)
<1>1. cache \in Cached /\ journal \in Journal /\ objects \in Seq(Commit)
  BY DEF Typed, CacheTyped, JournalTyped, InHand, GitTyped, At, Grouped
<1>2. cache.head \in {0} \cup Oid
  BY <1>1 DEF Cached
<1>3. cache.head # 0 => objects[cache.head] \in Commit
  BY <1>1, <1>2 DEF Oid
<1>4. [b \in Batch |-> IF b \in journal.group THEN "same" ELSE Tree(cache.head)[b]]
        \in [Batch -> Content]
  BY <1>2, <1>3 DEF Tree, Commit, Content
<1>5. (IF cache.head = 0 THEN 0 ELSE objects[cache.head].extra) \in Nat
  BY <1>2, <1>3 DEF Commit
<1> QED
  BY <1>1, <1>2, <1>4, <1>5 DEF Applied, Commit, Oid

\* A foreign commit keeps the batches of the tip.
LEMMA ForeignAppends ==
  ASSUME Typed, NEW br \in Branch, ForeignCommit(br)
  PROVE  /\ remote[br] \in Oid
         /\ \E c \in Commit :
              /\ objects' = Append(objects, c)
              /\ c.parent = remote[br] /\ c.parent <= Len(objects)
              /\ \A b \in Batch : c.tree[b] = "same" <=> objects[remote[br]].tree[b] = "same"
<1> DEFINE d == objects[remote[br]]
           Appended(c) == /\ objects' = Append(objects, c)
                         /\ c.parent = remote[br] /\ c.parent <= Len(objects)
                         /\ \A b \in Batch : c.tree[b] = "same" <=> d.tree[b] = "same"
<1>1. remote[br] # 0 /\ remote[br] \in 0 .. Len(objects) /\ objects \in Seq(Commit)
  BY DEF ForeignCommit, Exists, Typed, GitTyped
<1>2. remote[br] \in Nat /\ remote[br] <= Len(objects) /\ remote[br] \in Oid /\ d \in Commit
  BY <1>1 DEF Oid
<1> HIDE DEF d
<1>3. CASE objects' = Append(objects, [d EXCEPT !.parent = remote[br], !.extra = @ + 1, !.ours = FALSE])
  <2> DEFINE c == [d EXCEPT !.parent = remote[br], !.extra = @ + 1, !.ours = FALSE]
  <2>1. d.extra + 1 \in Nat
    BY <1>2 DEF Commit
  <2>2. c \in Commit
    BY <1>2, <2>1 DEF Commit
  <2>3. c.parent = remote[br] /\ c.tree = d.tree
    BY <1>2 DEF Commit
  <2>4. objects' = Append(objects, c)
    BY <1>3
  <2> HIDE DEF c
  <2> QED
    BY <1>2, <2>2, <2>3, <2>4 DEF d
<1>4. ASSUME NEW b \in Batch, Tip(br)[b] = "absent",
             objects' = Append(objects, [d EXCEPT !.parent = remote[br], !.tree[b] = "different", !.ours = FALSE])
      PROVE  \E c \in Commit : Appended(c)
  <2> DEFINE c == [d EXCEPT !.parent = remote[br], !.tree[b] = "different", !.ours = FALSE]
  <2>1. [d.tree EXCEPT ![b] = "different"] \in [Batch -> Content]
    BY <1>2 DEF Commit, Content
  <2>2. c \in Commit
    BY <1>2, <2>1 DEF Commit
  <2>3. c.parent = remote[br] /\ c.tree = [d.tree EXCEPT ![b] = "different"]
    BY <1>2 DEF Commit
  <2>4. objects' = Append(objects, c)
    BY <1>4
  <2>5. d.tree[b] # "same" /\ d.tree \in [Batch -> Content]
    BY <1>1, <1>2, <1>4 DEF Tip, Tree, d, Commit
  <2> HIDE DEF c
  <2>6. Appended(c)
    BY <1>2, <2>3, <2>4, <2>5
  <2> QED
    BY <2>2, <2>6
<1> QED
  BY <1>2, <1>3, <1>4 DEF ForeignCommit, d

\* A step adds a commit or none.
LEMMA NewCommit ==
  ASSUME Typed, [Next]_vars
  PROVE  \/ objects' = objects
         \/ \E c \in Commit : c.parent <= Len(objects) /\ objects' = Append(objects, c)
<1>1. CASE CommitGroup
  BY <1>1, AppliedIsCommit DEF CommitGroup
<1>2. CASE Foreign
  <2>1. CASE UNCHANGED objects
    BY <2>1
  <2>2. ASSUME NEW br \in Branch, ForeignCommit(br)
        PROVE  \E c \in Commit : c.parent <= Len(objects) /\ objects' = Append(objects, c)
    BY <2>2, ForeignAppends
  <2> QED
    BY <1>2, <2>1, <2>2 DEF Foreign, git
<1> QED
  BY <1>1, <1>2, Changes

\* Commits are added and never changed.
LEMMA ObjectsNext ==
  ASSUME Typed, [Next]_vars
  PROVE  /\ objects' \in Seq(Commit) /\ Len(objects) <= Len(objects')
         /\ \A oid \in Oid : objects'[oid] = objects[oid]
         /\ \A oid \in Oid' : objects'[oid].parent < oid
<1> USE DEF Typed, GitTyped, Oid
<1>1. CASE objects' = objects
  BY <1>1
<1>2. ASSUME NEW c \in Commit, c.parent <= Len(objects), objects' = Append(objects, c)
      PROVE  /\ objects' \in Seq(Commit) /\ Len(objects) <= Len(objects')
             /\ \A oid \in Oid : objects'[oid] = objects[oid]
             /\ \A oid \in Oid' : objects'[oid].parent < oid
  <2>1. Len(objects') = Len(objects) + 1 /\ objects'[Len(objects) + 1] = c
    BY <1>2
  <2>2. c.parent \in Nat
    BY DEF Commit
  <2>3. \A oid \in Oid : objects'[oid] = objects[oid]
    BY <1>2
  <2> QED
    BY <1>2, <2>1, <2>2, <2>3
<1> QED
  BY <1>1, <1>2, NewCommit

\* What a commit holds does not change.
LEMMA TreesStay ==
  ASSUME Typed, [Next]_vars, NEW oid \in {0} \cup Oid
  PROVE  Tree(oid)' = Tree(oid) /\ Has(oid)' = Has(oid) /\ Size(oid)' = Size(oid)
<1>1. oid # 0 => objects'[oid] = objects[oid]
  BY ObjectsNext
<1>2. Tree(oid)' = Tree(oid)
  BY <1>1 DEF Tree
<1> QED
  BY <1>1, <1>2 DEF Has, Size

\* Every step keeps GitTyped.
LEMMA GitNext ==
  ASSUME Typed, [Next]_vars
  PROVE  GitTyped'
<1>1. Len(objects) <= Len(objects') /\ objects \in Seq(Commit) /\ objects' \in Seq(Commit)
  BY ObjectsNext DEF Typed, GitTyped
<1>2. Oid \subseteq Oid'
  BY <1>1 DEF Oid
<1>3. remote' \in [Branch -> 0 .. Len(objects')]
  <2>0. remote \in [Branch -> 0 .. Len(objects)] /\ remote \in [Branch -> 0 .. Len(objects')]
    BY <1>1 DEF Typed, GitTyped
  <2>1. CASE UNCHANGED remote
    BY <2>0, <2>1
  <2>2. CASE Push
    <3>1. cache.head \in Oid
      BY <2>2 DEF Push, Typed, CacheTyped
    <3> QED
      BY <1>1, <1>2, <2>0, <2>2, <3>1 DEF Push, Lands, Oid
  <2>3. CASE LatePush
    <3>1. inflight.oid \in Oid
      BY <2>3 DEF LatePush, Typed, GitTyped
    <3> QED
      BY <1>1, <1>2, <2>0, <2>3, <3>1 DEF LatePush, Lands, Oid
  <2>4. CASE Foreign
    <3>1. ASSUME NEW br \in Branch, ForeignCommit(br)
          PROVE  remote' \in [Branch -> 0 .. Len(objects')]
      <4>1. Len(objects') = Len(objects) + 1
        BY <1>1, <3>1, ForeignAppends
      <4>2. remote' = [remote EXCEPT ![br] = Len(objects) + 1]
        BY <3>1 DEF ForeignCommit
      <4> QED
        BY <1>1, <2>0, <4>1, <4>2
    <3> QED
      BY <2>0, <2>4, <3>1 DEF Foreign, git
  <2>5. CASE Rewrite
    <3>1. PICK br \in Branch : /\ Exists(br)
            /\ \E oid \in {0, objects[remote[br]].parent} : remote' = [remote EXCEPT ![br] = oid]
      BY <2>5 DEF Rewrite
    <3>2. remote[br] \in Oid
      BY <2>0, <3>1 DEF Exists, Oid
    <3>3. objects[remote[br]].parent \in 0 .. Len(objects')
      <4>1. objects[remote[br]] \in Commit /\ objects[remote[br]].parent < remote[br]
        BY <1>1, <3>2 DEF Typed, GitTyped, Oid
      <4>2. objects[remote[br]].parent \in Nat
        BY <4>1 DEF Commit
      <4> QED
        BY <1>1, <3>2, <4>1, <4>2 DEF Oid
    <3> QED
      BY <1>1, <2>0, <3>1, <3>3
  <2> QED
    BY <2>1, <2>2, <2>3, <2>4, <2>5, Changes
<1>4. inflight' \in {None} \cup [branch : Branch, oid : Oid']
  <2>1. CASE PushLost
    BY <1>2, <2>1 DEF PushLost, Typed, CacheTyped, JournalTyped, GitTyped, InHand, At, Grouped, Journal
  <2>2. CASE LatePush
    BY <2>2 DEF LatePush
  <2>3. CASE UNCHANGED inflight
    BY <1>2, <2>3 DEF Typed, GitTyped
  <2> QED
    BY <2>1, <2>2, <2>3, Changes
<1>5. rewrites' \in Nat
  BY Changes DEF Typed, GitTyped, Rewrite
<1> QED
  BY <1>3, <1>4, <1>5, ObjectsNext DEF GitTyped

\* The parent of a commit is a number.
LEMMA ParentTyped ==
  ASSUME Typed, NEW oid \in Oid
  PROVE  objects[oid].parent \in Nat
<1>1. objects[oid] \in Commit
  BY DEF Typed, GitTyped, Oid
<1> QED
  BY <1>1 DEF Commit

\* The tip of a branch is no commit, or one that exists.
LEMMA TipTyped ==
  ASSUME Typed, NEW br \in Branch
  PROVE  remote[br] \in Nat /\ remote[br] \in 0 .. Len(objects) /\ Len(objects) \in Nat
<1>1. objects \in Seq(Commit) /\ remote[br] \in 0 .. Len(objects)
  BY DEF Typed, GitTyped
<1>2. Len(objects) \in Nat
  BY <1>1
<1> QED
  BY <1>1, <1>2

\* And so it is after a step.
LEMMA TipsTypedNext ==
  ASSUME Typed, [Next]_vars, NEW br \in Branch
  PROVE  remote'[br] \in Nat
<1>1. objects' \in Seq(Commit) /\ remote'[br] \in 0 .. Len(objects')
  BY GitNext DEF GitTyped
<1>2. Len(objects') \in Nat
  BY <1>1
<1> QED
  BY <1>1, <1>2

\* SyncMoves, from all of Typed.
LEMMA SyncSteps ==
  ASSUME Typed, [Next]_vars
  PROVE  SyncTyped' /\ (sync' \in {None, sync} \/ Moves)
  BY SyncMoves, RemoteIsTyped DEF Typed, JournalTyped

\* What verify finds is at a tip that exists.
LEMMA VerifiedIsThere ==
  ASSUME Typed, journal \in Journal, Verified
  PROVE  remote[journal.branch] \in Oid
<1>1. PICK b \in journal.group : Tip(journal.branch)[b] = "same"
  BY NoneAssumption DEF Typed, JournalTyped, Verified
<1>2. b \in Batch /\ journal.branch \in Branch
  BY DEF Journal
<1>3. remote[journal.branch] # 0
  BY <1>1, <1>2 DEF Tip, Tree
<1>4. remote[journal.branch] \in 0 .. Len(objects) /\ Len(objects) \in Nat
  BY <1>2 DEF Typed, GitTyped
<1> QED
  BY <1>3, <1>4 DEF Oid

\* An attempt either finds its commit in the cache, or prepares the cache, or is made again when the
\* cache has lost its marker.
LEMMA AttemptMoves ==
  ASSUME SyncTyped, Attempt, sync' # None
  PROVE  /\ UNCHANGED <<cache, journal>>
         /\ \/ LocalCommit /\ sync'.local = TRUE /\ sync'.at = "verify"
            \/ sync'.local = FALSE /\ sync'.at = "prepare"
            \/ sync'.at = "attempt"
<1>1. (LocalCommit = TRUE) \/ (LocalCommit = FALSE)
  BY DEF LocalCommit
<1>2. \/ LocalCommit /\ sync' = [sync EXCEPT !.at = "verify", !.local = TRUE]
      \/ sync' = [sync EXCEPT !.at = "prepare", !.local = FALSE]
      \/ Failed("io")
  BY <1>1, Zenon DEF Attempt, End
<1>3. sync \in Running
  BY DEF SyncTyped, Attempt, At
<1>4. UNCHANGED <<cache, journal>>
  BY DEF Attempt, local, state
<1>5. Failed("io") => sync'.at = "attempt"
  BY FailedLeads DEF Attempt, At
<1> QED
  BY <1>2, <1>3, <1>4, <1>5 DEF Running

\* Every step keeps CacheTyped: each action by itself.
LEMMA CacheNext ==
  ASSUME Typed, [Next]_vars
  PROVE  CacheTyped'
<1>1. Oid \subseteq Oid' /\ Cached \subseteq Cached'
  BY ObjectsNext DEF Typed, GitTyped, Oid, Cached
<1>2. RefreshCache => cache \in Cached /\ cache' \in Cached
  <2>1. SUFFICES ASSUME RefreshCache
                 PROVE  cache \in Cached /\ cache' \in Cached
    OBVIOUS
  <2>2. cache \in Cached
    BY <2>1 DEF RefreshCache, CacheUsable, Typed, CacheTyped
  <2>3. remote[journal.branch] \in {0} \cup Oid
    BY <2>1 DEF RefreshCache, Typed, GitTyped, JournalTyped, InHand, At, Grouped, Journal, Oid
  <2>4. cache' \in {cache, [cache EXCEPT !.head = remote[journal.branch]]}
    BY <2>1 DEF RefreshCache
  <2> QED
    BY <2>2, <2>3, <2>4 DEF Cached
<1>3. CloneCache => cache' \in Cached
  <2>1. SUFFICES ASSUME CloneCache
                 PROVE  cache' \in Cached
    OBVIOUS
  <2>2. journal.branch \in Branch /\ remote[journal.branch] \in {0} \cup Oid
    BY <2>1 DEF CloneCache, Typed, CacheTyped, GitTyped, JournalTyped, InHand, At, Grouped,
       Journal, Oid
  <2> QED
    BY <2>1, <2>2 DEF CloneCache, Cached
<1>4. CommitGroup => \/ cache' = cache /\ ~At("mark_committed")' /\ ~At("push")'
                     \/ cache' \in Cached' /\ cache'.head \in Oid'
  <2>1. SUFFICES ASSUME CommitGroup
                 PROVE  \/ cache' = cache /\ ~At("mark_committed")' /\ ~At("push")'
                        \/ cache' \in Cached' /\ cache'.head \in Oid'
    OBVIOUS
  <2>2. CASE Applied.tree = Tree(cache.head)
    BY <2>1, <2>2, FailedLeads DEF CommitGroup, Typed, At
  <2>3. CASE Applied.tree # Tree(cache.head)
    <3>1. cache' = [cache EXCEPT !.head = Len(objects) + 1] /\ objects' = Append(objects, Applied)
      BY <2>1, <2>3 DEF CommitGroup
    <3>2. objects \in Seq(Commit) /\ objects' \in Seq(Commit)
      BY ObjectsNext DEF Typed, GitTyped
    <3>3. Len(objects') = Len(objects) + 1
      BY <3>1, <3>2
    <3>4. Len(objects) + 1 \in Oid'
      BY <3>2, <3>3 DEF Oid
    <3>5. cache \in Cached
      BY <2>1 DEF CommitGroup, Typed, CacheTyped, At
    <3> QED
      BY <1>1, <3>1, <3>4, <3>5 DEF Cached
  <2> QED
    BY <2>2, <2>3
<1>5. cache' \in {None} \cup Cached'
  <2>1. CASE CutInside
    <3>1. cache \in {None} \cup Cached
      BY DEF Typed, CacheTyped
    <3>2. \/ cache' = cache
          \/ cache # None /\ \E left \in {"unowned", "unmarked", "gutted"} : cache' = [cache EXCEPT !.state = left]
      BY <2>1 DEF CutInside, TearSource, TearCache, TearStaging, local
    <3> QED
      BY <1>1, <3>1, <3>2 DEF Cached
  <2>2. CASE DropCache \/ DropRotated \/ Discard \/ PruneCache
    BY <2>2 DEF DropCache, DropRotated, Discard, PruneCache
  <2>3. CASE UNCHANGED cache
    BY <1>1, <2>3 DEF Typed, CacheTyped
  <2> QED
    BY <1>1, <1>2, <1>3, <1>4, <2>1, <2>2, <2>3, Changes DEF Typed, CacheTyped
<1>0. sync' \in {None, sync} \/ Moves
  BY SyncSteps
<1>stays. sync' # None /\ sync' = sync /\ sync.at \in {"unstage", "verify", "fit", "commit", "mark_committed", "push"}
        => cache' = cache
  BY Changes
     DEF Typed, RefreshCache, DropCache, CloneCache, DropRotated, CommitGroup, Discard,
         CutInside, PruneCache, At, Go, SyncTyped, Running
<1>6. ASSUME sync' # None,
             sync'.at \in {"unstage", "verify", "fit", "commit", "mark_committed", "push"}
      PROVE  cache' \in Cached'
  <2>1. CASE sync' = sync
    BY <1>1, <1>6, <2>1, <1>stays DEF Typed, CacheTyped
  <2>2. CASE CommitGroup
    BY <1>1, <1>4, <2>2 DEF CommitGroup, Typed, CacheTyped, At
  <2>3. CASE Attempt
    BY <1>1, <1>5, <1>6, <2>3, AttemptMoves DEF LocalCommit, Typed
  <2>4. CASE RemoveStaging \/ Verify \/ FitShard \/ MarkCommitted
    BY <1>1, <2>4 DEF RemoveStaging, Verify, FitShard, MarkCommitted, local, Typed, CacheTyped, At
  <2> QED
    BY <1>0, <1>1, <1>2, <1>3, <1>6, <2>1, <2>2, <2>3, <2>4 DEF Moves, At
<1>7. ASSUME At("mark_committed")' \/ At("push")'
      PROVE  cache'.head \in Oid'
  <2>1. CASE sync' = sync
    BY <1>1, <1>7, <2>1, <1>stays DEF Typed, CacheTyped, At
  <2>2. CASE CommitGroup
    BY <1>4, <1>7, <2>2
  <2>3. CASE MarkCommitted
    BY <1>1, <2>3 DEF MarkCommitted, local, Typed, CacheTyped
  <2>4. CASE Verify
    <3>1. sync.local /\ cache' = cache
      BY <1>7, <2>4 DEF Verify, At, Go, End, local, Typed, SyncTyped, Running
    <3>2. journal \in Journal
      BY <2>4 DEF Verify, Typed, JournalTyped, InHand, At, Grouped
    <3>3. journal.phase = "Committed" /\ cache.head = journal.oid
      BY <2>4, <3>1 DEF Verify, Typed, CacheTyped
    <3> QED
      BY <1>1, <3>1, <3>2, <3>3 DEF Typed, CacheTyped
  <2> QED
    BY <1>0, <1>7, <2>1, <2>2, <2>3, <2>4 DEF Moves, At
<1>8. ASSUME At("verify")', sync'.local
      PROVE  journal'.phase = "Committed" /\ cache'.head = journal'.oid
  <2>1. CASE sync' = sync
    <3>1. journal' = journal
      BY <1>8, <2>1, Changes
         DEF WriteJournal, Protect, Verify, RotateJournal, MarkCommitted, CheckPush, Confirm, ReceiptsDurable,
             RemoveJournal, At, Go, End, Typed, SyncTyped, Running
    <3> QED
      BY <1>8, <2>1, <3>1, <1>stays DEF Typed, CacheTyped, At
  <2>2. CASE Attempt
    BY <1>8, <2>2, AttemptMoves DEF LocalCommit, Typed, At
  <2>3. CASE RemoveStaging
    BY <1>8, <2>3 DEF RemoveStaging, Go, At, Typed, CacheTyped, SyncTyped, Running
  <2>4. CASE RefreshCache /\ At("prepare")
    <3>1. ~sync.local
      BY <2>4 DEF At, Typed, CacheTyped
    <3>2. sync' = [sync EXCEPT !.at = "verify"] \/ Failed("git")
      BY <2>4 DEF RefreshCache, Go
    <3> QED
      BY <1>8, <2>4, <3>1, <3>2, FailedLeads DEF At, Typed, SyncTyped, Running
  <2> QED
    BY <1>0, <1>8, <2>1, <2>2, <2>3, <2>4 DEF Moves, At
<1>9. ASSUME sync' # None, sync'.at \in {"prepare", "stage", "own", "clone", "unstage"}
      PROVE  ~sync'.local
  <2>1. CASE sync' = sync
    BY <1>9, <2>1 DEF Typed, CacheTyped
  <2>2. CASE Attempt
    BY <1>9, <2>2, AttemptMoves DEF Typed
  <2>3. CASE DropCache \/ OwnStaging \/ CloneCache
    BY <1>9, <2>3 DEF DropCache, OwnStaging, CloneCache, Go, At, Typed, CacheTyped, SyncTyped, Running
  <2>4. CASE CreateStaging
    <3>1. Go("own") \/ Failed("io") \/ sync' = None
      BY <2>4 DEF CreateStaging, End
    <3> QED
      BY <1>9, <2>4, <3>1, FailedLeads DEF CreateStaging, Go, At, Typed, CacheTyped, SyncTyped, Running
  <2> QED
    BY <1>0, <1>9, <2>1, <2>2, <2>3, <2>4 DEF Moves, At
<1>10. ASSUME At("confirm")'
       PROVE  sync'.found \in Oid'
  <2>1. CASE sync' = sync
    BY <1>1, <1>10, <2>1 DEF Typed, CacheTyped, At
  <2>2. CASE Verify \/ CheckPush
    <3>1. journal \in Journal
      BY <2>2 DEF Verify, CheckPush, Typed, JournalTyped, InHand, At, Grouped
    <3>2. Verified /\ sync'.found = remote[journal.branch]
      BY <1>10, <2>2, FailedLeads DEF Verify, CheckPush, Go, End, At, Typed, SyncTyped, Running
    <3> QED
      BY <1>1, <3>1, <3>2, VerifiedIsThere
  <2> QED
    BY <1>0, <1>10, <2>1, <2>2 DEF Moves, At
<1>11. ASSUME journal' \in Journal, journal'.phase # "Prepared"
       PROVE  journal'.oid \in Oid'
  <2>1. CASE UNCHANGED journal
    BY <1>1, <1>11, <2>1 DEF Typed, CacheTyped
  <2>2. CASE WriteJournal
    BY <1>11, <2>2 DEF WriteJournal
  <2>3. ASSUME Protect \/ Verify \/ RotateJournal \/ MarkCommitted \/ CheckPush \/ Confirm \/ ReceiptsDurable
        PROVE  journal \in Journal
    BY <2>3 DEF Protect, Verify, RotateJournal, MarkCommitted, CheckPush, Confirm, ReceiptsDurable,
                Typed, JournalTyped, InHand, At, Grouped
  <2>4. CASE Verify \/ RotateJournal \/ CheckPush
    <3>1. journal' = journal \/ journal'.phase = "Prepared"
      BY <2>3, <2>4 DEF Verify, RotateJournal, CheckPush, BackToPrepared, Journal
    <3> QED
      BY <1>1, <1>11, <2>3, <2>4, <3>1 DEF Typed, CacheTyped
  <2>5. CASE Protect
    <3>1. journal'.oid = journal.oid /\ (journal.phase = "Prepared" => journal' = journal)
      BY <2>3, <2>5 DEF Protect, Write, Journal
    <3> QED
      BY <1>1, <1>11, <2>3, <2>5, <3>1 DEF Typed, CacheTyped
  <2>6. CASE MarkCommitted
    BY <1>1, <2>3, <2>6 DEF MarkCommitted, Journal, Typed, CacheTyped
  <2>7. CASE Confirm
    BY <1>1, <2>3, <2>7 DEF Confirm, Journal, Typed, CacheTyped
  <2>8. CASE ReceiptsDurable
    <3>1. journal.phase = "RemoteConfirmed" /\ journal'.oid = journal.oid
      BY <2>3, <2>8 DEF ReceiptsDurable, Write, Journal, Typed, CacheTyped
    <3> QED
      BY <1>1, <2>3, <2>8, <3>1 DEF Typed, CacheTyped
  <2>9. CASE RemoveJournal
    BY <1>11, <2>9, NoneAssumption DEF RemoveJournal
  <2> QED
    BY <2>1, <2>2, <2>4, <2>5, <2>6, <2>7, <2>8, <2>9, Changes
<1>12. ASSUME At("receipts")'
       PROVE  journal'.phase = "RemoteConfirmed"
  <2>1. CASE Confirm
    <3>1. journal \in Journal
      BY <2>1 DEF Confirm, Typed, JournalTyped, InHand, At, Grouped
    <3> QED
      BY <2>1, <3>1 DEF Confirm, Journal
  <2>2. CASE WriteReceipt
    BY <2>2 DEF WriteReceipt, Typed, CacheTyped
  <2>3. CASE sync' = sync
    <3>1. journal' = journal
      BY <1>12, <2>3, Changes
         DEF WriteJournal, Protect, Verify, RotateJournal, MarkCommitted, CheckPush, Confirm, ReceiptsDurable,
             RemoveJournal, At, Go, End, Typed, SyncTyped, Running
    <3> QED
      BY <1>12, <2>3, <3>1 DEF Typed, CacheTyped, At
  <2> QED
    BY <1>0, <1>12, <2>1, <2>2, <2>3 DEF Moves, At
<1> QED
  BY <1>5, <1>6, <1>7, <1>8, <1>9, <1>10, <1>11, <1>12 DEF CacheTyped

\* Every step keeps Typed.
LEMMA TypedNext == Typed /\ [Next]_vars => Typed'
BY QueueNext, SyncSteps, JournalNext, GitNext, CacheNext DEF Typed

\* It holds at first.
LEMMA TypedInit == Init => Typed
<1> SUFFICES ASSUME Init PROVE Typed
  OBVIOUS
<1>1. QueueTyped /\ SyncTyped
  BY DEF Init, QueueTyped, SyncTyped
<1>2. JournalTyped /\ CacheTyped
  BY NoneAssumption DEF Init, JournalTyped, InHand, CacheTyped, At
<1>3. GitTyped
  BY DEF Init, GitTyped, Oid
<1> QED
  BY <1>1, <1>2, <1>3 DEF Typed

(***************************************************************************)
(* Nothing is lost.                                                        *)
(***************************************************************************)
\* A branch that does not exist holds nothing.
LEMMA NothingAtZero == Has(0) = {}
  BY DEF Has, Tree

\* What a new commit holds.
LEMMA NewTree ==
  ASSUME Typed, NEW c \in Commit, objects' = Append(objects, c), NEW n, n = Len(objects) + 1
  PROVE  Tree(n)' = c.tree /\ n \in Oid' /\ n # 0 /\ Oid' = Oid \cup {n} /\ objects'[n] = c
<1>1. objects \in Seq(Commit)
  BY DEF Typed, GitTyped
<1>2. objects'[n] = c /\ n \in Nat /\ n # 0 /\ Len(objects') = n
  BY <1>1
<1> QED
  BY <1>1, <1>2 DEF Tree, Oid

\* A foreign commit, once it exists, holds the batches of the tip it replaces.
LEMMA ForeignKeepsBatches ==
  ASSUME Typed, NEW br \in Branch, ForeignCommit(br), [Next]_vars
  PROVE  \E n \in Oid' :
           /\ n = Len(objects) + 1 /\ remote' = [remote EXCEPT ![br] = n]
           /\ Oid' = Oid \cup {n} /\ n # 0 /\ remote[br] \in Oid
           /\ objects'[n].parent = remote[br]
           /\ Has(n)' = Has(remote[br])
<1>1. PICK c \in Commit :
        /\ objects' = Append(objects, c)
        /\ c.parent = remote[br] /\ c.parent <= Len(objects)
        /\ \A b \in Batch : c.tree[b] = "same" <=> objects[remote[br]].tree[b] = "same"
  BY ForeignAppends
<1>2. PICK n : n = Len(objects) + 1
  OBVIOUS
<1>3. Tree(n)' = c.tree /\ n \in Oid' /\ n # 0 /\ Oid' = Oid \cup {n} /\ objects'[n] = c
  BY <1>1, <1>2, NewTree
<1>4. remote[br] # 0 /\ remote[br] \in Oid
  BY ForeignAppends DEF ForeignCommit, Exists
<1>5. Has(n)' = Has(remote[br])
  BY <1>1, <1>3, <1>4 DEF Has, Tree
<1>6. remote' = [remote EXCEPT ![br] = n]
  BY <1>2 DEF ForeignCommit
<1> QED
  BY <1>1, <1>2, <1>3, <1>4, <1>5, <1>6

\* What has been on the remote is never forgotten.
LEMMA LandedGrows ==
  ASSUME [Next]_vars
  PROVE  landed \subseteq landed'
  BY Changes DEF Push, LatePush, Lands, Foreign, Rewrite, git

\* Whatever is at a tip has been on the remote: that is what landed records.
LEMMA TipsLanded ==
  ASSUME Typed, Landed, [Next]_vars, NEW br \in Branch
  PROVE  Has(remote[br])' \subseteq landed'
<1>0. remote \in [Branch -> 0 .. Len(objects)] /\ remote[br] \in {0} \cup Oid /\ landed \subseteq landed'
  BY LandedGrows DEF Typed, GitTyped, Oid
<1>1. CASE remote'[br] = remote[br]
  BY <1>0, <1>1, TreesStay DEF Landed
<1>2. ASSUME NEW oid \in Oid, remote'[br] = oid, Has(oid) \subseteq landed'
      PROVE  Has(remote[br])' \subseteq landed'
  BY <1>2, TreesStay
<1>3. CASE Push
  <2>1. cache.head \in Oid
    BY <1>3 DEF Push, Typed, CacheTyped
  <2>2. CASE Lands(journal.branch, cache.head) /\ br = journal.branch
    BY <1>0, <1>2, <2>1, <2>2 DEF Lands, Has
  <2>3. CASE UNCHANGED remote
    BY <1>1, <2>3
  <2>4. CASE Lands(journal.branch, cache.head) /\ br # journal.branch
    BY <1>0, <1>1, <2>4 DEF Lands
  <2> QED
    BY <1>3, <2>2, <2>3, <2>4 DEF Push
<1>4. CASE LatePush
  <2>1. inflight.oid \in Oid
    BY <1>4 DEF LatePush, Typed, GitTyped
  <2>2. CASE Lands(inflight.branch, inflight.oid) /\ br = inflight.branch
    BY <1>0, <1>2, <2>1, <2>2 DEF Lands, Has
  <2>3. CASE UNCHANGED remote
    BY <1>1, <2>3
  <2>4. CASE Lands(inflight.branch, inflight.oid) /\ br # inflight.branch
    BY <1>0, <1>1, <2>4 DEF Lands
  <2> QED
    BY <1>4, <2>2, <2>3, <2>4 DEF LatePush
<1>5. CASE Foreign
  <2>1. ASSUME NEW other \in Branch, ForeignCommit(other)
        PROVE  Has(remote[br])' \subseteq landed'
    <3>1. PICK n \in Oid' : /\ remote' = [remote EXCEPT ![other] = n]
                            /\ Has(n)' = Has(remote[other])
      BY <2>1, ForeignKeepsBatches
    <3>2. CASE br = other
      <4>1. remote'[br] = n
        BY <1>0, <3>1, <3>2
      <4> QED
        BY <1>0, <3>1, <3>2, <4>1 DEF Landed
    <3>3. CASE br # other
      BY <1>0, <1>1, <3>1, <3>3
    <3> QED
      BY <3>2, <3>3
  <2>2. CASE UNCHANGED remote
    BY <1>1, <2>2
  <2> QED
    BY <1>5, <2>1, <2>2 DEF Foreign, git
<1>6. CASE Rewrite
  <2>1. PICK other \in Branch : /\ Exists(other)
          /\ \E oid \in {0, objects[remote[other]].parent} : remote' = [remote EXCEPT ![other] = oid]
    BY <1>6 DEF Rewrite
  <2>2. remote[other] \in Oid
    BY <1>0, <2>1 DEF Exists, Oid
  <2>3. PICK parent : parent = objects[remote[other]].parent
    OBVIOUS
  <2>4. parent \in {0} \cup Oid /\ Has(parent) \subseteq landed
    <3>1. objects[remote[other]] \in Commit /\ parent < remote[other]
      BY <2>2, <2>3 DEF Typed, GitTyped, Oid
    <3> QED
      BY <2>2, <2>3, <3>1 DEF Landed, Commit, Oid
  <2>5. Has(parent)' \subseteq landed' /\ Has(0)' \subseteq landed'
    BY <1>0, <2>4, TreesStay, NothingAtZero
  <2>6. remote'[br] \in {remote[br], 0, parent}
    BY <1>0, <2>1, <2>3
  <2> QED
    BY <1>1, <2>5, <2>6
<1> QED
  BY <1>1, <1>3, <1>4, <1>5, <1>6, Changes

\* Each commit was made on a checkout of a tip.
LEMMA ParentsLanded ==
  ASSUME Typed, Landed, [Next]_vars, NEW oid \in Oid'
  PROVE  Has(objects[oid].parent)' \subseteq landed'
<1>0. landed \subseteq landed'
  BY LandedGrows
<1>1. ASSUME NEW parent \in {0} \cup Oid, objects'[oid].parent = parent, Has(parent) \subseteq landed
      PROVE  Has(objects[oid].parent)' \subseteq landed'
  BY <1>0, <1>1, TreesStay
<1>2. CASE oid \in Oid
  <2>1. objects[oid] \in Commit /\ objects[oid].parent < oid /\ objects'[oid] = objects[oid]
    BY <1>2, ObjectsNext DEF Typed, GitTyped, Oid
  <2>2. objects[oid].parent \in {0} \cup Oid
    BY <1>2, <2>1 DEF Commit, Oid
  <2> QED
    BY <1>1, <1>2, <2>1, <2>2 DEF Landed
<1>3. CASE CommitGroup /\ oid \notin Oid
  <2>1. Applied \in Commit /\ Applied.parent = cache.head /\ cache.head \in {0} \cup Oid
    BY <1>3, AppliedIsCommit DEF CommitGroup, Oid
  <2>2. objects' = Append(objects, Applied)
    BY <1>3, ObjectsNext DEF CommitGroup, Oid
  <2>3. PICK n : n = Len(objects) + 1
    OBVIOUS
  <2>4. oid = n /\ objects'[n] = Applied
    BY <1>3, <2>1, <2>2, <2>3, NewTree
  <2>5. Has(cache.head) \subseteq landed
    BY <1>3 DEF CommitGroup, Landed, Fresh, At
  <2> QED
    BY <1>1, <2>1, <2>4, <2>5
<1>4. CASE Foreign /\ oid \notin Oid
  <2>1. PICK br \in Branch : ForeignCommit(br)
    BY <1>4 DEF Foreign, git, Oid
  <2>2. PICK n \in Oid' : /\ Oid' = Oid \cup {n} /\ remote[br] \in Oid /\ objects'[n].parent = remote[br]
    BY <2>1, ForeignKeepsBatches
  <2> QED
    BY <1>1, <1>4, <2>2 DEF Landed
<1>5. objects' = objects => oid \in Oid
  BY DEF Oid
<1> QED
  BY <1>2, <1>3, <1>4, <1>5, Changes

\* While a sync stays where it is, its journal and its clone do.
LEMMA JournalStays ==
  ASSUME Typed, [Next]_vars, sync' = sync, sync # None
  PROVE  journal' = journal
  BY Changes
     DEF WriteJournal, Protect, Verify, RotateJournal, MarkCommitted, CheckPush, Confirm, ReceiptsDurable,
         RemoveJournal, At, Go, End, Typed, SyncTyped, Running

\* The clone likewise.
LEMMA CacheStays ==
  ASSUME Typed, [Next]_vars, sync' = sync, sync # None
  PROVE  cache' = cache
<1>1. SyncTyped
  BY DEF Typed
<1>2. ~RefreshCache
  BY <1>1, FailedLeads DEF RefreshCache, Go, At, SyncTyped, Running
<1>3. ~Discard
  BY <1>1, FailedLeads DEF Discard, Go, At, SyncTyped, Running
<1>4. ~CommitGroup
  BY <1>1, FailedLeads DEF CommitGroup, Go, At, SyncTyped, Running
<1> QED
  BY <1>1, <1>2, <1>3, <1>4, Changes
     DEF DropCache, CloneCache, DropRotated, CutInside, PruneCache, At, Go, SyncTyped, Running

\* A fresh checkout is of the branch of the journal, and it stays until the group is committed.
LEMMA FreshComes ==
  ASSUME Typed, [Next]_vars, Fresh'
  PROVE  /\ cache'.head \in {0} \cup Oid
         /\ journal \in Journal /\ journal'.branch = journal.branch /\ journal'.group = journal.group
         /\ \/ Fresh /\ cache' = cache
            \/ cache'.head = remote[journal.branch] /\ UNCHANGED git
<1>0. SyncTyped /\ SyncTyped' /\ sync' # None /\ (sync' = sync \/ Moves)
  BY SyncSteps DEF Fresh, Typed
<1>1. CASE sync' = sync
  <2>1. cache' = cache /\ journal' = journal /\ Fresh
    BY <1>0, <1>1, CacheStays, JournalStays DEF Fresh
  <2>2. cache \in Cached
    BY <2>1 DEF Fresh, Typed, CacheTyped
  <2>3. journal \in Journal
    BY <2>1 DEF Fresh, Typed, JournalTyped, InHand, Grouped
  <2> QED
    BY <2>1, <2>2, <2>3 DEF Cached
<1>2. ASSUME CloneCache \/ RefreshCache, sync'.at # "attempt"
      PROVE  /\ cache'.head = remote[journal.branch] /\ UNCHANGED <<git, journal>>
             /\ journal \in Journal /\ remote[journal.branch] \in {0} \cup Oid
  <2>1. journal \in Journal
    BY <1>2 DEF CloneCache, RefreshCache, Typed, JournalTyped, InHand, At, Grouped
  <2>2. remote[journal.branch] \in 0 .. Len(objects) /\ UNCHANGED <<git, journal>>
    BY <1>2, <2>1 DEF CloneCache, RefreshCache, git, state, Typed, GitTyped, Journal
  <2>3. CASE CloneCache
    BY <2>3, <2>1, <2>2 DEF CloneCache, Oid
  <2>4. CASE RefreshCache
    <3>1. cache \in Cached
      BY <2>4 DEF RefreshCache, CacheUsable, Typed, CacheTyped
    <3>2. cache.state # "gutted"
      BY <1>0, <1>2, <2>4, FailedLeads DEF RefreshCache, At
    <3> QED
      BY <2>1, <2>2, <2>4, <3>1, <3>2 DEF RefreshCache, Oid, Cached
  <2> QED
    BY <1>2, <2>3, <2>4
<1>3. CASE RemoveStaging \/ FitShard
  <2>1. cache' = cache /\ journal' = journal /\ Fresh
    BY <1>3 DEF RemoveStaging, FitShard, local, state, Fresh, At
  <2>2. cache \in Cached /\ journal \in Journal
    BY <1>3 DEF RemoveStaging, FitShard, Typed, CacheTyped, JournalTyped, InHand, At, Grouped
  <2> QED
    BY <2>1, <2>2 DEF Cached
<1>4. CASE Verify
  <2>1. ~sync.local /\ cache' = cache
    BY <1>0, <1>4 DEF Verify, Fresh, At, Go, End, local, SyncTyped, Running
  <2>2. cache \in Cached /\ journal \in Journal
    BY <1>4 DEF Verify, Typed, CacheTyped, JournalTyped, InHand, At, Grouped
  <2>3. journal' \in {journal, BackToPrepared}
    BY <1>4 DEF Verify
  <2>4. journal'.branch = journal.branch /\ journal'.group = journal.group
    BY <2>2, <2>3 DEF BackToPrepared, Journal
  <2>5. Fresh
    BY <1>4, <2>1 DEF Verify, Fresh, At
  <2> QED
    BY <2>1, <2>2, <2>4, <2>5 DEF Cached
<1>5. Attempt => sync'.local = TRUE \/ sync'.at \in {"prepare", "attempt"}
  BY <1>0, AttemptMoves
<1>6. \/ sync'.at \in {"unstage", "fit", "commit"}
      \/ sync'.at = "verify" /\ sync'.local # TRUE
  BY DEF Fresh
<1>7. \/ CloneCache /\ sync'.at = "unstage"
      \/ RefreshCache /\ sync'.at = "verify"
      \/ RemoveStaging \/ FitShard \/ Verify \/ sync' = sync
  BY <1>0, <1>5, <1>6 DEF Moves, At
<1> QED
  BY <1>1, <1>2, <1>3, <1>4, <1>7

\* Hence what it holds has landed.
LEMMA FreshLanded ==
  ASSUME Typed, Landed, [Next]_vars, Fresh'
  PROVE  Has(cache.head)' \subseteq landed'
<1>1. PICK oid \in {0} \cup Oid : cache'.head = oid
  BY FreshComes
<1>2. Has(oid) \subseteq landed
  BY <1>1, FreshComes DEF Landed, Journal
<1> QED
  BY <1>1, <1>2, TreesStay, LandedGrows

\* Every step keeps Landed.
LEMMA LandedNext ==
  ASSUME Typed, Landed, [Next]_vars
  PROVE  Landed'
<1>1. ASSUME NEW br \in Branch
      PROVE  Has(remote[br])' \subseteq landed'
  BY TipsLanded
<1>2. ASSUME NEW oid \in Oid'
      PROVE  Has(objects[oid].parent)' \subseteq landed'
  BY ParentsLanded
<1>3. Fresh' => Has(cache.head)' \subseteq landed'
  BY FreshLanded
<1>4. At("receipts")' => sync'.todo \subseteq journal'.group
  <2>0. SUFFICES ASSUME At("receipts")'
                 PROVE  sync'.todo \subseteq journal'.group
    OBVIOUS
  <2>1. CASE sync' = sync
    BY <2>0, <2>1, JournalStays DEF Landed, At
  <2>2. CASE Confirm
    <3>1. journal \in Journal /\ sync \in Running
      BY <2>2 DEF Confirm, Typed, JournalTyped, InHand, At, Grouped, SyncTyped
    <3> QED
      BY <2>2, <3>1 DEF Confirm, Journal, Running
  <2>3. CASE WriteReceipt
    BY <2>3 DEF WriteReceipt, Landed, At, Typed, SyncTyped, Running
  <2> QED
    BY <2>0, <2>1, <2>2, <2>3, SyncSteps DEF Moves, At
<1>5. ASSUME NEW b \in Batch, receipts'[b] # None
      PROVE  b \in landed'
  <2>1. CASE WriteReceipt
    <3>1. receipts'[b] # receipts[b] => b = Min(sync.todo)
      BY <2>1 DEF WriteReceipt
    <3>2. Min(sync.todo) \in sync.todo
      BY <2>1, MinIn DEF WriteReceipt, At, Typed, SyncTyped, Running
    <3>3. sync.todo \subseteq landed
      BY <2>1 DEF WriteReceipt, Landed, At
    <3> QED
      BY <1>5, <3>1, <3>2, <3>3, LandedGrows DEF Landed
  <2>2. CASE Foreign
    <3>1. CASE receipts' = receipts
      BY <1>5, <3>1, LandedGrows DEF Landed
    <3>2. ASSUME NEW c \in Batch, receipts' = [receipts EXCEPT ![c] = None]
          PROVE  b \in landed'
      BY <1>5, <3>2, LandedGrows DEF Landed
    <3> QED
      BY <2>2, <3>1, <3>2 DEF Foreign, LoseReceipt
  <2>3. CASE receipts' = receipts
    BY <1>5, <2>3, LandedGrows DEF Landed
  <2> QED
    BY <2>1, <2>2, <2>3, Changes
<1>6. ASSUME sync' # None,
             sync'.at \in {"check_tip", "confirm", "receipts", "confirm_shard", "delete"}
      PROVE  journal'.group \subseteq landed'
  <2>0. SyncTyped /\ SyncTyped' /\ (sync' = sync \/ Moves)
    BY <1>6, SyncSteps DEF Typed
  <2>1. CASE sync' = sync
    BY <1>6, <2>1, JournalStays, LandedGrows DEF Landed
  <2>2. CASE ListReady /\ sync'.at = "check_tip"
    <3>1. UNCHANGED <<journal, landed>>
      BY <2>2 DEF ListReady, state, git
    <3>2. journal # None /\ Recoverable
      BY <1>6, <2>0, <2>2 DEF ListReady, Go, End, At, SyncTyped, Running
    <3>3. journal.group \subseteq Batch
      BY <3>2 DEF Typed, JournalTyped, Journal
    <3> QED
      BY <3>1, <3>2, <3>3 DEF Recoverable, AllReceipts, ValidReceipt, Landed
  <2>3. CASE (Verify \/ CheckPush) /\ sync'.at = "confirm"
    <3>1. journal \in Journal
      BY <2>3 DEF Verify, CheckPush, Typed, JournalTyped, InHand, At, Grouped
    <3>2. Verified /\ UNCHANGED <<journal, landed>>
      BY <1>6, <2>0, <2>3, FailedLeads DEF Verify, CheckPush, Go, End, At, SyncTyped, Running, git
    <3>3. journal.group \subseteq Has(remote[journal.branch])
      BY <3>1, <3>2 DEF Verified, Tip, Has, Journal
    <3> QED
      BY <3>1, <3>2, <3>3 DEF Landed, Journal
  <2>4. CASE CheckTip \/ Confirm \/ WriteReceipt \/ ReceiptsDurable \/ ConfirmShard \/ DeleteSource
    <3>1. journal.group \subseteq landed /\ journal \in Journal
      BY <2>4 DEF CheckTip, Confirm, WriteReceipt, ReceiptsDurable, ConfirmShard, DeleteSource, Landed, At,
         Typed, JournalTyped, InHand, Grouped
    <3>2. journal'.group = journal.group
      BY <2>4, <3>1 DEF CheckTip, Confirm, WriteReceipt, ReceiptsDurable, ConfirmShard, DeleteSource,
         Write, Journal, state
    <3> QED
      BY <3>1, <3>2, LandedGrows
  <2> QED
    BY <1>6, <2>0, <2>1, <2>2, <2>3, <2>4 DEF Moves, At
<1>7. DOMAIN receipts' = Batch
  BY Changes DEF Landed, WriteReceipt, Foreign, LoseReceipt
<1> QED
  BY <1>1, <1>2, <1>3, <1>4, <1>5, <1>6, <1>7 DEF Landed

\* Every step keeps Deleting.
LEMMA DeletingNext ==
  ASSUME Typed, Deleting, [Next]_vars
  PROVE  Deleting'
<1> SUFFICES ASSUME At("delete")'
             PROVE  sync'.todo = journal'.group \cap ready'
  BY DEF Deleting
<1>0. SyncTyped /\ SyncTyped' /\ (sync' = sync \/ Moves)
  BY SyncSteps DEF Typed, At
<1>1. CASE sync' = sync
  <2>1. journal' = journal /\ journal.group \subseteq 1 .. sealed
    BY <1>1, JournalStays, NoneAssumption DEF At, Typed, JournalTyped, InHand, Grouped
  <2>2. sync.todo = journal.group \cap ready
    BY <1>1 DEF Deleting, At
  <2>3. CASE ready' = ready
    BY <1>1, <2>1, <2>2, <2>3
  <2>4. CASE Seal
    BY <1>1, <2>1, <2>2, <2>4 DEF Seal, Typed, QueueTyped
  <2>5. CASE DeleteSource
    <3>1. Min(sync.todo) \in sync.todo
      BY <2>5, MinIn DEF DeleteSource, At, Typed, SyncTyped, Running
    <3> QED
      BY <1>1, <2>5, <3>1 DEF DeleteSource, At, Typed, SyncTyped, Running
  <2> QED
    BY <1>1, <2>3, <2>4, <2>5, Changes DEF NextMonth, CutInside, At
<1>2. CASE ConfirmShard
  BY <1>0, <1>2 DEF ConfirmShard, At, SyncTyped, Running, End, spool
<1>3. CASE DeleteSource
  BY <1>0, <1>3 DEF DeleteSource, Deleting, At, SyncTyped, Running, state
<1> QED
  BY <1>0, <1>1, <1>2, <1>3 DEF Moves, At

\* Sources are deleted of batches that have landed.
LEMMA NothingIsLostNext ==
  ASSUME Typed, Landed, Deleting, NothingIsLost, [Next]_vars
  PROVE  NothingIsLost'
<1>1. CASE UNCHANGED <<sealed, ready>>
  BY <1>1, LandedGrows DEF NothingIsLost
<1>2. CASE Seal
  BY <1>2, LandedGrows DEF Seal, NothingIsLost, Typed, QueueTyped
<1>3. CASE DeleteSource \/ CutInside
  <2>1. CASE UNCHANGED <<sealed, ready>>
    BY <1>1, <2>1
  <2>2. CASE At("delete") /\ sync.todo # {} /\ ready' = ready \ {Min(sync.todo)} /\ UNCHANGED sealed
    <3>1. Min(sync.todo) \in sync.todo
      BY <2>2, MinIn DEF At, Typed, SyncTyped, Running
    <3>2. sync.todo \subseteq landed
      BY <2>2 DEF Deleting, Landed, At
    <3> QED
      BY <2>2, <3>1, <3>2, LandedGrows DEF NothingIsLost
  <2> QED
    BY <1>3, <2>1, <2>2 DEF DeleteSource, CutInside, TearSource, TearCache, TearStaging, spool
<1> QED
  BY <1>1, <1>2, <1>3, Changes DEF NextMonth

\* All of that holds at first.
LEMMA LandedInit ==
  ASSUME Init
  PROVE  Landed /\ Deleting /\ NothingIsLost
<1>1. \A br \in Branch : Has(remote[br]) = {}
  BY NothingAtZero DEF Init
<1> QED
  BY <1>1 DEF Init, Landed, Deleting, NothingIsLost, Fresh, At, Oid

(***************************************************************************)
(* One copy of a batch.                                                    *)
(***************************************************************************)
\* What a commit of the group adds to the checkout.
LEMMA CommitAdds ==
  ASSUME Typed, CommitGroup
  PROVE  \/ UNCHANGED objects /\ ~At("mark_committed")'
         \/ \E n \in Oid' :
              /\ n \notin Oid /\ n # 0 /\ Oid' = Oid \cup {n}
              /\ objects'[n].parent = cache.head /\ cache.head \in {0} \cup Oid
              /\ cache'.head = n
              /\ Has(n)' = Has(cache.head) \cup journal.group
<1>1. CASE Applied.tree = Tree(cache.head)
  BY <1>1, FailedLeads DEF CommitGroup, Typed, At
<1>2. CASE Applied.tree # Tree(cache.head)
  <2>1. objects' = Append(objects, Applied) /\ cache' = [cache EXCEPT !.head = Len(objects) + 1]
    BY <1>2 DEF CommitGroup
  <2>2. Applied \in Commit /\ Applied.parent = cache.head /\ cache.head \in {0} \cup Oid
    BY AppliedIsCommit DEF CommitGroup, Oid
  <2>3. PICK n : n = Len(objects) + 1
    OBVIOUS
  <2>4. Tree(n)' = Applied.tree /\ n \in Oid' /\ n # 0 /\ Oid' = Oid \cup {n} /\ objects'[n] = Applied
    BY <2>1, <2>2, <2>3, NewTree
  <2>5. n \notin Oid
    BY <2>3 DEF Oid, Typed, GitTyped
  <2>6. cache \in Cached /\ journal \in Journal
    BY DEF CommitGroup, Typed, CacheTyped, JournalTyped, InHand, At, Grouped
  <2>7. cache'.head = n
    BY <2>1, <2>3, <2>6 DEF Cached
  <2>8. \A b \in Batch : Applied.tree[b] = IF b \in journal.group THEN "same" ELSE Tree(cache.head)[b]
    BY DEF Applied
  <2>9. Has(n)' = Has(cache.head) \cup journal.group
    BY <2>4, <2>6, <2>8 DEF Has, Journal
  <2> QED
    BY <2>2, <2>4, <2>5, <2>7, <2>9
<1> QED
  BY <1>1, <1>2

\* What becomes of the commits.
LEMMA CommitMoves ==
  ASSUME Typed, [Next]_vars
  PROVE  /\ Oid \subseteq Oid'
         /\ \A oid \in Oid : objects'[oid].parent = objects[oid].parent
         /\ \/ Oid' = Oid
            \/ CommitGroup /\ \E n \in Oid' :
                 /\ n \notin Oid /\ n # 0 /\ Oid' = Oid \cup {n}
                 /\ objects'[n].parent = cache.head /\ cache.head \in {0} \cup Oid
                 /\ cache'.head = n
                 /\ Has(n)' = Has(cache.head) \cup journal.group
            \/ Foreign /\ \E br \in Branch, n \in Oid' :
                 /\ Oid' = Oid \cup {n} /\ remote[br] \in Oid
                 /\ objects'[n].parent = remote[br] /\ Has(n)' = Has(remote[br])
<1>1. Oid \subseteq Oid' /\ \A oid \in Oid : objects'[oid].parent = objects[oid].parent
  BY ObjectsNext DEF Oid, Typed, GitTyped
<1>2. CASE UNCHANGED objects
  BY <1>1, <1>2 DEF Oid
<1>3. CASE CommitGroup
  BY <1>1, <1>2, <1>3, CommitAdds
<1>4. CASE Foreign
  <2>1. CASE UNCHANGED objects
    BY <1>2, <2>1
  <2>2. CASE \E br \in Branch : ForeignCommit(br)
    BY <1>1, <1>4, <2>2, ForeignKeepsBatches
  <2> QED
    BY <1>4, <2>1, <2>2 DEF Foreign, git
<1> QED
  BY <1>2, <1>3, <1>4, Changes

\* What becomes of the tips, where nobody rewrites history.
LEMMA TipMoves ==
  ASSUME Typed, Late, Phases, [Next]_vars, ~Rewrite
  PROVE  \/ remote' = remote
         \/ Push /\ \E oid \in Oid : /\ oid = cache.head /\ remote[journal.branch] = objects[oid].parent
                                     /\ remote' = [remote EXCEPT ![journal.branch] = oid]
         \/ LatePush /\ Awaited /\ \E oid \in Oid :
              /\ oid = inflight.oid
              /\ remote' = [remote EXCEPT ![inflight.branch] = oid]
         \/ Foreign /\ \E br \in Branch, n \in Oid' :
              /\ n = Len(objects) + 1 /\ remote' = [remote EXCEPT ![br] = n]
              /\ remote[br] \in Oid /\ Has(n)' = Has(remote[br])
<1>0. remote \in [Branch -> 0 .. Len(objects)]
  BY DEF Typed, GitTyped
<1>1. ASSUME NEW br \in Branch, NEW oid \in Oid, FastForward(br, oid), objects[oid].parent <= remote[br]
      PROVE  remote[br] = objects[oid].parent \/ remote = [remote EXCEPT ![br] = oid]
  <2>1. objects[oid] \in Commit /\ remote[br] \in Nat
    BY <1>0, <1>1 DEF Typed, GitTyped, Oid
  <2>2. objects[oid].parent \in Nat
    BY <2>1 DEF Commit
  <2> QED
    BY <1>0, <1>1, <2>1, <2>2 DEF FastForward
<1>2. CASE Push
  <2>1. cache.head \in Oid /\ journal \in Journal
    BY <1>2 DEF Push, Typed, CacheTyped, JournalTyped, InHand, At, Grouped
  <2>2. journal.branch \in Branch /\ objects[cache.head].parent <= remote[journal.branch]
    BY <1>2, <2>1 DEF Push, Phases, Committed, Journal
  <2> QED
    BY <1>1, <1>2, <2>1, <2>2 DEF Push, Lands
<1>3. CASE LatePush
  <2>1. inflight.oid \in Oid /\ inflight.branch \in Branch /\ inflight # None
    BY <1>3 DEF LatePush, Typed, GitTyped
  <2>2. objects[inflight.oid].parent <= remote[inflight.branch]
    BY <2>1 DEF Late
  <2> QED
    BY <1>1, <1>3, <2>1, <2>2 DEF LatePush, Lands, Awaited
<1>4. CASE Foreign
  <2>1. CASE \E br \in Branch : ForeignCommit(br)
    BY <1>4, <2>1, ForeignKeepsBatches
  <2> QED
    BY <1>4, <2>1 DEF Foreign, git
<1> QED
  BY <1>2, <1>3, <1>4, Changes

\* The group in hand changes when the journal is written or removed.
LEMMA GroupMoves ==
  ASSUME Typed, Deleting, [Next]_vars
  PROVE  \/ Group' = Group /\ ready' \subseteq ready \cup {sealed + 1}
         \/ WriteJournal /\ Group = {} /\ Group' \subseteq ready /\ ready' = ready
         \/ RemoveJournal /\ Group \cap ready = {} /\ Group' = {} /\ ready' = ready
<1>0. journal \in {None} \cup Journal
  BY DEF Typed, JournalTyped
<1>1. CASE WriteJournal
  <2>1. PICK g \in Groups : journal'.group = g
    BY <1>1 DEF WriteJournal
  <2>2. journal = None /\ journal' \in Journal /\ g \subseteq ready /\ ready' = ready
    BY <1>1, JournalKept DEF WriteJournal, Groups, Typed, JournalTyped, spool
  <2> QED
    BY <1>1, <2>1, <2>2, NoneAssumption DEF Group
<1>2. CASE RemoveJournal
  BY <1>2, NoneAssumption DEF RemoveJournal, Deleting, Group, Typed, JournalTyped, InHand, At, Grouped, spool
<1>3. CASE ~WriteJournal /\ ~RemoveJournal
  <2>1. Group' = Group
    <3>1. CASE journal = None
      BY <1>3, <3>1, Changes, NoneAssumption
         DEF Group, Protect, Verify, RotateJournal, MarkCommitted, CheckPush, Confirm, ReceiptsDurable,
             Typed, JournalTyped, InHand, At, Grouped
    <3>2. CASE journal \in Journal
      BY <1>3, <3>2, JournalKept, NoneAssumption DEF Group
    <3> QED
      BY <1>0, <3>1, <3>2
  <2>2. ready' \subseteq ready \cup {sealed + 1}
    BY Changes DEF Seal, NextMonth, DeleteSource, CutInside, TearSource, TearCache, TearStaging, spool
  <2> QED
    BY <2>1, <2>2
<1> QED
  BY <1>1, <1>2, <1>3

\* The journal is written, moved to the next branch, or keeps both its branch and its group.
LEMMA JournalMoves ==
  ASSUME Typed, [Next]_vars, journal' # None
  PROVE  \/ WriteJournal
         \/ RotateJournal
         \/ /\ journal \in Journal /\ journal' \in Journal
            /\ journal'.branch = journal.branch /\ journal'.group = journal.group
<1>0. journal \in {None} \cup Journal /\ journal' \in {None} \cup Journal
  BY JournalKept DEF Typed, JournalTyped
<1>1. CASE UNCHANGED journal
  BY <1>0, <1>1
<1>2. ASSUME Protect \/ Verify \/ MarkCommitted \/ CheckPush \/ Confirm \/ ReceiptsDurable
      PROVE  journal \in Journal /\ journal'.branch = journal.branch /\ journal'.group = journal.group
  <2>1. journal \in Journal
    BY <1>2 DEF Protect, Verify, MarkCommitted, CheckPush, Confirm, ReceiptsDurable,
         Typed, JournalTyped, InHand, At, Grouped
  <2>2. \/ journal' = journal \/ journal' = BackToPrepared
        \/ \E value : journal' = [journal EXCEPT !.phase = value]
        \/ \E phase, value : journal' = [journal EXCEPT !.phase = phase, !.oid = value]
    BY <1>2 DEF Protect, Verify, MarkCommitted, CheckPush, Confirm, ReceiptsDurable, Write
  <2> QED
    BY <2>1, <2>2 DEF BackToPrepared, Journal
<1>3. ~RemoveJournal
  BY DEF RemoveJournal
<1> QED
  BY <1>0, <1>1, <1>2, <1>3, Changes

\* A tip moves forward and keeps its batches.
LEMMA TipsRise ==
  ASSUME Typed, Late, Phases, Monotone, [Next]_vars, ~Rewrite, NEW br \in Branch
  PROVE  remote[br] <= remote'[br] /\ Has(remote[br]) \subseteq Has(remote[br])'
<1>1. PICK old \in {0} \cup Oid : old = remote[br]
  BY DEF Typed, GitTyped, Oid
<1>2. Has(old)' = Has(old)
  BY TreesStay
<1>3. CASE remote'[br] = old
  BY <1>1, <1>2, <1>3 DEF Oid
<1>4. ASSUME NEW oid \in Oid, remote'[br] = oid, objects[oid].parent = old
      PROVE  old <= oid /\ Has(old) \subseteq Has(remote[br])'
  <2>1. Has(old) \subseteq Has(oid) /\ Has(oid)' = Has(oid)
    BY <1>4, TreesStay DEF Monotone
  <2>2. old < oid
    BY <1>4 DEF Typed, GitTyped
  <2> QED
    BY <1>4, <2>1, <2>2 DEF Oid
<1>5. ASSUME NEW n \in Oid', n = Len(objects) + 1, remote'[br] = n, Has(n)' = Has(remote[br])
      PROVE  old <= n /\ Has(old) \subseteq Has(remote[br])'
  BY <1>1, <1>5 DEF Oid, Typed, GitTyped
<1> QED
  BY <1>1, <1>2, <1>3, <1>4, <1>5, TipMoves DEF Typed, GitTyped, Awaited

\* Every step keeps Monotone.
LEMMA MonotoneNext ==
  ASSUME Typed, Monotone, [Next]_vars
  PROVE  Monotone'
<1> SUFFICES ASSUME NEW oid \in Oid'
             PROVE  Has(objects[oid].parent)' \subseteq Has(oid)'
  BY DEF Monotone
<1>1. ASSUME NEW parent \in {0} \cup Oid, objects'[oid].parent = parent
      PROVE  Has(objects[oid].parent)' = Has(parent)
  BY <1>1, TreesStay
<1>2. CASE oid \in Oid
  <2>1. objects[oid] \in Commit /\ objects[oid].parent < oid
    BY <1>2 DEF Typed, GitTyped, Oid
  <2>2. PICK parent \in {0} \cup Oid : parent = objects[oid].parent
    BY <1>2, <2>1 DEF Commit, Oid
  <2>3. objects'[oid].parent = parent /\ Has(oid)' = Has(oid)
    BY <1>2, <2>2, CommitMoves, TreesStay
  <2>4. Has(parent) \subseteq Has(oid)
    BY <1>2, <2>2 DEF Monotone
  <2> QED
    BY <1>1, <2>3, <2>4
<1>3. CASE oid \notin Oid
  BY <1>1, <1>3, CommitMoves
<1> QED
  BY <1>2, <1>3

\* Every step keeps Known.
LEMMA KnownNext ==
  ASSUME Typed, Known, Deleting, [Next]_vars
  PROVE  Known'
<1> SUFFICES ASSUME NEW oid \in Oid', NEW b \in Has(oid)'
             PROVE  b <= sealed' /\ (b \in ready' => b \in Group')
  BY DEF Known
<1>0. sealed \in Nat /\ sealed' \in Nat /\ sealed <= sealed' /\ b \in Batch /\ b \in Nat
  BY QueueNext DEF Typed, QueueTyped, Has, Batch
<1>1. ASSUME b <= sealed, b \in ready => b \in Group
      PROVE  b <= sealed' /\ (b \in ready' => b \in Group')
  BY <1>0, <1>1, GroupMoves
<1>2. \A old \in {0} \cup Oid : b \in Has(old) => b <= sealed /\ (b \in ready => b \in Group)
  BY NothingAtZero DEF Known
<1>3. CASE oid \in Oid
  BY <1>1, <1>2, <1>3, TreesStay
<1>4. CASE oid \notin Oid /\ CommitGroup
  <2>1. b \in Has(cache.head) \cup journal.group /\ cache.head \in {0} \cup Oid
    BY <1>4, CommitAdds DEF Oid
  <2>2. b \in journal.group => b <= sealed /\ b \in Group
    BY <1>4, NoneAssumption DEF CommitGroup, Group, Typed, JournalTyped, InHand, At, Grouped
  <2> QED
    BY <1>1, <1>2, <2>1, <2>2
<1>5. CASE oid \notin Oid /\ ~CommitGroup
  <2>1. PICK br \in Branch, n \in Oid' :
          Oid' = Oid \cup {n} /\ remote[br] \in Oid /\ Has(n)' = Has(remote[br])
    BY <1>5, CommitMoves
  <2>2. n = oid /\ b \in Has(remote[br])
    BY <1>5, <2>1
  <2> QED
    BY <1>1, <1>2, <2>1, <2>2
<1> QED
  BY <1>3, <1>4, <1>5, CommitMoves

\* Every step keeps WholeGroup.
LEMMA WholeGroupNext ==
  ASSUME Typed, Known, WholeGroup, Deleting, [Next]_vars
  PROVE  WholeGroup'
<1> SUFFICES ASSUME NEW oid \in Oid'
             PROVE  Group' \subseteq Has(oid)' \/ Group' \cap Has(oid)' = {}
  BY DEF WholeGroup
<1>1. ASSUME NEW old \in {0} \cup Oid, Has(oid)' = Has(old)
      PROVE  Group' \subseteq Has(oid)' \/ Group' \cap Has(oid)' = {}
  <2>1. Group \subseteq Has(old) \/ Group \cap Has(old) = {}
    BY NothingAtZero DEF WholeGroup
  <2>2. Group = {} => Has(old) \cap ready = {}
    BY NothingAtZero DEF Known
  <2> QED
    BY <1>1, <2>1, <2>2, GroupMoves
<1>2. CASE oid \in Oid
  BY <1>1, <1>2, TreesStay
<1>3. CASE oid \notin Oid /\ CommitGroup
  <2>1. journal.group \subseteq Has(oid)'
    BY <1>3, CommitAdds DEF Oid
  <2>2. Group' = journal.group
    BY <1>3, NoneAssumption DEF CommitGroup, Group, Typed, JournalTyped, InHand, At, Grouped, state
  <2> QED
    BY <2>1, <2>2
<1>4. CASE oid \notin Oid /\ ~CommitGroup
  BY <1>1, <1>4, CommitMoves
<1> QED
  BY <1>2, <1>3, <1>4, CommitMoves

\* What a commit holds that can still reach a tip, and where else it is.
LEMMA LandsApart ==
  ASSUME Typed, Apart, Elsewhere, Late, Phases, [Next]_vars, ~Rewrite
  PROVE  \/ remote' = remote
         \/ \E br \in Branch, oid \in Oid :
              /\ remote' = [remote EXCEPT ![br] = oid]
              /\ \A other \in Branch : other # br => Has(remote[other]) \cap Has(oid) = {}
              /\ journal # None /\ br # journal.branch => Has(oid) \cap Group = {}
              /\ \/ Push /\ br = journal.branch
                 \/ LatePush /\ Awaited /\ br = inflight.branch /\ oid = inflight.oid
         \/ Foreign /\ \E br \in Branch, n \in Oid' :
              /\ n = Len(objects) + 1 /\ remote' = [remote EXCEPT ![br] = n]
              /\ remote[br] \in Oid /\ Has(n)' = Has(remote[br])
<1>1. CASE Push
  <2>1. journal \in Journal /\ journal # None
    BY <1>1, NoneAssumption DEF Push, Typed, JournalTyped, InHand, At, Grouped
  <2>2. ASSUME NEW oid \in Oid, oid = cache.head, remote[journal.branch] = objects[oid].parent,
               NEW other \in Branch, other # journal.branch
        PROVE  Has(remote[other]) \cap Has(oid) = {}
    <3>1. Has(oid) = Has(remote[journal.branch]) \cup Group
      BY <1>1, <2>1, <2>2 DEF Push, Phases, Committed, Group
    <3>2. Has(remote[other]) \cap Has(remote[journal.branch]) = {}
      BY <2>1, <2>2 DEF Apart, Journal
    <3>3. Has(remote[other]) \cap Group = {}
      BY <2>1, <2>2 DEF Elsewhere
    <3> QED
      BY <3>1, <3>2, <3>3
  <2>3. ~LatePush /\ ~Foreign
    BY <1>1 DEF Push, LatePush, Foreign, At, Go, Typed, SyncTyped, Running
  <2> QED
    BY <1>1, <2>1, <2>2, <2>3, TipMoves DEF Journal
<1>2. CASE LatePush
  <2>1. inflight # None /\ inflight.branch \in Branch
    BY <1>2 DEF LatePush, Typed, GitTyped
  <2>2. Awaited => /\ \A other \in Branch : other # inflight.branch => Has(remote[other]) \cap Has(inflight.oid) = {}
                   /\ journal # None /\ inflight.branch # journal.branch => Has(inflight.oid) \cap Group = {}
    BY DEF Late
  <2>3. ~Push /\ ~Foreign
    BY <1>2 DEF Push, LatePush, Foreign, At, Go, Typed, SyncTyped, Running, GitTyped, git
  <2> QED
    BY <1>2, <2>1, <2>2, <2>3, TipMoves
<1> QED
  BY <1>1, <1>2, TipMoves

\* Every step keeps Apart.
LEMMA ApartNext ==
  ASSUME Typed, Apart, Elsewhere, Late, Phases, [Next]_vars, ~Rewrite
  PROVE  Apart'
<1> SUFFICES ASSUME NEW one \in Branch, NEW two \in Branch, one # two
             PROVE  Has(remote[one])' \cap Has(remote[two])' = {}
  BY DEF Apart
<1>1. PICK i, j : i = remote[one] /\ j = remote[two]
  OBVIOUS
<1>2. i \in {0} \cup Oid /\ j \in {0} \cup Oid /\ Has(i) \cap Has(j) = {}
  BY <1>1 DEF Typed, GitTyped, Oid, Apart
<1>3. Has(i)' = Has(i) /\ Has(j)' = Has(j)
  BY <1>2, TreesStay
<1>4. ASSUME NEW br \in Branch, NEW n, remote' = [remote EXCEPT ![br] = n],
             br = one => Has(n)' \cap Has(j) = {}, br = two => Has(n)' \cap Has(i) = {}
      PROVE  Has(remote[one])' \cap Has(remote[two])' = {}
  <2>1. remote \in [Branch -> 0 .. Len(objects)]
    BY DEF Typed, GitTyped
  <2>2. /\ br = one => remote'[one] = n /\ remote'[two] = j
        /\ br = two => remote'[one] = i /\ remote'[two] = n
        /\ br # one /\ br # two => remote'[one] = i /\ remote'[two] = j
    BY <1>1, <1>4, <2>1
  <2> QED
    BY <1>2, <1>3, <1>4, <2>2
<1>5. ASSUME NEW br \in Branch, NEW oid \in Oid, remote' = [remote EXCEPT ![br] = oid],
             \A other \in Branch : other # br => Has(remote[other]) \cap Has(oid) = {}
      PROVE  Has(remote[one])' \cap Has(remote[two])' = {}
  <2>1. Has(oid)' = Has(oid)
    BY TreesStay
  <2>2. br = one => Has(j) \cap Has(oid) = {}
    BY <1>1, <1>5
  <2>3. br = two => Has(i) \cap Has(oid) = {}
    BY <1>1, <1>5
  <2>4. br = one => Has(oid)' \cap Has(j) = {}
    BY <2>1, <2>2
  <2>5. br = two => Has(oid)' \cap Has(i) = {}
    BY <2>1, <2>3
  <2> QED
    BY <1>4, <1>5, <2>4, <2>5
<1>6. ASSUME NEW br \in Branch, NEW n \in Oid', remote' = [remote EXCEPT ![br] = n], Has(n)' = Has(remote[br])
      PROVE  Has(remote[one])' \cap Has(remote[two])' = {}
  <2>1. br = one => Has(n)' \cap Has(j) = {}
    BY <1>1, <1>2, <1>6
  <2>2. br = two => Has(n)' \cap Has(i) = {}
    BY <1>1, <1>2, <1>6
  <2> QED
    BY <1>4, <1>6, <2>1, <2>2
<1> QED
  BY <1>1, <1>2, <1>3, <1>5, <1>6, LandsApart

\* Every step keeps Elsewhere: a group is written when no tip has it, and moved when its branch has
\* not.
LEMMA ElsewhereNext ==
  ASSUME Typed, Known, Apart, Elsewhere, Late, Phases, Capacity, Deleting, [Next]_vars, ~Rewrite
  PROVE  Elsewhere'
<1> SUFFICES ASSUME NEW br \in Branch, journal' # None, br # journal'.branch
             PROVE  Has(remote[br])' \cap Group' = {}
  BY DEF Elsewhere
<1>0. remote \in [Branch -> 0 .. Len(objects)] /\ Len(objects) \in Nat
  BY DEF Typed, GitTyped
<1>1. PICK old \in {0} \cup Oid : old = remote[br]
  BY <1>0 DEF Oid
<1>2. Has(old)' = Has(old)
  BY TreesStay
<1>3. CASE WriteJournal
  <2>1. remote' = remote /\ Group = {} /\ Group' \subseteq ready
    BY <1>3, GroupMoves DEF WriteJournal, git, Group, RemoveJournal, Typed, JournalTyped
  <2>2. Has(old) \cap ready = {}
    BY <2>1, NothingAtZero DEF Known
  <2> QED
    BY <1>1, <1>2, <2>1, <2>2
<1>4. CASE RotateJournal
  <2>1. journal \in Journal /\ journal # None /\ remote' = remote /\ Group' = Group
    <3>1. journal \in Journal /\ journal # None /\ remote' = remote
      BY <1>4, NoneAssumption DEF RotateJournal, git, Typed, JournalTyped, InHand, At, Grouped
    <3>2. journal'.group = journal.group
      BY <1>4, <3>1 DEF RotateJournal, BackToPrepared, Journal
    <3> QED
      BY <3>1, <3>2 DEF Group
  <2>2. CASE br = journal.branch
    BY <1>1, <1>2, <1>4, <2>1, <2>2 DEF RotateJournal, Capacity
  <2>3. CASE br # journal.branch
    BY <1>1, <1>2, <2>1, <2>3 DEF Elsewhere
  <2> QED
    BY <2>2, <2>3
<1>5. CASE /\ journal \in Journal /\ journal' \in Journal
           /\ journal'.branch = journal.branch /\ journal'.group = journal.group
  <2>1. journal # None /\ Group' = Group /\ br # journal.branch
    BY <1>5, NoneAssumption DEF Group
  <2>2. Has(old) \cap Group = {}
    BY <1>1, <2>1 DEF Elsewhere
  <2>3. CASE remote'[br] = old
    BY <1>1, <1>2, <2>1, <2>2, <2>3
  <2>4. ASSUME NEW at \in Branch, NEW oid \in Oid, remote' = [remote EXCEPT ![at] = oid],
               at # journal.branch => Has(oid) \cap Group = {}
        PROVE  Has(remote[br])' \cap Group' = {}
    <3>1. CASE at = br
      BY <1>0, <2>1, <2>4, <3>1, TreesStay
    <3>2. CASE at # br
      BY <1>0, <1>1, <2>3, <2>4, <3>2
    <3> QED
      BY <3>1, <3>2
  <2>5. ASSUME NEW at \in Branch, NEW n \in Oid', remote' = [remote EXCEPT ![at] = n],
               Has(n)' = Has(remote[at])
        PROVE  Has(remote[br])' \cap Group' = {}
    <3>1. CASE at = br
      BY <1>0, <1>1, <2>1, <2>2, <2>5, <3>1
    <3>2. CASE at # br
      BY <1>0, <1>1, <2>3, <2>5, <3>2
    <3> QED
      BY <3>1, <3>2
  <2> QED
    BY <1>1, <2>1, <2>3, <2>4, <2>5, LandsApart
<1> QED
  BY <1>3, <1>4, <1>5, JournalMoves

\* What a push still under way can do is not made worse by a step.
LEMMA AwaitedStays ==
  ASSUME Typed, Late, Phases, Monotone, [Next]_vars, ~Rewrite, inflight' = inflight, Awaited'
  PROVE  Awaited /\ remote'[inflight.branch] = remote[inflight.branch]
         /\ inflight.branch \in Branch /\ inflight.oid \in Oid
         /\ objects'[inflight.oid].parent = objects[inflight.oid].parent
         /\ objects[inflight.oid].parent \in {0} \cup Oid
<1>1. inflight # None /\ inflight.branch \in Branch /\ inflight.oid \in Oid
  BY DEF Awaited, Typed, GitTyped
<1>2. objects'[inflight.oid].parent = objects[inflight.oid].parent
  BY <1>1, CommitMoves
<1>3. objects[inflight.oid].parent <= remote[inflight.branch]
  BY <1>1 DEF Late
<1>4. remote[inflight.branch] <= remote'[inflight.branch]
  BY <1>1, TipsRise
<1>5. objects[inflight.oid].parent \in Nat /\ remote[inflight.branch] \in 0 .. Len(objects) /\ Len(objects) \in Nat
  <2>1. objects[inflight.oid].parent \in Nat
    BY <1>1, ParentTyped
  <2> QED
    BY <1>1, <2>1, TipTyped
<1>6. remote'[inflight.branch] = objects[inflight.oid].parent
  BY <1>2 DEF Awaited
<1>7. remote[inflight.branch] = objects[inflight.oid].parent
  BY <1>3, <1>4, <1>5, <1>6
<1> QED
  BY <1>1, <1>2, <1>5, <1>6, <1>7 DEF Awaited, Oid

\* What this sync pushes, if the tip is still the commit's parent, is apart from every other branch.
LEMMA HeadApart ==
  ASSUME Typed, Apart, Elsewhere, Phases, At("push"),
         remote[journal.branch] = objects[cache.head].parent,
         NEW other \in Branch, other # journal.branch
  PROVE  Has(remote[other]) \cap Has(cache.head) = {}
<1>1. journal \in Journal /\ journal # None
  BY NoneAssumption DEF Typed, JournalTyped, InHand, At, Grouped
<1>2. Has(cache.head) = Has(remote[journal.branch]) \cup Group
  BY <1>1 DEF Phases, Committed, Group
<1>3. Has(remote[other]) \cap Has(remote[journal.branch]) = {}
  BY <1>1 DEF Apart, Journal
<1>4. Has(remote[other]) \cap Group = {}
  BY <1>1 DEF Elsewhere
<1> QED
  BY <1>2, <1>3, <1>4

\* The same of a push still under way, after any step.
LEMMA AwaitedApart ==
  ASSUME Typed, Apart, Elsewhere, Late, Phases, Monotone, [Next]_vars, ~Rewrite, inflight' = inflight, Awaited',
         NEW br \in Branch, br # inflight.branch
  PROVE  Has(remote[br])' \cap Has(inflight.oid)' = {}
<1>0. remote \in [Branch -> 0 .. Len(objects)]
  BY DEF Typed, GitTyped
<1>1. PICK late \in Oid : late = inflight.oid
  BY AwaitedStays
<1>2. Has(late)' = Has(late)
  BY TreesStay
<1>3. Awaited /\ inflight # None
  BY AwaitedStays DEF Awaited
<1>4. PICK old \in {0} \cup Oid : old = remote[br]
  BY <1>0 DEF Oid
<1>5. Has(old)' = Has(old) /\ Has(old) \cap Has(late) = {}
  BY <1>1, <1>3, <1>4, TreesStay DEF Late
<1>6. CASE remote'[br] = old
  BY <1>1, <1>2, <1>5, <1>6
<1>7. CASE Push /\ \E oid \in Oid : /\ oid = cache.head /\ remote[journal.branch] = objects[oid].parent
                                    /\ remote' = [remote EXCEPT ![journal.branch] = oid]
  <2>1. PICK oid \in Oid : /\ oid = cache.head /\ remote[journal.branch] = objects[oid].parent
                           /\ remote' = [remote EXCEPT ![journal.branch] = oid]
    BY <1>7
  <2>2. CASE br = journal.branch
    <3>1. Has(oid) = Has(old) \cup Group
      <4>1. journal # None
        BY <1>7, NoneAssumption DEF Push, Typed, JournalTyped, InHand, At, Grouped
      <4> QED
        BY <1>4, <1>7, <2>1, <2>2, <4>1 DEF Push, Phases, Committed, Group
    <3>2. Has(late) \cap Group = {}
      BY <1>1, <1>3, <2>2 DEF Late
    <3>3. Has(oid) \cap Has(late) = {}
      BY <1>5, <3>1, <3>2
    <3>4. remote'[br] = oid /\ Has(oid)' = Has(oid)
      BY <1>0, <2>1, <2>2, TreesStay
    <3> QED
      BY <1>1, <1>2, <3>3, <3>4
  <2>3. CASE br # journal.branch
    BY <1>0, <1>4, <1>6, <2>1, <2>3
  <2> QED
    BY <2>2, <2>3
<1>8. ASSUME NEW at \in Branch, NEW n \in Oid', remote' = [remote EXCEPT ![at] = n], Has(n)' = Has(remote[at])
      PROVE  Has(remote[br])' \cap Has(inflight.oid)' = {}
  <2>1. CASE at = br
    <3>1. remote'[br] = n /\ Has(n)' = Has(old)
      BY <1>0, <1>4, <1>8, <2>1
    <3> QED
      BY <1>1, <1>2, <1>5, <3>1
  <2>2. CASE at # br
    BY <1>0, <1>4, <1>6, <1>8, <2>2
  <2> QED
    BY <2>1, <2>2
<1>9. ~LatePush
  BY <1>3 DEF LatePush
<1> QED
  BY <1>4, <1>6, <1>7, <1>8, <1>9, TipMoves

\* How much fits on top of a commit does not change.
LEMMA RoomStays ==
  ASSUME Typed, [Next]_vars, NEW oid \in {0} \cup Oid, journal'.group = journal.group
  PROVE  Room(oid)' <=> Room(oid)
  BY TreesStay DEF Room

\* A push still under way that brings the group brings it to its branch, where it fits.
LEMMA AwaitedHasRoom ==
  ASSUME Typed, Known, Late, Phases, Monotone, Capacity, Deleting, [Next]_vars, ~Rewrite,
         inflight' = inflight, Awaited', Has(inflight.oid)' \cap Group' # {}
  PROVE  inflight.branch = journal'.branch /\ Room(objects[inflight.oid].parent)'
<1>1. PICK late \in Oid : late = inflight.oid
  BY AwaitedStays
<1>2. PICK parent \in {0} \cup Oid : parent = objects[late].parent
  BY <1>1, AwaitedStays
<1>3. Awaited /\ Has(late)' = Has(late) /\ objects'[late].parent = parent
  BY <1>1, <1>2, AwaitedStays, TreesStay
<1>4. journal' # None
  BY DEF Group
<1>5. Has(late) \cap Group' # {}
  BY <1>1, <1>3
<1>6. ~WriteJournal
  <2>1. CASE WriteJournal
    <3>1. Group = {} /\ Group' \subseteq ready
      BY <2>1, GroupMoves DEF WriteJournal, Group, RemoveJournal, Typed, JournalTyped
    <3> QED
      BY <1>5, <3>1 DEF Known
  <2> QED
    BY <2>1
<1>7. ~RotateJournal
  <2>1. CASE RotateJournal
    <3>1. journal \in Journal /\ journal # None
      BY <2>1, NoneAssumption DEF RotateJournal, Typed, JournalTyped, InHand, At, Grouped
    <3>2. journal'.group = journal.group
      BY <2>1, <3>1 DEF RotateJournal, BackToPrepared, Journal
    <3>3. Group' = Group
      BY <1>4, <3>1, <3>2 DEF Group
    <3> QED
      BY <1>1, <1>3, <1>5, <2>1, <3>3 DEF RotateJournal, Capacity
  <2> QED
    BY <2>1
<1>8. /\ journal \in Journal /\ journal' \in Journal
      /\ journal'.branch = journal.branch /\ journal'.group = journal.group
  BY <1>4, <1>6, <1>7, JournalMoves
<1>9. Group' = Group
  BY <1>8, NoneAssumption DEF Group
<1>10. inflight.branch = journal.branch /\ Room(parent)
  BY <1>1, <1>2, <1>3, <1>5, <1>9 DEF Late
<1>11. Room(parent)'
  BY <1>8, <1>10, RoomStays
<1> QED
  BY <1>1, <1>3, <1>8, <1>10, <1>11

\* Every step keeps Late.
LEMMA LateNext ==
  ASSUME Typed, Known, Apart, Elsewhere, Late, Phases, Monotone, Capacity, Deleting, [Next]_vars, ~Rewrite
  PROVE  Late'
<1>1. CASE inflight' = inflight
  <2>1. ASSUME inflight # None
        PROVE  objects'[inflight.oid].parent <= remote'[inflight.branch]
    <3>1. inflight.branch \in Branch /\ inflight.oid \in Oid
      BY <2>1 DEF Typed, GitTyped
    <3>3. objects[inflight.oid].parent \in Nat /\ remote[inflight.branch] \in Nat
      BY <3>1, ParentTyped, TipTyped
    <3>4. remote'[inflight.branch] \in Nat
      BY <3>1, TipsTypedNext
    <3>5. objects[inflight.oid].parent <= remote[inflight.branch]
      BY <2>1 DEF Late
    <3>6. remote[inflight.branch] <= remote'[inflight.branch]
      BY <3>1, TipsRise
    <3>7. objects'[inflight.oid].parent = objects[inflight.oid].parent
      BY <3>1, CommitMoves
    <3> QED
      BY <3>3, <3>4, <3>5, <3>6, <3>7
  <2>2. ASSUME Awaited', NEW br \in Branch, br # inflight.branch
        PROVE  Has(remote[br])' \cap Has(inflight.oid)' = {}
    BY <1>1, <2>2, AwaitedApart
  <2>3. ASSUME Awaited', Has(inflight.oid)' \cap Group' # {}
        PROVE  inflight.branch = journal'.branch /\ Room(objects[inflight.oid].parent)'
    BY <1>1, <2>3, AwaitedHasRoom
  <2> QED
    BY <1>1, <2>1, <2>2, <2>3 DEF Late
<1>2. CASE inflight' = None
  BY <1>2 DEF Late, Awaited
<1>3. CASE PushLost /\ inflight' = [branch |-> journal.branch, oid |-> cache.head]
  <2>1. UNCHANGED <<journal, objects, remote>> /\ At("push")
    BY <1>3 DEF PushLost, state, git
  <2>2. PICK oid \in Oid : oid = cache.head
    BY <2>1 DEF Typed, CacheTyped
  <2>3. journal \in Journal /\ journal # None
    BY <2>1, NoneAssumption DEF Typed, JournalTyped, InHand, At, Grouped
  <2>4. Committed(oid)
    BY <2>1, <2>2 DEF Phases
  <2>5. PICK parent \in {0} \cup Oid : parent = objects[oid].parent
    <3>1. objects[oid] \in Commit /\ objects[oid].parent < oid
      BY DEF Typed, GitTyped, Oid
    <3> QED
      BY <3>1 DEF Commit, Oid
  <2>6. inflight'.oid = oid /\ inflight'.branch = journal.branch
    BY <1>3, <2>2
  <2>7. Has(oid)' = Has(oid)
    BY TreesStay
  <2>8. ASSUME Awaited', NEW br \in Branch, br # inflight'.branch
        PROVE  Has(remote[br])' \cap Has(inflight.oid)' = {}
    <3>1. remote[journal.branch] = objects[oid].parent
      BY <2>1, <2>6, <2>8 DEF Awaited
    <3>2. Has(remote[br]) \cap Has(oid) = {}
      BY <2>1, <2>2, <2>6, <2>8, <3>1, HeadApart
    <3>3. PICK tip \in {0} \cup Oid : tip = remote[br]
      BY DEF Typed, GitTyped, Oid
    <3>4. Has(tip)' = Has(tip)
      BY TreesStay
    <3> QED
      BY <2>1, <2>6, <2>7, <3>2, <3>3, <3>4
  <2>9. Room(parent)'
    BY <2>1, <2>4, <2>5, RoomStays DEF Committed
  <2> QED
    BY <2>1, <2>4, <2>5, <2>6, <2>8, <2>9 DEF Late, Committed
<1> QED
  BY <1>1, <1>2, <1>3, Changes DEF PushLost, LatePush

\* Once the group is at the tip of its branch it stays there, and a commit of it remains one.
LEMMA OnRemoteStays ==
  ASSUME Typed, Late, Phases, Monotone, [Next]_vars, ~Rewrite, journal \in Journal, OnRemote,
         journal'.branch = journal.branch, journal'.group = journal.group
  PROVE  OnRemote'
<1>1. journal.branch \in Branch
  BY DEF Journal
<1>2. Has(remote[journal.branch]) \subseteq Has(remote[journal.branch])'
  <2>1. PICK br \in Branch : br = journal.branch
    BY <1>1
  <2>2. Has(remote[br]) \subseteq Has(remote[br])'
    BY TipsRise
  <2>3. journal'.branch = br
    BY <2>1
  <2> QED
    BY <2>1, <2>2, <2>3
<1> QED
  BY <1>2 DEF OnRemote

\* The commit likewise.
LEMMA CommittedStays ==
  ASSUME Typed, Late, Phases, Monotone, [Next]_vars, ~Rewrite, journal \in Journal, NEW oid, Committed(oid),
         journal'.branch = journal.branch, journal'.group = journal.group
  PROVE  Committed(oid)'
<1>1. PICK br \in Branch : br = journal.branch
  BY DEF Journal
<1>2. oid \in Oid /\ oid \in Oid' /\ objects'[oid].parent = objects[oid].parent
  BY CommitMoves DEF Committed
<1>3. PICK parent \in {0} \cup Oid : parent = objects[oid].parent
  <2>1. objects[oid] \in Commit /\ objects[oid].parent < oid
    BY <1>2 DEF Typed, GitTyped, Oid
  <2> QED
    BY <1>2, <2>1 DEF Commit, Oid
<1>4. Has(oid)' = Has(oid) /\ Has(parent)' = Has(parent)
  BY <1>2, TreesStay
<1>5. Room(parent)'
  BY <1>3, RoomStays DEF Committed
<1>6. parent <= remote[br] /\ remote[br] <= remote'[br]
  BY <1>1, <1>3, TipsRise DEF Committed
<1>7. parent \in Nat /\ remote[br] \in Nat /\ remote'[br] \in Nat
  BY GitNext DEF Typed, GitTyped, Oid
<1>8. parent <= remote'[br]
  BY <1>6, <1>7
<1> QED
  BY <1>1, <1>2, <1>3, <1>4, <1>5, <1>8 DEF Committed

\* A journal that has a commit, or more, was there before.
LEMMA NotPrepared ==
  ASSUME Typed, [Next]_vars, journal' # None, journal'.phase # "Prepared"
  PROVE  /\ journal \in Journal /\ journal # None
         /\ journal'.branch = journal.branch /\ journal'.group = journal.group
         /\ ~WriteJournal /\ ~RotateJournal
<1>1. ~WriteJournal
  BY DEF WriteJournal
<1>2. CASE RotateJournal
  <2>1. journal \in Journal
    BY <1>2 DEF RotateJournal, Typed, JournalTyped, InHand, At, Grouped
  <2>2. BackToPrepared \in [group : SUBSET Batch, branch : Branch, phase : {"Prepared"}, oid : Nat]
    BY <2>1 DEF BackToPrepared, Journal
  <2>3. journal'.phase = "Prepared"
    BY <1>2, <2>2 DEF RotateJournal
  <2> QED
    BY <2>3
<1> QED
  BY <1>1, <1>2, JournalMoves, NoneAssumption

\* Each of the four parts of Phases, in turn.
LEMMA ConfirmedNext ==
  ASSUME Typed, Late, Phases, Monotone, [Next]_vars, ~Rewrite,
         journal' # None, journal'.phase \in {"RemoteConfirmed", "ReceiptDurable"}
  PROVE  OnRemote'
<1>2. /\ journal \in Journal /\ journal # None
      /\ journal'.branch = journal.branch /\ journal'.group = journal.group
      /\ ~WriteJournal /\ ~RotateJournal
  BY NotPrepared
<1>3. CASE journal' = journal
  BY <1>2, <1>3, OnRemoteStays DEF Phases
<1>4. CASE Protect
  <2>1. journal' = journal
    BY <1>2, <1>4 DEF Protect, Write, Journal
  <2> QED
    BY <1>3, <2>1
<1>5. CASE Verify \/ CheckPush
  <2>1. journal' = journal
    BY <1>2, <1>5 DEF Verify, CheckPush, BackToPrepared, Journal
  <2> QED
    BY <1>3, <2>1
<1>6. ~MarkCommitted /\ ~RemoveJournal
  BY <1>2 DEF MarkCommitted, RemoveJournal, Journal
<1>7. CASE Confirm
  BY <1>2, <1>7, OnRemoteStays DEF Confirm, Phases
<1>8. CASE ReceiptsDurable
  <2>1. journal.phase = "RemoteConfirmed"
    BY <1>8 DEF ReceiptsDurable, Typed, CacheTyped
  <2> QED
    BY <1>2, <2>1, OnRemoteStays DEF Phases
<1> QED
  BY <1>2, <1>3, <1>4, <1>5, <1>6, <1>7, <1>8, Changes

\* A committed group is on the remote, or its commit can be pushed.
LEMMA CommittedNext ==
  ASSUME Typed, Late, Phases, Monotone, [Next]_vars, ~Rewrite, journal' # None, journal'.phase = "Committed"
  PROVE  OnRemote' \/ Committed(journal.oid)'
<1>2. /\ journal \in Journal /\ journal # None
      /\ journal'.branch = journal.branch /\ journal'.group = journal.group
      /\ ~WriteJournal /\ ~RotateJournal
  BY NotPrepared
<1>3. ASSUME NEW oid, Committed(oid), journal'.oid = oid
      PROVE  Committed(journal.oid)'
  <2>1. Committed(oid)'
    BY <1>2, <1>3, CommittedStays
  <2> QED
    BY <1>3, <2>1
<1>4. CASE journal' = journal
  BY <1>2, <1>3, <1>4, OnRemoteStays DEF Phases
<1>5. CASE Protect
  <2>1. journal' = journal \/ journal.phase = "ReceiptDurable"
    BY <1>5 DEF Protect
  <2> QED
    BY <1>2, <1>4, <2>1, OnRemoteStays DEF Phases
<1>6. CASE Verify \/ CheckPush
  <2>1. journal' = journal
    BY <1>2, <1>6 DEF Verify, CheckPush, BackToPrepared, Journal
  <2> QED
    BY <1>4, <2>1
<1>7. CASE MarkCommitted
  <2>1. PICK oid : oid = cache.head
    OBVIOUS
  <2>2. Committed(oid) /\ journal'.oid = oid
    BY <1>2, <1>7, <2>1 DEF MarkCommitted, Phases, Journal
  <2> QED
    BY <1>3, <2>2
<1>8. ~Confirm /\ ~ReceiptsDurable /\ ~RemoveJournal
  BY <1>2 DEF Confirm, ReceiptsDurable, RemoveJournal, Write, Journal
<1> QED
  BY <1>2, <1>4, <1>5, <1>6, <1>7, <1>8, Changes

\* A group is confirmed after it was found on the remote.
LEMMA ConfirmNext ==
  ASSUME Typed, Late, Phases, Monotone, [Next]_vars, ~Rewrite, At("confirm")'
  PROVE  OnRemote'
<1>0. SyncTyped /\ SyncTyped' /\ sync' # None /\ (sync' = sync \/ Moves)
  BY SyncSteps DEF Typed, At
<1>1. CASE sync' = sync
  <2>1. journal' = journal /\ At("confirm")
    BY <1>0, <1>1, JournalStays DEF At
  <2>2. journal \in Journal
    BY <2>1 DEF Typed, JournalTyped, InHand, At, Grouped
  <2> QED
    BY <2>1, <2>2, OnRemoteStays DEF Phases
<1>2. CASE Verify \/ CheckPush
  <2>1. journal \in Journal
    BY <1>2 DEF Verify, CheckPush, Typed, JournalTyped, InHand, At, Grouped
  <2>2. Verified /\ UNCHANGED journal
    BY <1>0, <1>2, FailedLeads DEF Verify, CheckPush, Go, End, At, SyncTyped, Running
  <2>3. OnRemote
    BY <2>1, <2>2 DEF Verified, Tip, Has, Journal, OnRemote
  <2> QED
    BY <2>1, <2>2, <2>3, OnRemoteStays
<1> QED
  BY <1>0, <1>1, <1>2 DEF Moves, At

\* What is pushed is a commit of the group.
LEMMA PushNext ==
  ASSUME Typed, Late, Phases, Monotone, Checkout, Capacity, [Next]_vars, ~Rewrite,
         At("mark_committed")' \/ At("push")'
  PROVE  Committed(cache.head)'
<1>0. SyncTyped /\ SyncTyped' /\ sync' # None /\ (sync' = sync \/ Moves)
  BY SyncSteps DEF Typed, At
<1>1. ASSUME NEW oid, Committed(oid), journal \in Journal, cache'.head = oid,
             journal'.branch = journal.branch, journal'.group = journal.group
      PROVE  Committed(cache.head)'
  <2>1. Committed(oid)'
    BY <1>1, CommittedStays
  <2> QED
    BY <1>1, <2>1
<1>2. CASE sync' = sync
  <2>1. journal' = journal /\ cache' = cache /\ (At("mark_committed") \/ At("push"))
    BY <1>0, <1>2, JournalStays, CacheStays DEF At
  <2>2. journal \in Journal
    BY <2>1 DEF Typed, JournalTyped, InHand, At, Grouped
  <2>3. PICK oid : oid = cache.head
    OBVIOUS
  <2> QED
    BY <1>1, <2>1, <2>2, <2>3 DEF Phases
<1>3. CASE CommitGroup
  <2>1. PICK n \in Oid' :
          /\ objects'[n].parent = cache.head /\ cache.head \in {0} \cup Oid
          /\ cache'.head = n
          /\ Has(n)' = Has(cache.head) \cup journal.group
    BY <1>0, <1>3, CommitAdds, FailedLeads DEF CommitGroup, Go, At, SyncTyped, Running
  <2>2. PICK parent \in {0} \cup Oid : parent = cache.head
    BY <2>1
  <2>3. journal' = journal /\ remote' = remote /\ journal \in Journal
    BY <1>3 DEF CommitGroup, state, Typed, JournalTyped, InHand, At, Grouped
  <2>4. Room(parent)' /\ Has(parent)' = Has(parent)
    BY <1>3, <2>2, <2>3, TreesStay, RoomStays DEF CommitGroup, Capacity, Fits, Room
  <2>5. parent <= remote[journal.branch]
    BY <1>3, <2>2 DEF CommitGroup, Checkout, Fresh, At
  <2> QED
    BY <2>1, <2>2, <2>3, <2>4, <2>5 DEF Committed
<1>4. CASE MarkCommitted
  <2>1. journal \in Journal /\ cache' = cache
    BY <1>4 DEF MarkCommitted, local, Typed, JournalTyped, InHand, At, Grouped
  <2>2. journal'.branch = journal.branch /\ journal'.group = journal.group
    BY <1>4, <2>1 DEF MarkCommitted, Journal
  <2>3. PICK oid : oid = cache.head
    OBVIOUS
  <2>4. Committed(oid)
    BY <1>4, <2>3 DEF MarkCommitted, Phases
  <2> QED
    BY <1>1, <2>1, <2>2, <2>3, <2>4
<1>5. CASE Verify
  <2>1. sync.local /\ ~Verified /\ cache' = cache
    BY <1>0, <1>5 DEF Verify, At, Go, End, local, SyncTyped, Running
  <2>2. journal' = journal /\ journal \in Journal /\ journal # None
    BY <1>5, <2>1, NoneAssumption DEF Verify, Typed, JournalTyped, InHand, At, Grouped
  <2>3. ~OnRemote
    BY <2>1, <2>2 DEF Verified, Tip, Has, Journal, OnRemote
  <2>4. journal.phase = "Committed" /\ cache.head = journal.oid
    BY <1>5, <2>1 DEF Verify, Typed, CacheTyped
  <2>5. PICK oid : oid = journal.oid
    OBVIOUS
  <2>6. Committed(oid)
    BY <2>2, <2>3, <2>4, <2>5 DEF Phases
  <2> QED
    BY <1>1, <2>1, <2>2, <2>4, <2>5, <2>6
<1> QED
  BY <1>0, <1>2, <1>3, <1>4, <1>5 DEF Moves, At

\* Every step keeps Phases.
LEMMA PhasesNext ==
  ASSUME Typed, Late, Phases, Monotone, Checkout, Capacity, [Next]_vars, ~Rewrite
  PROVE  Phases'
  BY ConfirmedNext, CommittedNext, ConfirmNext, PushNext DEF Phases

\* Every step keeps Checkout.
LEMMA CheckoutNext ==
  ASSUME Typed, Late, Phases, Monotone, Checkout, [Next]_vars, ~Rewrite
  PROVE  Checkout'
<1> SUFFICES ASSUME Fresh'
             PROVE  /\ cache'.head <= remote'[journal'.branch]
                    /\ inflight' # None /\ inflight'.branch = journal'.branch =>
                         objects'[inflight'.oid].parent <= cache'.head
  BY DEF Checkout
<1>1. PICK head \in {0} \cup Oid : head = cache'.head
  BY FreshComes
<1>2. PICK br \in Branch : br = journal.branch /\ br = journal'.branch
  BY FreshComes DEF Journal
<1>3. remote[br] \in Nat /\ remote'[br] \in Nat /\ remote[br] <= remote'[br] /\ head \in Nat
  <2>1. head \in Nat
    BY DEF Oid
  <2> QED
    BY <2>1, TipTyped, TipsTypedNext, TipsRise
<1>4. CASE Fresh /\ cache' = cache
  <2>1. head <= remote[br]
    BY <1>1, <1>2, <1>4 DEF Checkout
  <2>2. inflight' \in {inflight, None}
    <3>1. ~PushLost
      BY DEF PushLost, Fresh, Go, At, Typed, SyncTyped, Running
    <3> QED
      BY <3>1, Changes DEF LatePush
  <2>3. ASSUME inflight # None, inflight.branch = br
        PROVE  objects'[inflight.oid].parent <= head
    <3>1. objects'[inflight.oid].parent = objects[inflight.oid].parent
      BY <2>3, CommitMoves DEF Typed, GitTyped
    <3> QED
      BY <1>1, <1>2, <1>4, <2>3, <3>1 DEF Checkout
  <2> QED
    BY <1>1, <1>2, <1>3, <2>1, <2>2, <2>3
<1>5. CASE head = remote[br] /\ UNCHANGED git
  BY <1>1, <1>2, <1>3, <1>5 DEF git, Late
<1> QED
  BY <1>1, <1>2, <1>4, <1>5, FreshComes

\* A push still under way that would bring the group here was built on this very checkout.
LEMMA AwaitedFits ==
  ASSUME Typed, Late, Checkout, Fresh, Awaited, Has(inflight.oid) \cap Group # {}
  PROVE  Fits
<1>1. inflight.branch = journal.branch /\ Room(objects[inflight.oid].parent)
  BY DEF Late
<1>2. /\ cache.head <= remote[journal.branch] /\ remote[journal.branch] = objects[inflight.oid].parent
      /\ objects[inflight.oid].parent <= cache.head
  BY <1>1 DEF Checkout, Awaited
<1>3. cache.head \in Nat /\ remote[journal.branch] \in Nat
  <2>1. cache \in Cached /\ journal \in Journal
    BY DEF Fresh, Typed, CacheTyped, JournalTyped, InHand, Grouped
  <2> QED
    BY <2>1 DEF Cached, Oid, Journal, Typed, GitTyped
<1>4. cache.head = objects[inflight.oid].parent
  BY <1>2, <1>3
<1> QED
  BY <1>1, <1>4 DEF Room, Fits

\* Whether the group fits is a matter of the checkout.
LEMMA FitsStays ==
  ASSUME Typed, [Next]_vars, Fresh, Fits, cache' = cache, journal'.group = journal.group
  PROVE  Fits'
<1>1. PICK head \in {0} \cup Oid : head = cache.head
  BY DEF Fresh, Typed, CacheTyped, Cached
<1>2. Size(head)' = Size(head) /\ cache'.head = head
  BY <1>1, TreesStay
<1> QED
  BY <1>1, <1>2 DEF Fits

\* Only a late push brings the group to a tip at which it was not found.
LEMMA GroupArrives ==
  ASSUME Typed, Known, WholeGroup, Apart, Elsewhere, Late, Phases, Monotone, [Next]_vars, ~Rewrite, At("fit"),
         UNCHANGED journal, OnRemote', ~OnRemote
  PROVE  Awaited /\ Has(inflight.oid) \cap Group # {}
<1>0. journal \in Journal /\ journal # None /\ journal.group # {}
  BY NoneAssumption DEF Typed, JournalTyped, InHand, At, Grouped
<1>1. PICK br \in Branch : br = journal.branch
  BY <1>0 DEF Journal
<1>2. PICK old \in {0} \cup Oid : old = remote[br]
  BY DEF Typed, GitTyped, Oid
<1>3. remote \in [Branch -> 0 .. Len(objects)] /\ Has(old)' = Has(old)
  BY TreesStay DEF Typed, GitTyped
<1>4. CASE remote'[br] = old
  BY <1>1, <1>2, <1>3, <1>4 DEF OnRemote
<1>5. ~Push
  BY DEF Push, At
<1>6. CASE LatePush /\ Awaited /\ \E oid \in Oid :
              /\ oid = inflight.oid
              /\ remote' = [remote EXCEPT ![inflight.branch] = oid]
  <2>1. PICK oid \in Oid : oid = inflight.oid /\ remote' = [remote EXCEPT ![inflight.branch] = oid]
    BY <1>6
  <2>2. CASE inflight.branch = br
    <3>1. remote'[br] = oid /\ Has(oid)' = Has(oid)
      BY <1>3, <2>1, <2>2, TreesStay
    <3>2. journal.group \subseteq Has(oid)
      BY <1>1, <3>1 DEF OnRemote
    <3> QED
      BY <1>0, <1>6, <2>1, <3>2 DEF Group
  <2>3. CASE inflight.branch # br
    BY <1>2, <1>3, <1>4, <2>1, <2>3
  <2> QED
    BY <2>2, <2>3
<1>7. ASSUME NEW at \in Branch, NEW n \in Oid', remote' = [remote EXCEPT ![at] = n], Has(n)' = Has(remote[at])
      PROVE  FALSE
  <2>1. CASE at = br
    <3>1. remote'[br] = n /\ Has(n)' = Has(old)
      BY <1>2, <1>3, <1>7, <2>1
    <3> QED
      BY <1>1, <1>2, <3>1 DEF OnRemote
  <2>2. CASE at # br
    <3>1. remote'[br] = old
      BY <1>2, <1>3, <1>7, <2>2
    <3> QED
      BY <1>1, <1>2, <1>3, <3>1 DEF OnRemote
  <2> QED
    BY <2>1, <2>2
<1> QED
  BY <1>2, <1>4, <1>5, <1>6, <1>7, TipMoves

\* Each of the three parts of Capacity, in turn.
LEMMA FitNext ==
  ASSUME Typed, Known, WholeGroup, Apart, Elsewhere, Late, Phases, Monotone, Checkout, Capacity, [Next]_vars, ~Rewrite,
         At("fit")', OnRemote'
  PROVE  Fits'
<1>0. SyncTyped /\ SyncTyped' /\ sync' # None /\ (sync' = sync \/ Moves)
  BY SyncSteps DEF Typed, At
<1>1. CASE sync' = sync
  <2>1. journal' = journal /\ cache' = cache /\ At("fit") /\ Fresh
    BY <1>0, <1>1, JournalStays, CacheStays DEF At, Fresh
  <2>2. Fits
    BY <2>1, GroupArrives, AwaitedFits DEF Capacity
  <2> QED
    BY <2>1, <2>2, FitsStays
<1>2. CASE Verify
  <2>1. journal \in Journal /\ ~Verified
    BY <1>0, <1>2 DEF Verify, At, Go, End, SyncTyped, Running, Typed, JournalTyped, InHand, Grouped
  <2>2. journal' \in {journal, BackToPrepared} /\ remote' = remote
    BY <1>2 DEF Verify, git
  <2>3. journal'.branch = journal.branch /\ journal'.group = journal.group
    BY <2>1, <2>2 DEF BackToPrepared, Journal
  <2>4. PICK old \in {0} \cup Oid : old = remote[journal.branch]
    BY <2>1 DEF Typed, GitTyped, Oid, Journal
  <2>5. ~(journal.group \subseteq Has(old))
    BY <2>1, <2>4 DEF Verified, Tip, Has, Journal
  <2>6. Has(old)' = Has(old) /\ remote'[journal'.branch] = old
    BY <2>2, <2>3, <2>4, TreesStay
  <2> QED
    BY <2>3, <2>5, <2>6 DEF OnRemote
<1> QED
  BY <1>0, <1>1, <1>2 DEF Moves, At

\* What is committed was found to fit.
LEMMA CommitNext ==
  ASSUME Typed, Capacity, [Next]_vars, At("commit")'
  PROVE  Fits'
<1>0. SyncTyped /\ SyncTyped' /\ sync' # None /\ (sync' = sync \/ Moves)
  BY SyncSteps DEF Typed, At
<1>1. CASE sync' = sync
  <2>1. journal' = journal /\ cache' = cache /\ At("commit") /\ Fresh
    BY <1>0, <1>1, JournalStays, CacheStays DEF At, Fresh
  <2> QED
    BY <2>1, FitsStays DEF Capacity
<1>2. CASE FitShard
  <2>1. Fits /\ journal' = journal /\ cache' = cache /\ Fresh
    BY <1>0, <1>2 DEF FitShard, At, Go, End, SyncTyped, Running, local, Fresh
  <2> QED
    BY <2>1, FitsStays
<1> QED
  BY <1>0, <1>1, <1>2 DEF Moves, At

\* A group that does not fit is not on its branch, and no push can bring it there.
LEMMA RotateNext ==
  ASSUME Typed, Known, WholeGroup, Apart, Elsewhere, Late, Phases, Monotone, Checkout, Capacity, [Next]_vars, ~Rewrite,
         At("rotate")'
  PROVE  /\ Has(remote[journal.branch])' \cap Group' = {}
         /\ Awaited' => Has(inflight.oid)' \cap Group' = {}
<1>0. SyncTyped /\ SyncTyped' /\ sync' # None /\ (sync' = sync \/ Moves)
  BY SyncSteps DEF Typed, At
<1>1. CASE sync' = sync
  <2>1. journal' = journal /\ Group' = Group /\ At("rotate") /\ journal \in Journal /\ journal # None
    BY <1>0, <1>1, JournalStays, NoneAssumption DEF At, Typed, JournalTyped, InHand, Grouped, Group
  <2>2. PICK br \in Branch : br = journal.branch
    BY <2>1 DEF Journal
  <2>3. PICK old \in {0} \cup Oid : old = remote[br]
    BY DEF Typed, GitTyped, Oid
  <2>4. remote \in [Branch -> 0 .. Len(objects)] /\ Has(old)' = Has(old)
    BY TreesStay DEF Typed, GitTyped
  <2>5. Has(old) \cap Group = {}
    BY <2>1, <2>2, <2>3 DEF Capacity
  <2>6. ~Push /\ ~PushLost
    BY <2>1 DEF Push, PushLost, At
  <2>7. ASSUME NEW n, remote'[br] = n, Has(n)' \cap Group = {}
        PROVE  Has(remote[journal.branch])' \cap Group' = {}
    BY <2>1, <2>2, <2>7
  <2>8. ASSUME NEW at \in Branch, NEW oid \in Oid, remote' = [remote EXCEPT ![at] = oid],
               Awaited, oid = inflight.oid
        PROVE  Has(remote[journal.branch])' \cap Group' = {}
    <3>1. Has(oid)' = Has(oid) /\ Has(oid) \cap Group = {}
      BY <2>1, <2>8, TreesStay DEF Capacity
    <3>2. remote'[br] \in {old, oid}
      BY <2>3, <2>4, <2>8
    <3> QED
      BY <2>4, <2>5, <2>7, <3>1, <3>2
  <2>9. ASSUME NEW at \in Branch, NEW n \in Oid', remote' = [remote EXCEPT ![at] = n], Has(n)' = Has(remote[at])
        PROVE  Has(remote[journal.branch])' \cap Group' = {}
    <3>1. CASE at = br
      BY <2>3, <2>4, <2>5, <2>7, <2>9, <3>1
    <3>2. CASE at # br
      BY <2>3, <2>4, <2>5, <2>7, <2>9, <3>2
    <3> QED
      BY <3>1, <3>2
  <2>10. Has(remote[journal.branch])' \cap Group' = {}
    BY <2>3, <2>4, <2>5, <2>6, <2>7, <2>8, <2>9, LandsApart
  <2>11. ASSUME Awaited'
         PROVE  Has(inflight.oid)' \cap Group' = {}
    <3>1. inflight' = inflight
      BY <2>6, <2>11, Changes DEF LatePush, Awaited
    <3>2. PICK late \in Oid : late = inflight.oid
      BY <2>11, <3>1, AwaitedStays
    <3>3. Awaited /\ Has(late)' = Has(late)
      BY <2>11, <3>1, AwaitedStays, TreesStay
    <3> QED
      BY <2>1, <3>1, <3>2, <3>3 DEF Capacity
  <2> QED
    BY <2>10, <2>11
<1>2. CASE FitShard
  <2>1. ~Fits /\ At("fit") /\ Fresh /\ UNCHANGED <<git, journal>>
    BY <1>0, <1>2 DEF FitShard, At, Go, End, SyncTyped, Running, Fresh
  <2>2. journal \in Journal /\ journal # None /\ Group' = Group /\ Group = journal.group
    BY <2>1, NoneAssumption DEF At, Typed, JournalTyped, InHand, Grouped, Group
  <2>3. PICK br \in Branch : br = journal.branch
    BY <2>2 DEF Journal
  <2>4. PICK old \in {0} \cup Oid : old = remote[br]
    BY DEF Typed, GitTyped, Oid
  <2>5. Has(old)' = Has(old) /\ ~(Group \subseteq Has(old))
    BY <2>1, <2>2, <2>3, <2>4, TreesStay DEF Capacity, OnRemote
  <2>6. Group \cap Has(old) = {}
    BY <2>5, NothingAtZero DEF WholeGroup
  <2>7. Awaited => Has(inflight.oid) \cap Group = {}
    BY <2>1, AwaitedFits
  <2>8. ASSUME Awaited'
        PROVE  Has(inflight.oid)' \cap Group' = {}
    <3>1. Awaited /\ inflight' = inflight
      BY <2>1, <2>8 DEF git, Awaited
    <3>2. PICK late \in Oid : late = inflight.oid
      BY <3>1 DEF Awaited, Typed, GitTyped
    <3> QED
      BY <2>2, <2>7, <3>1, <3>2, TreesStay
  <2> QED
    BY <2>1, <2>2, <2>3, <2>4, <2>5, <2>6, <2>8 DEF git
<1> QED
  BY <1>0, <1>1, <1>2 DEF Moves, At

\* Every step keeps Capacity.
LEMMA CapacityNext ==
  ASSUME Typed, Known, WholeGroup, Apart, Elsewhere, Late, Phases, Monotone, Checkout, Capacity, [Next]_vars, ~Rewrite
  PROVE  Capacity'
  BY FitNext, CommitNext, RotateNext DEF Capacity

\* Every step but a rewrite keeps Copies.
LEMMA CopiesNext ==
  ASSUME Typed, Deleting, Copies, [Next]_vars, ~Rewrite
  PROVE  Copies'
  BY MonotoneNext, KnownNext, WholeGroupNext, ApartNext, ElsewhereNext, LateNext, PhasesNext, CheckoutNext,
     CapacityNext
  DEF Copies

\* It holds at first.
LEMMA CopiesInit ==
  ASSUME Init
  PROVE  Copies
<1>1. \A br \in Branch : Has(remote[br]) = {}
  BY NothingAtZero DEF Init
<1>2. Oid = {}
  BY DEF Init, Oid
<1>3. ~Awaited /\ ~Fresh /\ journal = None /\ inflight = None /\ sync = None
  BY DEF Init, Awaited, Fresh
<1> QED
  BY <1>1, <1>2, <1>3
  DEF Copies, Monotone, Known, WholeGroup, Apart, Elsewhere, Late, Phases, Checkout, Capacity, At

\* Then there is at most one copy of a batch.
LEMMA ApartIsOne ==
  ASSUME Apart, NEW b \in Batch
  PROVE  Cardinality({br \in Branch : Tip(br)[b] = "same"}) <= 1
<1> DEFINE copies == {br \in Branch : Tip(br)[b] = "same"}
<1>1. \A br \in copies : b \in Has(remote[br])
  BY DEF Tip, Has
<1>2. \A one, two \in copies : one = two
  BY <1>1 DEF Apart
<1>3. CASE copies = {}
  BY <1>3, FS_EmptySet
<1>4. CASE copies # {}
  <2>1. PICK br \in copies : TRUE
    BY <1>4
  <2>2. copies = {br}
    BY <1>2, <2>1
  <2>3. Cardinality({br}) = 1
    BY FS_Singleton
  <2> QED
    BY <2>2, <2>3
<1> QED
  BY <1>3, <1>4

(***************************************************************************)
(* The theorems about the upload.                                          *)
(***************************************************************************)
\* The invariant holds in every state, for any batches, branches, capacities, failures and losses.
THEOREM LogSyncInvariant == Spec => []SyncInv
<1>1. Init => SyncInv
  BY TypedInit, LandedInit, CopiesInit DEF SyncInv
<1>2. SyncInv /\ [Next]_vars => SyncInv'
  <2> SUFFICES ASSUME SyncInv, [Next]_vars
               PROVE  SyncInv'
    OBVIOUS
  <2>1. Typed /\ Landed /\ NothingIsLost /\ Deleting
    BY DEF SyncInv
  <2>2. Typed' /\ Landed' /\ NothingIsLost' /\ Deleting'
    BY <2>1, TypedNext, LandedNext, DeletingNext, NothingIsLostNext
  <2>3. ASSUME rewrites' = 0
        PROVE  Copies'
    <3>1. rewrites = 0 /\ ~Rewrite
      BY <2>1, <2>3, Changes DEF Rewrite, Typed, GitTyped
    <3>2. Copies
      BY <3>1 DEF SyncInv
    <3> QED
      BY <2>1, <3>1, <3>2, CopiesNext
  <2> QED
    BY <2>2, <2>3 DEF SyncInv
<1> QED
  BY <1>1, <1>2, PTL DEF Spec

\* A sealed batch is in the spool or has been on the remote in full, through every failed or cut-off
\* sync, lost push, rewritten history and lost cache: the source is removed only behind the receipt.
THEOREM LogNothingIsLost == Spec => []NothingIsLost
<1>1. SyncInv => NothingIsLost
  BY DEF SyncInv
<1> QED
  BY <1>1, LogSyncInvariant, PTL

\* As long as nobody rewrites the remote's history, no batch is at the tip of two of its branches: a
\* group that does not fit into its shard is moved to the next branch only when it is not on this
\* one, and no push that is still under way can bring it here.
THEOREM LogOneCopyPerRemote == Spec => []OneCopyPerRemote
<1>1. SyncInv => OneCopyPerRemote
  BY ApartIsOne DEF SyncInv, Copies, OneCopyPerRemote
<1> QED
  BY <1>1, LogSyncInvariant, PTL
================================================================================

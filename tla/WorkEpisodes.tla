------------------------------ MODULE WorkEpisodes ------------------------------
(***************************************************************************)
(* Work Episodes and Agent Checkpoints of the Task runtime, over the Tasks *)
(* and Intents of TaskRuntime.  An Episode collects references to the      *)
(* Intent chain and the Signals of its Task while it is open; every write  *)
(* to it advances its version; it is closed at one of its Checkpoints, and *)
(* a Candidate Build is reserved for the Claims of all of them.            *)
(***************************************************************************)
EXTENDS TaskRuntime

CONSTANTS Contents,   \* what a Checkpoint claims
          MaxVersion, \* bound of the instance: the version of an open Episode
          MaxRows     \* bound of the instance: rows in all tables

VARIABLES episodes,    \* work_episode rows with their reference tables
          checkpoints  \* agent_checkpoint rows, with checkpoint_operation

episodeVars == <<episodes, checkpoints>>
vars == <<taskVars, episodeVars>>

NoBuild == {0}  \* no candidate_build row yet

TypeOK ==
    /\ TaskTypeOK
    /\ episodes \in Seq([task : DOMAIN tasks, version : 0..MaxVersion + 1, open : BOOLEAN,
                         intents : Seq(DOMAIN revisions), signals : Seq(DOMAIN signals),
                         final : 0..Len(checkpoints), build : SUBSET (0..Len(checkpoints))])
    /\ checkpoints \in Seq([episode : DOMAIN episodes, intent : DOMAIN revisions,
                            parent : 0..MaxVersion, content : Contents,
                            boundary : {"continue", "close"}, operation : BOOLEAN])

Init == TaskInit /\ episodes = <<>> /\ checkpoints = <<>>

(***************************************************************************)
(* Rows.                                                                   *)
(***************************************************************************)
OpenEpisodes(t) == {e \in DOMAIN episodes : episodes[e].task = t /\ episodes[e].open}
IsOpen(e) == e \in DOMAIN episodes /\ episodes[e].open
TaskIsActive(t) == active[tasks[t].session] = t
CheckpointsOf(rows, e) == {k \in DOMAIN rows : rows[k].episode = e}
LatestOf(set) == CHOOSE n \in set : \A m \in set : m <= n

\* The Intent revisions and the Signals of a Task, by their ordinals.
Chain(t) == InOrder({r \in DOMAIN revisions : revisions[r].task = t})
SignalRows(t) == InOrder({n \in DOMAIN signals : signals[n].task = t})

\* INSERT OR IGNORE of each row after the references that are there.
Missing(refs, rows) == InOrder(ToSet(rows) \ ToSet(refs))
\* Mutant: only the Head is added to the Intent references.
HeadRefs(ep) ==
    [ep EXCEPT !.intents = @ \o Missing(@, <<IntentHead(ep.task)>>),
               !.signals = @ \o Missing(@, SignalRows(ep.task))]

AllRefs(ep) ==
    [ep EXCEPT !.intents = @ \o Missing(@, Chain(ep.task)),
               !.signals = @ \o Missing(@, SignalRows(ep.task))]

NewEpisode(t) ==
    [task |-> t, version |-> 0, open |-> TRUE, intents |-> <<>>, signals |-> <<>>,
     final |-> 0, build |-> NoBuild]

\* find_open_episode or insert_open_episode: the rows, and the open Episode of the Task in them.
WithOpenEpisode(t) ==
    IF OpenEpisodes(t) = {} THEN Append(episodes, NewEpisode(t)) ELSE episodes
OpenEpisode(t) ==
    IF OpenEpisodes(t) = {} THEN Len(episodes) + 1 ELSE CHOOSE e \in OpenEpisodes(t) : TRUE

AdvanceEpisodeVersion(ep) == [ep EXCEPT !.version = @ + 1]
CloseEpisodeVersion(ep, checkpoint) ==
    [ep EXCEPT !.version = @ + 1, !.open = FALSE, !.final = checkpoint]

(***************************************************************************)
(* Operations on an open Episode under its version.                        *)
(***************************************************************************)
OpenWorkEpisode(s) ==
    /\ active[s] # 0 /\ OpenEpisodes(active[s]) = {}
    /\ episodes' = Append(episodes, AllRefs(NewEpisode(active[s])))
    /\ UNCHANGED <<taskVars, checkpoints>>

\* The version moves only when a reference was added.
AdvanceWorkEpisodeRefs(e) ==
    /\ IsOpen(e) /\ TaskIsActive(episodes[e].task)
    /\ AllRefs(episodes[e]) # episodes[e]
    /\ episodes' = [episodes EXCEPT ![e] = AdvanceEpisodeVersion(AllRefs(@))]
    /\ UNCHANGED <<taskVars, checkpoints>>

\* An Observation names an Intent revision the Episode refers to.
AppendWorkObservation(e) ==
    /\ IsOpen(e) /\ TaskIsActive(episodes[e].task) /\ episodes[e].intents # <<>>
    /\ episodes' = [episodes EXCEPT ![e] = AdvanceEpisodeVersion(@)]
    /\ UNCHANGED <<taskVars, checkpoints>>

(***************************************************************************)
(* Checkpoints.                                                            *)
(***************************************************************************)

Checkpoint(e, t, content, boundary, operation) ==
    [episode |-> e, intent |-> IntentHead(t), content |-> content,
     boundary |-> boundary, operation |-> operation,
     parent |-> IF e \in DOMAIN episodes THEN episodes[e].version ELSE 0]

\* write_agent_checkpoint looks for a row of the open Episode, else of the last closed one with it.
ByParent(version) == {k \in DOMAIN checkpoints : checkpoints[k].parent = version}
RetriedIn(t, version) ==
    LET closed == {checkpoints[k].episode : k \in ByParent(version)}
        mine == {e \in closed : episodes[e].task = t}
    IN  IF OpenEpisodes(t) # {} THEN CheckpointsOf(checkpoints, OpenEpisode(t))
        ELSE IF mine = {} THEN {} ELSE CheckpointsOf(checkpoints, LatestOf(mine))
Retried(t, version) == RetriedIn(t, version) \cap ByParent(version)

\* checkpoint_semantic_json: the Task, the Intent, the boundary and the content; a row of
\* task_checkpoint has other keys.
SameSemantics(k, t, content, boundary) ==
    /\ ~checkpoints[k].operation
    /\ checkpoints[k].intent = IntentHead(t)
    /\ checkpoints[k].boundary = boundary
    /\ checkpoints[k].content = content

\* The caller names the version it read; a row with this parent is its retry, or a conflict.
WriteAgentCheckpoint(s, version, content, boundary) ==
    LET t == active[s]
        e == OpenEpisode(t)
        ep == AllRefs(WithOpenEpisode(t)[e])
        k == Len(checkpoints) + 1
    IN  /\ t # 0
        /\ IF OpenEpisodes(t) = {}
           THEN version = 0 /\ \A r \in Retried(t, 0) : ~SameSemantics(r, t, content, boundary)
           ELSE version = episodes[e].version /\ Retried(t, version) = {}
        /\ checkpoints' = Append(checkpoints, Checkpoint(e, t, content, boundary, FALSE))
        /\ episodes' = [WithOpenEpisode(t) EXCEPT ![e] =
               IF boundary = "close" THEN CloseEpisodeVersion(ep, k)
               ELSE AdvanceEpisodeVersion(ep)]
        /\ UNCHANGED taskVars

\* Mutant: only the last Episode is searched for the operation.
SameOperationInLast(t, content) ==
    {k \in DOMAIN checkpoints : /\ checkpoints[k].operation
                                /\ checkpoints[k].episode = Len(episodes)
                                /\ checkpoints[k].intent = IntentHead(t)
                                /\ checkpoints[k].content = content}

\* checkpoint_operation_identity: the Task (by its Head), the Intent and the content.
SameOperation(t, content) ==
    {k \in DOMAIN checkpoints : /\ checkpoints[k].operation
                                /\ checkpoints[k].intent = IntentHead(t)
                                /\ checkpoints[k].content = content}

\* Mutant: the outbox gets the Claims of the Checkpoint that closes the Episode only.
SubmitQueuesItsOwn(s, content) ==
    LET t == active[s]
        e == OpenEpisode(t)
        ep == AllRefs(WithOpenEpisode(t)[e])
        k == Len(checkpoints) + 1
    IN  /\ t # 0 /\ SameOperation(t, content) = {}
        /\ checkpoints' = Append(checkpoints, Checkpoint(e, t, content, "close", TRUE))
        /\ episodes' = [WithOpenEpisode(t) EXCEPT ![e] =
               [CloseEpisodeVersion(ep, k) EXCEPT !.build = {k}]]
        /\ UNCHANGED taskVars

\* task_checkpoint: whatever Task, Intent and Episode are current; a replay writes nothing.
SubmitAgentCheckpoint(s, content) ==
    LET t == active[s]
        e == OpenEpisode(t)
        ep == AllRefs(WithOpenEpisode(t)[e])
        k == Len(checkpoints) + 1
    IN  /\ t # 0 /\ SameOperation(t, content) = {}
        /\ checkpoints' = Append(checkpoints, Checkpoint(e, t, content, "close", TRUE))
        /\ episodes' = [WithOpenEpisode(t) EXCEPT ![e] =
               [CloseEpisodeVersion(ep, k) EXCEPT !.build = CheckpointsOf(checkpoints', e)]]
        /\ UNCHANGED taskVars

\* The TurnStop and PreCompact hooks, and the explicit variant with its three expected values.
CloseCheckpointedWorkEpisode(s) ==
    LET t == active[s]
        e == OpenEpisode(t)
        last == LatestOf(CheckpointsOf(checkpoints, e))
    IN  /\ t # 0 /\ OpenEpisodes(t) # {} /\ CheckpointsOf(checkpoints, e) # {}
        /\ checkpoints[last].intent = IntentHead(t)
        /\ episodes' = [episodes EXCEPT ![e] = CloseEpisodeVersion(AllRefs(@), last)]
        /\ UNCHANGED <<taskVars, checkpoints>>

\* build_closed_episode prepares the outbox of a closed Episode that has none.
PrepareCandidateBuild(e) ==
    /\ ~episodes[e].open /\ episodes[e].build = NoBuild
    /\ episodes' = [episodes EXCEPT ![e].build = CheckpointsOf(checkpoints, e)]
    /\ UNCHANGED <<taskVars, checkpoints>>

(***************************************************************************)
(* The specification, within the bounds of the instance.                   *)
(***************************************************************************)
EpisodeNext ==
    \/ \E s \in Sessions : OpenWorkEpisode(s) \/ CloseCheckpointedWorkEpisode(s)
    \/ \E e \in DOMAIN episodes :
           AdvanceWorkEpisodeRefs(e) \/ AppendWorkObservation(e) \/ PrepareCandidateBuild(e)
    \/ \E s \in Sessions, v \in 0..MaxVersion, x \in Contents, b \in {"continue", "close"} :
           WriteAgentCheckpoint(s, v, x, b)
    \/ \E s \in Sessions, x \in Contents : SubmitAgentCheckpoint(s, x)

Rows == Len(tasks) + Len(revisions) + Len(signals) + Len(pending) + Len(episodes)
        + Len(checkpoints)
WithinBounds ==
    /\ Rows <= MaxRows
    /\ \A e \in DOMAIN episodes : episodes[e].open => episodes[e].version <= MaxVersion

Next == /\ (TaskNext /\ UNCHANGED episodeVars) \/ EpisodeNext
        /\ WithinBounds'

Spec == Init /\ [][Next]_vars

(***************************************************************************)
(* Properties.                                                             *)
(***************************************************************************)
\* However many Agents write to one Session, the revisions of a Task are one chain that ends in
\* its Head: one first revision, no revision with two successors, none but the Head without one,
\* and every writer of a successor had cited the revision it replaces (continue_working_intent
\* never overwrites a Head unread).
Successors(r) == {q \in DOMAIN revisions : revisions[q].parent = r}
IntentChains ==
    /\ \A t \in DOMAIN tasks : IntentHead(t) \in DOMAIN revisions /\ revisions[IntentHead(t)].task = t
    /\ \A q, r \in DOMAIN revisions :
           q # r /\ revisions[q].task = revisions[r].task => revisions[q].parent # revisions[r].parent
    /\ \A r \in DOMAIN revisions :
           LET parent == revisions[r].parent IN
           /\ parent # 0 =>
                /\ parent \in 1..(r - 1) /\ revisions[parent].task = revisions[r].task
                /\ revisions[r].cited = parent
           /\ Successors(r) = {} <=> r = IntentHead(revisions[r].task)

\* A held prompt becomes a Signal of the Task that takes it, or stays held: only a later prompt
\* may displace it, for its age or for the size of the table, the oldest first
\* (drain_pending_prompt_signals, stash_pending_prompt).
Kept(n) == Contains(pending', pending[n])
Taken(n) ==
    \E k \in DOMAIN signals' \ DOMAIN signals :
        /\ signals'[k].signal = [kind |-> "prompt", content |-> pending[n].content]
        /\ tasks'[signals'[k].task].session = pending[n].session
        /\ signals'[k].task = active'[pending[n].session]
Displaced(n) ==
    /\ pending' # <<>>
    /\ \E k \in n..Len(pending) : Front(pending') = SubSeq(pending, k + 1, Len(pending))
PromptsAreKept == [][\A n \in DOMAIN pending : Kept(n) \/ Taken(n) \/ Displaced(n)]_vars

\* The references of an Episode are a prefix of its Task's Intent chain, in the order of the chain,
\* and hold the Intent of each of its Checkpoints (insert_all_missing_episode_refs,
\* AgentCheckpoint::validate_against_episode).
EpisodesFollowTheChain ==
    /\ \A e \in DOMAIN episodes : IsPrefix(episodes[e].intents, Chain(episodes[e].task))
    /\ \A k \in DOMAIN checkpoints :
           Contains(episodes[checkpoints[k].episode].intents, checkpoints[k].intent)

\* One Task, Intent and content is one operation with one Checkpoint, whatever happened to the
\* Task in between; and it stays the one that closed its Episode (submit_agent_checkpoint).
OneCheckpointPerOperation ==
    \A k \in DOMAIN checkpoints : checkpoints[k].operation =>
        /\ episodes[checkpoints[k].episode].final = k
        /\ \A j \in DOMAIN checkpoints :
               checkpoints[j].operation /\ checkpoints[j].intent = checkpoints[k].intent
               /\ checkpoints[j].content = checkpoints[k].content => j = k

\* A Build covers every Checkpoint of its Episode, also those written before the one that closed
\* it, and no Checkpoint comes later (reserve Candidate Build outbox item).
EveryClaimIsQueued ==
    \A e \in DOMAIN episodes :
        /\ episodes[e].build # NoBuild => episodes[e].build = CheckpointsOf(checkpoints, e)
        /\ ~episodes[e].open => episodes[e].final = LatestOf(CheckpointsOf(checkpoints, e))

================================================================================

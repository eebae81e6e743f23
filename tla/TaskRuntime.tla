------------------------------ MODULE TaskRuntime ------------------------------
(***************************************************************************)
(* Tasks, Working Intents and Signals of the Task runtime, as the MCP tool *)
(* task_intent_update and the Agent hooks use them.                        *)
(*                                                                         *)
(* Several Agents and hook processes share one ExternalSession and cannot  *)
(* be told apart.  Each write is one IMMEDIATE SQLite transaction; several *)
(* callers decide on a snapshot they read before it (call).  An Intent is  *)
(* abstracted to its normalized goal and the rest of its semantics.        *)
(***************************************************************************)
EXTENDS Naturals, FiniteSets, Sequences, SequencesExt

CONSTANTS Sessions,       \* ExternalSessions
          Callers,        \* processes between their read and their write
          Goals, Details, \* an Intent is a goal and the rest of its semantics
          Prompts, Files, \* contents of Signals
          PromptBudget,   \* MAX_ACTIVE_PROMPT_SIGNALS
          FileBudget,     \* MAX_ACTIVE_FILE_SIGNALS
          StashLimit,     \* MAX_PENDING_PROMPT_SIGNALS
          StashRows       \* MAX_PENDING_PROMPT_ROWS

ASSUME BudgetAssumption ==
    /\ {PromptBudget, FileBudget, StashLimit, StashRows} \subseteq Nat \ {0}
    /\ StashLimit <= PromptBudget

VARIABLES active,     \* external_session: session -> ActiveTask, 0 without a row
          tasks,      \* task_session rows in task_ordinal order
          revisions,  \* task_intent_revision rows, with the revision their writer cited
          signals,    \* task_signal rows in signal_ordinal order
          pending,    \* pending_prompt_signal rows in rowid order
          call        \* what a caller read and has not acted on yet

taskRows == <<active, tasks, revisions, signals, pending>>
taskVars == <<taskRows, call>>

Intent == [goal : Goals, detail : Details]
Signal == [kind : {"prompt"}, content : Prompts] \cup [kind : {"file"}, content : Files]
Budget(kind) == IF kind = "prompt" THEN PromptBudget ELSE FileBudget

Idle == [op |-> "idle"]
Call ==
    {Idle} \cup [op : {"create"}, session : Sessions, intent : Intent]
           \cup [op : {"new"}, session : Sessions, task : Nat, intent : Intent]
           \cup [op : {"stash"}, session : Sessions, content : Prompts]
           \cup [op : {"merge"}, session : Sessions, signal : Signal]

TaskTypeOK ==
    /\ active \in [Sessions -> 0..Len(tasks)]
    /\ tasks \in Seq([session : Sessions, head : DOMAIN revisions])
    /\ revisions \in Seq([task : DOMAIN tasks, parent : Nat, cited : Nat, intent : Intent])
    /\ signals \in Seq([task : DOMAIN tasks, signal : Signal, live : BOOLEAN])
    /\ pending \in Seq([session : Sessions, content : Prompts])
    /\ call \in [Callers -> Call]

TaskInit ==
    /\ active = [s \in Sessions |-> 0]
    /\ tasks = <<>> /\ revisions = <<>> /\ signals = <<>> /\ pending = <<>>
    /\ call = [c \in Callers |-> Idle]

(***************************************************************************)
(* Rows.                                                                   *)
(***************************************************************************)
IntentHead(t) == tasks[t].head

LiveSignals(rows, t, kind) ==
    {n \in DOMAIN rows : rows[n].task = t /\ rows[n].signal.kind = kind /\ rows[n].live}

FindActiveSignal(rows, t, sg) == \E n \in LiveSignals(rows, t, sg.kind) : rows[n].signal = sg

InsertSignal(rows, t, sg) ==
    IF FindActiveSignal(rows, t, sg) THEN rows
    ELSE Append(rows, [task |-> t, signal |-> sg, live |-> TRUE])

Superseded(rows, which) ==
    [n \in DOMAIN rows |-> [rows[n] EXCEPT !.live = @ /\ n \notin which]]

\* The oldest active Signals of the kind beyond its budget.
Excess(rows, t, kind) ==
    LET live == LiveSignals(rows, t, kind)
    IN  {n \in live : Cardinality({m \in live : m <= n}) + Budget(kind) <= Cardinality(live)}

EnforceSignalRetention(rows, t, kind) == Superseded(rows, Excess(rows, t, kind))

\* ORDER BY an ordinal: the positions in `which`, the lowest first, and the rows at them.
InOrder(which) ==
    [i \in 1..Cardinality(which) |->
        CHOOSE n \in which : Cardinality({m \in which : m <= n}) = i]
RowsAt(rows, which) == [i \in DOMAIN InOrder(which) |-> rows[InOrder(which)[i]]]

PendingPrompts(rows, s) == RowsAt(rows, {n \in DOMAIN rows : rows[n].session = s})
\* Mutant: the stash is emptied for every Session.
DrainedForAll(rows, s) == <<>>

Drained(rows, s) == RowsAt(rows, {n \in DOMAIN rows : rows[n].session # s})

\* insert_task: a Task with its first revision and the prompts it starts with becomes active.
InsertTask(s, intent, cited, prompts) ==
    LET t == Len(tasks) + 1
        r == Len(revisions) + 1
        start(row) == [task |-> t, live |-> TRUE,
                       signal |-> [kind |-> "prompt", content |-> row.content]]
    IN  /\ tasks' = Append(tasks, [session |-> s, head |-> r])
        /\ revisions' = Append(revisions,
                               [task |-> t, parent |-> 0, cited |-> cited, intent |-> intent])
        /\ signals' = signals \o [n \in DOMAIN prompts |-> start(prompts[n])]
        /\ active' = [active EXCEPT ![s] = t]

\* The successor of the Head becomes the Head.
AppendRevision(t, intent, cited) ==
    /\ revisions' = Append(revisions, [task |-> t, parent |-> IntentHead(t),
                                       cited |-> cited, intent |-> intent])
    /\ tasks' = [tasks EXCEPT ![t].head = Len(revisions) + 1]

Return(c) == call' = [call EXCEPT ![c] = Idle]

(***************************************************************************)
(* task_intent_update with task_boundary = new: a snapshot is read and its *)
(* Head compared with the expected revision; the Task is created later, on *)
(* the condition that the ActiveTask is still the one of the snapshot.     *)
(***************************************************************************)
ReadForNewTask(c, s, intent) ==
    /\ call[c] = Idle
    /\ call' = [call EXCEPT ![c] =
           IF active[s] = 0
           THEN [op |-> "create", session |-> s, intent |-> intent]
           ELSE [op |-> "new", session |-> s, task |-> active[s], intent |-> intent]]
    /\ UNCHANGED taskRows

WithBackfilledPrompts(c, s) ==
    /\ InsertTask(s, call[c].intent, 0, PendingPrompts(pending, s))
    /\ pending' = Drained(pending, s)
    /\ Return(c)

OpenOrCreate(c) ==
    /\ call[c].op = "create" /\ active[call[c].session] = 0
    /\ WithBackfilledPrompts(c, call[c].session)

StartNewTask(c) ==
    /\ call[c].op = "new" /\ active[call[c].session] = call[c].task
    /\ WithBackfilledPrompts(c, call[c].session)

\* The caller dies, or its transaction finds another ActiveTask than its snapshot and is refused.
LeaveCall(c) ==
    /\ call[c] # Idle
    /\ Return(c)
    /\ UNCHANGED taskRows

SwitchActiveTask(s, t) ==
    /\ active[s] \notin {0, t} /\ t \in DOMAIN tasks /\ tasks[t].session = s
    /\ active' = [active EXCEPT ![s] = t]
    /\ UNCHANGED <<tasks, revisions, signals, pending, call>>

(***************************************************************************)
(* task_intent_update with task_boundary = continue: the cited revision    *)
(* selects the Task, whichever is active.  append_intent_revision is       *)
(* ContinueIntent on the ActiveTask.                                       *)
(***************************************************************************)
Owned(s, cited) ==
    active[s] # 0 /\ cited \in DOMAIN revisions /\ tasks[revisions[cited].task].session = s

\* The Head already says so, and the caller cited it or its parent.
AlreadyCurrent(cited, intent) ==
    LET head == IntentHead(revisions[cited].task)
    IN  revisions[head].intent = intent /\ cited \in {head, revisions[head].parent}

ReselectIntent(s, cited, intent) ==
    /\ Owned(s, cited) /\ AlreadyCurrent(cited, intent)
    /\ active' = [active EXCEPT ![s] = revisions[cited].task]
    /\ UNCHANGED <<tasks, revisions, signals, pending, call>>

\* Mutant: the revision only selects the Task, it need not be its Head.
ContinueUnread(s, cited, intent) ==
    LET t == revisions[cited].task IN
    /\ Owned(s, cited) /\ ~AlreadyCurrent(cited, intent)
    /\ AppendRevision(t, intent, cited)
    /\ active' = [active EXCEPT ![s] = t]
    /\ UNCHANGED <<signals, pending, call>>

ContinueIntent(s, cited, intent) ==
    LET t == revisions[cited].task IN
    /\ Owned(s, cited) /\ ~AlreadyCurrent(cited, intent)
    /\ cited = IntentHead(t)
    /\ AppendRevision(t, intent, cited)
    /\ active' = [active EXCEPT ![s] = t]
    /\ UNCHANGED <<signals, pending, call>>

\* A superseded revision: the same goal is refused as stale, another one opens a parallel Task.
ForkTask(s, cited, intent) ==
    LET head == IntentHead(revisions[cited].task) IN
    /\ Owned(s, cited) /\ ~AlreadyCurrent(cited, intent)
    /\ cited # head /\ intent.goal # revisions[head].intent.goal
    /\ InsertTask(s, intent, cited, <<>>)
    /\ UNCHANGED <<pending, call>>

(***************************************************************************)
(* Hooks: PromptSubmit and PostToolUse read the ActiveTask's snapshot, and *)
(* write in another transaction to whatever Task is active then.           *)
(***************************************************************************)
ReadForHook(c, s, sg) ==
    /\ call[c] = Idle
    /\ \/ /\ active[s] = 0 /\ sg.kind = "prompt"
          /\ call' = [call EXCEPT ![c] = [op |-> "stash", session |-> s, content |-> sg.content]]
       \/ /\ active[s] # 0 /\ ~FindActiveSignal(signals, active[s], sg)
          /\ call' = [call EXCEPT ![c] = [op |-> "merge", session |-> s, signal |-> sg]]
    /\ UNCHANGED taskRows

\* The first `expired` rows are too old.  A prompt that is refused commits nothing.
StashPendingPrompt(c, expired) ==
    LET s == call[c].session
        kept == SubSeq(pending, expired + 1, Len(pending))
        mine == PendingPrompts(kept, s)
        row == [session |-> s, content |-> call[c].content]
        rows == Append(kept, row)
        over == IF Len(rows) > StashRows THEN Len(rows) - StashRows ELSE 0
    IN  /\ call[c].op = "stash" /\ expired \in 0..Len(pending)
        /\ ~Contains(mine, row) /\ Len(mine) < StashLimit
        /\ pending' = SubSeq(rows, over + 1, Len(rows))
        /\ Return(c)
        /\ UNCHANGED <<active, tasks, revisions, signals>>

MergeHookSignals(c) ==
    LET t == active[call[c].session]
        sg == call[c].signal
    IN  /\ call[c].op = "merge"
        /\ signals' = EnforceSignalRetention(InsertSignal(signals, t, sg), t, sg.kind)
        /\ Return(c)
        /\ UNCHANGED <<active, tasks, revisions, pending>>

\* task_signal_supersede on the ActiveTask.
SupersedeSignals(s, which) ==
    /\ which # {} /\ which \subseteq DOMAIN signals
    /\ \A n \in which : signals[n].task = active[s] /\ signals[n].live
    /\ signals' = Superseded(signals, which)
    /\ UNCHANGED <<active, tasks, revisions, pending, call>>

TaskNext ==
    \/ \E c \in Callers, s \in Sessions, i \in Intent : ReadForNewTask(c, s, i)
    \/ \E c \in Callers : OpenOrCreate(c) \/ StartNewTask(c) \/ LeaveCall(c)
    \/ \E s \in Sessions, t \in DOMAIN tasks : SwitchActiveTask(s, t)
    \/ \E s \in Sessions, r \in DOMAIN revisions, i \in Intent :
           ReselectIntent(s, r, i) \/ ContinueIntent(s, r, i) \/ ForkTask(s, r, i)
    \/ \E c \in Callers, s \in Sessions, sg \in Signal : ReadForHook(c, s, sg)
    \/ \E c \in Callers : MergeHookSignals(c)
    \/ \E c \in Callers, n \in 0..Len(pending) : StashPendingPrompt(c, n)
    \/ \E s \in Sessions, n \in DOMAIN signals : SupersedeSignals(s, {n})
================================================================================

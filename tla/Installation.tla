----------------------------- MODULE Installation -----------------------------
(***************************************************************************)
(* The files of an installation under its maintenance lock: business       *)
(* operations that share it, and setup, data reset and knowledge           *)
(* synchronization that hold it alone.  A setup writes a journal of what   *)
(* it is about to change, a reset swaps directories under a marker file;   *)
(* either may be cut short between any two steps, and the next one that    *)
(* takes the lock undoes it, a step at a time and possibly cut short too.  *)
(***************************************************************************)
EXTENDS Integers, Sequences, FiniteSets

CONSTANTS Process,   \* business processes: command line, hooks, MCP tool calls
          Files,     \* how many files the operations touch, numbered in the order they take them;
                     \* none of them depends on the order of the others
          Targets,   \* reset_relative_targets
          Pristine,  \* the targets of which the reset stages an empty replacement
          Recorded,  \* the files a setup snapshots before it writes them
          Legacy,    \* the directories a setup moves into its backup
          Business,  \* the files business operations write
          Repository,\* the Knowledge Store
          Manifest,  \* the install manifest
          MaxOps, MaxWrites, MaxCrashes \* bounds of the instance

File == 1..Files

ASSUME FilesAssumption ==
    /\ Files \in Nat
    /\ Targets \subseteq File /\ Pristine \subseteq Targets
    /\ Recorded \subseteq File /\ Legacy \subseteq File /\ Recorded \cap Legacy = {}
    /\ Business \subseteq File
    /\ Repository \in (Business \cap Pristine) \ (Recorded \cup Legacy)
    /\ Manifest \in Recorded \ Targets

VARIABLES
    checked,   \* processes that saw no marker and have not tried the lock yet
    shared,    \* processes that hold the lock shared
    op,        \* the operation that holds the lock alone, or "none"
    phase,     \* where that operation is
    todo,      \* the files that phase has left
    current,   \* {f} between the two renames of one reset entry
    job,       \* the setup journal in hand, 0 for none
    active,    \* the files in place
    backup,    \* backups/reset-<id>/old
    staged,    \* backups/reset-<id>/new
    marked,    \* state/reset-journal.json exists
    originals, \* its entries with original_present
    journals,  \* backups/setup-<id>/journal.json, in the order of their setups
    era,       \* the resets that are complete, or in progress, and one for the time before
    acked,     \* the last write to each file that was acknowledged, of those made unmarked
    begun, writes, crashes

lockVars == <<checked, shared>>
opVars == <<op, phase, todo, current, job>>
resetVars == <<backup, staged, marked, originals, era>>
counters == <<begun, writes, crashes>>
vars == <<lockVars, opVars, active, resetVars, journals, acked, counters>>

\* What a path holds: the reset it stems from, the last business write and the last setup write.
Content == [era : Nat, rev : Nat, setup : Nat]
Absent == [era |-> 0, rev |-> 0, setup |-> 0]
Present(c) == c.era # 0
Empty(e) == [era |-> e, rev |-> 0, setup |-> 0]

Journal == [state : {"open", "complete", "rolled_back"}, entries : SUBSET File,
            original : [File -> Content],  \* file-<n>.bin, Absent where the path was absent
            moved : [File -> Content]]     \* directory-<n>

\* Of a journal that is no longer open only the outcome is ever read.
NewJournal(state) == [state |-> state, entries |-> {}, original |-> [f \in File |-> Absent],
                      moved |-> [f \in File |-> Absent]]

TypeOK ==
    /\ checked \subseteq Process /\ shared \subseteq Process
    /\ op \in {"none", "setup", "reset", "sync", "rollback"}
    /\ phase \in {"recover_reset", "recover_setup", "work", "swap"}
    /\ todo \subseteq File /\ current \subseteq File /\ job \in 0..Len(journals)
    /\ active \in [File -> Content]
    /\ backup \in [File -> Content] /\ staged \in [File -> Content]
    /\ marked \in BOOLEAN /\ originals \subseteq Targets
    /\ journals \in Seq(Journal)
    /\ era \in Nat /\ acked \in [File -> Content]
    /\ begun \in Nat /\ writes \in Nat /\ crashes \in Nat

Init ==
    /\ checked = {} /\ shared = {}
    /\ op = "none" /\ phase = "work" /\ todo = {} /\ current = {} /\ job = 0
    /\ active \in [File -> {Absent, Empty(1)}]
    /\ backup = [f \in File |-> Absent] /\ staged = [f \in File |-> Absent]
    /\ marked = FALSE /\ originals = {}
    /\ journals = <<>>
    /\ era = 1 /\ acked = [f \in File |-> Absent]
    /\ begun = 0 /\ writes = 0 /\ crashes = 0

\* The next of a set of files, in order or in reverse.
First(S) == {f \in S : \A g \in S : f <= g}
Last(S) == {f \in S : \A g \in S : g <= f}

OpenJournals == {j \in DOMAIN journals : journals[j].state = "open"}

(***************************************************************************)
(* Business operations.  try_shared looks for the marker first and takes   *)
(* the lock afterwards.                                                    *)
(***************************************************************************)
CheckMarker(p) ==
    /\ p \notin checked \cup shared /\ ~marked
    /\ checked' = checked \cup {p}
    /\ UNCHANGED <<shared, opVars, active, resetVars, journals, acked, counters>>

TryLock(p) ==
    /\ p \in checked
    /\ checked' = checked \ {p}
    /\ shared' = IF op = "none" THEN shared \cup {p} ELSE shared  \* maintenance_busy
    /\ UNCHANGED <<opVars, active, resetVars, journals, acked, counters>>

Release(p) ==
    /\ p \in shared
    /\ shared' = shared \ {p}
    /\ UNCHANGED <<checked, opVars, active, resetVars, journals, acked, counters>>

\* Business under the shared lock: append_event, or a row of the Task runtime.
WriteFile(p, f) ==
    /\ p \in shared /\ f \in Business /\ writes < MaxWrites
    /\ Present(active[Repository])  \* open_existing
    /\ writes' = writes + 1
    /\ active' = [active EXCEPT ![f] =
                     IF Present(@) THEN [@ EXCEPT !.rev = writes + 1]
                     ELSE [era |-> era, rev |-> writes + 1, setup |-> 0]]
    /\ acked' = IF marked THEN acked ELSE [acked EXCEPT ![f] = active'[f]]
    /\ UNCHANGED <<lockVars, opVars, resetVars, journals, begun, crashes>>

(***************************************************************************)
(* Taking the lock alone.  Every operation first undoes what it finds.     *)
(***************************************************************************)
\* require_existing_installation
Installed == Present(active[Repository]) /\ Present(active[Manifest])

Begin(o) ==
    /\ op = "none" /\ shared = {} /\ begun < MaxOps /\ (o = "sync" => Installed)
    /\ op' = o /\ begun' = begun + 1
    /\ phase' = IF marked THEN "recover_reset" ELSE "recover_setup"
    /\ todo' = IF marked THEN Targets ELSE {}
    /\ UNCHANGED <<lockVars, current, job, active, resetVars, journals, acked, writes, crashes>>

Finish == op' = "none" /\ phase' = "work"

\* Mutant: all resets move what they find to one and the same directory, which stays as it is.
LeaveBackup == marked' = FALSE /\ originals' = {} /\ UNCHANGED <<backup, staged>>

\* The backup directory stays, but without a marker nothing reads it again.
ForgetReset ==
    /\ marked' = FALSE /\ originals' = {}
    /\ backup' = [f \in File |-> Absent] /\ staged' = [f \in File |-> Absent]

\* recover_incomplete_data_reset: an entry with a backup, in two steps, and one without.
RemoveReplacement(f) ==
    /\ phase = "recover_reset" /\ f \in Last(todo)
    /\ Present(backup[f]) /\ Present(active[f])
    /\ active' = [active EXCEPT ![f] = Absent]
    /\ UNCHANGED <<lockVars, opVars, resetVars, journals, acked, counters>>

RenameBack(f) ==
    /\ phase = "recover_reset" /\ f \in Last(todo)
    /\ Present(backup[f]) /\ ~Present(active[f])
    /\ active' = [active EXCEPT ![f] = backup[f]]
    /\ backup' = [backup EXCEPT ![f] = Absent]
    /\ todo' = todo \ {f}
    /\ UNCHANGED <<lockVars, op, phase, current, job, staged, marked, originals, journals, era, acked, counters>>

\* Mutant: only what has a backup is undone.
LeaveAdded(f) ==
    /\ phase = "recover_reset" /\ f \in Last(todo) /\ ~Present(backup[f])
    /\ todo' = todo \ {f}
    /\ UNCHANGED <<lockVars, op, phase, current, job, active, resetVars, journals, acked, counters>>

RemoveAdded(f) ==
    /\ phase = "recover_reset" /\ f \in Last(todo) /\ ~Present(backup[f])
    /\ active' = IF f \in originals THEN active ELSE [active EXCEPT ![f] = Absent]
    /\ todo' = todo \ {f}
    /\ UNCHANGED <<lockVars, op, phase, current, job, resetVars, journals, acked, counters>>

RemoveMarker ==
    /\ phase = "recover_reset" /\ todo = {}
    /\ ForgetReset /\ era' = era - 1
    /\ IF op = "rollback" THEN Finish ELSE phase' = "recover_setup" /\ UNCHANGED op
    /\ UNCHANGED <<lockVars, todo, current, job, active, journals, acked, counters>>

(***************************************************************************)
(* recover_incomplete_journals and the rollback of a setup that failed:    *)
(* restore_journal, one entry at a time.                                   *)
(***************************************************************************)
TakeOpenJournal(j) ==
    /\ phase = "recover_setup" /\ job = 0 /\ j \in OpenJournals
    /\ job' = j /\ todo' = journals[j].entries
    /\ UNCHANGED <<lockVars, op, phase, current, active, resetVars, journals, acked, counters>>

\* Mutant: what was absent before the setup is left as the setup made it.
RestoreExisting(f) ==
    /\ phase = "recover_setup" /\ job # 0 /\ f \in Last(todo) \ Legacy
    /\ active' = IF Present(journals[job].original[f])
                 THEN [active EXCEPT ![f] = journals[job].original[f]] ELSE active
    /\ todo' = todo \ {f}
    /\ UNCHANGED <<lockVars, op, phase, current, job, resetVars, journals, acked, counters>>

RestoreFile(f) ==
    /\ phase = "recover_setup" /\ job # 0 /\ f \in Last(todo) \ Legacy
    /\ active' = [active EXCEPT ![f] = journals[job].original[f]]
    /\ todo' = todo \ {f}
    /\ UNCHANGED <<lockVars, op, phase, current, job, resetVars, journals, acked, counters>>

\* Mutant: what is in the way is removed before the backup is looked for.
RestoreDirectoryBlindly(f) ==
    /\ phase = "recover_setup" /\ job # 0 /\ f \in Last(todo) \cap Legacy
    /\ active' = [active EXCEPT ![f] = journals[job].moved[f]]
    /\ journals' = [journals EXCEPT ![job].moved[f] = Absent]
    /\ todo' = todo \ {f}
    /\ UNCHANGED <<lockVars, op, phase, current, job, resetVars, acked, counters>>

\* The directory is in the backup, or it never left or is back already; that it is in neither place,
\* the error of restore_journal, is what RollbackHasItsSource excludes.
RestoreDirectory(f) ==
    /\ phase = "recover_setup" /\ job # 0 /\ f \in Last(todo) \cap Legacy
    /\ IF Present(journals[job].moved[f])
       THEN /\ active' = [active EXCEPT ![f] = journals[job].moved[f]]
            /\ journals' = [journals EXCEPT ![job].moved[f] = Absent]
       ELSE Present(active[f]) /\ UNCHANGED <<active, journals>>
    /\ todo' = todo \ {f}
    /\ UNCHANGED <<lockVars, op, phase, current, job, resetVars, acked, counters>>

CloseJournal ==
    /\ phase = "recover_setup" /\ job # 0 /\ todo = {}
    /\ journals' = [journals EXCEPT ![job] = NewJournal("rolled_back")]
    /\ job' = 0
    /\ IF op = "rollback" THEN Finish ELSE UNCHANGED <<op, phase>>
    /\ UNCHANGED <<lockVars, todo, current, active, resetVars, acked, counters>>

RecoveryDone ==
    /\ phase = "recover_setup" /\ job = 0 /\ OpenJournals = {}
    /\ IF op = "setup" \/ Installed THEN phase' = "work" /\ UNCHANGED op ELSE Finish
    /\ UNCHANGED <<lockVars, todo, current, job, active, resetVars, journals, acked, counters>>

\* What a synchronization does next is KnowledgeSync; it touches none of these files.
SyncReturns ==
    /\ op = "sync" /\ phase = "work"
    /\ Finish
    /\ UNCHANGED <<lockVars, todo, current, job, active, resetVars, journals, acked, counters>>

(***************************************************************************)
(* Setup and upgrade.                                                      *)
(***************************************************************************)
BeginTransaction ==
    /\ op = "setup" /\ phase = "work" /\ job = 0
    /\ journals' = Append(journals, NewJournal("open"))
    /\ job' = Len(journals) + 1
    /\ UNCHANGED <<lockVars, op, phase, todo, current, active, resetVars, acked, counters>>

Installing == op = "setup" /\ phase = "work" /\ job # 0
\* The next path of the setup: a directory is moved as soon as it is recorded.
Later(f) ==
    /\ \A g \in journals[job].entries : g < f
    /\ \A g \in journals[job].entries \cap Legacy : ~Present(active[g])
    /\ Repository \in journals[job].entries => Present(active[Repository])

Record(f) ==
    /\ Installing /\ f \in Recorded /\ Later(f)
    /\ journals' = [journals EXCEPT ![job].entries = @ \cup {f}, ![job].original[f] = active[f]]
    /\ UNCHANGED <<lockVars, opVars, active, resetVars, acked, counters>>

\* A write of this setup over the recorded file, or of a file that was not there.
Install(f) ==
    /\ Installing /\ f \in Recorded \cap Last(journals[job].entries) /\ active[f].setup # job
    /\ active' = [active EXCEPT ![f] =
                     IF Present(@) THEN [@ EXCEPT !.setup = job]
                     ELSE [era |-> era, rev |-> 0, setup |-> job]]
    /\ UNCHANGED <<lockVars, opVars, resetVars, journals, acked, counters>>

\* bootstrap_local makes the Knowledge Store in place; the clone of a remote one is recorded first.
BootstrapLocal ==
    /\ Installing /\ Later(Repository) /\ ~Present(active[Repository])
    /\ active' = [active EXCEPT ![Repository] = Empty(era)]
    /\ UNCHANGED <<lockVars, opVars, resetVars, journals, acked, counters>>

RecordClone ==
    /\ Installing /\ Later(Repository) /\ ~Present(active[Repository])
    /\ journals' = [journals EXCEPT ![job].entries = @ \cup {Repository}]
    /\ UNCHANGED <<lockVars, opVars, active, resetVars, acked, counters>>

RenameClone ==
    /\ Installing /\ Repository \in Last(journals[job].entries) /\ ~Present(active[Repository])
    /\ active' = [active EXCEPT ![Repository] = [Empty(era) EXCEPT !.setup = job]]
    /\ UNCHANGED <<lockVars, opVars, resetVars, journals, acked, counters>>

RecordDirectory(f) ==
    /\ Installing /\ f \in Legacy /\ Later(f) /\ Present(active[f])
    /\ journals' = [journals EXCEPT ![job].entries = @ \cup {f}]
    /\ UNCHANGED <<lockVars, opVars, active, resetVars, acked, counters>>

MoveDirectory(f) ==
    /\ Installing /\ f \in Legacy \cap journals[job].entries /\ Present(active[f])
    /\ journals' = [journals EXCEPT ![job].moved[f] = active[f]]
    /\ active' = [active EXCEPT ![f] = Absent]
    /\ UNCHANGED <<lockVars, opVars, resetVars, acked, counters>>

CompleteSetup ==
    /\ Installing /\ Present(active[Repository])
    /\ \A f \in Legacy \cap journals[job].entries : ~Present(active[f])
    /\ journals' = [journals EXCEPT ![job] = NewJournal("complete")]
    /\ job' = 0 /\ Finish
    /\ UNCHANGED <<lockVars, todo, current, active, resetVars, acked, counters>>

SetupFails ==
    /\ Installing
    /\ op' = "rollback" /\ phase' = "recover_setup" /\ todo' = journals[job].entries
    /\ UNCHANGED <<lockVars, current, job, active, resetVars, journals, acked, counters>>

(***************************************************************************)
(* Data reset.                                                             *)
(***************************************************************************)
Prepare ==
    /\ op = "reset" /\ phase = "work"
    /\ era' = era + 1
    /\ staged' = [f \in File |-> IF f \in Pristine THEN Empty(era + 1) ELSE Absent]
    /\ marked' = TRUE /\ originals' = {f \in Targets : Present(active[f])}
    /\ phase' = "swap" /\ todo' = Targets
    /\ UNCHANGED <<lockVars, op, current, job, active, backup, journals, acked, counters>>

MoveOriginal(f) ==
    /\ phase = "swap" /\ current = {} /\ f \in First(todo)
    /\ current' = {f} /\ todo' = todo \ {f}
    /\ IF f \in originals
       THEN /\ backup' = [backup EXCEPT ![f] = active[f]]
            /\ active' = [active EXCEPT ![f] = Absent]
       ELSE UNCHANGED <<backup, active>>
    /\ UNCHANGED <<lockVars, op, phase, job, staged, marked, originals, era, journals, acked, counters>>

MoveStaged(f) ==
    /\ phase = "swap" /\ current = {f}
    /\ current' = {}
    /\ IF Present(staged[f])
       THEN /\ active' = [active EXCEPT ![f] = staged[f]]
            /\ staged' = [staged EXCEPT ![f] = Absent]
       ELSE UNCHANGED <<active, staged>>
    /\ UNCHANGED <<lockVars, op, phase, todo, job, backup, marked, originals, era, journals, acked, counters>>

CompleteReset ==
    /\ phase = "swap" /\ current = {} /\ todo = {}
    /\ ForgetReset /\ Finish
    /\ UNCHANGED <<lockVars, todo, current, job, active, journals, era, acked, counters>>

ResetFails ==
    /\ phase = "swap"
    /\ op' = "rollback" /\ phase' = "recover_reset" /\ todo' = Targets /\ current' = {}
    /\ UNCHANGED <<lockVars, job, active, resetVars, journals, acked, counters>>

(***************************************************************************)
(* The process that holds the lock alone dies; the lock goes with it.      *)
(***************************************************************************)
Crash ==
    /\ op # "none" /\ crashes < MaxCrashes
    /\ crashes' = crashes + 1
    /\ Finish /\ todo' = {} /\ current' = {} /\ job' = 0
    /\ UNCHANGED <<lockVars, active, resetVars, journals, acked, begun, writes>>

BusinessNext ==
    \E p \in Process : CheckMarker(p) \/ TryLock(p) \/ Release(p) \/ \E f \in File : WriteFile(p, f)
ResetStep(f) == RemoveReplacement(f) \/ RenameBack(f) \/ RemoveAdded(f) \/ MoveOriginal(f) \/ MoveStaged(f)
SetupStep(f) ==
    RestoreFile(f) \/ RestoreDirectory(f) \/ Record(f) \/ Install(f) \/ RecordDirectory(f)
    \/ MoveDirectory(f)
MaintenanceNext ==
    \/ \E o \in {"setup", "reset", "sync"} : Begin(o)
    \/ \E f \in File : ResetStep(f) \/ SetupStep(f)
    \/ RemoveMarker \/ Prepare \/ CompleteReset \/ ResetFails
    \/ \E j \in DOMAIN journals : TakeOpenJournal(j)
    \/ CloseJournal \/ RecoveryDone \/ SyncReturns
    \/ BeginTransaction \/ BootstrapLocal \/ RecordClone \/ RenameClone \/ CompleteSetup \/ SetupFails

Next == BusinessNext \/ MaintenanceNext \/ Crash
Spec == Init /\ [][Next]_vars

(***************************************************************************)
(* Properties.                                                             *)
(***************************************************************************)
Idle == op = "none"

\* Whatever was cut short, whenever nothing is under way and no marker is there the targets are all
\* of one reset: all old or all new (reset_data_locked, recover_incomplete_data_reset).
AllOldOrAllNew ==
    Idle /\ ~marked =>
        \A f \in Targets : Present(active[f]) => active[f].era = era

\* A directory that a setup journal says was moved is in its backup or still in place: the rollback
\* never ends in the error that its backup is missing (restore_journal, Original::Directory).
RollbackHasItsSource ==
    \A j \in OpenJournals : \A f \in journals[j].entries \cap Legacy :
        Present(journals[j].moved[f]) \/ Present(active[f])

\* When no operation is under way and no journal is open, a file is as some completed setup wrote
\* it, or as none did: a setup that was undone leaves nothing behind.
UndoneLeavesNothing ==
    Idle /\ OpenJournals = {} =>
        \A f \in File : active[f].setup # 0 => journals[active[f].setup].state = "complete"

\* What is in place is at least as new as what was acknowledged, unless a later reset replaced it.
Kept(f) ==
    \/ active[f].era > acked[f].era
    \/ active[f].era = acked[f].era /\ active[f].rev >= acked[f].rev

\* An acknowledged write to the Knowledge Store is there until a reset is complete: neither the
\* rollback of a setup nor that of a reset takes it back, however often they are cut short, but
\* for the rollback of the very setup that cloned the Knowledge Store (lib.rs 2607).
RepositoryIsKept ==
    Idle /\ ~marked =>
        \/ Kept(Repository)
        \/ /\ acked[Repository].setup # 0
           /\ journals[acked[Repository].setup].state # "complete"

\* What business was acknowledged stays until a reset is complete. But a setup that was cut short
\* does not close the installation, and its rollback puts the Task runtime back to what that setup
\* found, and removes the Knowledge Store that it cloned (lib.rs 4571, 2607, 4475).
AcknowledgedIsKept == Idle /\ ~marked => \A f \in Business : Kept(f)

\* Nobody works in an installation that waits for the recovery of a reset (maintenance.rs 68-75).
ClosedWhileMarked == marked => shared = {}
=============================================================================

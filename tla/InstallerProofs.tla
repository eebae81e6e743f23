----------------------------- MODULE InstallerProofs -----------------------------
(***************************************************************************)
(* What the installer keeps: first what setups, resets and their           *)
(* recoveries leave of the files of an installation, for any files,        *)
(* business processes and interruptions; then what a synchronization of    *)
(* the Knowledge Store publishes and keeps, for any files, any clashes     *)
(* between them, any number of attempts, failures and deaths.              *)
(***************************************************************************)
EXTENDS Installation, KnowledgeSync, TLAPS

USE FilesAssumption DEF FilesAssumption

(***************************************************************************)
(* The inductive invariant: who does what.                                 *)
(***************************************************************************)
\* The lock excludes; an idle installation has nothing in hand.
Exclusive ==
    /\ op # "none" => shared = {}
    /\ op = "none" => phase = "work" /\ job = 0

\* A reset is under way or waits to be undone exactly while there is a marker.
MarkerIsReset ==
    /\ phase \in {"recover_reset", "swap"} => marked
    /\ marked => op = "none" \/ phase \in {"recover_reset", "swap"}
    /\ ~marked => originals = {} /\ \A f \in File : ~Present(backup[f])

\* One setup journal is open at most, never together with a marker, and only
\* the setup that is installing works with one open.
OneOpenJournal ==
    /\ \A i, j \in OpenJournals : i = j
    /\ job # 0 => job \in OpenJournals
    /\ marked => OpenJournals = {}
    /\ phase = "work" /\ op # "none" =>
         /\ OpenJournals \subseteq {job}
         /\ job # 0 => op = "setup"

Control == Exclusive /\ MarkerIsReset /\ OneOpenJournal

(***************************************************************************)
(* Where the old and the new content of a target is during a reset.        *)
(***************************************************************************)
\* The reset in progress is era, what it replaces is of the one before.
Eras ==
    /\ era >= 1 /\ (marked => era >= 2)
    /\ \A f \in Targets :
         IF ~marked THEN Present(active[f]) => active[f].era = era
         ELSE IF f \in originals /\ ~Present(backup[f]) THEN active[f].era = era - 1
         ELSE Present(active[f]) => active[f].era = era
    /\ \A f \in Targets : Present(backup[f]) => f \in originals /\ backup[f].era = era - 1

\* What an open journal would put back is of the present reset.
JournalEras ==
    \A j \in OpenJournals : \A f \in Targets :
        /\ Present(journals[j].original[f]) => journals[j].original[f].era = era
        /\ Present(journals[j].moved[f]) => journals[j].moved[f].era = era

\* The swap takes the targets one by one; the undoing of it, too.
Swap ==
    /\ phase # "swap" => current = {}
    /\ phase = "swap" =>
        /\ current \cap todo = {} /\ current \subseteq Targets /\ todo \subseteq Targets
        /\ \A f \in originals : f \in todo <=> ~Present(backup[f])
        /\ \A f \in Targets : Present(staged[f]) => staged[f].era = era
        /\ \A f \in Pristine : IF f \in todo \cup current THEN Present(staged[f]) ELSE Present(active[f])
Undo ==
    phase = "recover_reset" =>
        \A f \in Targets \ todo :
            IF f \in originals THEN ~Present(backup[f]) ELSE ~Present(active[f])

ResetInv == Eras /\ JournalEras /\ Swap /\ Undo

(***************************************************************************)
(* What a setup wrote, and what its rollback has restored.                 *)
(***************************************************************************)
\* A number of a journal, and of one that is complete.
Known(c) == c.setup \in 0..Len(journals)
Clean(c) == c.setup # 0 => journals[c.setup].state = "complete"

KnownWrites == \A f \in File : Known(active[f]) /\ Known(backup[f]) /\ Known(acked[f])
ReplacedIsClean == \A f \in File : Clean(backup[f]) /\ staged[f].setup = 0
WritesAreOfSetups ==
    \A f \in File : Clean(active[f]) \/ \E j \in OpenJournals :
        f \in journals[j].entries /\ active[f].setup = j
LegacyIsUntouched == \A f \in Legacy : active[f].setup = 0 /\ backup[f].setup = 0
OriginalsAreClean ==
    \A j \in OpenJournals : \A f \in File :
        /\ Known(journals[j].original[f]) /\ Clean(journals[j].original[f])
        /\ journals[j].moved[f].setup = 0
RestoredIsClean ==
    phase = "recover_setup" /\ job # 0 =>
        todo \subseteq journals[job].entries /\ \A f \in File \ todo : Clean(active[f])

SetupWrites ==
    /\ KnownWrites /\ ReplacedIsClean /\ WritesAreOfSetups
    /\ LegacyIsUntouched /\ OriginalsAreClean /\ RestoredIsClean

(***************************************************************************)
(* Where the acknowledged content of the Knowledge Store is.               *)
(***************************************************************************)
KeptIn(c) ==
    \/ c.era > acked[Repository].era
    \/ c.era = acked[Repository].era /\ c.rev >= acked[Repository].rev
LostWithItsSetup ==
    acked[Repository].setup # 0 /\ journals[acked[Repository].setup].state # "complete"

\* What the Knowledge Store is, or will be again if the reset is undone.
Old ==
    IF ~marked THEN active[Repository]
    ELSE IF Repository \notin originals THEN Absent
    ELSE IF Present(backup[Repository]) THEN backup[Repository] ELSE active[Repository]

OldIsKept == KeptIn(Old) \/ LostWithItsSetup
\* What was acknowledged is of the reset that is in place without the marker.
AckedEra ==
    /\ acked[Repository].era <= (IF marked THEN era - 1 ELSE era)
    /\ acked[Repository].era = 0 => acked[Repository].rev = 0
Revisions ==
    active[Repository].rev <= writes /\ backup[Repository].rev <= writes /\ staged[Repository].rev <= writes
\* A setup records the Knowledge Store only to clone it where there is none.
CloneIsRecorded ==
    \A j \in OpenJournals :
        /\ journals[j].original[Repository] = Absent
        /\ Repository \in journals[j].entries =>
             /\ Present(active[Repository]) => active[Repository].setup = j
             /\ KeptIn(Absent) \/ LostWithItsSetup
NotOfThisSetup == op = "setup" /\ phase = "work" /\ job # 0 => acked[Repository].setup # job

Acknowledged == OldIsKept /\ AckedEra /\ Revisions /\ CloneIsRecorded /\ NotOfThisSetup

IInv ==
    /\ TypeOK /\ Control /\ ResetInv
    /\ RollbackHasItsSource /\ SetupWrites /\ Acknowledged

(***************************************************************************)
(* The setup journals.                                                     *)
(***************************************************************************)
LEMMA NewJournalType ==
    ASSUME NEW state \in {"open", "complete", "rolled_back"}
    PROVE  NewJournal(state) \in Journal
  BY DEF NewJournal, Journal, Content, Absent

\* Only the journal in hand is replaced.
LEMMA Replaced ==
    ASSUME journals \in Seq(Journal), NEW j \in DOMAIN journals, NEW new \in Journal,
           journals' = [journals EXCEPT ![j] = new]
    PROVE  /\ journals' \in Seq(Journal) /\ Len(journals') = Len(journals)
           /\ DOMAIN journals' = DOMAIN journals
           /\ journals'[j] = new /\ \A i \in DOMAIN journals \ {j} : journals'[i] = journals[i]
  OBVIOUS

\* What is added to a journal while its setup works.
LEMMA Extended ==
    ASSUME TypeOK, job \in OpenJournals, NEW f \in File,
           Record(f) \/ RecordDirectory(f) \/ (RecordClone /\ f = Repository)
    PROVE  /\ journals' \in Seq(Journal) /\ Len(journals') = Len(journals)
           /\ DOMAIN journals' = DOMAIN journals /\ OpenJournals' = OpenJournals
           /\ \A i \in DOMAIN journals \ {job} : journals'[i] = journals[i]
           /\ journals'[job].entries = journals[job].entries \cup {f}
           /\ journals'[job].moved = journals[job].moved
           /\ journals'[job].original =
                IF Record(f) THEN [journals[job].original EXCEPT ![f] = active[f]]
                ELSE journals[job].original
           /\ \A i \in DOMAIN journals : journals'[i].state = journals[i].state
<1> DEFINE snapshot == IF Record(f) THEN [journals[job].original EXCEPT ![f] = active[f]]
                       ELSE journals[job].original
           new == [state |-> "open", entries |-> journals[job].entries \cup {f},
                   original |-> snapshot, moved |-> journals[job].moved]
<1>1. job \in DOMAIN journals /\ journals[job] \in Journal /\ journals[job].state = "open"
  BY DEF TypeOK, OpenJournals
<1>2. new \in Journal
  BY <1>1 DEF Journal, TypeOK
<1>3. journals' = [journals EXCEPT ![job] = new]
  <2>1. CASE Record(f)
    <3>1. journals' = [journals EXCEPT ![job] =
            [[journals[job] EXCEPT !.entries = @ \cup {f}] EXCEPT !.original = [@ EXCEPT ![f] = active[f]]]]
      BY <1>1, <2>1 DEF Record, TypeOK
    <3> DEFINE mid == [journals[job] EXCEPT !.entries = @ \cup {f}]
    <3>2. mid = [state |-> "open", entries |-> journals[job].entries \cup {f},
                 original |-> journals[job].original, moved |-> journals[job].moved]
      BY <1>1 DEF Journal
    <3>3. [mid EXCEPT !.original = [@ EXCEPT ![f] = active[f]]] = new
      <4>1. /\ mid.state = "open" /\ mid.entries = journals[job].entries \cup {f}
            /\ mid.original = journals[job].original /\ mid.moved = journals[job].moved
            /\ mid = [state |-> mid.state, entries |-> mid.entries, original |-> mid.original,
                      moved |-> mid.moved]
        BY <3>2
      <4> HIDE DEF mid
      <4> QED
        BY <2>1, <4>1
    <3> QED
      BY <3>1, <3>3
  <2>2. CASE ~Record(f)
    <3>1. journals' = [journals EXCEPT ![job] = [journals[job] EXCEPT !.entries = @ \cup {f}]]
      BY <1>1, <2>2 DEF RecordDirectory, RecordClone
    <3>2. [journals[job] EXCEPT !.entries = @ \cup {f}] = new
      BY <1>1, <2>2 DEF Journal
    <3> QED
      BY <3>1, <3>2
  <2> QED
    BY <2>1, <2>2
<1> HIDE DEF new
<1>4. /\ journals' \in Seq(Journal) /\ Len(journals') = Len(journals)
      /\ DOMAIN journals' = DOMAIN journals
      /\ journals'[job] = new /\ \A i \in DOMAIN journals \ {job} : journals'[i] = journals[i]
  BY <1>1, <1>2, <1>3, Replaced DEF TypeOK
<1>5. /\ new.state = "open" /\ new.entries = journals[job].entries \cup {f}
      /\ new.original = snapshot /\ new.moved = journals[job].moved
  BY DEF new
<1>6. \A i \in DOMAIN journals : journals'[i].state = journals[i].state
  BY <1>1, <1>4, <1>5
<1>7. OpenJournals' = OpenJournals
  BY <1>4, <1>6 DEF OpenJournals
<1> QED
  BY <1>4, <1>5, <1>6, <1>7

\* A directory goes to the backup of the journal, or comes back.
LEMMA MovedThere ==
    ASSUME TypeOK, job \in OpenJournals, NEW f \in File, NEW c \in Content,
           journals' = [journals EXCEPT ![job].moved[f] = c]
    PROVE  /\ journals' \in Seq(Journal) /\ Len(journals') = Len(journals)
           /\ DOMAIN journals' = DOMAIN journals /\ OpenJournals' = OpenJournals
           /\ \A i \in DOMAIN journals \ {job} : journals'[i] = journals[i]
           /\ journals'[job].entries = journals[job].entries
           /\ journals'[job].original = journals[job].original
           /\ journals'[job].moved = [journals[job].moved EXCEPT ![f] = c]
           /\ \A i \in DOMAIN journals : journals'[i].state = journals[i].state
<1> DEFINE new == [state |-> "open", entries |-> journals[job].entries,
                   original |-> journals[job].original,
                   moved |-> [journals[job].moved EXCEPT ![f] = c]]
<1>1. job \in DOMAIN journals /\ journals[job] \in Journal /\ journals[job].state = "open"
  BY DEF TypeOK, OpenJournals
<1>2. new \in Journal
  BY <1>1 DEF Journal
<1>3. journals' = [journals EXCEPT ![job] = new]
  <2>1. journals' = [journals EXCEPT ![job] = [journals[job] EXCEPT !.moved = [@ EXCEPT ![f] = c]]]
    BY <1>1
  <2>2. [journals[job] EXCEPT !.moved = [@ EXCEPT ![f] = c]] = new
    BY <1>1 DEF Journal
  <2> QED
    BY <2>1, <2>2
<1> HIDE DEF new
<1>4. /\ journals' \in Seq(Journal) /\ Len(journals') = Len(journals)
      /\ DOMAIN journals' = DOMAIN journals
      /\ journals'[job] = new /\ \A i \in DOMAIN journals \ {job} : journals'[i] = journals[i]
  BY <1>1, <1>2, <1>3, Replaced DEF TypeOK
<1>5. /\ new.state = "open" /\ new.entries = journals[job].entries
      /\ new.original = journals[job].original
      /\ new.moved = [journals[job].moved EXCEPT ![f] = c]
  BY DEF new
<1>6. \A i \in DOMAIN journals : journals'[i].state = journals[i].state
  BY <1>1, <1>4, <1>5
<1>7. OpenJournals' = OpenJournals
  BY <1>4, <1>6 DEF OpenJournals
<1> QED
  BY <1>4, <1>5, <1>6, <1>7

\* The journal in hand is closed.
LEMMA Closed ==
    ASSUME TypeOK, job \in OpenJournals, NEW state \in {"complete", "rolled_back"},
           journals' = [journals EXCEPT ![job] = NewJournal(state)]
    PROVE  /\ journals' \in Seq(Journal) /\ Len(journals') = Len(journals)
           /\ DOMAIN journals' = DOMAIN journals /\ OpenJournals' = OpenJournals \ {job}
           /\ journals'[job].state = state
           /\ \A i \in DOMAIN journals \ {job} : journals'[i] = journals[i]
<1>1. job \in DOMAIN journals
  BY DEF OpenJournals
<1>2. NewJournal(state) \in Journal
  BY NewJournalType
<1>3. /\ journals' \in Seq(Journal) /\ Len(journals') = Len(journals)
      /\ DOMAIN journals' = DOMAIN journals
      /\ journals'[job] = NewJournal(state)
      /\ \A i \in DOMAIN journals \ {job} : journals'[i] = journals[i]
  BY <1>1, <1>2, Replaced DEF TypeOK
<1>4. NewJournal(state).state = state
  BY DEF NewJournal
<1> QED
  BY <1>1, <1>3, <1>4 DEF OpenJournals

\* A setup opens its own.
LEMMA Opened ==
    ASSUME TypeOK, journals' = Append(journals, NewJournal("open"))
    PROVE  /\ journals' \in Seq(Journal) /\ Len(journals') = Len(journals) + 1
           /\ DOMAIN journals' = DOMAIN journals \cup {Len(journals) + 1}
           /\ OpenJournals' = OpenJournals \cup {Len(journals) + 1}
           /\ journals'[Len(journals) + 1] = NewJournal("open")
           /\ \A i \in DOMAIN journals : journals'[i] = journals[i]
<1>1. NewJournal("open") \in Journal /\ NewJournal("open").state = "open"
  BY NewJournalType DEF NewJournal
<1>2. journals \in Seq(Journal)
  BY DEF TypeOK
<1>3. /\ journals' \in Seq(Journal) /\ Len(journals') = Len(journals) + 1
      /\ journals'[Len(journals) + 1] = NewJournal("open")
      /\ \A i \in DOMAIN journals : journals'[i] = journals[i]
  BY <1>1, <1>2
<1>4. DOMAIN journals' = DOMAIN journals \cup {Len(journals) + 1}
  BY <1>2, <1>3
<1> QED
  BY <1>1, <1>3, <1>4 DEF OpenJournals

(***************************************************************************)
(* Types.                                                                  *)
(***************************************************************************)
LEMMA ContentTypes ==
    /\ Absent \in Content /\ ~Present(Absent)
    /\ \A e \in Nat : Empty(e) \in Content
    /\ \A e \in Nat \ {0} : Present(Empty(e))
  BY DEF Content, Absent, Present, Empty

LEMMA ContentUpdates ==
    ASSUME NEW c \in Content, NEW n \in Nat
    PROVE  /\ [c EXCEPT !.rev = n] \in Content
           /\ [c EXCEPT !.rev = n].era = c.era /\ [c EXCEPT !.rev = n].rev = n
           /\ [c EXCEPT !.rev = n].setup = c.setup
           /\ [c EXCEPT !.setup = n] \in Content
           /\ [c EXCEPT !.setup = n].era = c.era /\ [c EXCEPT !.setup = n].rev = c.rev
           /\ [c EXCEPT !.setup = n].setup = n
  BY DEF Content

LEMMA JournalTypes ==
    ASSUME TypeOK, NEW j \in DOMAIN journals
    PROVE  j \in 1..Len(journals) /\ journals[j] \in Journal /\ journals[j].entries \subseteq File
<1>1. journals \in Seq(Journal)
  BY DEF TypeOK
<1>2. j \in 1..Len(journals) /\ journals[j] \in Journal
  BY <1>1
<1> QED
  BY <1>2 DEF Journal

\* The part of the state that only a few operations touch.
Base == TypeOK /\ Exclusive /\ OneOpenJournal /\ (marked => era >= 2) /\ era >= 1

LEMMA TypeInit == Init => TypeOK
<1> SUFFICES ASSUME Init PROVE TypeOK
  OBVIOUS
<1>1. active \in [File -> Content]
  BY ContentTypes DEF Init
<1>2. /\ [f \in File |-> Absent] \in [File -> Content]
  BY ContentTypes
<1>3. <<>> \in Seq(Journal) /\ Len(<<>>) = 0
  OBVIOUS
<1>4. job \in 0..Len(journals) /\ journals \in Seq(Journal)
  BY <1>3 DEF Init
<1> QED
  BY <1>1, <1>2, <1>4 DEF Init, TypeOK

LEMMA TypeStep == Base /\ [Next]_vars => TypeOK'
<1> SUFFICES ASSUME Base, [Next]_vars PROVE TypeOK'
  OBVIOUS
<1> USE DEF Base, TypeOK, lockVars, opVars, resetVars, counters
<1>1. ASSUME NEW p \in Process, CheckMarker(p) \/ TryLock(p) \/ Release(p) PROVE TypeOK'
  BY <1>1 DEF CheckMarker, TryLock, Release
<1>2. ASSUME NEW p \in Process, NEW f \in File, WriteFile(p, f) PROVE TypeOK'
  <2>1. [active[f] EXCEPT !.rev = writes + 1] \in Content
    <3>1. active[f] \in Content /\ writes + 1 \in Nat
      OBVIOUS
    <3> QED
      BY <3>1, ContentUpdates
  <2>2. [era |-> era, rev |-> writes + 1, setup |-> 0] \in Content
    BY DEF Content
  <2>3. active' \in [File -> Content]
    BY <1>2, <2>1, <2>2 DEF WriteFile
  <2>4. acked' \in [File -> Content]
    BY <1>2, <2>3 DEF WriteFile
  <2> QED
    BY <1>2, <2>3, <2>4 DEF WriteFile
<1>3. ASSUME NEW o \in {"setup", "reset", "sync"}, Begin(o) PROVE TypeOK'
  BY <1>3 DEF Begin
<1>4. ASSUME NEW f \in File, RemoveReplacement(f) \/ RenameBack(f) \/ RemoveAdded(f) PROVE TypeOK'
  BY <1>4, ContentTypes DEF RemoveReplacement, RenameBack, RemoveAdded
<1>5. ASSUME NEW f \in File, MoveOriginal(f) \/ MoveStaged(f) PROVE TypeOK'
  BY <1>5, ContentTypes DEF MoveOriginal, MoveStaged
<1>6. CASE RemoveMarker
  <2>1. backup' \in [File -> Content] /\ staged' \in [File -> Content]
    BY <1>6, ContentTypes DEF RemoveMarker, ForgetReset
  <2>2. era' \in Nat
    BY <1>6 DEF RemoveMarker
  <2> QED
    BY <1>6, <2>1, <2>2 DEF RemoveMarker, ForgetReset, Finish
<1>7. CASE Prepare
  <2>1. staged' \in [File -> Content]
    BY <1>7, ContentTypes DEF Prepare
  <2> QED
    BY <1>7, <2>1 DEF Prepare
<1>8. CASE CompleteReset
  <2>1. backup' \in [File -> Content] /\ staged' \in [File -> Content]
    BY <1>8, ContentTypes DEF CompleteReset, ForgetReset
  <2> QED
    BY <1>8, <2>1 DEF CompleteReset, ForgetReset, Finish
<1>9. CASE ResetFails
  BY <1>9 DEF ResetFails
<1>10. ASSUME NEW j \in DOMAIN journals, TakeOpenJournal(j) PROVE TypeOK'
  <2>1. j \in 0..Len(journals) /\ journals[j].entries \subseteq File
    BY JournalTypes
  <2> QED
    BY <1>10, <2>1 DEF TakeOpenJournal
<1>11. ASSUME NEW f \in File, RestoreFile(f) PROVE TypeOK'
  <2>1. journals[job] \in Journal
    BY <1>11 DEF OneOpenJournal, OpenJournals, RestoreFile
  <2>2. active' \in [File -> Content]
    BY <1>11, <2>1 DEF RestoreFile, Journal
  <2> QED
    BY <1>11, <2>2 DEF RestoreFile
<1>12. ASSUME NEW f \in File, RestoreDirectory(f) PROVE TypeOK'
  <2>1. job \in OpenJournals /\ journals[job] \in Journal
    BY <1>12 DEF OneOpenJournal, OpenJournals, RestoreDirectory
  <2>2. active' \in [File -> Content]
    BY <1>12, <2>1 DEF RestoreDirectory, Journal
  <2>3. journals' \in Seq(Journal) /\ Len(journals') = Len(journals)
    BY <1>12, <2>1, MovedThere, ContentTypes DEF RestoreDirectory
  <2> QED
    BY <1>12, <2>2, <2>3 DEF RestoreDirectory
<1>13. CASE CloseJournal
  <2>1. journals' \in Seq(Journal)
    BY <1>13, Closed DEF OneOpenJournal, CloseJournal
  <2> QED
    BY <1>13, <2>1 DEF CloseJournal, Finish
<1>14. CASE RecoveryDone \/ SyncReturns
  BY <1>14 DEF RecoveryDone, SyncReturns, Finish
<1>15. CASE BeginTransaction
  BY <1>15, Opened DEF BeginTransaction
<1>16. ASSUME NEW f \in File, Record(f) \/ RecordDirectory(f) \/ (RecordClone /\ f = Repository) PROVE TypeOK'
  <2>1. journals' \in Seq(Journal) /\ Len(journals') = Len(journals)
    BY <1>16, Extended DEF OneOpenJournal, Record, RecordDirectory, RecordClone, Installing
  <2> QED
    BY <1>16, <2>1 DEF Record, RecordDirectory, RecordClone
<1>17. ASSUME NEW f \in File, Install(f) PROVE TypeOK'
  <2>1. [active[f] EXCEPT !.setup = job] \in Content
    <3>1. active[f] \in Content /\ job \in Nat
      OBVIOUS
    <3> QED
      BY <3>1, ContentUpdates
  <2>2. [era |-> era, rev |-> 0, setup |-> job] \in Content
    BY DEF Content
  <2>3. active' \in [File -> Content]
    BY <1>17, <2>1, <2>2 DEF Install
  <2> QED
    BY <1>17, <2>3 DEF Install
<1>18. CASE BootstrapLocal
  BY <1>18, ContentTypes DEF BootstrapLocal
<1>19. CASE RenameClone
  <2>1. [Empty(era) EXCEPT !.setup = job] \in Content
    <3>1. Empty(era) \in Content /\ job \in Nat
      BY ContentTypes
    <3> QED
      BY <3>1, ContentUpdates
  <2> QED
    BY <1>19, <2>1 DEF RenameClone
<1>20. ASSUME NEW f \in File, MoveDirectory(f) PROVE TypeOK'
  <2>1. journals' \in Seq(Journal) /\ Len(journals') = Len(journals)
    BY <1>20, MovedThere DEF OneOpenJournal, MoveDirectory, Installing
  <2> QED
    BY <1>20, <2>1, ContentTypes DEF MoveDirectory
<1>21. CASE CompleteSetup
  <2>1. journals' \in Seq(Journal)
    BY <1>21, Closed DEF OneOpenJournal, CompleteSetup, Installing
  <2> QED
    BY <1>21, <2>1 DEF CompleteSetup, Finish
<1>22. CASE SetupFails
  <2>1. journals[job] \in Journal
    BY <1>22 DEF OneOpenJournal, OpenJournals, SetupFails, Installing
  <2> QED
    BY <1>22, <2>1 DEF SetupFails, Journal
<1>23. CASE Crash
  BY <1>23 DEF Crash, Finish
<1>24. CASE UNCHANGED vars
  BY <1>24 DEF vars
<1>25. Repository \in File
  OBVIOUS
<1> QED
  BY <1>1, <1>2, <1>3, <1>4, <1>5, <1>6, <1>7, <1>8, <1>9, <1>10, <1>11, <1>12, <1>13, <1>14,
     <1>15, <1>16, <1>17, <1>18, <1>19, <1>20, <1>21, <1>22, <1>23, <1>24, <1>25
     DEF Next, BusinessNext, MaintenanceNext, ResetStep, SetupStep

(***************************************************************************)
(* Who does what.                                                          *)
(***************************************************************************)
LEMMA ZeroIsNone == TypeOK => 0 \notin OpenJournals
  BY JournalTypes DEF OpenJournals

\* What becomes of the open journals, operation by operation.
LEMMA OpenStep ==
    ASSUME Base, [Next]_vars
    PROVE  \/ OpenJournals' = OpenJournals
           \/ BeginTransaction /\ OpenJournals' = OpenJournals \cup {job'} /\ job' # 0
           \/ (CloseJournal \/ CompleteSetup) /\ OpenJournals' = OpenJournals \ {job}
<1> USE DEF Base
<1>1. CASE UNCHANGED journals
  BY <1>1 DEF OpenJournals
<1>2. CASE BeginTransaction
  <2>1. OpenJournals' = OpenJournals \cup {job'} /\ job' = Len(journals) + 1
    BY <1>2, Opened DEF BeginTransaction
  <2>2. Len(journals) \in Nat
    BY DEF TypeOK
  <2> QED
    BY <1>2, <2>1, <2>2
<1>3. CASE CloseJournal \/ CompleteSetup
  BY <1>3, Closed DEF OneOpenJournal, CloseJournal, CompleteSetup, Installing
<1>4. ASSUME NEW f \in File, Record(f) \/ RecordDirectory(f) \/ (RecordClone /\ f = Repository)
      PROVE  OpenJournals' = OpenJournals
  BY <1>4, Extended DEF OneOpenJournal, Record, RecordDirectory, RecordClone, Installing
<1>5. ASSUME NEW f \in File, MoveDirectory(f) PROVE OpenJournals' = OpenJournals
  BY <1>5, MovedThere DEF OneOpenJournal, MoveDirectory, Installing, TypeOK
<1>6. ASSUME NEW f \in File, RestoreDirectory(f) PROVE OpenJournals' = OpenJournals
  <2>1. CASE Present(journals[job].moved[f])
    BY <1>6, <2>1, MovedThere, ContentTypes DEF OneOpenJournal, RestoreDirectory
  <2>2. CASE ~Present(journals[job].moved[f])
    <3>1. journals' = journals
      BY <1>6, <2>2 DEF RestoreDirectory
    <3> QED
      BY <3>1 DEF OpenJournals
  <2> QED
    BY <2>1, <2>2
<1>7. Repository \in File
  OBVIOUS
<1> QED
  BY <1>1, <1>2, <1>3, <1>4, <1>5, <1>6, <1>7
     DEF Next, vars, BusinessNext, MaintenanceNext, ResetStep, SetupStep, CheckMarker, TryLock, Release,
         WriteFile, Begin, RemoveReplacement, RenameBack, RemoveAdded, RemoveMarker, TakeOpenJournal,
         RestoreFile, RecoveryDone, SyncReturns, Install, BootstrapLocal, RenameClone, SetupFails,
         Prepare, MoveOriginal, MoveStaged, CompleteReset, ResetFails, Crash

LEMMA ControlStep == Base /\ MarkerIsReset /\ [Next]_vars => Control'
<1> SUFFICES ASSUME Base, MarkerIsReset, [Next]_vars PROVE Control'
  OBVIOUS
<1> USE DEF Base, Control, Exclusive, OneOpenJournal, lockVars, opVars, resetVars, counters
<1>1. ASSUME NEW p \in Process, CheckMarker(p) \/ TryLock(p) \/ Release(p) \/ \E f \in File : WriteFile(p, f)
      PROVE  Control'
  <2>1. OpenJournals' = OpenJournals
    BY <1>1 DEF CheckMarker, TryLock, Release, WriteFile, OpenJournals
  <2>2. UNCHANGED <<opVars, resetVars>> /\ (op # "none" => shared' \subseteq shared)
    BY <1>1 DEF CheckMarker, TryLock, Release, WriteFile
  <2> QED
    BY <2>1, <2>2 DEF MarkerIsReset
<1>2. ASSUME NEW o \in {"setup", "reset", "sync"}, Begin(o) PROVE Control'
  BY <1>2 DEF Begin, MarkerIsReset, OpenJournals
<1>3. ASSUME NEW f \in File, RemoveReplacement(f) \/ RemoveAdded(f) \/ RenameBack(f) PROVE Control'
  BY <1>3 DEF RemoveReplacement, RemoveAdded, RenameBack, MarkerIsReset, OpenJournals
<1>4. ASSUME NEW f \in File, MoveOriginal(f) \/ MoveStaged(f) PROVE Control'
  BY <1>4 DEF MoveOriginal, MoveStaged, MarkerIsReset, OpenJournals
<1>5. CASE RemoveMarker
  <2>1. OpenJournals' = OpenJournals /\ OpenJournals = {} /\ job = 0
    BY <1>5 DEF RemoveMarker, MarkerIsReset, OpenJournals
  <2>2. ~marked' /\ originals' = {} /\ \A f \in File : ~Present(backup'[f])
    BY <1>5, ContentTypes DEF RemoveMarker, ForgetReset
  <2>3. \/ op' = "none" /\ phase' = "work"
        \/ op' = op /\ phase' = "recover_setup"
    BY <1>5 DEF RemoveMarker, Finish
  <2>4. shared' = shared /\ job' = job /\ op # "none"
    BY <1>5 DEF RemoveMarker
  <2> QED
    BY <2>1, <2>2, <2>3, <2>4 DEF MarkerIsReset
<1>6. CASE Prepare
  <2>1. OpenJournals' = OpenJournals /\ OpenJournals = {} /\ job = 0
    BY <1>6, ZeroIsNone DEF Prepare, OpenJournals
  <2> QED
    BY <1>6, <2>1 DEF Prepare, MarkerIsReset
<1>7. CASE CompleteReset
  <2>1. OpenJournals' = OpenJournals /\ OpenJournals = {} /\ job = 0
    BY <1>7 DEF CompleteReset, MarkerIsReset, OpenJournals
  <2>2. ~marked' /\ originals' = {} /\ \A f \in File : ~Present(backup'[f])
    BY <1>7, ContentTypes DEF CompleteReset, ForgetReset
  <2> QED
    BY <1>7, <2>1, <2>2 DEF CompleteReset, MarkerIsReset, Finish
<1>8. CASE ResetFails
  BY <1>8 DEF ResetFails, MarkerIsReset, OpenJournals
<1>9. ASSUME NEW j \in DOMAIN journals, TakeOpenJournal(j) PROVE Control'
  BY <1>9 DEF TakeOpenJournal, MarkerIsReset, OpenJournals
<1>10. ASSUME NEW f \in File, RestoreFile(f) \/ RestoreDirectory(f) PROVE Control'
  <2>1. OpenJournals' = OpenJournals
    BY <1>10, OpenStep DEF RestoreFile, RestoreDirectory, CloseJournal, CompleteSetup, BeginTransaction, Installing
  <2> QED
    BY <1>10, <2>1 DEF RestoreFile, RestoreDirectory, MarkerIsReset
<1>11. CASE CloseJournal
  <2>1. OpenJournals' = OpenJournals \ {job}
    BY <1>11, Closed DEF CloseJournal
  <2> QED
    BY <1>11, <2>1 DEF CloseJournal, Finish, MarkerIsReset
<1>12. CASE RecoveryDone \/ SyncReturns
  BY <1>12 DEF RecoveryDone, SyncReturns, Finish, MarkerIsReset, OpenJournals
<1>13. CASE BeginTransaction
  <2>1. OpenJournals' = OpenJournals \cup {job'} /\ OpenJournals = {}
    <3>1. OpenJournals = {}
      BY <1>13, ZeroIsNone DEF BeginTransaction
    <3> QED
      BY <1>13, <3>1, Opened DEF BeginTransaction
  <2> QED
    BY <1>13, <2>1 DEF BeginTransaction, MarkerIsReset
<1>14. ASSUME NEW f \in File,
              \/ Record(f) \/ RecordDirectory(f) \/ (RecordClone /\ f = Repository)
              \/ MoveDirectory(f) \/ Install(f) \/ BootstrapLocal \/ RenameClone
       PROVE  Control'
  <2>1. OpenJournals' = OpenJournals
    <3>1. CASE UNCHANGED journals
      BY <3>1 DEF OpenJournals
    <3>2. CASE Record(f) \/ RecordDirectory(f) \/ (RecordClone /\ f = Repository)
      BY <3>2, Extended DEF Record, RecordDirectory, RecordClone, Installing
    <3>3. CASE MoveDirectory(f)
      BY <3>3, MovedThere DEF MoveDirectory, Installing, TypeOK
    <3> QED
      BY <1>14, <3>1, <3>2, <3>3 DEF Install, BootstrapLocal, RenameClone
  <2>2. UNCHANGED <<lockVars, opVars, resetVars>>
    BY <1>14 DEF Record, RecordDirectory, RecordClone, MoveDirectory, Install, BootstrapLocal, RenameClone
  <2> QED
    BY <2>1, <2>2 DEF MarkerIsReset
<1>15. CASE CompleteSetup
  <2>1. OpenJournals' = OpenJournals \ {job}
    BY <1>15, Closed DEF CompleteSetup, Installing
  <2> QED
    BY <1>15, <2>1 DEF CompleteSetup, Finish, MarkerIsReset, Installing
<1>16. CASE SetupFails
  BY <1>16 DEF SetupFails, Installing, MarkerIsReset, OpenJournals
<1>17. CASE Crash
  BY <1>17 DEF Crash, Finish, MarkerIsReset, OpenJournals
<1>18. CASE UNCHANGED vars
  BY <1>18 DEF vars, MarkerIsReset, OpenJournals
<1>19. Repository \in File
  OBVIOUS
<1> QED
  BY <1>1, <1>2, <1>3, <1>4, <1>5, <1>6, <1>7, <1>8, <1>9, <1>10, <1>11, <1>12, <1>13, <1>14,
     <1>15, <1>16, <1>17, <1>18, <1>19
     DEF Next, BusinessNext, MaintenanceNext, ResetStep, SetupStep

(***************************************************************************)
(* Resets.                                                                 *)
(***************************************************************************)
LEMMA BaseHolds == TypeOK /\ Control /\ Eras => Base
  BY DEF Base, Control, Eras

LEMMA ErasStep ==
    ASSUME TypeOK, Control, ResetInv, [Next]_vars
    PROVE  Eras'
<1> USE DEF Control, Exclusive, MarkerIsReset, ResetInv, lockVars, opVars, resetVars, counters
<1>0. active \in [File -> Content] /\ backup \in [File -> Content] /\ era \in Nat
  BY DEF TypeOK
<1>a. Eras
  OBVIOUS
<1>1. CASE UNCHANGED <<active, backup, originals, marked, era>>
  BY <1>1, <1>a DEF Eras
<1>2. ASSUME NEW p \in Process, NEW f \in File, WriteFile(p, f) PROVE Eras'
  <2>1. UNCHANGED <<backup, originals, marked, era>>
    BY <1>2 DEF WriteFile
  <2>2. active'[f].era = IF Present(active[f]) THEN active[f].era ELSE era
    BY <1>0, <1>2, ContentUpdates DEF WriteFile, TypeOK, Content
  <2>3. \A g \in File \ {f} : active'[g] = active[g]
    BY <1>0, <1>2 DEF WriteFile
  <2>4. \A g \in File : active'[g].era \in {active[g].era, era}
                       /\ (active[g].era # 0 => active'[g].era = active[g].era)
    BY <2>2, <2>3 DEF Present
  <2> QED
    BY <1>0, <1>a, <2>1, <2>4 DEF Eras, Present
<1>3. ASSUME ~marked, UNCHANGED <<backup, originals, marked, era>>, NEW f \in File,
             \A g \in File \ {f} : active'[g] = active[g],
             f \in Targets => active'[f].era \in {0, era}
      PROVE  Eras'
  BY <1>a, <1>3 DEF Eras, Present
<1>4. ASSUME NEW f \in File, Install(f) PROVE Eras'
  <2>1. ~marked /\ UNCHANGED <<backup, originals, marked, era>>
    BY <1>4 DEF Install, Installing
  <2>2. active'[f].era \in {active[f].era, era} /\ \A g \in File \ {f} : active'[g] = active[g]
    <3>1. active[f] \in Content /\ job \in Nat
      BY DEF TypeOK
    <3>2. [active[f] EXCEPT !.setup = job].era = active[f].era
      BY <3>1, ContentUpdates
    <3> QED
      BY <1>0, <1>4, <3>2 DEF Install
  <2>3. f \in Targets => active'[f].era \in {0, era}
    BY <1>a, <2>1, <2>2 DEF Eras, Present
  <2> QED
    BY <1>3, <2>1, <2>2, <2>3
<1>5. CASE BootstrapLocal \/ RenameClone
  <2>1. ~marked /\ UNCHANGED <<backup, originals, marked, era>>
    BY <1>5 DEF BootstrapLocal, RenameClone, Installing
  <2>2. Empty(era) \in Content /\ job \in Nat /\ Empty(era).era = era
    BY ContentTypes DEF TypeOK, Empty
  <2>3. active'[Repository].era = era /\ \A g \in File \ {Repository} : active'[g] = active[g]
    <3>1. [Empty(era) EXCEPT !.setup = job].era = era
      BY <2>2, ContentUpdates
    <3>2. \/ active' = [active EXCEPT ![Repository] = Empty(era)]
          \/ active' = [active EXCEPT ![Repository] = [Empty(era) EXCEPT !.setup = job]]
      BY <1>5 DEF BootstrapLocal, RenameClone
    <3> QED
      BY <1>0, <2>2, <3>1, <3>2
  <2> QED
    BY <1>3, <2>1, <2>3
<1>6. ASSUME NEW f \in File, RestoreFile(f) \/ RestoreDirectory(f) PROVE Eras'
  <2>1. ~marked /\ UNCHANGED <<backup, originals, marked, era>> /\ job \in OpenJournals
    BY <1>6 DEF RestoreFile, RestoreDirectory, OneOpenJournal
  <2>2. \A g \in File \ {f} : active'[g] = active[g]
    BY <1>0, <1>6 DEF RestoreFile, RestoreDirectory
  <2>3. \/ active'[f] = active[f]
        \/ active'[f] = journals[job].original[f]
        \/ active'[f] = journals[job].moved[f]
    BY <1>0, <1>6 DEF RestoreFile, RestoreDirectory
  <2>4. f \in Targets => active'[f].era \in {0, era}
    BY <1>a, <2>1, <2>3 DEF Eras, JournalEras, Present
  <2> QED
    BY <1>3, <2>1, <2>2, <2>4
<1>7. ASSUME NEW f \in File, MoveDirectory(f) PROVE Eras'
  <2>1. ~marked /\ UNCHANGED <<backup, originals, marked, era>>
    BY <1>7 DEF MoveDirectory, Installing
  <2>2. active'[f].era = 0 /\ \A g \in File \ {f} : active'[g] = active[g]
    BY <1>0, <1>7, ContentTypes DEF MoveDirectory, Absent
  <2> QED
    BY <1>3, <2>1, <2>2
<1>8. ASSUME NEW f \in File, RemoveReplacement(f) PROVE Eras'
  <2>1. UNCHANGED <<backup, originals, marked, era>> /\ Present(backup[f]) /\ marked
    BY <1>8 DEF RemoveReplacement
  <2>2. active'[f].era = 0 /\ \A g \in File \ {f} : active'[g] = active[g]
    BY <1>0, <1>8 DEF RemoveReplacement, Absent
  <2> QED
    BY <1>a, <2>1, <2>2 DEF Eras, Present
<1>9. ASSUME NEW f \in File, RenameBack(f) PROVE Eras'
  <2>1. UNCHANGED <<originals, marked, era>> /\ Present(backup[f]) /\ marked
    BY <1>9 DEF RenameBack
  <2>2. /\ active'[f] = backup[f] /\ backup'[f].era = 0
        /\ \A g \in File \ {f} : active'[g] = active[g] /\ backup'[g] = backup[g]
    BY <1>0, <1>9 DEF RenameBack, Absent
  <2> QED
    BY <1>a, <2>1, <2>2 DEF Eras, Present
<1>10. ASSUME NEW f \in File, RemoveAdded(f) PROVE Eras'
  <2>1. UNCHANGED <<backup, originals, marked, era>> /\ marked
    BY <1>10 DEF RemoveAdded
  <2>2. /\ \A g \in File \ {f} : active'[g] = active[g]
        /\ f \in originals => active'[f] = active[f]
        /\ f \notin originals => active'[f].era = 0
    BY <1>0, <1>10 DEF RemoveAdded, Absent
  <2> QED
    BY <1>a, <2>1, <2>2 DEF Eras, Present
<1>11. ASSUME NEW f \in File, MoveOriginal(f) PROVE Eras'
  <2>1. UNCHANGED <<originals, marked, era>> /\ marked /\ f \in todo
    BY <1>11 DEF MoveOriginal, First
  <2>2. CASE f \notin originals
    BY <1>1, <1>11, <2>2 DEF MoveOriginal
  <2>3. CASE f \in originals
    <3>1. /\ backup'[f] = active[f] /\ active'[f].era = 0
          /\ \A g \in File \ {f} : active'[g] = active[g] /\ backup'[g] = backup[g]
      BY <1>0, <1>11, <2>3 DEF MoveOriginal, Absent
    <3>2. ~Present(backup[f]) /\ f \in Targets
      BY <1>11, <2>1, <2>3 DEF Swap, MoveOriginal, TypeOK
    <3>3. active[f].era = era - 1 /\ era - 1 # 0
      BY <1>0, <1>a, <2>1, <2>3, <3>2 DEF Eras
    <3> QED
      BY <1>a, <2>1, <2>3, <3>1, <3>3 DEF Eras, Present
  <2> QED
    BY <2>2, <2>3
<1>12. ASSUME NEW f \in File, MoveStaged(f) PROVE Eras'
  <2>1. UNCHANGED <<backup, originals, marked, era>> /\ marked /\ f \in Targets /\ f \notin todo
    BY <1>12 DEF MoveStaged, Swap
  <2>2. \A g \in File \ {f} : active'[g] = active[g]
    BY <1>0, <1>12 DEF MoveStaged
  <2>3. active'[f] = active[f] \/ active'[f].era = era
    BY <1>0, <1>12, <2>1 DEF MoveStaged, Swap
  <2>4. f \in originals => Present(backup[f])
    BY <1>12, <2>1 DEF MoveStaged, Swap
  <2> QED
    BY <1>a, <2>1, <2>2, <2>3, <2>4 DEF Eras, Present
<1>13. CASE RemoveMarker
  <2>1. ~marked' /\ era' = era - 1 /\ marked /\ active' = active /\ todo = {} /\ era >= 2
        /\ \A f \in File : backup'[f] = Absent
    BY <1>13, <1>a DEF RemoveMarker, ForgetReset, Eras
  <2>2. \A f \in Targets : Present(active[f]) => active[f].era = era - 1
    BY <1>13, <1>a, <2>1 DEF RemoveMarker, Undo, Eras
  <2> QED
    BY <1>0, <2>1, <2>2, ContentTypes DEF Eras
<1>14. CASE Prepare
  <2>1. marked' /\ ~marked /\ era' = era + 1 /\ UNCHANGED <<active, backup>>
        /\ originals' = {f \in Targets : Present(active[f])}
    BY <1>14 DEF Prepare
  <2>2. \A f \in File : ~Present(backup[f])
    BY <2>1
  <2>3. /\ era' >= 2
        /\ \A f \in Targets : /\ f \in originals' => active'[f].era = era' - 1
                              /\ f \notin originals' => ~Present(active'[f])
    BY <1>0, <1>a, <2>1 DEF Eras
  <2>4. \A f \in Targets : f \in File
    OBVIOUS
  <2> QED
    BY <1>0, <2>1, <2>2, <2>3, <2>4 DEF Eras
<1>15. CASE CompleteReset
  <2>1. ~marked' /\ era' = era /\ marked /\ active' = active /\ todo = {}
        /\ \A f \in File : backup'[f] = Absent
    BY <1>15 DEF CompleteReset, ForgetReset
  <2>2. \A f \in Targets : Present(active[f]) => active[f].era = era
    BY <1>15, <1>a, <2>1 DEF CompleteReset, Swap, Eras
  <2> QED
    BY <1>a, <2>1, <2>2, ContentTypes DEF Eras
<1>16. Repository \in File
  OBVIOUS
<1> QED
  BY <1>1, <1>2, <1>4, <1>5, <1>6, <1>7, <1>8, <1>9, <1>10, <1>11, <1>12, <1>13, <1>14, <1>15, <1>16
     DEF Next, vars, BusinessNext, MaintenanceNext, ResetStep, SetupStep, CheckMarker, TryLock, Release,
         Begin, TakeOpenJournal, CloseJournal, RecoveryDone, SyncReturns, BeginTransaction, Record,
         RecordClone, RecordDirectory, CompleteSetup, SetupFails, ResetFails, Crash

LEMMA JournalErasStep ==
    ASSUME TypeOK, Control, ResetInv, [Next]_vars
    PROVE  JournalEras'
<1> USE DEF Control, Exclusive, MarkerIsReset, OneOpenJournal, ResetInv,
        lockVars, opVars, resetVars, counters
<1>0. Base /\ active \in [File -> Content] /\ JournalEras
  BY BaseHolds DEF TypeOK
<1>1. CASE UNCHANGED <<journals, era>>
  BY <1>0, <1>1 DEF JournalEras, OpenJournals
<1>2. CASE OpenJournals = {} /\ journals' = journals
  BY <1>2 DEF JournalEras, OpenJournals
<1>3. ASSUME NEW f \in File, Record(f) \/ RecordDirectory(f) \/ (RecordClone /\ f = Repository)
      PROVE  JournalEras'
  <2>1. job \in OpenJournals /\ era' = era /\ ~marked
    BY <1>3 DEF Record, RecordDirectory, RecordClone, Installing
  <2>2. /\ OpenJournals' = OpenJournals
        /\ \A i \in DOMAIN journals \ {job} : journals'[i] = journals[i]
        /\ journals'[job].moved = journals[job].moved
        /\ journals'[job].original =
                IF Record(f) THEN [journals[job].original EXCEPT ![f] = active[f]]
                ELSE journals[job].original
    BY <1>0, <1>3, <2>1, Extended DEF Base
  <2>3. \A g \in File : journals'[job].original[g] \in {journals[job].original[g], active[g]}
    <3>1. journals[job].original \in [File -> Content]
      BY <1>0, <2>1, JournalTypes DEF Base, OpenJournals, Journal
    <3> QED
      BY <2>2, <3>1
  <2>4. ASSUME NEW g \in Targets
        PROVE  /\ Present(journals'[job].original[g]) => journals'[job].original[g].era = era
               /\ Present(journals'[job].moved[g]) => journals'[job].moved[g].era = era
    BY <1>0, <2>1, <2>2, <2>3 DEF JournalEras, Eras
  <2>5. \A i \in OpenJournals \ {job} : journals'[i] = journals[i]
    BY <2>2 DEF OpenJournals
  <2>6. ASSUME NEW j \in OpenJournals', NEW g \in Targets
        PROVE  /\ Present(journals'[j].original[g]) => journals'[j].original[g].era = era'
               /\ Present(journals'[j].moved[g]) => journals'[j].moved[g].era = era'
    <3>1. CASE j = job
      BY <2>1, <2>4, <3>1
    <3>2. CASE j # job
      <4>1. j \in OpenJournals /\ journals'[j] = journals[j]
        BY <2>2, <2>5, <3>2
      <4> QED
        BY <1>0, <2>1, <4>1 DEF JournalEras
    <3> QED
      BY <3>1, <3>2
  <2> QED
    BY <2>6 DEF JournalEras
<1>4. ASSUME NEW f \in File, NEW c \in Content, journals' = [journals EXCEPT ![job].moved[f] = c],
             f \in Targets => c.era \in {0, era}, job \in OpenJournals, era' = era
      PROVE  JournalEras'
  <2>1. /\ OpenJournals' = OpenJournals
        /\ \A i \in DOMAIN journals \ {job} : journals'[i] = journals[i]
        /\ journals'[job].original = journals[job].original
        /\ journals'[job].moved = [journals[job].moved EXCEPT ![f] = c]
    BY <1>0, <1>4, MovedThere DEF Base
  <2>2. journals[job].moved \in [File -> Content]
    BY <1>0, <1>4, JournalTypes DEF Base, OpenJournals, Journal
  <2>3. ASSUME NEW g \in Targets
        PROVE  Present(journals'[job].moved[g]) => journals'[job].moved[g].era = era
    BY <1>0, <1>4, <2>1, <2>2 DEF JournalEras, Present
  <2>4. \A i \in OpenJournals \ {job} : journals'[i] = journals[i]
    BY <2>1 DEF OpenJournals
  <2> QED
    BY <1>0, <1>4, <2>1, <2>3, <2>4 DEF JournalEras
<1>5. ASSUME NEW f \in File, MoveDirectory(f) PROVE JournalEras'
  <2>1. active[f] \in Content /\ (f \in Targets => active[f].era \in {0, era})
    BY <1>0, <1>5 DEF MoveDirectory, Installing, Eras, Present
  <2> QED
    BY <1>4, <1>5, <2>1 DEF MoveDirectory, Installing
<1>6. ASSUME NEW f \in File, RestoreDirectory(f) PROVE JournalEras'
  <2>1. CASE Present(journals[job].moved[f])
    <3>1. Absent \in Content /\ Absent.era = 0
      BY ContentTypes DEF Absent
    <3> QED
      BY <1>4, <1>6, <2>1, <3>1 DEF RestoreDirectory
  <2>2. CASE ~Present(journals[job].moved[f])
    <3>1. UNCHANGED <<journals, era>>
      BY <1>6, <2>2 DEF RestoreDirectory
    <3> QED
      BY <1>1, <3>1
  <2> QED
    BY <2>1, <2>2
<1>7. CASE CloseJournal \/ CompleteSetup
  <2>1. job \in OpenJournals /\ era' = era
    BY <1>7 DEF CloseJournal, CompleteSetup, Installing
  <2>2. OpenJournals' = OpenJournals \ {job}
        /\ \A i \in DOMAIN journals \ {job} : journals'[i] = journals[i]
    BY <1>0, <1>7, <2>1, Closed DEF CloseJournal, CompleteSetup, Base
  <2>3. \A i \in OpenJournals \ {job} : journals'[i] = journals[i]
    BY <2>2 DEF OpenJournals
  <2> QED
    BY <1>0, <2>1, <2>2, <2>3 DEF JournalEras
<1>8. CASE BeginTransaction
  <2>1. era' = era
    BY <1>8 DEF BeginTransaction
  <2>2. /\ OpenJournals' = OpenJournals \cup {Len(journals) + 1}
        /\ journals'[Len(journals) + 1] = NewJournal("open")
        /\ \A i \in OpenJournals : journals'[i] = journals[i]
    BY <1>0, <1>8, Opened DEF BeginTransaction, Base, OpenJournals
  <2>3. \A g \in File : /\ ~Present(NewJournal("open").original[g])
                        /\ ~Present(NewJournal("open").moved[g])
    BY ContentTypes DEF NewJournal
  <2>4. \A g \in Targets : g \in File
    OBVIOUS
  <2> QED
    BY <1>0, <2>1, <2>2, <2>3, <2>4 DEF JournalEras
<1>9. CASE RemoveMarker \/ Prepare
  <2>1. OpenJournals = {} /\ journals' = journals
    BY <1>0, <1>9, ZeroIsNone DEF RemoveMarker, Prepare, Base
  <2> QED
    BY <1>2, <2>1
<1>10. Repository \in File
  OBVIOUS
<1> QED
  BY <1>1, <1>3, <1>5, <1>6, <1>7, <1>8, <1>9, <1>10
     DEF Next, vars, BusinessNext, MaintenanceNext, ResetStep, SetupStep, CheckMarker, TryLock, Release,
         WriteFile, Begin, RemoveReplacement, RenameBack, RemoveAdded, TakeOpenJournal, RestoreFile,
         RecoveryDone, SyncReturns, Install, BootstrapLocal, RenameClone, SetupFails, MoveOriginal,
         MoveStaged, CompleteReset, ResetFails, Crash

LEMMA SwapStep ==
    ASSUME TypeOK, Control, ResetInv, [Next]_vars
    PROVE  Swap'
<1> USE DEF Control, Exclusive, MarkerIsReset, ResetInv, lockVars, opVars, resetVars, counters
<1>0. /\ active \in [File -> Content] /\ staged \in [File -> Content]
      /\ backup \in [File -> Content] /\ era \in Nat
  BY DEF TypeOK
<1>a. Swap
  OBVIOUS
<1>1. CASE UNCHANGED <<phase, current, todo, originals, backup, staged, active, era>>
  BY <1>1, <1>a DEF Swap
<1>2. CASE phase' # "swap" /\ current' = {}
  BY <1>2 DEF Swap
<1>3. ASSUME phase # "swap", phase' = phase, current' = current PROVE Swap'
  BY <1>3, <1>a DEF Swap
<1>4. CASE Prepare
  <2>1. /\ phase' = "swap" /\ todo' = Targets /\ current' = {} /\ era' = era + 1
        /\ originals' \subseteq Targets /\ backup' = backup /\ active' = active
        /\ \A f \in File : ~Present(backup[f])
    BY <1>4, <1>a DEF Prepare, Swap
  <2>2. \A f \in File : staged'[f] = IF f \in Pristine THEN Empty(era + 1) ELSE Absent
    BY <1>4 DEF Prepare
  <2>3. \A f \in File : /\ Present(staged'[f]) => staged'[f].era = era'
                        /\ f \in Pristine => Present(staged'[f])
    BY <1>0, <2>1, <2>2, ContentTypes DEF Empty
  <2> QED
    BY <2>1, <2>3 DEF Swap
<1>5. ASSUME NEW f \in File, MoveOriginal(f) PROVE Swap'
  <2>1. /\ phase = "swap" /\ phase' = "swap" /\ current = {} /\ current' = {f} /\ f \in todo
        /\ todo' = todo \ {f} /\ UNCHANGED <<staged, originals, era>> /\ marked /\ f \in Targets
    BY <1>5, <1>a DEF MoveOriginal, First, Swap
  <2>2. \A g \in File \ {f} : active'[g] = active[g] /\ backup'[g] = backup[g]
    BY <1>0, <1>5 DEF MoveOriginal
  <2>3. f \in originals => Present(active[f]) /\ backup'[f] = active[f]
    <3>1. ASSUME f \in originals PROVE active[f].era = era - 1 /\ era >= 2
      BY <1>a, <2>1, <3>1 DEF Swap, Eras
    <3> QED
      BY <1>0, <1>5, <3>1 DEF MoveOriginal, Present
  <2>4. originals \subseteq File
    BY DEF TypeOK
  <2>5. \A g \in originals : g \in todo' <=> ~Present(backup'[g])
    BY <1>a, <2>1, <2>2, <2>3, <2>4 DEF Swap
  <2>6. \A g \in Pristine : IF g \in todo' \cup current' THEN Present(staged'[g]) ELSE Present(active'[g])
    BY <1>a, <2>1, <2>2 DEF Swap
  <2> QED
    BY <1>a, <2>1, <2>5, <2>6 DEF Swap
<1>6. ASSUME NEW f \in File, MoveStaged(f) PROVE Swap'
  <2>1. /\ phase = "swap" /\ phase' = "swap" /\ current = {f} /\ current' = {}
        /\ UNCHANGED <<todo, originals, era, backup>> /\ f \notin todo
    BY <1>6, <1>a DEF MoveStaged, Swap
  <2>2. \A g \in File \ {f} : active'[g] = active[g] /\ staged'[g] = staged[g]
    BY <1>0, <1>6 DEF MoveStaged
  <2>3. Present(staged[f]) => Present(active'[f]) /\ ~Present(staged'[f])
    BY <1>0, <1>6, ContentTypes DEF MoveStaged
  <2>4. ~Present(staged[f]) => active'[f] = active[f] /\ staged'[f] = staged[f]
    BY <1>6 DEF MoveStaged
  <2> QED
    BY <1>a, <2>1, <2>2, <2>3, <2>4 DEF Swap
<1>7. ASSUME NEW p \in Process, CheckMarker(p) \/ TryLock(p) \/ Release(p) \/ \E f \in File : WriteFile(p, f)
      PROVE  Swap'
  <2>1. CASE op = "none"
    BY <1>3, <1>7, <2>1 DEF CheckMarker, TryLock, Release, WriteFile
  <2>2. CASE op # "none"
    BY <1>1, <1>7, <2>2 DEF CheckMarker, TryLock, Release, WriteFile
  <2> QED
    BY <2>1, <2>2
<1>8. ASSUME NEW f \in File,
             \/ RemoveReplacement(f) \/ RenameBack(f) \/ RemoveAdded(f) \/ RestoreFile(f)
             \/ RestoreDirectory(f) \/ Record(f) \/ Install(f) \/ RecordDirectory(f) \/ MoveDirectory(f)
      PROVE  Swap'
  BY <1>3, <1>8 DEF RemoveReplacement, RenameBack, RemoveAdded, RestoreFile, RestoreDirectory, Record,
     Install, RecordDirectory, MoveDirectory, Installing
<1>9. CASE BootstrapLocal \/ RecordClone \/ RenameClone \/ BeginTransaction
           \/ \E j \in DOMAIN journals : TakeOpenJournal(j)
  BY <1>3, <1>9 DEF BootstrapLocal, RecordClone, RenameClone, BeginTransaction, TakeOpenJournal, Installing
<1>10. CASE \/ \E o \in {"setup", "reset", "sync"} : Begin(o)
            \/ RemoveMarker \/ CompleteReset \/ ResetFails \/ CloseJournal \/ RecoveryDone
            \/ SyncReturns \/ CompleteSetup \/ SetupFails \/ Crash
  BY <1>2, <1>10, <1>a DEF Begin, RemoveMarker, CompleteReset, ResetFails, CloseJournal, RecoveryDone,
     SyncReturns, CompleteSetup, SetupFails, Crash, Finish, Installing, Swap
<1>11. CASE UNCHANGED vars
  BY <1>1, <1>11 DEF vars
<1> QED
  BY <1>4, <1>5, <1>6, <1>7, <1>8, <1>9, <1>10, <1>11
     DEF Next, BusinessNext, MaintenanceNext, ResetStep, SetupStep

LEMMA UndoStep ==
    ASSUME TypeOK, Control, ResetInv, [Next]_vars
    PROVE  Undo'
<1> USE DEF Control, Exclusive, MarkerIsReset, ResetInv, lockVars, opVars, resetVars, counters
<1>0. active \in [File -> Content] /\ backup \in [File -> Content]
  BY DEF TypeOK
<1>a. Undo
  OBVIOUS
<1>1. CASE UNCHANGED <<phase, todo, originals, backup, active>>
  BY <1>1, <1>a DEF Undo
<1>2. CASE phase' # "recover_reset" \/ todo' = Targets
  BY <1>2 DEF Undo
<1>3. ASSUME NEW f \in File, RemoveReplacement(f) PROVE Undo'
  BY <1>0, <1>3, <1>a DEF RemoveReplacement, Undo, Last
<1>4. ASSUME NEW f \in File, RenameBack(f) PROVE Undo'
  <2>1. /\ todo' = todo \ {f} /\ originals' = originals /\ phase = "recover_reset" /\ f \in todo
        /\ f \in Targets => f \in originals
    BY <1>4 DEF RenameBack, Eras, Last
  <2>2. /\ ~Present(backup'[f])
        /\ \A g \in File \ {f} : active'[g] = active[g] /\ backup'[g] = backup[g]
    BY <1>0, <1>4, ContentTypes DEF RenameBack
  <2> QED
    BY <1>a, <2>1, <2>2 DEF Undo
<1>5. ASSUME NEW f \in File, RemoveAdded(f) PROVE Undo'
  <2>1. /\ todo' = todo \ {f} /\ originals' = originals /\ phase = "recover_reset"
        /\ backup' = backup /\ ~Present(backup[f])
    BY <1>5 DEF RemoveAdded
  <2>2. /\ f \notin originals => ~Present(active'[f])
        /\ \A g \in File \ {f} : active'[g] = active[g]
    BY <1>0, <1>5, ContentTypes DEF RemoveAdded
  <2> QED
    BY <1>a, <2>1, <2>2 DEF Undo
<1>6. ASSUME NEW p \in Process, CheckMarker(p) \/ TryLock(p) \/ Release(p) \/ \E f \in File : WriteFile(p, f)
      PROVE  Undo'
  <2>1. CASE op = "none"
    BY <1>2, <1>6, <2>1 DEF CheckMarker, TryLock, Release, WriteFile
  <2>2. CASE op # "none"
    BY <1>1, <1>6, <2>2 DEF CheckMarker, TryLock, Release, WriteFile
  <2> QED
    BY <2>1, <2>2
<1>7. ASSUME NEW f \in File,
             \/ RestoreFile(f) \/ RestoreDirectory(f) \/ Record(f) \/ Install(f) \/ RecordDirectory(f)
             \/ MoveDirectory(f) \/ MoveOriginal(f) \/ MoveStaged(f)
      PROVE  Undo'
  BY <1>2, <1>7 DEF RestoreFile, RestoreDirectory, Record, Install, RecordDirectory, MoveDirectory,
     MoveOriginal, MoveStaged, Installing
<1>8. CASE \/ BootstrapLocal \/ RecordClone \/ RenameClone \/ BeginTransaction
           \/ \E j \in DOMAIN journals : TakeOpenJournal(j)
  BY <1>2, <1>8 DEF BootstrapLocal, RecordClone, RenameClone, BeginTransaction, TakeOpenJournal, Installing
<1>9. CASE \/ \E o \in {"setup", "reset", "sync"} : Begin(o)
           \/ RemoveMarker \/ Prepare \/ CompleteReset \/ ResetFails \/ CloseJournal \/ RecoveryDone
           \/ SyncReturns \/ CompleteSetup \/ SetupFails \/ Crash
  BY <1>2, <1>9 DEF Begin, RemoveMarker, Prepare, CompleteReset, ResetFails, CloseJournal, RecoveryDone,
     SyncReturns, CompleteSetup, SetupFails, Crash, Finish, Installing
<1>10. CASE UNCHANGED vars
  BY <1>1, <1>10 DEF vars
<1> QED
  BY <1>3, <1>4, <1>5, <1>6, <1>7, <1>8, <1>9, <1>10
     DEF Next, BusinessNext, MaintenanceNext, ResetStep, SetupStep

(***************************************************************************)
(* Setups.                                                                 *)
(***************************************************************************)
LEMMA RollbackStep ==
    ASSUME TypeOK, Control, ResetInv, RollbackHasItsSource, [Next]_vars
    PROVE  RollbackHasItsSource'
<1> USE DEF Control, Exclusive, MarkerIsReset, OneOpenJournal,
        lockVars, opVars, resetVars, counters
<1>0. Base /\ active \in [File -> Content]
  BY BaseHolds DEF TypeOK, ResetInv
<1>a. RollbackHasItsSource
  OBVIOUS
<1>1. ASSUME journals' = journals, \A f \in Legacy : Present(active[f]) => Present(active'[f])
      PROVE  RollbackHasItsSource'
  BY <1>1, <1>a DEF RollbackHasItsSource, OpenJournals
<1>2. ASSUME OpenJournals = {}, journals' = journals PROVE RollbackHasItsSource'
  BY <1>2 DEF RollbackHasItsSource, OpenJournals
<1>3. ASSUME NEW p \in Process, NEW f \in File, WriteFile(p, f) PROVE RollbackHasItsSource'
  <2>1. \A g \in File \ {f} : active'[g] = active[g]
    BY <1>0, <1>3 DEF WriteFile
  <2>2. active[f] \in Content /\ writes + 1 \in Nat
    BY DEF TypeOK
  <2>3. Present(active[f]) => active'[f] = [active[f] EXCEPT !.rev = writes + 1]
    BY <1>0, <1>3 DEF WriteFile
  <2>4. Present(active[f]) => Present(active'[f])
    <3>1. [active[f] EXCEPT !.rev = writes + 1].era = active[f].era
      BY <2>2, ContentUpdates
    <3> QED
      BY <2>3, <3>1 DEF Present
  <2>5. journals' = journals
    BY <1>3 DEF WriteFile
  <2> QED
    BY <1>1, <2>1, <2>4, <2>5
<1>4. ASSUME NEW f \in File, Install(f) \/ RestoreFile(f) PROVE RollbackHasItsSource'
  <2>1. /\ \A g \in Legacy : active'[g] = active[g]
        /\ journals' = journals
    BY <1>0, <1>4 DEF Install, RestoreFile
  <2> QED
    BY <1>1, <2>1
<1>5. CASE BootstrapLocal \/ RenameClone
  <2>1. \A g \in Legacy : active'[g] = active[g]
    BY <1>0, <1>5 DEF BootstrapLocal, RenameClone
  <2> QED
    BY <1>1, <1>5, <2>1 DEF BootstrapLocal, RenameClone
<1>6. ASSUME NEW f \in File, Record(f) \/ RecordDirectory(f) \/ (RecordClone /\ f = Repository)
      PROVE  RollbackHasItsSource'
  <2>1. job \in OpenJournals /\ active' = active /\ (f \in Legacy => Present(active[f]))
    BY <1>6 DEF Record, RecordDirectory, RecordClone, Installing
  <2>2. /\ OpenJournals' = OpenJournals
        /\ \A i \in DOMAIN journals \ {job} : journals'[i] = journals[i]
        /\ journals'[job].entries = journals[job].entries \cup {f}
        /\ journals'[job].moved = journals[job].moved
    BY <1>0, <1>6, <2>1, Extended DEF Base
  <2>3. \A i \in OpenJournals \ {job} : journals'[i] = journals[i]
    BY <2>2 DEF OpenJournals
  <2> QED
    BY <1>a, <2>1, <2>2, <2>3 DEF RollbackHasItsSource
<1>7. ASSUME NEW f \in File, MoveDirectory(f) PROVE RollbackHasItsSource'
  <2>1. /\ job \in OpenJournals /\ Present(active[f]) /\ active[f] \in Content
        /\ \A g \in File \ {f} : active'[g] = active[g]
    BY <1>0, <1>7 DEF MoveDirectory, Installing
  <2>2. /\ OpenJournals' = OpenJournals
        /\ \A i \in DOMAIN journals \ {job} : journals'[i] = journals[i]
        /\ journals'[job].entries = journals[job].entries
        /\ journals'[job].moved = [journals[job].moved EXCEPT ![f] = active[f]]
    BY <1>0, <1>7, <2>1, MovedThere DEF Base, MoveDirectory
  <2>3. journals[job].moved \in [File -> Content] /\ journals[job].entries \subseteq File
    BY <1>0, <2>1, JournalTypes DEF Base, OpenJournals, Journal
  <2>4. \A i \in OpenJournals : i = job
    BY <2>1
  <2>5. ASSUME NEW g \in journals[job].entries \cap Legacy
        PROVE  Present(journals'[job].moved[g]) \/ Present(active'[g])
    BY <1>a, <2>1, <2>2, <2>3 DEF RollbackHasItsSource
  <2> QED
    BY <2>2, <2>4, <2>5 DEF RollbackHasItsSource
<1>8. ASSUME NEW f \in File, RestoreDirectory(f) PROVE RollbackHasItsSource'
  <2>1. CASE ~Present(journals[job].moved[f])
    BY <1>1, <1>8, <2>1 DEF RestoreDirectory
  <2>2. CASE Present(journals[job].moved[f])
    <3>1. job \in OpenJournals
      BY <1>8 DEF RestoreDirectory
    <3>2. /\ OpenJournals' = OpenJournals
          /\ journals'[job].entries = journals[job].entries
          /\ journals'[job].moved = [journals[job].moved EXCEPT ![f] = Absent]
      BY <1>0, <1>8, <2>2, <3>1, MovedThere, ContentTypes DEF Base, RestoreDirectory
    <3>3. journals[job].moved \in [File -> Content] /\ journals[job].entries \subseteq File
      BY <1>0, <3>1, JournalTypes DEF Base, OpenJournals, Journal
    <3>4. active'[f] = journals[job].moved[f] /\ \A g \in File \ {f} : active'[g] = active[g]
      BY <1>0, <1>8, <2>2 DEF RestoreDirectory
    <3>5. ASSUME NEW g \in journals[job].entries \cap Legacy
          PROVE  Present(journals'[job].moved[g]) \/ Present(active'[g])
      BY <1>a, <2>2, <3>1, <3>2, <3>3, <3>4 DEF RollbackHasItsSource
    <3> QED
      BY <3>1, <3>2, <3>5 DEF RollbackHasItsSource
  <2> QED
    BY <2>1, <2>2
<1>9. CASE CloseJournal \/ CompleteSetup
  <2>1. job \in OpenJournals
    BY <1>9 DEF CloseJournal, CompleteSetup, Installing
  <2>2. OpenJournals' = OpenJournals \ {job}
    BY <1>0, <1>9, <2>1, Closed DEF CloseJournal, CompleteSetup, Base
  <2> QED
    BY <2>1, <2>2 DEF RollbackHasItsSource
<1>10. CASE BeginTransaction
  <2>1. /\ OpenJournals' = OpenJournals \cup {Len(journals) + 1}
        /\ journals'[Len(journals) + 1] = NewJournal("open")
        /\ \A i \in OpenJournals : journals'[i] = journals[i]
    BY <1>0, <1>10, Opened DEF BeginTransaction, Base, OpenJournals
  <2>2. NewJournal("open").entries = {} /\ active' = active
    BY <1>10 DEF NewJournal, BeginTransaction
  <2> QED
    BY <1>a, <2>1, <2>2 DEF RollbackHasItsSource
<1>11. ASSUME NEW f \in File, RemoveReplacement(f) \/ RenameBack(f) \/ RemoveAdded(f)
                              \/ MoveOriginal(f) \/ MoveStaged(f)
       PROVE  RollbackHasItsSource'
  BY <1>2, <1>11 DEF RemoveReplacement, RenameBack, RemoveAdded, MoveOriginal, MoveStaged
<1>12. Repository \in File
  OBVIOUS
<1>13. CASE UNCHANGED <<journals, active>>
  BY <1>1, <1>13
<1> QED
  BY <1>3, <1>4, <1>5, <1>6, <1>7, <1>8, <1>9, <1>10, <1>11, <1>12, <1>13
     DEF Next, vars, BusinessNext, MaintenanceNext, ResetStep, SetupStep, CheckMarker, TryLock, Release,
         Begin, RemoveMarker, TakeOpenJournal, RecoveryDone, SyncReturns, SetupFails, Prepare,
         CompleteReset, ResetFails, Crash

\* What happens to the states and the entries of the journals, operation by operation.
LEMMA JournalStep ==
    ASSUME Base, [Next]_vars
    PROVE  /\ Len(journals) \in Nat /\ Len(journals') \in Nat /\ Len(journals) <= Len(journals')
           /\ \A n \in 1..Len(journals) :
                \/ /\ journals'[n].state = journals[n].state
                   /\ n \in OpenJournals => journals[n].entries \subseteq journals'[n].entries
                \/ /\ n = job /\ job \in OpenJournals
                   /\ \/ CompleteSetup /\ journals'[n].state = "complete"
                      \/ CloseJournal /\ journals'[n].state = "rolled_back"
<1> USE DEF Base
<1>0. journals \in Seq(Journal) /\ DOMAIN journals = 1..Len(journals) /\ Len(journals) \in Nat
  BY DEF TypeOK
<1>1. CASE UNCHANGED journals
  BY <1>0, <1>1
<1>2. CASE BeginTransaction
  BY <1>0, <1>2, Opened DEF BeginTransaction
<1>3. CASE CloseJournal
  BY <1>0, <1>3, Closed DEF OneOpenJournal, CloseJournal
<1>4. CASE CompleteSetup
  BY <1>0, <1>4, Closed DEF OneOpenJournal, CompleteSetup, Installing
<1>5. ASSUME NEW f \in File, Record(f) \/ RecordDirectory(f) \/ (RecordClone /\ f = Repository)
      PROVE  /\ Len(journals') = Len(journals)
             /\ \A n \in 1..Len(journals) : /\ journals'[n].state = journals[n].state
                                            /\ journals[n].entries \subseteq journals'[n].entries
  <2>1. /\ Len(journals') = Len(journals)
        /\ \A n \in DOMAIN journals \ {job} : journals'[n] = journals[n]
        /\ journals'[job].entries = journals[job].entries \cup {f}
        /\ \A n \in DOMAIN journals : journals'[n].state = journals[n].state
    BY <1>5, Extended DEF OneOpenJournal, Record, RecordDirectory, RecordClone, Installing
  <2> QED
    BY <1>0, <2>1
<1>6. ASSUME NEW f \in File, NEW c \in Content, job \in OpenJournals,
             journals' = [journals EXCEPT ![job].moved[f] = c]
      PROVE  /\ Len(journals') = Len(journals)
             /\ \A n \in 1..Len(journals) : /\ journals'[n].state = journals[n].state
                                            /\ journals[n].entries \subseteq journals'[n].entries
  <2>1. /\ Len(journals') = Len(journals)
        /\ \A n \in DOMAIN journals \ {job} : journals'[n] = journals[n]
        /\ journals'[job].entries = journals[job].entries
        /\ \A n \in DOMAIN journals : journals'[n].state = journals[n].state
    BY <1>6, MovedThere
  <2> QED
    BY <1>0, <2>1
<1>7. ASSUME NEW f \in File, MoveDirectory(f)
      PROVE  /\ Len(journals') = Len(journals)
             /\ \A n \in 1..Len(journals) : /\ journals'[n].state = journals[n].state
                                            /\ journals[n].entries \subseteq journals'[n].entries
  <2>1. active[f] \in Content
    BY DEF TypeOK
  <2> QED
    BY <1>6, <1>7, <2>1 DEF OneOpenJournal, MoveDirectory, Installing
<1>8. ASSUME NEW f \in File, RestoreDirectory(f), Present(journals[job].moved[f])
      PROVE  /\ Len(journals') = Len(journals)
             /\ \A n \in 1..Len(journals) : /\ journals'[n].state = journals[n].state
                                            /\ journals[n].entries \subseteq journals'[n].entries
  BY <1>6, <1>8, ContentTypes DEF OneOpenJournal, RestoreDirectory
<1>9. ASSUME NEW f \in File, RestoreDirectory(f), ~Present(journals[job].moved[f]) PROVE UNCHANGED journals
  BY <1>9 DEF RestoreDirectory
<1>10. Repository \in File
  OBVIOUS
<1> DEFINE Grown == /\ Len(journals') = Len(journals)
                    /\ \A n \in 1..Len(journals) : /\ journals'[n].state = journals[n].state
                                                   /\ journals[n].entries \subseteq journals'[n].entries
<1>11. CASE Grown
  BY <1>0, <1>11
<1>12. \/ UNCHANGED journals \/ BeginTransaction \/ CloseJournal \/ CompleteSetup \/ Grown
  BY <1>5, <1>7, <1>8, <1>9, <1>10
     DEF Next, vars, BusinessNext, MaintenanceNext, ResetStep, SetupStep, CheckMarker, TryLock, Release,
         WriteFile, Begin, RemoveReplacement, RenameBack, RemoveAdded, RemoveMarker, TakeOpenJournal,
         RestoreFile, RecoveryDone, SyncReturns, Install, BootstrapLocal, RenameClone, SetupFails,
         Prepare, MoveOriginal, MoveStaged, CompleteReset, ResetFails, Crash
<1> QED
  BY <1>1, <1>2, <1>3, <1>4, <1>11, <1>12

\* A number that a write may bear once nothing is left to undo stays one.
LEMMA WrittenStep ==
    ASSUME Base, [Next]_vars, NEW n \in 0..Len(journals), n # 0 => journals[n].state = "complete"
    PROVE  n \in 0..Len(journals') /\ (n # 0 => journals'[n].state = "complete")
<1>1. n # 0 => n \in 1..Len(journals) /\ n \notin OpenJournals
  BY DEF OpenJournals, Base, TypeOK
<1> QED
  BY <1>1, JournalStep

\* By whom the content of a path was written, after any operation.
LEMMA SetupOf ==
    ASSUME TypeOK, Control, ResetInv, SetupWrites, [Next]_vars, NEW f \in File
    PROVE  \/ active'[f].setup = active[f].setup
           \/ /\ active'[f].setup \in 0..Len(journals)
              /\ active'[f].setup # 0 => journals[active'[f].setup].state = "complete"
              /\ f \in Legacy => active'[f].setup = 0
           \/ /\ Installing /\ active'[f].setup = job /\ f \in journals[job].entries \ Legacy
              /\ journals' = journals
<1> DEFINE Written(n) == n \in 0..Len(journals) /\ (n # 0 => journals[n].state = "complete")
           Goal == \/ active'[f].setup = active[f].setup
                   \/ Written(active'[f].setup) /\ (f \in Legacy => active'[f].setup = 0)
                   \/ /\ Installing /\ active'[f].setup = job /\ f \in journals[job].entries \ Legacy
                      /\ journals' = journals
<1> SUFFICES Goal
  OBVIOUS
<1> USE DEF Control, Exclusive, MarkerIsReset, OneOpenJournal
<1>0. /\ active \in [File -> Content] /\ backup \in [File -> Content] /\ staged \in [File -> Content]
      /\ job \in Nat /\ writes \in Nat /\ Len(journals) \in Nat /\ Written(0) /\ Absent.setup = 0
  BY DEF TypeOK, Absent
<1>1. CASE active'[f] = active[f]
  BY <1>1
<1>2. CASE active'[f].setup = 0
  BY <1>0, <1>2
<1>3. ASSUME NEW p \in Process, WriteFile(p, f) PROVE Goal
  <2>1. active[f] \in Content /\ writes + 1 \in Nat
    BY <1>0
  <2>2. [active[f] EXCEPT !.rev = writes + 1].setup = active[f].setup
    BY <2>1, ContentUpdates
  <2>3. active'[f].setup \in {active[f].setup, 0}
    BY <1>0, <1>3, <2>2 DEF WriteFile
  <2> QED
    BY <1>2, <2>3
<1>4. CASE RemoveReplacement(f) \/ RemoveAdded(f) \/ MoveDirectory(f) \/ MoveOriginal(f)
  <2>1. active'[f] = active[f] \/ active'[f] = Absent
    BY <1>0, <1>4 DEF RemoveReplacement, RemoveAdded, MoveDirectory, MoveOriginal
  <2> QED
    BY <1>0, <1>1, <1>2, <2>1
<1>5. CASE RenameBack(f)
  <2>1. active'[f] = backup[f]
    BY <1>0, <1>5 DEF RenameBack
  <2>2. Written(backup[f].setup) /\ (f \in Legacy => backup[f].setup = 0)
    BY DEF SetupWrites, KnownWrites, ReplacedIsClean, LegacyIsUntouched, Known, Clean
  <2> QED
    BY <2>1, <2>2
<1>6. CASE MoveStaged(f)
  <2>1. active'[f] = active[f] \/ active'[f] = staged[f]
    BY <1>0, <1>6 DEF MoveStaged
  <2>2. staged[f].setup = 0
    BY DEF SetupWrites, ReplacedIsClean
  <2> QED
    BY <1>1, <1>2, <2>1, <2>2
<1>7. CASE RestoreFile(f)
  <2>1. active'[f] = journals[job].original[f] /\ f \notin Legacy /\ job \in OpenJournals
    BY <1>0, <1>7 DEF RestoreFile
  <2>2. Written(journals[job].original[f].setup)
    BY <2>1 DEF SetupWrites, OriginalsAreClean, Known, Clean
  <2> QED
    BY <2>1, <2>2
<1>8. CASE RestoreDirectory(f)
  <2>1. (active'[f] = active[f] \/ active'[f] = journals[job].moved[f]) /\ job \in OpenJournals
    BY <1>0, <1>8 DEF RestoreDirectory
  <2>2. journals[job].moved[f].setup = 0
    BY <2>1 DEF SetupWrites, OriginalsAreClean
  <2> QED
    BY <1>1, <1>2, <2>1, <2>2
<1>9. CASE Install(f)
  <2>1. [active[f] EXCEPT !.setup = job].setup = job
    <3>1. active[f] \in Content
      BY <1>0
    <3> QED
      BY <1>0, <3>1, ContentUpdates
  <2>2. active'[f].setup = job
    BY <1>0, <1>9, <2>1 DEF Install
  <2> QED
    BY <1>9, <2>2 DEF Install, Last
<1>10. CASE BootstrapLocal /\ f = Repository
  <2>1. active'[f].setup = 0
    BY <1>0, <1>10 DEF BootstrapLocal, Empty
  <2> QED
    BY <1>2, <2>1
<1>11. CASE RenameClone /\ f = Repository
  <2>1. Empty(era) \in Content
    BY ContentTypes DEF TypeOK
  <2>2. [Empty(era) EXCEPT !.setup = job].setup = job
    BY <1>0, <2>1, ContentUpdates
  <2>3. active'[f].setup = job
    BY <1>0, <1>11, <2>2 DEF RenameClone
  <2> QED
    BY <1>11, <2>3 DEF RenameClone, Last
<1>12. ASSUME NEW g \in File \ {f},
              \/ \E p \in Process : WriteFile(p, g)
              \/ RemoveReplacement(g) \/ RemoveAdded(g) \/ MoveDirectory(g) \/ MoveOriginal(g)
              \/ RenameBack(g) \/ MoveStaged(g) \/ RestoreFile(g) \/ RestoreDirectory(g) \/ Install(g)
       PROVE  active'[f] = active[f]
  BY <1>0, <1>12 DEF WriteFile, RemoveReplacement, RemoveAdded, MoveDirectory, MoveOriginal, RenameBack,
     MoveStaged, RestoreFile, RestoreDirectory, Install
<1>13. ASSUME f # Repository, BootstrapLocal \/ RenameClone PROVE active'[f] = active[f]
  BY <1>0, <1>13 DEF BootstrapLocal, RenameClone
<1>14. CASE UNCHANGED active
  BY <1>1, <1>14
<1> DEFINE Moves(g) ==
      \/ \E p \in Process : WriteFile(p, g)
      \/ RemoveReplacement(g) \/ RemoveAdded(g) \/ MoveDirectory(g) \/ MoveOriginal(g)
      \/ RenameBack(g) \/ MoveStaged(g) \/ RestoreFile(g) \/ RestoreDirectory(g) \/ Install(g)
<1> HIDE DEF Goal
<1>15. ASSUME NEW g \in File, Moves(g) PROVE Goal
  <2>1. CASE g = f
    BY <1>3, <1>4, <1>5, <1>6, <1>7, <1>8, <1>9, <1>15, <2>1
  <2>2. CASE g # f
    BY <1>1, <1>12, <1>15, <2>2
  <2> QED
    BY <2>1, <2>2
<1>16. CASE BootstrapLocal \/ RenameClone
  BY <1>1, <1>10, <1>11, <1>13, <1>16
<1>17. UNCHANGED active \/ (\E g \in File : Moves(g)) \/ BootstrapLocal \/ RenameClone
  BY DEF Next, vars, BusinessNext, MaintenanceNext, ResetStep, SetupStep, CheckMarker, TryLock, Release,
         Begin, RemoveMarker, TakeOpenJournal, CloseJournal, RecoveryDone, SyncReturns, BeginTransaction,
         Record, RecordClone, RecordDirectory, CompleteSetup, SetupFails, Prepare, CompleteReset,
         ResetFails, Crash
<1> HIDE DEF Moves
<1> QED
  BY <1>14, <1>15, <1>16, <1>17

\* Where else what a setup wrote may go.
LEMMA CopiesOf ==
    ASSUME TypeOK, Control, ResetInv, SetupWrites, [Next]_vars, NEW f \in File
    PROVE  /\ \/ backup'[f] = backup[f] \/ backup'[f] = Absent
              \/ marked /\ backup'[f] = active[f]
           /\ staged'[f].setup = 0
           /\ acked'[f] = acked[f] \/ acked'[f] = active'[f]
<1> USE DEF Control, MarkerIsReset
<1>0. /\ active \in [File -> Content] /\ backup \in [File -> Content] /\ staged \in [File -> Content]
      /\ acked \in [File -> Content]
      /\ Absent.setup = 0 /\ Empty(era + 1).setup = 0 /\ staged[f].setup = 0
  BY DEF TypeOK, Absent, Empty, SetupWrites, ReplacedIsClean
<1> DEFINE Goal == /\ \/ backup'[f] = backup[f] \/ backup'[f] = Absent
                      \/ marked /\ backup'[f] = active[f]
                   /\ staged'[f].setup = 0
                   /\ acked'[f] = acked[f] \/ acked'[f] = active'[f]
<1> SUFFICES Goal
  OBVIOUS
<1>1. CASE UNCHANGED <<backup, staged, acked>>
  BY <1>0, <1>1
<1>2. ASSUME NEW p \in Process, NEW g \in File, WriteFile(p, g) PROVE Goal
  BY <1>0, <1>2 DEF WriteFile, resetVars
<1>3. ASSUME NEW g \in File, RenameBack(g) \/ MoveOriginal(g) \/ MoveStaged(g) PROVE Goal
  <2>1. /\ backup' \in {backup, [backup EXCEPT ![g] = Absent], [backup EXCEPT ![g] = active[g]]}
        /\ staged' \in {staged, [staged EXCEPT ![g] = Absent]}
        /\ acked' = acked /\ marked
    BY <1>3 DEF RenameBack, MoveOriginal, MoveStaged
  <2> QED
    BY <1>0, <2>1
<1>4. CASE RemoveMarker \/ CompleteReset
  <2>1. backup'[f] = Absent /\ staged'[f] = Absent /\ acked' = acked
    BY <1>4 DEF RemoveMarker, CompleteReset, ForgetReset
  <2> QED
    BY <1>0, <2>1
<1>5. CASE Prepare
  BY <1>0, <1>5 DEF Prepare
<1> HIDE DEF Goal
<1>6. \/ UNCHANGED <<backup, staged, acked>> \/ RemoveMarker \/ CompleteReset \/ Prepare
      \/ \E g \in File : RenameBack(g) \/ MoveOriginal(g) \/ MoveStaged(g)
      \/ \E p \in Process, g \in File : WriteFile(p, g)
  BY DEF Next, vars, resetVars, BusinessNext, MaintenanceNext, ResetStep, SetupStep, CheckMarker, TryLock,
     Release, Begin, RemoveReplacement, RemoveAdded, RestoreFile, RestoreDirectory, Install, MoveDirectory,
     RenameClone, BootstrapLocal, TakeOpenJournal, CloseJournal, RecoveryDone, SyncReturns,
     BeginTransaction, Record, RecordClone, RecordDirectory, CompleteSetup, SetupFails, ResetFails, Crash
<1> QED
  BY <1>1, <1>2, <1>3, <1>4, <1>5, <1>6

LEMMA SetupWritesStep ==
    ASSUME TypeOK, Control, ResetInv, SetupWrites, [Next]_vars
    PROVE  KnownWrites' /\ ReplacedIsClean' /\ WritesAreOfSetups' /\ LegacyIsUntouched'
<1> USE DEF Control, OneOpenJournal
<1>0. Base /\ Len(journals) \in Nat /\ DOMAIN journals = 1..Len(journals)
  <2>1. Base
    BY BaseHolds DEF ResetInv
  <2> QED
    BY <2>1 DEF TypeOK
<1>1. KnownWrites /\ ReplacedIsClean /\ WritesAreOfSetups /\ LegacyIsUntouched /\ RestoredIsClean
  BY DEF SetupWrites
<1>2. \A n \in 0..Len(journals) : n \in 0..Len(journals')
  BY <1>0, JournalStep
<1>3. \A n \in 0..Len(journals) : (n # 0 => journals[n].state = "complete") =>
                                  (n # 0 => journals'[n].state = "complete")
  BY <1>0, WrittenStep
<1>4. Absent.setup = 0
  BY DEF Absent
<1>5. ASSUME NEW f \in File
      PROVE  /\ active'[f].setup \in 0..Len(journals)
             /\ backup'[f].setup \in 0..Len(journals)
             /\ acked'[f].setup \in 0..Len(journals)
  <2>1. active[f].setup \in 0..Len(journals) /\ backup[f].setup \in 0..Len(journals)
        /\ acked[f].setup \in 0..Len(journals)
    BY <1>1 DEF KnownWrites, Known
  <2>2. job \in 0..Len(journals)
    BY DEF TypeOK
  <2>3. active'[f].setup \in 0..Len(journals)
    BY <2>1, <2>2, SetupOf
  <2> QED
    BY <1>0, <1>4, <2>1, <2>3, CopiesOf
<1>6. KnownWrites'
  BY <1>2, <1>5 DEF KnownWrites, Known
<1>7. ReplacedIsClean'
  <2>1. ASSUME NEW f \in File PROVE (backup'[f].setup # 0 => journals'[backup'[f].setup].state = "complete")
    <3>1. CASE backup'[f] = Absent
      BY <1>4, <3>1
    <3>2. CASE backup'[f] = backup[f]
      BY <1>1, <1>3, <3>2 DEF KnownWrites, Known, ReplacedIsClean, Clean
    <3>3. CASE marked /\ backup'[f] = active[f]
      <4>1. Clean(active[f])
        BY <1>1, <3>3 DEF WritesAreOfSetups
      <4> QED
        BY <1>1, <1>3, <3>3, <4>1 DEF KnownWrites, Known, Clean
    <3> QED
      BY <3>1, <3>2, <3>3, CopiesOf
  <2> QED
    BY <2>1, CopiesOf DEF ReplacedIsClean, Clean
<1>8. WritesAreOfSetups'
  <2>1. ASSUME NEW f \in File
        PROVE  \/ active'[f].setup # 0 => journals'[active'[f].setup].state = "complete"
               \/ \E j \in OpenJournals' : f \in journals'[j].entries /\ active'[f].setup = j
    <3> DEFINE n == active[f].setup
    <3>1. n \in 0..Len(journals)
      BY <1>1 DEF KnownWrites, Known
    <3>2. CASE active'[f].setup = n /\ Clean(active[f])
      BY <1>3, <3>1, <3>2 DEF Clean
    <3>3. CASE active'[f].setup = n /\ ~Clean(active[f])
      <4>1. n \in OpenJournals /\ f \in journals[n].entries /\ n \in 1..Len(journals)
        BY <1>0, <1>1, <3>3 DEF WritesAreOfSetups, OpenJournals
      <4>2. CASE /\ journals'[n].state = journals[n].state
                 /\ journals[n].entries \subseteq journals'[n].entries
        <5>1. n \in DOMAIN journals' /\ journals'[n].state = "open"
          <6>1. n \in 1..Len(journals') /\ journals' \in Seq(Journal)
            BY <1>0, <4>1, JournalStep, TypeStep DEF TypeOK
          <6> QED
            BY <4>1, <4>2, <6>1 DEF OpenJournals
        <5> QED
          BY <3>3, <4>1, <4>2, <5>1 DEF OpenJournals
      <4>3. CASE journals'[n].state = "complete"
        BY <3>3, <4>3
      <4>4. CASE n = job /\ CloseJournal
        <5>1. Clean(active[f])
          BY <1>1, <4>4 DEF CloseJournal, RestoredIsClean
        <5> QED
          BY <3>3, <5>1
      <4> QED
        BY <1>0, <4>1, <4>2, <4>3, <4>4, JournalStep
    <3>4. CASE /\ active'[f].setup \in 0..Len(journals)
               /\ active'[f].setup # 0 => journals[active'[f].setup].state = "complete"
      BY <1>3, <3>4
    <3>5. CASE /\ Installing /\ active'[f].setup = job /\ f \in journals[job].entries
               /\ journals' = journals
      <4>1. job \in OpenJournals /\ OpenJournals' = OpenJournals
        BY <3>5 DEF Installing, OpenJournals
      <4> QED
        BY <3>5, <4>1
    <3> QED
      BY <3>2, <3>3, <3>4, <3>5, SetupOf
  <2> QED
    BY <2>1 DEF WritesAreOfSetups, Clean
<1>9. LegacyIsUntouched'
  <2>1. ASSUME NEW f \in Legacy PROVE active'[f].setup = 0 /\ backup'[f].setup = 0
    <3>1. f \in File /\ active[f].setup = 0 /\ backup[f].setup = 0
      BY <1>1 DEF LegacyIsUntouched
    <3>2. active'[f].setup = 0
      BY <3>1, SetupOf
    <3> QED
      BY <1>4, <3>1, <3>2, CopiesOf
  <2> QED
    BY <2>1 DEF LegacyIsUntouched
<1> QED
  BY <1>6, <1>7, <1>8, <1>9

LEMMA OriginalsStep ==
    ASSUME TypeOK, Control, ResetInv, SetupWrites, [Next]_vars
    PROVE  OriginalsAreClean'
<1> USE DEF Control, OneOpenJournal
<1>0. Base /\ Len(journals) \in Nat /\ DOMAIN journals = 1..Len(journals)
      /\ active \in [File -> Content]
  <2>1. Base
    BY BaseHolds DEF ResetInv
  <2> QED
    BY <2>1 DEF TypeOK
<1>1. OriginalsAreClean /\ KnownWrites /\ WritesAreOfSetups /\ LegacyIsUntouched
  BY DEF SetupWrites
<1> DEFINE Written(n) == n \in 0..Len(journals) /\ (n # 0 => journals[n].state = "complete")
           After(n) == n \in 0..Len(journals') /\ (n # 0 => journals'[n].state = "complete")
<1>2. \A n \in 0..Len(journals) : Written(n) => After(n)
  BY <1>0, WrittenStep
<1>3. /\ Absent.setup = 0 /\ Absent \in Content /\ After(0)
  BY <1>0, ContentTypes, JournalStep DEF Absent
<1>4. \A j \in OpenJournals : \A f \in File :
        After(journals[j].original[f].setup) /\ journals[j].moved[f].setup = 0
  BY <1>1, <1>2 DEF OriginalsAreClean, Known, Clean
<1>5. ASSUME NEW j \in OpenJournals', NEW f \in File
      PROVE  After(journals'[j].original[f].setup) /\ journals'[j].moved[f].setup = 0
  <2> DEFINE Goal == After(journals'[j].original[f].setup) /\ journals'[j].moved[f].setup = 0
  <2> SUFFICES Goal
    OBVIOUS
  <2> HIDE DEF After
  <2>1. CASE journals'[j] = journals[j] /\ j \in OpenJournals
    BY <1>4, <2>1
  <2>2. CASE BeginTransaction
    <3>1. /\ OpenJournals' = OpenJournals \cup {Len(journals) + 1}
          /\ journals'[Len(journals) + 1] = NewJournal("open")
          /\ \A i \in OpenJournals : journals'[i] = journals[i]
      BY <1>0, <2>2, Opened DEF BeginTransaction, Base, OpenJournals
    <3>2. NewJournal("open").original[f] = Absent /\ NewJournal("open").moved[f] = Absent
      BY DEF NewJournal
    <3>3. CASE j = Len(journals) + 1
      BY <1>3, <3>1, <3>2, <3>3
    <3> QED
      BY <2>1, <3>1, <3>3
  <2>3. CASE CloseJournal \/ CompleteSetup
    <3>1. /\ OpenJournals' = OpenJournals \ {job}
          /\ \A i \in OpenJournals \ {job} : journals'[i] = journals[i]
      BY <1>0, <2>3, Closed DEF CloseJournal, CompleteSetup, Installing, Base, OpenJournals
    <3> QED
      BY <2>1, <3>1
  <2>4. ASSUME NEW g \in File, Record(g) \/ RecordDirectory(g) \/ (RecordClone /\ g = Repository)
        PROVE  Goal
    <3>1. job \in OpenJournals /\ Installing
      BY <2>4 DEF Record, RecordDirectory, RecordClone, Installing
    <3>2. /\ OpenJournals' = OpenJournals
          /\ \A i \in DOMAIN journals \ {job} : journals'[i] = journals[i]
          /\ journals'[job].moved = journals[job].moved
          /\ journals'[job].original =
                IF Record(g) THEN [journals[job].original EXCEPT ![g] = active[g]]
                ELSE journals[job].original
      BY <1>0, <2>4, <3>1, Extended DEF Base
    <3>3. j = job
      BY <3>1, <3>2
    <3>4. journals[job].original \in [File -> Content]
      BY <1>0, <3>1, JournalTypes DEF Base, OpenJournals, Journal
    <3>m. journals'[j].moved[f].setup = 0
      <4>1. journals[job].moved[f].setup = 0
        BY <1>4, <3>1
      <4> QED
        BY <3>2, <3>3, <4>1
    <3>5. CASE journals'[job].original[f] = journals[job].original[f]
      <4>1. After(journals[job].original[f].setup)
        BY <1>4, <3>1
      <4> QED
        BY <3>3, <3>5, <3>m, <4>1
    <3>6. CASE Record(g) /\ f = g
      <4>1. \A i \in OpenJournals : f \notin journals[i].entries
        <5>1. f \in Int /\ \A i \in OpenJournals : i = job
          BY <3>1 DEF File
        <5>2. f \notin journals[job].entries
          BY <3>6, <5>1 DEF Record, Later
        <5> QED
          BY <5>1, <5>2
      <4>2. Written(active[f].setup)
        BY <1>1, <4>1 DEF WritesAreOfSetups, KnownWrites, Known, Clean
      <4>3. journals'[job].original[f] = active[f]
        BY <3>2, <3>4, <3>6
      <4> QED
        <5>1. active[f].setup \in 0..Len(journals)
          BY <4>2
        <5>2. After(active[f].setup)
          BY <1>2, <4>2, <5>1
        <5> HIDE DEF Written
        <5> QED
          BY <3>3, <3>m, <4>3, <5>2
    <3> QED
      BY <3>2, <3>4, <3>5, <3>6
  <2>5. ASSUME NEW g \in File, NEW c \in Content, job \in OpenJournals, c.setup = 0,
               journals' = [journals EXCEPT ![job].moved[g] = c]
        PROVE  Goal
    <3>1. /\ OpenJournals' = OpenJournals
          /\ journals'[job].original = journals[job].original
          /\ journals'[job].moved = [journals[job].moved EXCEPT ![g] = c]
      BY <1>0, <2>5, MovedThere DEF Base
    <3>2. journals[job].moved \in [File -> Content]
      BY <1>0, <2>5, JournalTypes DEF Base, OpenJournals, Journal
    <3>3. j = job
      BY <2>5, <3>1
    <3>4. journals'[job].moved[f].setup = 0
      BY <1>4, <2>5, <3>1, <3>2
    <3> QED
      BY <1>4, <2>5, <3>1, <3>3, <3>4
  <2>6. ASSUME NEW g \in File, MoveDirectory(g) PROVE Goal
    <3>1. active[g] \in Content /\ active[g].setup = 0 /\ job \in OpenJournals
      BY <1>0, <1>1, <2>6 DEF MoveDirectory, Installing, LegacyIsUntouched
    <3> QED
      BY <2>5, <2>6, <3>1 DEF MoveDirectory
  <2>7. ASSUME NEW g \in File, RestoreDirectory(g) PROVE Goal
    <3>1. CASE Present(journals[job].moved[g])
      BY <1>3, <2>5, <2>7, <3>1 DEF RestoreDirectory
    <3>2. CASE ~Present(journals[job].moved[g])
      <4>1. journals' = journals
        BY <2>7, <3>2 DEF RestoreDirectory
      <4> QED
        BY <2>1, <4>1 DEF OpenJournals
    <3> QED
      BY <3>1, <3>2
  <2>8. CASE UNCHANGED journals
    BY <2>1, <2>8 DEF OpenJournals
  <2>9. Repository \in File
    OBVIOUS
  <2> HIDE DEF Goal
  <2> QED
    BY <2>2, <2>3, <2>4, <2>6, <2>7, <2>8, <2>9
     DEF Next, vars, BusinessNext, MaintenanceNext, ResetStep, SetupStep, CheckMarker, TryLock, Release,
         WriteFile, Begin, RemoveReplacement, RenameBack, RemoveAdded, RemoveMarker, TakeOpenJournal,
         RestoreFile, RecoveryDone, SyncReturns, Install, BootstrapLocal, RenameClone, SetupFails,
         Prepare, MoveOriginal, MoveStaged, CompleteReset, ResetFails, Crash
<1> QED
  BY <1>5 DEF OriginalsAreClean, Known, Clean

LEMMA RestoredStep ==
    ASSUME TypeOK, Control, ResetInv, SetupWrites, [Next]_vars
    PROVE  RestoredIsClean'
<1> USE DEF Control, Exclusive, OneOpenJournal, opVars, lockVars, resetVars, counters
<1>0. Base /\ active \in [File -> Content]
  BY BaseHolds DEF ResetInv, TypeOK
<1>1. RestoredIsClean /\ WritesAreOfSetups /\ KnownWrites
  BY DEF SetupWrites
<1>2. \A n \in 0..Len(journals) : (n # 0 => journals[n].state = "complete") =>
                                  (n # 0 => journals'[n].state = "complete")
  BY <1>0, WrittenStep
<1>3. \A f \in File : Clean(active[f]) =>
        (active[f].setup # 0 => journals'[active[f].setup].state = "complete")
  BY <1>1, <1>2 DEF KnownWrites, Known, Clean
<1>4. CASE phase' # "recover_setup" \/ job' = 0
  BY <1>4 DEF RestoredIsClean
<1>5. ASSUME UNCHANGED <<phase, job, todo, active, journals>> PROVE RestoredIsClean'
  BY <1>1, <1>5 DEF RestoredIsClean, Clean
<1>6. ASSUME NEW j \in OpenJournals, job' = j, todo' = journals[j].entries, UNCHANGED <<active, journals>>
      PROVE  RestoredIsClean'
  <2>1. \A f \in File \ todo' : Clean(active[f])
    BY <1>1, <1>6 DEF WritesAreOfSetups
  <2> QED
    BY <1>6, <2>1 DEF RestoredIsClean, Clean
<1>7. ASSUME NEW j \in DOMAIN journals, TakeOpenJournal(j) PROVE RestoredIsClean'
  BY <1>6, <1>7 DEF TakeOpenJournal
<1>8. CASE SetupFails
  BY <1>6, <1>8 DEF SetupFails, Installing
<1>9. ASSUME NEW f \in File, RestoreFile(f) \/ RestoreDirectory(f) PROVE RestoredIsClean'
  <2>1. /\ job \in OpenJournals /\ phase = "recover_setup" /\ job' = job /\ todo' = todo \ {f}
        /\ f \in todo
    BY <1>9 DEF RestoreFile, RestoreDirectory, Last
  <2>2. journals'[job].entries = journals[job].entries
    <3>1. CASE UNCHANGED journals
      BY <3>1
    <3>2. CASE RestoreDirectory(f) /\ Present(journals[job].moved[f])
      BY <1>0, <2>1, <3>2, MovedThere, ContentTypes DEF RestoreDirectory, Base
    <3> QED
      BY <1>9, <3>1, <3>2 DEF RestoreFile, RestoreDirectory
  <2>3. \A g \in File \ {f} : active'[g] = active[g]
    BY <1>0, <1>9 DEF RestoreFile, RestoreDirectory
  <2>4. active'[f].setup # 0 => journals'[active'[f].setup].state = "complete"
    <3>1. CASE RestoreFile(f)
      <4>1. active'[f] = journals[job].original[f] /\ journals' = journals
        BY <1>0, <3>1 DEF RestoreFile
      <4>2. Clean(journals[job].original[f])
        BY <2>1 DEF SetupWrites, OriginalsAreClean
      <4> QED
        BY <4>1, <4>2 DEF Clean
    <3>2. CASE RestoreDirectory(f)
      <4>1. active'[f].setup = 0
        <5>1. f \in Legacy /\ active[f].setup = 0 /\ journals[job].moved[f].setup = 0
          BY <2>1, <3>2 DEF RestoreDirectory, SetupWrites, LegacyIsUntouched, OriginalsAreClean
        <5> QED
          BY <1>0, <3>2, <5>1 DEF RestoreDirectory
      <4> QED
        BY <4>1
    <3> QED
      BY <1>9, <3>1, <3>2
  <2>5. todo \subseteq journals[job].entries /\ \A g \in File \ todo : Clean(active[g])
    BY <1>1, <2>1, ZeroIsNone DEF RestoredIsClean
  <2>6. \A g \in File \ todo' :
          active'[g].setup # 0 => journals'[active'[g].setup].state = "complete"
    BY <1>3, <2>1, <2>3, <2>4, <2>5
  <2> QED
    BY <2>1, <2>2, <2>5, <2>6 DEF RestoredIsClean, Clean
<1>10. ASSUME NEW p \in Process, CheckMarker(p) \/ TryLock(p) \/ Release(p) \/ \E f \in File : WriteFile(p, f)
      PROVE  RestoredIsClean'
  <2>1. CASE op = "none"
    BY <1>4, <1>10, <2>1 DEF CheckMarker, TryLock, Release, WriteFile
  <2>2. CASE op # "none"
    BY <1>5, <1>10, <2>2 DEF CheckMarker, TryLock, Release, WriteFile
  <2> QED
    BY <2>1, <2>2
<1>11. ASSUME NEW f \in File,
              \/ RemoveReplacement(f) \/ RenameBack(f) \/ RemoveAdded(f) \/ MoveOriginal(f) \/ MoveStaged(f)
              \/ Record(f) \/ Install(f) \/ RecordDirectory(f) \/ MoveDirectory(f)
       PROVE  RestoredIsClean'
  BY <1>4, <1>11 DEF RemoveReplacement, RenameBack, RemoveAdded, MoveOriginal, MoveStaged, Record, Install,
     RecordDirectory, MoveDirectory, Installing
<1>12. CASE \/ \E o \in {"setup", "reset", "sync"} : Begin(o)
            \/ Prepare \/ CompleteReset \/ ResetFails \/ CloseJournal \/ RecoveryDone
            \/ SyncReturns \/ BeginTransaction \/ BootstrapLocal \/ RecordClone \/ RenameClone
            \/ CompleteSetup \/ Crash
  BY <1>4, <1>12 DEF Begin, Prepare, CompleteReset, ResetFails, CloseJournal, RecoveryDone, SyncReturns,
     BeginTransaction, BootstrapLocal, RecordClone, RenameClone, CompleteSetup, Crash, Finish, Installing
<1>13. CASE RemoveMarker
  BY <1>4, <1>13 DEF RemoveMarker, MarkerIsReset
<1>14. CASE UNCHANGED vars
  BY <1>5, <1>14 DEF vars
<1> QED
  BY <1>7, <1>8, <1>9, <1>10, <1>11, <1>12, <1>13, <1>14
     DEF Next, BusinessNext, MaintenanceNext, ResetStep, SetupStep

(***************************************************************************)
(* The Knowledge Store.                                                    *)
(***************************************************************************)
\* The operations that touch it.
LEMMA RepositoryStep ==
    ASSUME TypeOK, [Next]_vars
    PROVE  \/ /\ active'[Repository] = active[Repository] /\ backup'[Repository] = backup[Repository]
              /\ staged'[Repository] = staged[Repository] /\ acked'[Repository] = acked[Repository]
              /\ UNCHANGED <<marked, originals, era>>
           \/ \E p \in Process : WriteFile(p, Repository)
           \/ RemoveReplacement(Repository) \/ RenameBack(Repository) \/ RemoveAdded(Repository)
           \/ MoveOriginal(Repository) \/ MoveStaged(Repository) \/ RestoreFile(Repository)
           \/ BootstrapLocal \/ RenameClone \/ RemoveMarker \/ Prepare \/ CompleteReset
<1> DEFINE Same == /\ active'[Repository] = active[Repository] /\ backup'[Repository] = backup[Repository]
                   /\ staged'[Repository] = staged[Repository] /\ acked'[Repository] = acked[Repository]
                   /\ UNCHANGED <<marked, originals, era>>
<1>0. /\ active \in [File -> Content] /\ backup \in [File -> Content] /\ staged \in [File -> Content]
      /\ acked \in [File -> Content] /\ Repository \in File \ (Recorded \cup Legacy)
  BY DEF TypeOK
<1>1. CASE UNCHANGED <<active, backup, staged, acked, marked, originals, era>>
  BY <1>1
<1>2. ASSUME NEW p \in Process, NEW f \in File \ {Repository}, WriteFile(p, f) PROVE Same
  BY <1>0, <1>2 DEF WriteFile, resetVars
<1>3. ASSUME NEW f \in File \ {Repository},
             RemoveReplacement(f) \/ RenameBack(f) \/ RemoveAdded(f) \/ MoveOriginal(f) \/ MoveStaged(f)
      PROVE  Same
  BY <1>0, <1>3 DEF RemoveReplacement, RenameBack, RemoveAdded, MoveOriginal, MoveStaged, resetVars
<1>4. ASSUME NEW f \in File \ {Repository}, RestoreFile(f) PROVE Same
  BY <1>0, <1>4 DEF RestoreFile, resetVars
<1>5. ASSUME NEW f \in File, RestoreDirectory(f) \/ Install(f) \/ MoveDirectory(f) PROVE Same
  <2>1. f # Repository
    BY <1>0, <1>5 DEF RestoreDirectory, Install, MoveDirectory
  <2> QED
    BY <1>0, <1>5, <2>1 DEF RestoreDirectory, Install, MoveDirectory, resetVars
<1> HIDE DEF Same
<1>6. \/ UNCHANGED <<active, backup, staged, acked, marked, originals, era>>
      \/ \E p \in Process, f \in File : WriteFile(p, f)
      \/ \E f \in File : \/ RemoveReplacement(f) \/ RenameBack(f) \/ RemoveAdded(f) \/ MoveOriginal(f)
                         \/ MoveStaged(f) \/ RestoreFile(f)
                         \/ RestoreDirectory(f) \/ Install(f) \/ MoveDirectory(f)
      \/ BootstrapLocal \/ RenameClone \/ RemoveMarker \/ Prepare \/ CompleteReset
  BY DEF Next, vars, resetVars, BusinessNext, MaintenanceNext, ResetStep, SetupStep, CheckMarker, TryLock,
     Release, Begin, TakeOpenJournal, CloseJournal, RecoveryDone, SyncReturns, BeginTransaction, Record,
     RecordClone, RecordDirectory, CompleteSetup, SetupFails, ResetFails, Crash
<1>7. Same \/ ~Same
  OBVIOUS
<1>8. CASE ~Same
  <2>1. ~UNCHANGED <<active, backup, staged, acked, marked, originals, era>>
    BY <1>8 DEF Same
  <2>2. (\E p \in Process, f \in File : WriteFile(p, f)) => \E p \in Process : WriteFile(p, Repository)
    BY <1>2, <1>8
  <2>3. ASSUME NEW f \in File,
               \/ RemoveReplacement(f) \/ RenameBack(f) \/ RemoveAdded(f) \/ MoveOriginal(f)
               \/ MoveStaged(f) \/ RestoreFile(f)
               \/ RestoreDirectory(f) \/ Install(f) \/ MoveDirectory(f)
        PROVE  \/ RemoveReplacement(Repository) \/ RenameBack(Repository) \/ RemoveAdded(Repository)
               \/ MoveOriginal(Repository) \/ MoveStaged(Repository) \/ RestoreFile(Repository)
    BY <1>3, <1>4, <1>5, <1>8, <2>3
  <2> QED
    BY <1>6, <2>1, <2>2, <2>3
<1>9. CASE Same
  BY <1>9 DEF Same
<1> QED
  BY <1>8, <1>9

\* What went with the setup that brought it does not come back.
LEMMA LostStep ==
    ASSUME Base, SetupWrites, NotOfThisSetup, [Next]_vars, acked'[Repository] = acked[Repository],
           LostWithItsSetup
    PROVE  LostWithItsSetup'
<1> DEFINE n == acked[Repository].setup
<1>1. n \in 1..Len(journals) /\ journals[n].state # "complete"
  <2>1. n \in 0..Len(journals) /\ n # 0
    BY DEF SetupWrites, KnownWrites, Known, LostWithItsSetup
  <2>2. Len(journals) \in Nat
    BY DEF Base, TypeOK
  <2> QED
    BY <2>1, <2>2 DEF LostWithItsSetup
<1>2. ~(n = job /\ CompleteSetup)
  BY DEF NotOfThisSetup, CompleteSetup, Installing
<1>3. journals'[n].state # "complete"
  BY <1>1, <1>2, JournalStep
<1> QED
  BY <1>1, <1>3 DEF LostWithItsSetup

\* What a step that is acknowledged, or not, means for the Knowledge Store.
LEMMA WriteRepository ==
    ASSUME TypeOK, Control, Eras, NEW p \in Process, WriteFile(p, Repository)
    PROVE  /\ active'[Repository].era = active[Repository].era /\ Present(active[Repository])
           /\ active'[Repository].rev = writes + 1
           /\ active'[Repository].setup = active[Repository].setup
           /\ acked'[Repository] = IF marked THEN acked[Repository] ELSE active'[Repository]
           /\ op = "none" /\ writes' = writes + 1
           /\ UNCHANGED <<backup, staged, marked, originals, era, journals, op, phase, job>>
<1>1. active[Repository] \in Content /\ writes + 1 \in Nat /\ Repository \in File
  BY DEF TypeOK
<1>2. active'[Repository] = [active[Repository] EXCEPT !.rev = writes + 1] /\ Present(active[Repository])
  BY <1>1 DEF WriteFile, TypeOK
<1>3. /\ [active[Repository] EXCEPT !.rev = writes + 1].era = active[Repository].era
      /\ [active[Repository] EXCEPT !.rev = writes + 1].rev = writes + 1
      /\ [active[Repository] EXCEPT !.rev = writes + 1].setup = active[Repository].setup
  BY <1>1, ContentUpdates
<1>4. /\ op = "none" /\ writes' = writes + 1
      /\ UNCHANGED <<backup, staged, marked, originals, era, journals, op, phase, job>>
  BY DEF Control, Exclusive, WriteFile, resetVars, opVars
<1>5. acked'[Repository] = IF marked THEN acked[Repository] ELSE active'[Repository]
  BY <1>1 DEF WriteFile, TypeOK
<1> QED
  BY <1>2, <1>3, <1>4, <1>5

LEMMA AckedEraStep ==
    ASSUME TypeOK, Control, ResetInv, AckedEra, [Next]_vars
    PROVE  AckedEra'
<1>0. /\ era \in Nat /\ Eras /\ AckedEra /\ Repository \in Targets
      /\ acked[Repository].era \in Nat
  <2>1. acked[Repository] \in Content
    BY DEF TypeOK
  <2> QED
    BY <2>1 DEF TypeOK, ResetInv, Content
<1>1. CASE acked'[Repository] = acked[Repository] /\ marked' = marked /\ era' = era
  BY <1>0, <1>1 DEF AckedEra
<1>2. ASSUME NEW p \in Process, WriteFile(p, Repository) PROVE AckedEra'
  <2>1. CASE marked
    BY <1>0, <1>1, <1>2, <2>1, WriteRepository
  <2>2. CASE ~marked
    <3>1. active[Repository].era = era /\ era # 0
      BY <1>0, <1>2, <2>2, WriteRepository DEF Eras
    <3> QED
      BY <1>0, <1>2, <2>2, <3>1, WriteRepository DEF AckedEra
  <2> QED
    BY <2>1, <2>2
<1>3. CASE RemoveMarker
  <2>1. marked /\ ~marked' /\ era' = era - 1 /\ acked' = acked
    BY <1>3 DEF RemoveMarker, ForgetReset, Control, MarkerIsReset
  <2> QED
    BY <1>0, <2>1 DEF AckedEra
<1>4. CASE Prepare
  <2>1. ~marked /\ marked' /\ era' = era + 1 /\ acked' = acked
    BY <1>4 DEF Prepare, Control, MarkerIsReset
  <2> QED
    BY <1>0, <2>1 DEF AckedEra
<1>5. CASE CompleteReset
  <2>1. marked /\ ~marked' /\ era' = era /\ acked' = acked
    BY <1>5 DEF CompleteReset, ForgetReset, Control, MarkerIsReset
  <2> QED
    BY <1>0, <2>1 DEF AckedEra
<1>6. ASSUME \/ RemoveReplacement(Repository) \/ RenameBack(Repository) \/ RemoveAdded(Repository)
             \/ MoveOriginal(Repository) \/ MoveStaged(Repository) \/ RestoreFile(Repository)
             \/ BootstrapLocal \/ RenameClone
      PROVE  acked' = acked /\ marked' = marked /\ era' = era
  BY <1>6 DEF RemoveReplacement, RenameBack, RemoveAdded, MoveOriginal, MoveStaged, RestoreFile,
     BootstrapLocal, RenameClone, resetVars
<1> QED
  BY <1>1, <1>2, <1>3, <1>4, <1>5, <1>6, RepositoryStep

LEMMA RevisionsStep ==
    ASSUME TypeOK, Control, ResetInv, Revisions, CloneIsRecorded, RestoredIsClean, [Next]_vars
    PROVE  Revisions'
<1>b. writes' = writes \/ writes' = writes + 1
  BY DEF Next, vars, counters, BusinessNext, MaintenanceNext, ResetStep, SetupStep, CheckMarker, TryLock,
     Release, WriteFile, Begin, RemoveReplacement, RenameBack, RemoveAdded, MoveOriginal, MoveStaged,
     RestoreFile, RestoreDirectory, Record, Install, RecordDirectory, MoveDirectory, RemoveMarker,
     Prepare, CompleteReset, ResetFails, TakeOpenJournal, CloseJournal, RecoveryDone, SyncReturns,
     BeginTransaction, BootstrapLocal, RecordClone, RenameClone, CompleteSetup, SetupFails, Crash
<1>0. /\ active \in [File -> Content] /\ backup \in [File -> Content] /\ staged \in [File -> Content]
      /\ writes \in Nat /\ writes' \in Nat /\ writes <= writes' /\ Repository \in File /\ Absent.rev = 0
      /\ \A e : Empty(e).rev = 0
  BY <1>b DEF TypeOK, Absent, Empty
<1>a. /\ active[Repository].rev \in Nat /\ backup[Repository].rev \in Nat /\ staged[Repository].rev \in Nat
  <2>1. active[Repository] \in Content /\ backup[Repository] \in Content /\ staged[Repository] \in Content
    BY <1>0
  <2> QED
    BY <2>1 DEF Content
<1> DEFINE old == {active[Repository].rev, backup[Repository].rev, staged[Repository].rev, 0}
<1>1. ASSUME active'[Repository].rev \in old \cup {writes'}, backup'[Repository].rev \in old,
             staged'[Repository].rev \in old
      PROVE  Revisions'
  BY <1>0, <1>a, <1>1 DEF Revisions
<1> HIDE DEF old
<1>2. ASSUME NEW p \in Process, WriteFile(p, Repository) PROVE Revisions'
  BY <1>1, <1>2, WriteRepository DEF ResetInv, old
<1>3. CASE \/ RemoveReplacement(Repository) \/ RenameBack(Repository) \/ RemoveAdded(Repository)
           \/ MoveOriginal(Repository) \/ MoveStaged(Repository)
  <2>1. active'[Repository] \in {active[Repository], backup[Repository], staged[Repository], Absent}
    BY <1>0, <1>3 DEF RemoveReplacement, RenameBack, RemoveAdded, MoveOriginal, MoveStaged
  <2>2. backup'[Repository] \in {backup[Repository], active[Repository], Absent}
    BY <1>0, <1>3 DEF RemoveReplacement, RenameBack, RemoveAdded, MoveOriginal, MoveStaged, resetVars
  <2>3. staged'[Repository] \in {staged[Repository], Absent}
    BY <1>0, <1>3 DEF RemoveReplacement, RenameBack, RemoveAdded, MoveOriginal, MoveStaged, resetVars
  <2>4. /\ active'[Repository].rev \in {active[Repository].rev, backup[Repository].rev, staged[Repository].rev, 0}
        /\ backup'[Repository].rev \in {active[Repository].rev, backup[Repository].rev, 0}
        /\ staged'[Repository].rev \in {staged[Repository].rev, 0}
    BY <1>0, <2>1, <2>2, <2>3
  <2> QED
    BY <1>1, <2>4 DEF old
<1>4. CASE RestoreFile(Repository)
  <2>1. journals[job].original[Repository] = Absent
    BY <1>4 DEF Control, OneOpenJournal, CloneIsRecorded, RestoreFile
  <2> QED
    BY <1>0, <1>1, <1>4, <2>1 DEF RestoreFile, resetVars, old
<1>5. CASE BootstrapLocal \/ RenameClone
  <2>1. Empty(era) \in Content /\ job \in Nat
    BY ContentTypes DEF TypeOK
  <2>2. [Empty(era) EXCEPT !.setup = job].rev = 0
    BY <1>0, <2>1, ContentUpdates
  <2>3. active'[Repository] \in {Empty(era), [Empty(era) EXCEPT !.setup = job]}
    BY <1>0, <1>5 DEF BootstrapLocal, RenameClone
  <2>4. active'[Repository].rev = 0
    BY <1>0, <2>2, <2>3
  <2>5. backup'[Repository] = backup[Repository] /\ staged'[Repository] = staged[Repository]
    BY <1>5 DEF BootstrapLocal, RenameClone, resetVars
  <2> QED
    BY <1>1, <2>4, <2>5 DEF old
<1>6. CASE RemoveMarker \/ CompleteReset
  <2>1. active' = active /\ backup'[Repository] = Absent /\ staged'[Repository] = Absent
    BY <1>0, <1>6 DEF RemoveMarker, CompleteReset, ForgetReset
  <2> QED
    BY <1>0, <1>1, <2>1 DEF old
<1>7. CASE Prepare
  BY <1>0, <1>1, <1>7 DEF Prepare, old
<1>8. CASE /\ active'[Repository] = active[Repository] /\ backup'[Repository] = backup[Repository]
           /\ staged'[Repository] = staged[Repository]
  BY <1>1, <1>8 DEF old
<1> QED
  BY <1>2, <1>3, <1>4, <1>5, <1>6, <1>7, <1>8, RepositoryStep

LEMMA NotOfThisSetupStep ==
    ASSUME TypeOK, Control, ResetInv, SetupWrites, Acknowledged, [Next]_vars
    PROVE  NotOfThisSetup'
<1>0. Base /\ NotOfThisSetup /\ Eras
  BY BaseHolds DEF ResetInv, Acknowledged
<1>1. CASE BeginTransaction
  <2>1. acked[Repository].setup \in 0..Len(journals) /\ Len(journals) \in Nat
    BY DEF TypeOK, SetupWrites, KnownWrites, Known
  <2>2. job' = Len(journals) + 1 /\ acked' = acked
    BY <1>1 DEF BeginTransaction
  <2> QED
    BY <2>1, <2>2 DEF NotOfThisSetup
<1>2. ASSUME NEW p \in Process, NEW f \in File, WriteFile(p, f) PROVE NotOfThisSetup'
  <2>1. op = "none" /\ op' = op
    BY <1>2 DEF Control, Exclusive, WriteFile, opVars
  <2> QED
    BY <2>1 DEF NotOfThisSetup
<1>3. CASE UNCHANGED <<op, phase, job, acked>>
  BY <1>0, <1>3 DEF NotOfThisSetup
<1>4. CASE ~(op' = "setup" /\ phase' = "work" /\ job' # 0)
  BY <1>4 DEF NotOfThisSetup
<1>5. CASE RemoveMarker \/ RecoveryDone
  <2>1. job' = 0
    BY <1>5 DEF Control, OneOpenJournal, MarkerIsReset, RemoveMarker, RecoveryDone
  <2> QED
    BY <1>4, <2>1
<1>6. ASSUME NEW f \in File,
             \/ RemoveReplacement(f) \/ RenameBack(f) \/ RemoveAdded(f) \/ MoveOriginal(f) \/ MoveStaged(f)
             \/ RestoreFile(f) \/ RestoreDirectory(f)
      PROVE  NotOfThisSetup'
  BY <1>4, <1>6 DEF RemoveReplacement, RenameBack, RemoveAdded, MoveOriginal, MoveStaged, RestoreFile,
     RestoreDirectory, opVars
<1>7. ASSUME NEW f \in File,
             \/ Record(f) \/ Install(f) \/ RecordDirectory(f) \/ MoveDirectory(f)
             \/ RecordClone \/ BootstrapLocal \/ RenameClone
      PROVE  NotOfThisSetup'
  BY <1>3, <1>7 DEF Record, Install, RecordDirectory, MoveDirectory, RecordClone, BootstrapLocal,
     RenameClone, opVars
<1>8. ASSUME NEW p \in Process, CheckMarker(p) \/ TryLock(p) \/ Release(p) PROVE NotOfThisSetup'
  BY <1>3, <1>8 DEF CheckMarker, TryLock, Release, opVars
<1>9. CASE \/ \E o \in {"setup", "reset", "sync"} : Begin(o)
           \/ Prepare \/ CompleteReset \/ ResetFails \/ CloseJournal \/ SyncReturns
           \/ CompleteSetup \/ SetupFails \/ Crash
           \/ \E j \in DOMAIN journals : TakeOpenJournal(j)
  BY <1>4, <1>9 DEF Begin, Prepare, CompleteReset, ResetFails, CloseJournal, SyncReturns, CompleteSetup,
     SetupFails, Crash, TakeOpenJournal, Finish
<1>10. CASE UNCHANGED vars
  BY <1>3, <1>10 DEF vars, opVars
<1>11. Repository \in File
  OBVIOUS
<1> QED
  BY <1>1, <1>2, <1>5, <1>6, <1>7, <1>8, <1>9, <1>10, <1>11
     DEF Next, BusinessNext, MaintenanceNext, ResetStep, SetupStep

LEMMA OldStep ==
    ASSUME TypeOK, Control, ResetInv, SetupWrites, Acknowledged, [Next]_vars
    PROVE  OldIsKept'
<1> DEFINE a == acked[Repository]
           Held(c) == c.era > a.era \/ (c.era = a.era /\ c.rev >= a.rev)
<1>0. /\ Base /\ Eras /\ Swap /\ Undo /\ AckedEra /\ Revisions /\ CloneIsRecorded /\ NotOfThisSetup
      /\ OldIsKept /\ MarkerIsReset /\ OneOpenJournal
  BY BaseHolds DEF ResetInv, Acknowledged, Control
<1>a. /\ active \in [File -> Content] /\ backup \in [File -> Content] /\ staged \in [File -> Content]
      /\ era \in Nat /\ Repository \in File /\ Repository \in Pristine /\ Repository \in Targets
      /\ active[Repository] \in Content /\ backup[Repository] \in Content
  BY DEF TypeOK
<1>b. a.era \in Nat /\ a.rev \in Nat /\ (a.era = 0 => a.rev = 0)
      /\ active[Repository].rev \in Nat /\ active[Repository].era \in Nat
      /\ Absent.era = 0 /\ Absent.rev = 0
  <2>1. a \in Content
    BY DEF TypeOK
  <2> QED
    BY <1>0, <1>a, <2>1 DEF Content, AckedEra, Absent
<1>c. Held(Old) \/ LostWithItsSetup
  BY <1>0 DEF OldIsKept, KeptIn
<1>1. ASSUME acked'[Repository] = acked[Repository], Held(Old) => Held(Old') PROVE OldIsKept'
  BY <1>0, <1>c, <1>1, LostStep DEF OldIsKept, KeptIn
<1>d. ASSUME acked' = acked, Old' = Old PROVE OldIsKept'
  <2> HIDE DEF a, Held
  <2>1. Held(Old) => Held(Old')
    BY <1>d
  <2>2. acked'[Repository] = acked[Repository]
    BY <1>d
  <2> QED
    BY <1>1, <2>1, <2>2
<1>2. CASE /\ active'[Repository] = active[Repository] /\ backup'[Repository] = backup[Repository]
           /\ acked'[Repository] = acked[Repository] /\ UNCHANGED <<marked, originals>>
  BY <1>1, <1>2 DEF Old
<1>3. ASSUME NEW p \in Process, WriteFile(p, Repository) PROVE OldIsKept'
  <2>1. CASE marked
    <3>1. Old' = Old \/ (Old = active[Repository] /\ Old' = active'[Repository])
      BY <1>0, <1>3, <2>1, WriteRepository DEF Old, Control
    <3>2. active'[Repository].rev >= active[Repository].rev
      BY <1>0, <1>3, <1>b, WriteRepository DEF Revisions, Control, TypeOK
    <3>3. active'[Repository].era = active[Repository].era
      BY <1>0, <1>3, WriteRepository DEF Control
    <3>4. active'[Repository].rev \in Nat /\ acked'[Repository] = acked[Repository]
      <4>1. active'[Repository].rev = writes + 1 /\ acked'[Repository] = acked[Repository]
        BY <1>0, <1>3, <2>1, WriteRepository
      <4>2. writes \in Nat
        BY DEF TypeOK
      <4> QED
        BY <4>1, <4>2
    <3>5. CASE Old' = Old
      <4> HIDE DEF a, Held
      <4>1. Held(Old) => Held(Old')
        BY <3>5
      <4> QED
        BY <1>1, <3>4, <4>1
    <3>6. CASE Old = active[Repository] /\ Old' = active'[Repository]
      BY <1>1, <1>b, <3>2, <3>3, <3>4, <3>6
    <3> QED
      BY <3>1, <3>5, <3>6
  <2>2. CASE ~marked
    <3>1. Old' = acked'[Repository]
      BY <1>0, <1>3, <2>2, WriteRepository DEF Old
    <3>2. acked'[Repository].rev = writes + 1 /\ writes \in Nat
      BY <1>0, <1>3, <2>2, WriteRepository DEF TypeOK
    <3> QED
      BY <3>1, <3>2 DEF OldIsKept, KeptIn
  <2> QED
    BY <2>1, <2>2
<1>4. CASE RemoveReplacement(Repository)
  <2>1. Old' = Old
    BY <1>0, <1>4, <1>a DEF RemoveReplacement, Old, Eras, resetVars, MarkerIsReset
  <2> QED
    BY <1>d, <1>4, <2>1 DEF RemoveReplacement
<1>5. CASE RenameBack(Repository)
  <2>1. Old' = Old
    BY <1>0, <1>5, <1>a, ContentTypes DEF RenameBack, Old, Eras, MarkerIsReset
  <2> QED
    BY <1>d, <1>5, <2>1 DEF RenameBack
<1>6. CASE RemoveAdded(Repository)
  <2>1. Old' = Old
    BY <1>0, <1>6, <1>a DEF RemoveAdded, Old, resetVars, MarkerIsReset
  <2> QED
    BY <1>d, <1>6, <2>1 DEF RemoveAdded
<1>7. CASE MoveOriginal(Repository)
  <2>1. CASE Repository \in originals
    <3>1. marked /\ ~Present(backup[Repository]) /\ Old = active[Repository]
      BY <1>0, <1>7, <2>1 DEF MoveOriginal, First, Swap, Old, MarkerIsReset
    <3>2. Present(active[Repository])
      BY <1>0, <1>a, <2>1, <3>1 DEF Eras, Present
    <3>3. backup'[Repository] = active[Repository] /\ marked' = marked /\ originals' = originals
      BY <1>7, <1>a, <2>1 DEF MoveOriginal
    <3>4. Old' = Old
      BY <2>1, <3>1, <3>2, <3>3 DEF Old
    <3> QED
      BY <1>d, <1>7, <3>4 DEF MoveOriginal
  <2>2. CASE Repository \notin originals
    BY <1>2, <1>7, <2>2 DEF MoveOriginal
  <2> QED
    BY <2>1, <2>2
<1>8. CASE MoveStaged(Repository)
  <2>1. marked /\ (Repository \in originals => Present(backup[Repository]))
    BY <1>0, <1>8 DEF MoveStaged, Swap, MarkerIsReset
  <2>2. Old' = Old
    BY <1>8, <2>1 DEF MoveStaged, Old
  <2> QED
    BY <1>d, <1>8, <2>2 DEF MoveStaged
<1>9. CASE RestoreFile(Repository)
  <2>1. /\ job \in OpenJournals /\ Repository \in journals[job].entries
        /\ ~marked /\ marked' = marked /\ acked' = acked
    BY <1>0, <1>9 DEF RestoreFile, Last, SetupWrites, RestoredIsClean, resetVars, OneOpenJournal
  <2>2. Held(Absent) \/ LostWithItsSetup
    BY <1>0, <2>1 DEF CloneIsRecorded, KeptIn
  <2>3. Old' = Absent
    BY <1>0, <1>9, <1>a, <2>1 DEF Old, RestoreFile, CloneIsRecorded
  <2>4. acked'[Repository] = acked[Repository]
    BY <2>1
  <2>5. CASE Held(Absent)
    BY <1>1, <2>3, <2>4, <2>5
  <2>6. CASE LostWithItsSetup
    BY <1>0, <2>4, <2>6, LostStep DEF OldIsKept
  <2> QED
    BY <2>2, <2>5, <2>6
<1>10. CASE BootstrapLocal \/ RenameClone
  <2>1. ~marked /\ marked' = marked /\ acked' = acked /\ ~Present(active[Repository])
    BY <1>0, <1>10 DEF BootstrapLocal, RenameClone, Installing, resetVars, MarkerIsReset
  <2>2. active'[Repository].era = era
    <3>1. Empty(era) \in Content /\ job \in Nat /\ Empty(era).era = era
      BY ContentTypes DEF TypeOK, Empty
    <3>2. [Empty(era) EXCEPT !.setup = job].era = era
      BY <3>1, ContentUpdates
    <3> QED
      BY <1>10, <1>a, <3>1, <3>2 DEF BootstrapLocal, RenameClone
  <2>3. Old = active[Repository] /\ Old' = active'[Repository] /\ active[Repository].era = 0 /\ era >= 1
    BY <1>0, <2>1 DEF Old, Present, Eras
  <2> QED
    BY <1>1, <1>a, <1>b, <2>1, <2>2, <2>3
<1>11. CASE RemoveMarker
  <2>1. marked /\ ~marked' /\ active' = active /\ acked' = acked /\ todo = {} /\ phase = "recover_reset"
    BY <1>0, <1>11 DEF RemoveMarker, ForgetReset, MarkerIsReset
  <2>2. Old' = active[Repository]
    BY <2>1 DEF Old
  <2>3. Old = active[Repository] \/ (Old = Absent /\ active[Repository].era = 0)
    BY <1>0, <1>a, <2>1 DEF Undo, Old, Present
  <2> QED
    BY <1>1, <1>b, <2>1, <2>2, <2>3
<1>12. CASE Prepare
  <2>1. ~marked /\ marked' /\ UNCHANGED <<active, backup, acked>>
        /\ originals' = {f \in Targets : Present(active[f])}
    BY <1>0, <1>12 DEF Prepare, MarkerIsReset
  <2>2. Old = active[Repository] /\ ~Present(backup[Repository])
    BY <1>0, <1>a, <2>1 DEF Old, MarkerIsReset
  <2>3. Old' = Old \/ (Old' = Absent /\ active[Repository].era = 0)
    BY <1>a, <2>1, <2>2 DEF Old, Present
  <2>4. CASE Old' = Old
    BY <1>d, <2>1, <2>4
  <2>5. CASE Old' = Absent /\ active[Repository].era = 0
    BY <1>1, <1>b, <2>1, <2>2, <2>5
  <2> QED
    BY <2>3, <2>4, <2>5
<1>13. CASE CompleteReset
  <2>1. marked /\ ~marked' /\ active' = active /\ acked' = acked /\ todo = {} /\ current = {}
        /\ phase = "swap"
    BY <1>0, <1>13 DEF CompleteReset, ForgetReset, MarkerIsReset
  <2>2. Old' = active[Repository] /\ Present(active[Repository])
    BY <1>0, <1>a, <2>1 DEF Old, Swap
  <2>3. active[Repository].era = era
    BY <1>0, <1>a, <2>1, <2>2 DEF Swap, Eras
  <2>4. a.era <= era - 1
    BY <1>0, <2>1 DEF AckedEra
  <2> QED
    BY <1>1, <1>a, <1>b, <2>1, <2>2, <2>3, <2>4
<1> HIDE DEF a, Held
<1> QED
  BY <1>2, <1>3, <1>4, <1>5, <1>6, <1>7, <1>8, <1>9, <1>10, <1>11, <1>12, <1>13, RepositoryStep

\* The Knowledge Store in the open journals: a setup adds it when it is about to clone it.
LEMMA CloneEntries ==
    ASSUME Base, [Next]_vars, NEW j \in OpenJournals'
    PROVE  \/ /\ j \in OpenJournals
              /\ journals'[j].original[Repository] = journals[j].original[Repository]
              /\ Repository \in journals'[j].entries =>
                   \/ Repository \in journals[j].entries
                   \/ RecordClone /\ j = job
           \/ BeginTransaction /\ journals'[j] = NewJournal("open")
<1> DEFINE Goal ==
      \/ /\ j \in OpenJournals
         /\ journals'[j].original[Repository] = journals[j].original[Repository]
         /\ Repository \in journals'[j].entries =>
              \/ Repository \in journals[j].entries
              \/ RecordClone /\ j = job
      \/ BeginTransaction /\ journals'[j] = NewJournal("open")
<1> SUFFICES Goal
  OBVIOUS
<1> USE DEF OneOpenJournal
<1>0. Repository \in File \ (Recorded \cup Legacy)
  OBVIOUS
<1>1. CASE journals'[j] = journals[j] /\ j \in OpenJournals
  BY <1>1
<1>2. CASE BeginTransaction
  <2>1. /\ OpenJournals' = OpenJournals \cup {Len(journals) + 1}
        /\ journals'[Len(journals) + 1] = NewJournal("open")
        /\ \A i \in OpenJournals : journals'[i] = journals[i]
    BY <1>2, Opened DEF BeginTransaction, Base, OpenJournals
  <2>2. CASE j = Len(journals) + 1
    BY <1>2, <2>1, <2>2
  <2>3. CASE j \in OpenJournals
    BY <1>1, <2>1, <2>3
  <2> QED
    BY <2>1, <2>2, <2>3
<1>3. CASE CloseJournal \/ CompleteSetup
  <2>1. /\ OpenJournals' = OpenJournals \ {job}
        /\ \A i \in OpenJournals \ {job} : journals'[i] = journals[i]
    BY <1>3, Closed DEF CloseJournal, CompleteSetup, Installing, Base, OpenJournals
  <2> QED
    BY <1>1, <2>1
<1>4. ASSUME NEW g \in File, Record(g) \/ RecordDirectory(g) \/ (RecordClone /\ g = Repository)
      PROVE  Goal
  <2>1. job \in OpenJournals
    BY <1>4 DEF Record, RecordDirectory, RecordClone, Installing, Base
  <2>2. /\ OpenJournals' = OpenJournals
        /\ \A i \in DOMAIN journals \ {job} : journals'[i] = journals[i]
        /\ journals'[job].entries = journals[job].entries \cup {g}
        /\ journals'[job].original =
              IF Record(g) THEN [journals[job].original EXCEPT ![g] = active[g]]
              ELSE journals[job].original
    BY <1>4, <2>1, Extended DEF Base
  <2>3. journals[job].original \in [File -> Content]
    BY <2>1, JournalTypes DEF Base, OpenJournals, Journal
  <2>4. (Record(g) => g # Repository) /\ (g = Repository => RecordClone)
    BY <1>0, <1>4 DEF Record, RecordDirectory
  <2>5. journals'[job].original[Repository] = journals[job].original[Repository]
    BY <1>0, <2>2, <2>3, <2>4
  <2>6. CASE j = job
    BY <1>0, <2>1, <2>2, <2>4, <2>5, <2>6
  <2>7. CASE j # job
    BY <1>1, <2>2, <2>7 DEF OpenJournals
  <2> QED
    BY <2>6, <2>7
<1>5. ASSUME NEW g \in File, NEW c \in Content, job \in OpenJournals,
             journals' = [journals EXCEPT ![job].moved[g] = c]
      PROVE  Goal
  <2>1. /\ OpenJournals' = OpenJournals
        /\ \A i \in DOMAIN journals \ {job} : journals'[i] = journals[i]
        /\ journals'[job].entries = journals[job].entries
        /\ journals'[job].original = journals[job].original
    BY <1>5, MovedThere DEF Base
  <2>2. CASE j = job
    BY <1>5, <2>1, <2>2
  <2>3. CASE j # job
    BY <1>1, <2>1, <2>3 DEF OpenJournals
  <2> QED
    BY <2>2, <2>3
<1>6. ASSUME NEW g \in File, MoveDirectory(g) PROVE Goal
  <2>1. active[g] \in Content /\ job \in OpenJournals
    BY <1>6 DEF MoveDirectory, Installing, Base, TypeOK
  <2> QED
    BY <1>5, <1>6, <2>1 DEF MoveDirectory
<1>7. ASSUME NEW g \in File, RestoreDirectory(g), Present(journals[job].moved[g]) PROVE Goal
  BY <1>5, <1>7, ContentTypes DEF RestoreDirectory, Base
<1>8. ASSUME NEW g \in File, RestoreDirectory(g), ~Present(journals[job].moved[g]) PROVE UNCHANGED journals
  BY <1>8 DEF RestoreDirectory
<1>9. CASE UNCHANGED journals
  BY <1>1, <1>9 DEF OpenJournals
<1> HIDE DEF Goal
<1> QED
  BY <1>0, <1>2, <1>3, <1>4, <1>6, <1>7, <1>8, <1>9
     DEF Next, vars, BusinessNext, MaintenanceNext, ResetStep, SetupStep, CheckMarker, TryLock, Release,
         WriteFile, Begin, RemoveReplacement, RenameBack, RemoveAdded, RemoveMarker, TakeOpenJournal,
         RestoreFile, RecoveryDone, SyncReturns, Install, BootstrapLocal, RenameClone, SetupFails,
         Prepare, MoveOriginal, MoveStaged, CompleteReset, ResetFails, Crash

LEMMA CloneStep ==
    ASSUME TypeOK, Control, ResetInv, SetupWrites, Acknowledged, [Next]_vars
    PROVE  CloneIsRecorded'
<1>0. /\ Base /\ AckedEra /\ CloneIsRecorded /\ NotOfThisSetup /\ OldIsKept
      /\ MarkerIsReset /\ OneOpenJournal /\ 0 \notin OpenJournals
  BY BaseHolds, ZeroIsNone DEF ResetInv, Acknowledged, Control
<1>a. /\ active \in [File -> Content] /\ Repository \in File /\ Repository \in Pristine
      /\ acked[Repository].era \in Nat /\ acked[Repository].rev \in Nat
      /\ active[Repository].rev \in Nat /\ Absent.era = 0 /\ Absent.rev = 0
  <2>1. acked[Repository] \in Content /\ active[Repository] \in Content
    BY DEF TypeOK
  <2> QED
    BY <2>1 DEF TypeOK, Content, Absent
<1>1. ASSUME acked'[Repository] = acked[Repository], KeptIn(Absent) \/ LostWithItsSetup
      PROVE  (KeptIn(Absent) \/ LostWithItsSetup)'
  <2>1. CASE KeptIn(Absent)
    BY <1>1, <2>1 DEF KeptIn, Absent
  <2>2. CASE LostWithItsSetup
    BY <1>0, <1>1, <2>2, LostStep
  <2> QED
    BY <1>1, <2>1, <2>2
<1>2. ASSUME NEW j \in OpenJournals', Repository \in journals'[j].entries,
             j \in OpenJournals, Repository \in journals[j].entries
      PROVE  /\ Present(active'[Repository]) => active'[Repository].setup = j
             /\ (KeptIn(Absent) \/ LostWithItsSetup)'
  <2>1. ~marked /\ ~Prepare
    BY <1>0, <1>2 DEF Prepare, OneOpenJournal
  <2>2. /\ Present(active[Repository]) => active[Repository].setup = j
        /\ KeptIn(Absent) \/ LostWithItsSetup
    BY <1>0, <1>2 DEF CloneIsRecorded
  <2>3. ASSUME NEW p \in Process, WriteFile(p, Repository)
        PROVE  /\ active'[Repository].setup = j
               /\ LostWithItsSetup'
    <3>1. active'[Repository].setup = j /\ acked'[Repository] = active'[Repository] /\ journals' = journals
      BY <2>1, <2>2, <2>3, WriteRepository DEF ResetInv
    <3>2. j # 0 /\ journals[j].state # "complete"
      BY <1>0, <1>2 DEF OpenJournals
    <3> QED
      BY <3>1, <3>2 DEF LostWithItsSetup
  <2>4. CASE RestoreFile(Repository)
    <3>1. job \in OpenJournals /\ acked' = acked
      BY <1>0, <2>4 DEF RestoreFile, OneOpenJournal
    <3>2. active'[Repository] = Absent
      BY <1>0, <1>a, <2>4, <3>1 DEF RestoreFile, CloneIsRecorded
    <3> QED
      BY <1>1, <1>a, <2>2, <3>1, <3>2 DEF Present
  <2>5. CASE RenameClone
    <3>1. job = j /\ acked' = acked
      BY <1>0, <1>2, <2>5 DEF RenameClone, Installing, OneOpenJournal
    <3>2. Empty(era) \in Content /\ job \in Nat
      BY ContentTypes DEF TypeOK
    <3>3. [Empty(era) EXCEPT !.setup = job].setup = job
      BY <3>2, ContentUpdates
    <3>4. active'[Repository].setup = j
      BY <1>a, <2>5, <3>1, <3>3 DEF RenameClone
    <3> QED
      BY <1>1, <2>2, <3>1, <3>4
  <2>6. ~BootstrapLocal
    <3>1. Repository \in Int
      BY <1>a DEF File
    <3> QED
      BY <1>0, <1>2, <3>1 DEF BootstrapLocal, Later, Installing, OneOpenJournal
  <2>7. CASE /\ active'[Repository] = active[Repository]
             /\ acked'[Repository] = acked[Repository]
    BY <1>1, <2>2, <2>7
  <2>8. /\ ~RemoveReplacement(Repository) /\ ~RenameBack(Repository) /\ ~RemoveAdded(Repository)
        /\ ~MoveOriginal(Repository) /\ ~MoveStaged(Repository) /\ ~RemoveMarker /\ ~CompleteReset
    BY <1>0, <2>1 DEF RemoveReplacement, RenameBack, RemoveAdded, MoveOriginal, MoveStaged, RemoveMarker,
       CompleteReset, MarkerIsReset
  <2> QED
    BY <2>1, <2>3, <2>4, <2>5, <2>6, <2>7, <2>8, RepositoryStep
<1>3. ASSUME NEW j \in OpenJournals'
      PROVE  /\ journals'[j].original[Repository] = Absent
             /\ Repository \in journals'[j].entries =>
                  /\ Present(active'[Repository]) => active'[Repository].setup = j
                  /\ (KeptIn(Absent) \/ LostWithItsSetup)'
  <2>1. CASE BeginTransaction /\ journals'[j] = NewJournal("open")
    BY <1>a, <2>1 DEF NewJournal
  <2>2. CASE /\ j \in OpenJournals
             /\ journals'[j].original[Repository] = journals[j].original[Repository]
             /\ Repository \in journals'[j].entries =>
                  \/ Repository \in journals[j].entries
                  \/ RecordClone /\ j = job
    <3>1. journals'[j].original[Repository] = Absent
      BY <1>0, <2>2 DEF CloneIsRecorded
    <3>2. ASSUME RecordClone
          PROVE  ~Present(active'[Repository]) /\ (KeptIn(Absent) \/ LostWithItsSetup)'
      <4>1. active' = active /\ acked' = acked /\ ~Present(active[Repository]) /\ ~marked
        BY <1>0, <3>2 DEF RecordClone, Installing, MarkerIsReset
      <4>2. KeptIn(Absent) \/ LostWithItsSetup
        <5>1. Old = active[Repository] /\ active[Repository].era = 0
          BY <4>1 DEF Old, Present
        <5> QED
          BY <1>0, <1>a, <5>1 DEF OldIsKept, KeptIn, AckedEra
      <4> QED
        BY <1>1, <4>1, <4>2
    <3> QED
      BY <1>2, <2>2, <3>1, <3>2
  <2> QED
    BY <1>0, <2>1, <2>2, CloneEntries
<1> QED
  BY <1>3 DEF CloneIsRecorded

(***************************************************************************)
(* The theorems.                                                           *)
(***************************************************************************)
LEMMA IInvInit == Init => IInv
<1> SUFFICES ASSUME Init PROVE IInv
  OBVIOUS
<1>1. TypeOK
  BY TypeInit
<1>2. OpenJournals = {} /\ Len(journals) = 0
  BY DEF Init, OpenJournals
<1>3. /\ \A f \in File : /\ active[f].era \in {0, 1} /\ active[f].rev = 0 /\ active[f].setup = 0
                         /\ backup[f] = Absent /\ staged[f] = Absent /\ acked[f] = Absent
      /\ Absent.era = 0 /\ Absent.rev = 0 /\ Absent.setup = 0
  BY DEF Init, Absent, Empty
<1>4. Control
  BY <1>2, <1>3 DEF Init, Control, Exclusive, MarkerIsReset, OneOpenJournal, Present
<1>5. ResetInv
  <2>1. Eras
    BY <1>3 DEF Init, Eras, Present
  <2> QED
    BY <1>2, <2>1 DEF Init, ResetInv, JournalEras, Swap, Undo
<1>6. SetupWrites
  <2>1. KnownWrites /\ ReplacedIsClean /\ WritesAreOfSetups
    BY <1>2, <1>3 DEF KnownWrites, ReplacedIsClean, WritesAreOfSetups, Known, Clean
  <2> QED
    BY <1>2, <1>3, <2>1 DEF Init, SetupWrites, LegacyIsUntouched, OriginalsAreClean, RestoredIsClean
<1>7. Acknowledged
  <2>1. Repository \in File
    OBVIOUS
  <2>2. Old = active[Repository]
    BY DEF Init, Old
  <2> QED
    BY <1>2, <1>3, <2>1, <2>2 DEF Init, Acknowledged, OldIsKept, KeptIn, AckedEra, Revisions,
       CloneIsRecorded, NotOfThisSetup
<1> QED
  BY <1>1, <1>2, <1>4, <1>5, <1>6, <1>7 DEF IInv, RollbackHasItsSource

LEMMA IInvStep == IInv /\ [Next]_vars => IInv'
<1> SUFFICES ASSUME IInv, [Next]_vars PROVE IInv'
  OBVIOUS
<1>1. TypeOK /\ Control /\ ResetInv /\ RollbackHasItsSource /\ SetupWrites /\ Acknowledged
  BY DEF IInv
<1>2. Base
  BY <1>1, BaseHolds DEF ResetInv
<1>3. TypeOK' /\ Control'
  BY <1>1, <1>2, TypeStep, ControlStep DEF Control
<1>4. ResetInv'
  BY <1>1, ErasStep, JournalErasStep, SwapStep, UndoStep DEF ResetInv
<1>5. RollbackHasItsSource'
  BY <1>1, RollbackStep
<1>6. SetupWrites'
  BY <1>1, SetupWritesStep, OriginalsStep, RestoredStep DEF SetupWrites
<1>7. Acknowledged'
  <2>1. AckedEra /\ Revisions /\ CloneIsRecorded /\ RestoredIsClean
    BY <1>1 DEF Acknowledged, SetupWrites
  <2>2. OldIsKept' /\ CloneIsRecorded' /\ NotOfThisSetup'
    BY <1>1, OldStep, CloneStep, NotOfThisSetupStep
  <2>3. AckedEra' /\ Revisions'
    BY <1>1, <2>1, AckedEraStep, RevisionsStep
  <2> QED
    BY <2>2, <2>3 DEF Acknowledged
<1> QED
  BY <1>3, <1>4, <1>5, <1>6, <1>7 DEF IInv

\* The inductive invariant, whatever is cut short.
THEOREM Invariance == Spec => []IInv
<1>1. Init => IInv
  BY IInvInit
<1>2. IInv /\ [Next]_vars => IInv'
  BY IInvStep
<1> QED
  BY <1>1, <1>2, PTL DEF Spec

\* The state is always of its type.
THEOREM InstallationTypeCorrect == Spec => []TypeOK
<1>1. IInv => TypeOK
  BY DEF IInv
<1> QED
  BY <1>1, Invariance, PTL

\* However a reset or its undoing is cut short, and for any targets: once nothing is under way and
\* the marker is gone, they are all of one reset (reset_data_locked, recover_incomplete_data_reset).
THEOREM OldOrNewAlways == Spec => []AllOldOrAllNew
<1>1. IInv => AllOldOrAllNew
  BY DEF IInv, ResetInv, Eras, AllOldOrAllNew
<1> QED
  BY <1>1, Invariance, PTL

\* The rollback of a setup finds every directory that it is to put back (restore_journal).
THEOREM RollbackAlwaysHasItsSource == Spec => []RollbackHasItsSource
<1>1. IInv => RollbackHasItsSource
  BY DEF IInv
<1> QED
  BY <1>1, Invariance, PTL

\* A setup that was undone, at whatever step it failed or was cut short, leaves no file as it wrote
\* it (recover_incomplete_journals).
THEOREM UndoneAlwaysLeavesNothing == Spec => []UndoneLeavesNothing
<1>1. IInv => UndoneLeavesNothing
  BY DEF IInv, SetupWrites, WritesAreOfSetups, Clean, UndoneLeavesNothing
<1> QED
  BY <1>1, Invariance, PTL

\* An acknowledged write to the Knowledge Store survives every interrupted setup and reset but the
\* setup that cloned it (restore_journal, recover_incomplete_data_reset).
THEOREM RepositoryAlwaysKept == Spec => []RepositoryIsKept
<1>1. IInv => RepositoryIsKept
  <2> SUFFICES ASSUME IInv, ~marked PROVE Kept(Repository) \/ LostWithItsSetup
    BY DEF RepositoryIsKept, LostWithItsSetup
  <2>1. OldIsKept /\ Old = active[Repository]
    BY DEF IInv, Acknowledged, Old
  <2> QED
    BY <2>1 DEF OldIsKept, KeptIn, Kept
<1> QED
  BY <1>1, Invariance, PTL

(***************************************************************************)
(* Synchronizing knowledge: the inductive invariant.                       *)
(***************************************************************************)

USE KnowledgeAssumption DEF KnowledgeAssumption

\* Only a HEAD that was validated and not touched since is pushed, or waits
\* for the next push.
ValidatedIsPushed ==
    pc \in {"push", "refetch", "remerge"} =>
        /\ head \cap Invalid = {}
        /\ (head \ original) \cap Foreign = {}

\* What a synchronization starts from, it can go back to without a loss:
\* merges only add what others wrote.
OriginalIsKept ==
    pc # "idle" => original \subseteq head /\ head \cap Local \subseteq original

\* Until it has merged, HEAD is what the synchronization started from.
UntouchedBeforeMerge == pc \in {"fetch", "fetch_work", "merge_work"} => head = original

\* What this installation wrote reaches the remote from HEAD only, and is in
\* HEAD wherever on the remote it is.
RemoteIsBehind ==
    (default \cup Reach(work) \cup baseRef \cup Reach(workRef) \cup published) \cap Local
        \subseteq head

\* Until a synchronization has died, HEAD holds only additions.
NothingForeign ==
    deaths = 0 => original \cap Foreign = {} /\ (pc = "idle" => head \cap Foreign = {})

KInv ==
    /\ KnowledgeTypeOK /\ ValidatedIsPushed /\ OriginalIsKept /\ UntouchedBeforeMerge
    /\ RemoteIsBehind /\ NothingForeign /\ PublishedIsSound

LEMMA KInvInit == KnowledgeInit => KInv
<1> SUFFICES ASSUME KnowledgeInit PROVE KInv
  OBVIOUS
<1>1. KnowledgeTypeOK
  <2>1. attempt \in 0..PushAttempts /\ failures \in Nat /\ deaths \in Nat
    BY DEF KnowledgeInit
  <2>2. merging \in BOOLEAN
    BY DEF KnowledgeInit
  <2> QED
    BY <2>1, <2>2 DEF KnowledgeInit, KnowledgeTypeOK, Branch, MaybeBranch
<1>2. ValidatedIsPushed /\ OriginalIsKept /\ UntouchedBeforeMerge
  BY DEF KnowledgeInit, ValidatedIsPushed, OriginalIsKept, UntouchedBeforeMerge
<1>3. RemoteIsBehind
  BY DEF KnowledgeInit, RemoteIsBehind, Reach
<1>4. NothingForeign /\ PublishedIsSound
  BY DEF KnowledgeInit, NothingForeign, PublishedIsSound
<1> QED
  BY <1>1, <1>2, <1>3, <1>4 DEF KInv

LEMMA KInvStep == KInv /\ [KnowledgeNext]_knowledgeVars => KInv'
<1> SUFFICES ASSUME KInv, [KnowledgeNext]_knowledgeVars PROVE KInv'
  OBVIOUS
<1> USE DEF KInv, KnowledgeTypeOK, ValidatedIsPushed, OriginalIsKept, UntouchedBeforeMerge,
    RemoteIsBehind, NothingForeign, PublishedIsSound, Branch, MaybeBranch, Reach,
    localVars, refs, control, remote, mishaps, Fail, Return, KnowledgeFile
<1>1. CASE Start
  BY <1>1 DEF Start, Valid
<1>2. CASE FetchDefault
  BY <1>2 DEF FetchDefault
<1>3. ASSUME NEW from \in {"fetch_work", "refetch"}, NEW to \in {"merge_work", "remerge"},
             from = "refetch" <=> to = "remerge", FetchWork(from, to)
      PROVE KInv'
  BY <1>3 DEF FetchWork
<1>4. ASSUME NEW from \in {"merge_work", "merge_base", "remerge"},
             NEW branch \in {workRef, baseRef}, NEW to \in {"merge_base", "validate"},
             Merge(from, branch, to)
      PROVE KInv'
  <2>1. CASE pc' = "abort" /\ head' = head
    BY <1>4, <2>1 DEF Merge
  <2>2. CASE head' = head \cup Reach(branch) /\ pc' = to /\ UNCHANGED merging
    <3>1. Reach(branch) \subseteq KnowledgeFile /\ Reach(branch) \cap Local \subseteq original
      BY <1>4 DEF Merge
    <3>2. KnowledgeTypeOK'
      BY <1>4, <2>2, <3>1 DEF Merge
    <3>3. OriginalIsKept' /\ RemoteIsBehind'
      BY <1>4, <2>2, <3>1 DEF Merge
    <3> QED
      BY <1>4, <2>2, <3>2, <3>3 DEF Merge
  <2> QED
    BY <1>4, <2>1, <2>2 DEF Merge
<1>5. CASE AbortMerge
  BY <1>5 DEF AbortMerge
<1>6. CASE Validate
  BY <1>6 DEF Validate, Valid, AppendOnly
<1>7. CASE Rollback
  BY <1>7 DEF Rollback
<1>8. CASE AlreadyPublished
  BY <1>8 DEF AlreadyPublished
<1>9. CASE Push
  BY <1>9 DEF Push, PushLands, FastForward
<1>10. CASE PushRefused
  BY <1>10 DEF PushRefused, RetryOrGiveUp
<1>11. CASE FetchFails
  BY <1>11 DEF FetchFails
<1>12. CASE PushBreaks
  BY <1>12 DEF PushBreaks, RetryOrGiveUp, PushLands
<1>13. CASE Die
  BY <1>13 DEF Die
<1>14. CASE RecoverPending
  BY <1>14 DEF RecoverPending
<1>15. ASSUME NEW f \in Local, AppendFile(f) \/ AppendCutShort(f) PROVE KInv'
  BY <1>15 DEF AppendFile, AppendCutShort
<1>16. ASSUME NEW f \in Others, OthersMerge(f) \/ OthersPushToWork(f) PROVE KInv'
  BY <1>16 DEF OthersMerge, OthersPushToWork
<1>17. CASE MergePullRequest
  BY <1>17 DEF MergePullRequest
<1>18. CASE DeleteWorkBranch
  BY <1>18 DEF DeleteWorkBranch
<1>19. CASE UNCHANGED knowledgeVars
  BY <1>19 DEF knowledgeVars
<1> QED
  BY <1>1, <1>2, <1>3, <1>4, <1>5, <1>6, <1>7, <1>8, <1>9, <1>10, <1>11, <1>12, <1>13, <1>14,
     <1>15, <1>16, <1>17, <1>18, <1>19
     DEF KnowledgeNext, SyncStep, Faults, AppendNext, RemoteNext

\* A HEAD that a synchronization replaces holds nothing of this installation
\* that the one it goes back to does not.
LEMMA KeepStep == KInv /\ [KnowledgeNext]_knowledgeVars => (head \cap Local \subseteq head' \cap Local)
<1> SUFFICES ASSUME KInv, [KnowledgeNext]_knowledgeVars PROVE head \cap Local \subseteq head' \cap Local
  OBVIOUS
<1>1. CASE Rollback
  BY <1>1 DEF Rollback, KInv, OriginalIsKept
<1>2. CASE KnowledgeNext /\ ~Rollback
  BY <1>2 DEF KnowledgeNext, SyncStep, Faults, AppendNext, RemoteNext, Start, FetchDefault, FetchWork,
     Merge, AbortMerge, Validate, AlreadyPublished, Push, PushRefused, FetchFails, PushBreaks,
     Die, RecoverPending, AppendFile, AppendCutShort, OthersMerge, OthersPushToWork,
     MergePullRequest, DeleteWorkBranch, localVars
<1> QED
  BY <1>1, <1>2 DEF knowledgeVars, localVars

\* TypeOK, for every instance.
THEOREM KnowledgeTypeCorrect == KnowledgeSpec => []KnowledgeTypeOK
<1>1. KInv => KnowledgeTypeOK
  BY DEF KInv
<1> QED
  BY KInvInit, KInvStep, <1>1, PTL DEF KnowledgeSpec

\* Nothing that fails validation is ever published, and until a
\* synchronization died between merge and validation only additions are
\* (sync_knowledge_locked, validate_sync_head).
THEOREM PublishedAlwaysSound == KnowledgeSpec => []PublishedIsSound
<1>1. KInv => PublishedIsSound
  BY DEF KInv
<1> QED
  BY KInvInit, KInvStep, <1>1, PTL DEF KnowledgeSpec

\* No merge, abort, rollback or death takes away what was appended: the HEAD a
\* rollback restores is the one appends were locked out since
\* (rollback_sync_head, acquire_exclusive).
THEOREM AppendedAlwaysKept == KnowledgeSpec => AppendedIsKept
<1>1. KInv /\ [KnowledgeNext]_knowledgeVars => [head \cap Local \subseteq head' \cap Local]_knowledgeVars
  BY KeepStep
<1> QED
  BY KInvInit, KInvStep, <1>1, PTL DEF KnowledgeSpec, AppendedIsKept
=================================================================================

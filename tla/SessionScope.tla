----------------------------- MODULE SessionScope -----------------------------
(***************************************************************************)
(* The activation leases of Agent Sessions: one private record per Session *)
(* that says which registered Repositories it records for.                 *)
(*                                                                         *)
(* Every event of a Session is a Hook process of its own, and every MCP    *)
(* call reads the lease too, so calls of one Session overlap.  A call      *)
(* freezes the Catalog, READS the lease under a shared lock, derives the   *)
(* decision again and, under another lock, REWRITES a changed one; a Hook  *)
(* that finds no lease AUTHORIZES one, which may evict the oldest.  Two    *)
(* one-shot flags in the lease say what the Session was shown: the Intent  *)
(* reminder, marked before it is shown, and the activation marker, marked  *)
(* after.  No call waits for the lock, which any other process may hold:   *)
(* a busy one is an error that Hooks survive.  A process can be killed     *)
(* between any two steps.                                                  *)
(***************************************************************************)
EXTENDS Integers, FiniteSets

CONSTANTS
  Session, Caller,   \* Sessions; Hook processes and MCP calls in flight
  Repository, Cwd,   \* Repositories; startup directories
  Covers,            \* the Repositories a directory is in, or is a parent of
  MaxEntries,        \* max_entries of the store
  MaxAge,            \* ORPHAN_LEASE_MAX_AGE
  MaxCalls,          \* bound: calls ever started
  MaxClock,          \* bound: seconds that pass
  MaxChanges,        \* bound: edits of the Catalog
  MaxKills,          \* bound: Hooks killed
  None

ASSUME ScopeAssumption ==
  /\ {MaxAge, MaxCalls, MaxClock, MaxChanges, MaxKills} \subseteq Nat
  /\ MaxEntries \in Nat \ {0}
  /\ Covers \in [Cwd -> SUBSET Repository]
  /\ IsFiniteSet(Caller)

VARIABLES
  catalog,    \* the registered Repositories
  lease,      \* the record of each Session, or None
  leftover,   \* temporary files of Hooks killed before their rename
  clock,      \* seconds
  call,       \* what each Caller carries, or None
  told,       \* Sessions shown their activation marker
  reminded,   \* Intent reminders each Session was shown
  granted,    \* each Session: the cwd and second of its lease, None without one
  grants,     \* leases each Session was granted
  rewrites,   \* times a decision of its leases was written again
  calls, changes, kills

store  == <<lease, leftover>>
shown  == <<told, reminded>>
ledger == <<granted, grants, rewrites>>
bounds == <<calls, changes, kills>>
vars   == <<catalog, store, clock, call, shown, ledger, bounds>>

(***************************************************************************)
(* Values.                                                                 *)
(***************************************************************************)
\* An empty decision is Disabled.
Lease == [cwd : Cwd, issued : Nat, decision : SUBSET Repository,
          notified : BOOLEAN, delivered : BOOLEAN]

\* scope: the lease the call goes by; owed: it must state the marker;
\* marker and reminder: what its response carries.
Call == [step : {"read", "rewrite", "authorize", "act", "respond", "record"},
         session : Session, kind : {"start", "tool", "end", "mcp"}, cwd : Cwd,
         seen : SUBSET Repository, scope : Lease \cup {None},
         owed : BOOLEAN, marker : BOOLEAN, reminder : BOOLEAN]

\* What a later record of the same lease must agree with.
Grant == [cwd : Cwd, issued : Nat]

ASSUME NoneAssumption == None \notin Lease \cup Grant

TypeOK ==
  /\ catalog \subseteq Repository
  /\ lease \in [Session -> Lease \cup {None}]
  /\ {leftover, clock, calls, changes, kills} \subseteq Nat
  /\ call \in [Caller -> Call \cup {None}]
  /\ told \subseteq Session
  /\ reminded \in [Session -> Nat]
  /\ granted \in [Session -> Grant \cup {None}]
  /\ grants \in [Session -> Nat] /\ rewrites \in [Session -> Nat]

Init ==
  /\ catalog \in SUBSET Repository
  /\ lease = [s \in Session |-> None]
  /\ leftover = 0
  /\ clock = MaxAge
  /\ call = [c \in Caller |-> None]
  /\ told = {}
  /\ reminded = [s \in Session |-> 0]
  /\ granted = [s \in Session |-> None]
  /\ grants = [s \in Session |-> 0] /\ rewrites = [s \in Session |-> 0]
  /\ calls = 0 /\ changes = 0 /\ kills = 0

Decide(repositories, cwd) == repositories \cap Covers[cwd]

Enabled(l) == l # None /\ l.decision # {}

At(c, step) == call[c] # None /\ call[c].step = step
Its(c) == call[c].session

Put(s, l) == lease' = [lease EXCEPT ![s] = l]
Goes(c, step) == call' = [call EXCEPT ![c].step = step]
Ends(c) == call' = [call EXCEPT ![c] = None]

\* An error on the way to a lease: the Hook goes on as if Disabled, an MCP
\* call is refused.
FailsOpen(c) ==
  call' = [call EXCEPT ![c] =
    IF @.kind = "mcp" THEN None ELSE [@ EXCEPT !.scope = None, !.step = "act"]]

(***************************************************************************)
(* A call arrives and finds its lease.                                     *)
(***************************************************************************)
Begin(c, s, kind, cwd) ==
  /\ call[c] = None
  /\ calls < MaxCalls
  /\ call' = [call EXCEPT ![c] =
       [step |-> "read", session |-> s, kind |-> kind, cwd |-> cwd, seen |-> catalog,
        scope |-> None, owed |-> FALSE, marker |-> FALSE, reminder |-> FALSE]]
  /\ calls' = calls + 1
  /\ UNCHANGED <<catalog, store, clock, shown, ledger, changes, kills>>

\* The decision is derived again from the directory the lease recorded; only a
\* changed one is written.
ReadLease(c) ==
  LET l == lease[Its(c)]
      resolved == Decide(call[c].seen, l.cwd) IN
  /\ At(c, "read")
  /\ l # None
  /\ call' = [call EXCEPT ![c].scope = [l EXCEPT !.decision = resolved],
                          ![c].step = IF resolved = l.decision THEN "act" ELSE "rewrite"]
  /\ UNCHANGED <<catalog, store, clock, shown, ledger, bounds>>

ReadMissing(c) ==
  /\ At(c, "read")
  /\ lease[Its(c)] = None
  /\ IF call[c].kind = "mcp" THEN Ends(c) ELSE Goes(c, "authorize")
  /\ UNCHANGED <<catalog, store, clock, shown, ledger, bounds>>

LockBusy(c) ==
  /\ At(c, "read") \/ At(c, "authorize")
  /\ FailsOpen(c)
  /\ UNCHANGED <<catalog, store, clock, shown, ledger, bounds>>

(***************************************************************************)
(* Reconciliation: the record read before is written back.                 *)
(***************************************************************************)
\* Mutant: whatever lease the Session has is overwritten.
SameSession(c) == lease[Its(c)] # None

\* The lease is still the one that was read.
SameLease(c) ==
  LET l == lease[Its(c)] IN
  /\ l # None
  /\ l.cwd = call[c].scope.cwd
  /\ l.issued = call[c].scope.issued

Rewrite(c) ==
  /\ At(c, "rewrite")
  /\ IF SameLease(c)
     THEN /\ Put(Its(c), call[c].scope)
          /\ rewrites' = [rewrites EXCEPT ![Its(c)] = @ + 1]
     ELSE UNCHANGED <<lease, rewrites>>
  /\ Goes(c, "act")
  /\ UNCHANGED <<catalog, leftover, clock, shown, granted, grants, bounds>>

\* A record that cannot be written leaves the stored one; the call goes by its own.
RewriteBusy(c) ==
  /\ At(c, "rewrite")
  /\ Goes(c, "act")
  /\ UNCHANGED <<catalog, store, clock, shown, ledger, bounds>>

(***************************************************************************)
(* First authorization.                                                    *)
(***************************************************************************)
Others(s) == {t \in Session \ {s} : lease[t] # None}

\* What must go before one more entry fits: entries nobody can read first,
\* then the leases issued least recently.
Excess(s) == leftover + Cardinality(Others(s)) - (MaxEntries - 1)

Evictable(s, gone, junk) ==
  LET excess == IF Excess(s) > 0 THEN Excess(s) ELSE 0 IN
  /\ gone \subseteq Others(s)
  /\ junk = IF excess < leftover THEN excess ELSE leftover
  /\ Cardinality(gone) = excess - junk
  /\ \A t \in gone, u \in Others(s) \ gone : lease[t].issued <= lease[u].issued

\* Another event may owe the marker to a lease it did not create: it offers
\* it whenever the lease it got has no delivery recorded.
Offers(c, l) ==
  call' = [call EXCEPT ![c].scope = l, ![c].step = "act",
    ![c].owed = call[c].kind = "tool" /\ Enabled(l) /\ ~l.delivered]

AuthorizedAlready(c) ==
  /\ At(c, "authorize")
  /\ lease[Its(c)] # None
  /\ Offers(c, lease[Its(c)])
  /\ UNCHANGED <<catalog, store, clock, shown, ledger, bounds>>

Authorize(c, gone) ==
  LET s == Its(c)
      cwd == call[c].cwd
      l == [cwd |-> cwd, issued |-> clock, decision |-> Decide(call[c].seen, cwd),
            notified |-> FALSE, delivered |-> FALSE] IN
  /\ At(c, "authorize")
  /\ lease[s] = None
  /\ \E junk \in 0 .. leftover :
       /\ Evictable(s, gone, junk)
       /\ leftover' = leftover - junk
  /\ lease' = [t \in Session |-> IF t = s THEN l ELSE IF t \in gone THEN None ELSE lease[t]]
  /\ granted' = [t \in Session |-> IF t = s THEN [cwd |-> cwd, issued |-> clock]
                                   ELSE IF t \in gone THEN None ELSE granted[t]]
  /\ grants' = [grants EXCEPT ![s] = @ + 1]
  /\ Offers(c, l)
  /\ UNCHANGED <<catalog, clock, shown, rewrites, bounds>>

(***************************************************************************)
(* What the event does, and what it answers.                               *)
(***************************************************************************)
\* Mutant: a delivery already recorded counts as the first again.
EnabledDelivery(l, flag) == Enabled(l)

FirstDelivery(l, flag) == Enabled(l) /\ ~l[flag]

Answers(c, marker, reminder) ==
  call' = [call EXCEPT ![c].marker = marker, ![c].reminder = reminder,
                       ![c].step = "respond"]

\* SessionStart states the marker, and records nothing.
ActOnStart(c) ==
  /\ At(c, "act") /\ call[c].kind = "start"
  /\ Answers(c, Enabled(call[c].scope), FALSE)
  /\ UNCHANGED <<catalog, store, clock, shown, ledger, bounds>>

\* A Session with a Task, a Disabled one, or a busy lock: nothing to remind of.
ActOnTool(c) ==
  /\ At(c, "act") /\ call[c].kind = "tool"
  /\ Answers(c, call[c].owed, FALSE)
  /\ UNCHANGED <<catalog, store, clock, shown, ledger, bounds>>

\* A Task Runtime operation that fails takes the model context with it.
TaskOperationFails(c) ==
  /\ At(c, "act") /\ call[c].kind = "tool"
  /\ Enabled(call[c].scope)
  /\ Answers(c, FALSE, FALSE)
  /\ UNCHANGED <<catalog, store, clock, shown, ledger, bounds>>

\* A Session without a Task is reminded once: by the event that marks it.
MarkNotified(c) ==
  LET s == Its(c) IN
  /\ At(c, "act") /\ call[c].kind = "tool"
  /\ Enabled(call[c].scope)
  /\ FirstDelivery(lease[s], "notified")
  /\ Put(s, [lease[s] EXCEPT !.notified = TRUE])
  /\ Answers(c, call[c].owed, TRUE)
  /\ UNCHANGED <<catalog, leftover, clock, shown, ledger, bounds>>

EndSession(c) ==
  /\ At(c, "act") /\ call[c].kind = "end"
  /\ Put(Its(c), None)
  /\ granted' = [granted EXCEPT ![Its(c)] = None]
  /\ Ends(c)
  /\ UNCHANGED <<catalog, leftover, clock, shown, grants, rewrites, bounds>>

\* The removal of a busy store is given up, and the lease is an orphan.
EndBusy(c) ==
  /\ At(c, "act") /\ call[c].kind = "end"
  /\ Ends(c)
  /\ UNCHANGED <<catalog, store, clock, shown, ledger, bounds>>

\* An MCP call has its answer as soon as it knows the decision.
ActOnCall(c) ==
  /\ At(c, "act") /\ call[c].kind = "mcp"
  /\ Ends(c)
  /\ UNCHANGED <<catalog, store, clock, shown, ledger, bounds>>

\* Mutant: the delivery is recorded because it was owed, not because it was made.
OwedOne(c) == call[c].owed

\* Confirmed by what the response carries.
Delivered(c) == call[c].owed /\ call[c].marker

Respond(c) ==
  LET s == Its(c) IN
  /\ At(c, "respond")
  /\ told' = IF call[c].marker THEN told \cup {s} ELSE told
  /\ reminded' = [reminded EXCEPT ![s] = IF call[c].reminder THEN @ + 1 ELSE @]
  /\ IF Delivered(c) THEN Goes(c, "record") ELSE Ends(c)
  /\ UNCHANGED <<catalog, store, clock, ledger, bounds>>

MarkDelivered(c) ==
  LET s == Its(c) IN
  /\ At(c, "record")
  /\ IF FirstDelivery(lease[s], "delivered")
     THEN Put(s, [lease[s] EXCEPT !.delivered = TRUE])
     ELSE UNCHANGED lease
  /\ Ends(c)
  /\ UNCHANGED <<catalog, leftover, clock, shown, ledger, bounds>>

RecordBusy(c) ==
  /\ At(c, "record")
  /\ Ends(c)
  /\ UNCHANGED <<catalog, store, clock, shown, ledger, bounds>>

(***************************************************************************)
(* Everything else.                                                        *)
(***************************************************************************)
\* A process dies; inside a write it leaves its temporary file.
Writing(c) ==
  \/ At(c, "rewrite") \/ At(c, "record")
  \/ (At(c, "act") /\ call[c].kind = "tool")

Dies(c) ==
  /\ call[c] # None
  /\ kills < MaxKills
  /\ kills' = kills + 1
  /\ Ends(c)
  /\ UNCHANGED <<catalog, clock, shown, grants, rewrites, calls, changes>>

Kill(c) ==
  /\ Dies(c)
  /\ leftover' \in leftover .. (IF Writing(c) THEN leftover + 1 ELSE leftover)
  /\ UNCHANGED <<lease, granted>>

\* It had evicted what was in the way of the record it was writing.
KillInAuthorize(c, gone) ==
  /\ At(c, "authorize")
  /\ lease[Its(c)] = None
  /\ Dies(c)
  /\ \E junk \in 0 .. leftover :
       /\ Evictable(Its(c), gone, junk)
       /\ leftover' = leftover - junk + 1
  /\ lease' = [t \in Session |-> IF t \in gone THEN None ELSE lease[t]]
  /\ granted' = [t \in Session |-> IF t \in gone THEN None ELSE granted[t]]

\* setup, upgrade and doctor --fix reclaim old leases and unreadable entries.
\* They hold maintenance.lock alone, and every call shares it.
Reclaim ==
  LET orphan == {s \in Session : lease[s] # None /\ lease[s].issued <= clock - MaxAge} IN
  /\ \A c \in Caller : call[c] = None
  /\ orphan # {} \/ leftover > 0
  /\ lease' = [s \in Session |-> IF s \in orphan THEN None ELSE lease[s]]
  /\ granted' = [s \in Session |-> IF s \in orphan THEN None ELSE granted[s]]
  /\ leftover' = 0
  /\ UNCHANGED <<catalog, clock, call, shown, grants, rewrites, bounds>>

EditCatalog(repositories) ==
  /\ changes < MaxChanges
  /\ repositories # catalog
  /\ catalog' = repositories
  /\ changes' = changes + 1
  /\ UNCHANGED <<store, clock, call, shown, ledger, calls, kills>>

Tick ==
  /\ clock < MaxAge + MaxClock
  /\ clock' = clock + 1
  /\ UNCHANGED <<catalog, store, call, shown, ledger, bounds>>

Handle(c) ==
  \/ ReadLease(c) \/ ReadMissing(c) \/ LockBusy(c)
  \/ Rewrite(c) \/ RewriteBusy(c)
  \/ AuthorizedAlready(c)
  \/ \E gone \in SUBSET Session : Authorize(c, gone)
  \/ ActOnStart(c) \/ ActOnTool(c) \/ TaskOperationFails(c) \/ MarkNotified(c)
  \/ EndSession(c) \/ EndBusy(c) \/ ActOnCall(c)
  \/ Respond(c) \/ MarkDelivered(c) \/ RecordBusy(c)

Next ==
  \/ \E c \in Caller :
       \/ \E s \in Session, kind \in {"start", "tool", "end", "mcp"}, cwd \in Cwd :
            Begin(c, s, kind, cwd)
       \/ Handle(c)
       \/ Kill(c)
       \/ \E gone \in SUBSET Session : KillInAuthorize(c, gone)
  \/ Reclaim
  \/ \E repositories \in SUBSET Repository : EditCatalog(repositories)
  \/ Tick

Spec == Init /\ [][Next]_vars

(***************************************************************************)
(* Properties.                                                             *)
(***************************************************************************)

\* A lease stays bound to the directory and the second of the event that created
\* it, and a lease that was removed, reclaimed or evicted is never written back,
\* whatever record an overlapping call still carries (try_persist_reconciled).
LeaseIsAsGranted ==
  \A s \in Session :
    IF lease[s] = None THEN granted[s] = None
    ELSE granted[s] = [cwd |-> lease[s].cwd, issued |-> lease[s].issued]

\* A lease that says its Session was given the activation marker tells the
\* truth: a Session marked as told and never told could make no MCP call for its
\* whole life (record_self_healed_marker_delivery).
ToldBeforeRecorded ==
  \A s \in Session : lease[s] # None /\ lease[s].delivered => s \in told

\* Overlapping events of a Session show it one Intent reminder per lease, and
\* one more at most for every time its decision was rewritten
\* (try_mark_intent_bootstrap_notified).
RemindersAreAccounted == \A s \in Session : reminded[s] <= grants[s] + rewrites[s]

\* "Non-blockingly records delivery of the one-shot Intent bootstrap reminder":
\* a Session is reminded once per lease.  The code does not keep it: a call that
\* read the lease before the mark writes the unmarked record back.
RemindedOnce == \A s \in Session : reminded[s] <= grants[s]
=============================================================================

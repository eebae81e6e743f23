-------------------------- MODULE SessionScopeProofs --------------------------
(***************************************************************************)
(* What holds of the leases of any number of Sessions, calls, Repositories *)
(* and directories.                                                        *)
(***************************************************************************)
EXTENDS SessionScope, FiniteSetTheorems, TLAPS

\* A call that is about to write a lease back carries one.
CarriesLease ==
  \A c \in Caller : At(c, "rewrite") => call[c].scope # None

IType == TypeOK /\ CarriesLease

USE ScopeAssumption, NoneAssumption

LEMMA DecideType ==
  ASSUME NEW R \in SUBSET Repository, NEW d \in Cwd
  PROVE Decide(R, d) \in SUBSET Repository
BY DEF Decide

\* Marking a lease leaves its directory and its second.
LEMMA MarkedLease ==
  ASSUME NEW l \in Lease, NEW m \in {[l EXCEPT !.notified = TRUE], [l EXCEPT !.delivered = TRUE]}
  PROVE m \in Lease /\ m # None /\ m.cwd = l.cwd /\ m.issued = l.issued
BY DEF Lease

\* A call that is given a lease acts on it.
LEMMA OfferShape ==
  ASSUME TypeOK, NEW c \in Caller, call[c] # None, NEW l \in Lease, Offers(c, l)
  PROVE  /\ call' \in [Caller -> Call \cup {None}]
         /\ call'[c].scope = l /\ call'[c].step = "act" /\ Its(c)' = Its(c)
         /\ \A d \in Caller \ {c} : call'[d] = call[d]
<1> DEFINE owes == call[c].kind = "tool" /\ Enabled(l) /\ ~l.delivered
           offered == [call[c] EXCEPT !.scope = l, !.step = "act", !.owed = owes]
<1>1. call \in [Caller -> Call \cup {None}] /\ call[c] \in Call
  BY DEF TypeOK
<1>2. owes \in BOOLEAN
  OBVIOUS
<1>3. call' = [call EXCEPT ![c] = offered]
  BY <1>1 DEF Offers
<1> HIDE DEF owes
<1>4. /\ offered \in Call /\ offered.scope = l /\ offered.step = "act"
      /\ offered.session = call[c].session
  BY <1>1, <1>2 DEF Call
<1> HIDE DEF offered
<1> QED
  BY <1>1, <1>3, <1>4 DEF Its

LEMMA TypeInit == Init => IType
BY DEF Init, IType, TypeOK, CarriesLease, At

LEMMA TypeStep == IType /\ [Next]_vars => IType'
<1> SUFFICES ASSUME IType, [Next]_vars PROVE IType'
  OBVIOUS
<1> USE DEF IType, TypeOK, CarriesLease, At, Its, store, shown, ledger, bounds
<1>1. ASSUME NEW c \in Caller, NEW s \in Session, NEW kind \in {"start", "tool", "end", "mcp"},
             NEW cwd \in Cwd, Begin(c, s, kind, cwd)
      PROVE IType'
  BY <1>1 DEF Begin, Call
<1>2. ASSUME NEW c \in Caller, ReadLease(c) PROVE IType'
  <2> DEFINE l == lease[Its(c)]
             resolved == Decide(call[c].seen, l.cwd)
  <2>1. call[c] \in Call /\ Its(c) \in Session
    BY <1>2 DEF ReadLease, Call
  <2>2. l \in Lease
    BY <1>2, <2>1 DEF ReadLease
  <2>3. resolved \in SUBSET Repository
    BY <2>1, <2>2, DecideType DEF Call, Lease
  <2>4. [l EXCEPT !.decision = resolved] \in Lease
    BY <2>2, <2>3 DEF Lease
  <2> QED
    BY <1>2, <2>1, <2>4 DEF ReadLease, Call
<1>3. ASSUME NEW c \in Caller, ReadMissing(c) PROVE IType'
  BY <1>3 DEF ReadMissing, Ends, Goes, Call
<1>4. ASSUME NEW c \in Caller, LockBusy(c) PROVE IType'
  <2>1. call[c] \in Call
    BY <1>4 DEF LockBusy
  <2>2. [call[c] EXCEPT !.scope = None, !.step = "act"] \in Call
    BY <2>1 DEF Call
  <2>3. call' \in [Caller -> Call \cup {None}]
    BY <1>4, <2>1, <2>2 DEF LockBusy, FailsOpen
  <2>4. CarriesLease'
    BY <1>4, <2>1 DEF LockBusy, FailsOpen, Call
  <2> QED
    BY <1>4, <2>3, <2>4 DEF LockBusy
<1>5. ASSUME NEW c \in Caller, Rewrite(c) PROVE IType'
  BY <1>5 DEF Rewrite, SameLease, Put, Goes, Call
<1>6. ASSUME NEW c \in Caller, RewriteBusy(c) PROVE IType'
  BY <1>6 DEF RewriteBusy, Goes, Call
<1>7. ASSUME NEW c \in Caller, AuthorizedAlready(c) PROVE IType'
  <2>1. call[c] # None /\ call[c] \in Call /\ lease[Its(c)] \in Lease /\ Offers(c, lease[Its(c)])
    BY <1>7 DEF AuthorizedAlready, Call
  <2>2. /\ call' \in [Caller -> Call \cup {None}] /\ call'[c].step = "act"
        /\ \A d \in Caller \ {c} : call'[d] = call[d]
    BY <2>1, OfferShape
  <2>3. CarriesLease'
    BY <2>2
  <2> QED
    BY <1>7, <2>2, <2>3 DEF AuthorizedAlready
<1>8. ASSUME NEW c \in Caller, NEW gone \in SUBSET Session, Authorize(c, gone) PROVE IType'
  <2> DEFINE l == [cwd |-> call[c].cwd, issued |-> clock,
                   decision |-> Decide(call[c].seen, call[c].cwd),
                   notified |-> FALSE, delivered |-> FALSE]
  <2>1. call[c] \in Call
    BY <1>8 DEF Authorize
  <2>2. l \in Lease
    BY <2>1, DecideType DEF Call, Lease
  <2>c. call[c] # None /\ Offers(c, l)
    BY <1>8 DEF Authorize
  <2>3. /\ call' \in [Caller -> Call \cup {None}] /\ call'[c].step = "act"
        /\ \A d \in Caller \ {c} : call'[d] = call[d]
    BY <2>2, <2>c, OfferShape
  <2>4. lease' \in [Session -> Lease \cup {None}]
    BY <1>8, <2>2 DEF Authorize
  <2>5. leftover' \in Nat
    BY <1>8 DEF Authorize
  <2>6. /\ granted' \in [Session -> Grant \cup {None}]
        /\ grants' \in [Session -> Nat]
    BY <1>8, <2>1 DEF Authorize, Call, Grant
  <2>7. CarriesLease'
    BY <2>3
  <2>8. UNCHANGED <<catalog, clock, told, reminded, rewrites, calls, changes, kills>>
    BY <1>8 DEF Authorize
  <2> QED
    BY <2>3, <2>4, <2>5, <2>6, <2>7, <2>8
<1>9. ASSUME NEW c \in Caller, ActOnStart(c) PROVE IType'
  <2>1. call[c] \in Call /\ Enabled(call[c].scope) \in BOOLEAN
    BY <1>9 DEF ActOnStart, Enabled
  <2>2. call' \in [Caller -> Call \cup {None}]
    BY <1>9, <2>1 DEF ActOnStart, Answers, Call
  <2> QED
    BY <1>9, <2>1, <2>2 DEF ActOnStart, Answers, Call
<1>10. ASSUME NEW c \in Caller, ActOnTool(c) PROVE IType'
  BY <1>10 DEF ActOnTool, Answers, Call
<1>11. ASSUME NEW c \in Caller, TaskOperationFails(c) PROVE IType'
  BY <1>11 DEF TaskOperationFails, Answers, Call
<1>12. ASSUME NEW c \in Caller, MarkNotified(c) PROVE IType'
  <2>1. call[c] \in Call /\ lease[Its(c)] \in Lease
    BY <1>12 DEF MarkNotified, FirstDelivery, Enabled, Call
  <2>2. [lease[Its(c)] EXCEPT !.notified = TRUE] \in Lease
    BY <2>1 DEF Lease
  <2> QED
    BY <1>12, <2>1, <2>2 DEF MarkNotified, Put, Answers, Call
<1>13. ASSUME NEW c \in Caller, EndSession(c) PROVE IType'
  BY <1>13 DEF EndSession, Put, Ends
<1>14. ASSUME NEW c \in Caller, EndBusy(c) PROVE IType'
  BY <1>14 DEF EndBusy, Ends
<1>15. ASSUME NEW c \in Caller, ActOnCall(c) PROVE IType'
  BY <1>15 DEF ActOnCall, Ends
<1>16. ASSUME NEW c \in Caller, Respond(c) PROVE IType'
  <2>1. call[c] \in Call
    BY <1>16 DEF Respond
  <2>2. call' \in [Caller -> Call \cup {None}]
    BY <1>16, <2>1 DEF Respond, Goes, Ends, Call
  <2> QED
    BY <1>16, <2>1, <2>2 DEF Respond, Goes, Ends, Call
<1>17. ASSUME NEW c \in Caller, MarkDelivered(c) PROVE IType'
  <2>1. call[c] \in Call
    BY <1>17 DEF MarkDelivered
  <2>2. lease' \in [Session -> Lease \cup {None}]
    <3>1. CASE FirstDelivery(lease[Its(c)], "delivered")
      <4>1. lease[Its(c)] \in Lease
        BY <2>1, <3>1 DEF FirstDelivery, Enabled, Call
      <4>2. [lease[Its(c)] EXCEPT !.delivered = TRUE] \in Lease
        BY <4>1 DEF Lease
      <4> QED
        BY <1>17, <3>1, <4>2 DEF MarkDelivered, Put
    <3>2. CASE ~FirstDelivery(lease[Its(c)], "delivered")
      BY <1>17, <3>2 DEF MarkDelivered
    <3> QED
      BY <3>1, <3>2
  <2> QED
    BY <1>17, <2>1, <2>2 DEF MarkDelivered, Ends
<1>18. ASSUME NEW c \in Caller, RecordBusy(c) PROVE IType'
  BY <1>18 DEF RecordBusy, Ends
<1>19. ASSUME NEW c \in Caller, Kill(c) PROVE IType'
  BY <1>19 DEF Kill, Dies, Ends
<1>20. ASSUME NEW c \in Caller, NEW gone \in SUBSET Session, KillInAuthorize(c, gone)
       PROVE IType'
  BY <1>20 DEF KillInAuthorize, Dies, Ends
<1>21. CASE Reclaim
  BY <1>21 DEF Reclaim
<1>22. ASSUME NEW R \in SUBSET Repository, EditCatalog(R) PROVE IType'
  BY <1>22 DEF EditCatalog
<1>23. CASE Tick
  BY <1>23 DEF Tick
<1>24. CASE UNCHANGED vars
  BY <1>24 DEF vars
<1> HIDE DEF IType, TypeOK, CarriesLease, At, Its, store, shown, ledger, bounds
<1>25. ASSUME NEW c \in Caller, Handle(c) PROVE IType'
  BY <1>2, <1>3, <1>4, <1>5, <1>6, <1>7, <1>8, <1>9, <1>10, <1>11, <1>12, <1>13,
     <1>14, <1>15, <1>16, <1>17, <1>18, <1>25 DEF Handle
<1> QED
  BY <1>1, <1>19, <1>20, <1>21, <1>22, <1>23, <1>24, <1>25 DEF Next

\* The variables keep their types.
THEOREM ScopeTypes == Spec => []TypeOK
<1>1. IType => TypeOK
  BY DEF IType
<1> QED
  BY TypeInit, TypeStep, <1>1, PTL DEF Spec

\* Only Authorize, a removal and a reclaim change which lease a Session has; the
\* record a reconciling call writes back is the lease it read.
LEMMA GrantStep ==
  IType /\ LeaseIsAsGranted /\ [Next]_vars => LeaseIsAsGranted'
<1> SUFFICES ASSUME IType, LeaseIsAsGranted, [Next]_vars PROVE LeaseIsAsGranted'
  OBVIOUS
<1> USE DEF LeaseIsAsGranted, store, shown, ledger, bounds
<1>1. ASSUME UNCHANGED <<lease, granted>> PROVE LeaseIsAsGranted'
  BY <1>1
<1>2. ASSUME NEW c \in Caller, Rewrite(c) PROVE LeaseIsAsGranted'
  <2>1. Its(c) \in Session
    BY <1>2 DEF Rewrite, At, Its, IType, TypeOK, Call
  <2>2. CASE SameLease(c)
    <3>1. /\ lease' = [lease EXCEPT ![Its(c)] = call[c].scope]
          /\ granted' = granted
          /\ call[c].scope # None
      BY <1>2, <2>2 DEF Rewrite, Put, IType, CarriesLease
    <3>2. /\ lease[Its(c)] # None
          /\ lease[Its(c)].cwd = call[c].scope.cwd
          /\ lease[Its(c)].issued = call[c].scope.issued
      BY <2>2 DEF SameLease
    <3> QED
      BY <2>1, <3>1, <3>2 DEF IType, TypeOK
  <2>3. CASE ~SameLease(c)
    BY <1>1, <1>2, <2>3 DEF Rewrite
  <2> QED
    BY <2>2, <2>3
<1>3. ASSUME NEW c \in Caller, NEW gone \in SUBSET Session, Authorize(c, gone)
      PROVE LeaseIsAsGranted'
  <2> DEFINE l == [cwd |-> call[c].cwd, issued |-> clock,
                   decision |-> Decide(call[c].seen, call[c].cwd),
                   notified |-> FALSE, delivered |-> FALSE]
             g == [cwd |-> call[c].cwd, issued |-> clock]
  <2>1. call[c] \in Call /\ Its(c) \in Session
    BY <1>3 DEF Authorize, At, Its, IType, TypeOK, Call
  <2>2. call[c].cwd \in Cwd /\ call[c].seen \in SUBSET Repository /\ clock \in Nat
    BY <2>1 DEF IType, TypeOK, Call
  <2>3. l \in Lease
    BY <2>2, DecideType DEF Lease
  <2>4. l # None /\ l.cwd = g.cwd /\ l.issued = g.issued
    BY <2>3
  <2>5. /\ lease' = [t \in Session |-> IF t = Its(c) THEN l
                                       ELSE IF t \in gone THEN None ELSE lease[t]]
        /\ granted' = [t \in Session |-> IF t = Its(c) THEN g
                                         ELSE IF t \in gone THEN None ELSE granted[t]]
    BY <1>3 DEF Authorize
  <2>6. g = [cwd |-> l.cwd, issued |-> l.issued]
    OBVIOUS
  <2> HIDE DEF l, g
  <2> QED
    BY <2>1, <2>4, <2>5, <2>6
<1>4. ASSUME NEW c \in Caller, NEW gone \in SUBSET Session, KillInAuthorize(c, gone)
      PROVE LeaseIsAsGranted'
  BY <1>4 DEF KillInAuthorize, IType, TypeOK
<1>5. ASSUME NEW c \in Caller, EndSession(c) PROVE LeaseIsAsGranted'
  BY <1>5 DEF EndSession, Put, IType, TypeOK
<1>6. ASSUME NEW c \in Caller, NEW flag \in {"notified", "delivered"},
             FirstDelivery(lease[Its(c)], flag), Its(c) \in Session,
             Put(Its(c), [lease[Its(c)] EXCEPT ![flag] = TRUE]), UNCHANGED granted
      PROVE LeaseIsAsGranted'
  <2> DEFINE l == lease[Its(c)]
             m == [l EXCEPT ![flag] = TRUE]
  <2>1. l \in Lease /\ l # None
    BY <1>6 DEF FirstDelivery, Enabled, IType, TypeOK
  <2>2. m \in {[l EXCEPT !.notified = TRUE], [l EXCEPT !.delivered = TRUE]}
    BY <1>6
  <2>3. m # None /\ m.cwd = l.cwd /\ m.issued = l.issued
    BY <2>1, <2>2, MarkedLease
  <2>4. lease' = [lease EXCEPT ![Its(c)] = m] /\ granted' = granted
    BY <1>6 DEF Put
  <2> HIDE DEF m
  <2> QED
    BY <1>6, <2>1, <2>3, <2>4 DEF IType, TypeOK
<1>7. ASSUME NEW c \in Caller, MarkNotified(c) PROVE LeaseIsAsGranted'
  <2>1. Its(c) \in Session
    BY <1>7 DEF MarkNotified, At, Its, IType, TypeOK, Call
  <2> QED
    BY <1>6, <1>7, <2>1 DEF MarkNotified
<1>8. ASSUME NEW c \in Caller, MarkDelivered(c) PROVE LeaseIsAsGranted'
  <2>1. Its(c) \in Session
    BY <1>8 DEF MarkDelivered, At, Its, IType, TypeOK, Call
  <2>2. CASE FirstDelivery(lease[Its(c)], "delivered")
    BY <1>6, <1>8, <2>1, <2>2 DEF MarkDelivered
  <2>3. CASE ~FirstDelivery(lease[Its(c)], "delivered")
    BY <1>1, <1>8, <2>3 DEF MarkDelivered
  <2> QED
    BY <2>2, <2>3
<1>9. CASE Reclaim
  BY <1>9 DEF Reclaim, IType, TypeOK
<1>10. ASSUME NEW c \in Caller,
              \/ ReadLease(c) \/ ReadMissing(c) \/ LockBusy(c)
              \/ RewriteBusy(c) \/ AuthorizedAlready(c) \/ ActOnStart(c) \/ ActOnTool(c)
              \/ TaskOperationFails(c) \/ EndBusy(c) \/ ActOnCall(c) \/ Respond(c)
              \/ RecordBusy(c) \/ Kill(c)
       PROVE LeaseIsAsGranted'
  BY <1>1, <1>10 DEF ReadLease, ReadMissing, LockBusy, RewriteBusy, AuthorizedAlready,
     ActOnStart, ActOnTool, TaskOperationFails, EndBusy, ActOnCall, Respond, RecordBusy, Kill
<1>11. ASSUME NEW R \in SUBSET Repository, EditCatalog(R) PROVE LeaseIsAsGranted'
  BY <1>1, <1>11 DEF EditCatalog
<1>12. CASE Tick \/ UNCHANGED vars
  BY <1>1, <1>12 DEF Tick, vars
<1>13. ASSUME NEW c \in Caller, NEW s \in Session, NEW kind \in {"start", "tool", "end", "mcp"},
              NEW cwd \in Cwd, Begin(c, s, kind, cwd)
       PROVE LeaseIsAsGranted'
  BY <1>1, <1>13 DEF Begin
<1> HIDE DEF LeaseIsAsGranted
<1>14. ASSUME NEW c \in Caller, Handle(c) PROVE LeaseIsAsGranted'
  BY <1>2, <1>3, <1>5, <1>7, <1>8, <1>10, <1>14 DEF Handle
<1> QED
  BY <1>4, <1>9, <1>10, <1>11, <1>12, <1>13, <1>14 DEF Next

\* A lease stays the one its Session was granted, and one that is gone is never
\* written back (LeaseIsAsGranted).
THEOREM LeasesStayGranted == Spec => []LeaseIsAsGranted
<1>1. Init => LeaseIsAsGranted
  BY DEF Init, LeaseIsAsGranted
<1> QED
  BY TypeInit, TypeStep, GrantStep, <1>1, PTL DEF Spec

\* Not only the leases on disk but the records calls carry, and the calls that are
\* about to record a delivery, speak of Sessions that were told.
ITold ==
  /\ ToldBeforeRecorded
  /\ \A c \in Caller : call[c] # None /\ call[c].scope # None /\ call[c].scope.delivered
                         => Its(c) \in told
  /\ \A c \in Caller : At(c, "record") => Its(c) \in told

LEMMA ToldStep == IType /\ ITold /\ [Next]_vars => ITold'
<1> SUFFICES ASSUME IType, ITold, [Next]_vars PROVE ITold'
  OBVIOUS
<1> USE DEF ITold, ToldBeforeRecorded, Its, At, store, shown, ledger, bounds
<1>1. ASSUME NEW c \in Caller, NEW s \in Session, NEW kind \in {"start", "tool", "end", "mcp"},
             NEW cwd \in Cwd, Begin(c, s, kind, cwd)
      PROVE ITold'
  BY <1>1 DEF Begin, IType, TypeOK
<1>2. ASSUME NEW c \in Caller, ReadLease(c) PROVE ITold'
  <2> DEFINE l == lease[Its(c)]
             m == [l EXCEPT !.decision = Decide(call[c].seen, l.cwd)]
  <2>1. call[c] \in Call /\ Its(c) \in Session /\ l \in Lease
    BY <1>2 DEF ReadLease, IType, TypeOK, Call
  <2>2. m.delivered = l.delivered
    BY <2>1 DEF Lease
  <2> QED
    BY <1>2, <2>1, <2>2 DEF ReadLease, IType, TypeOK, Call
<1>3. ASSUME NEW c \in Caller, ReadMissing(c) PROVE ITold'
  BY <1>3 DEF ReadMissing, Ends, Goes, IType, TypeOK, Call
<1>4. ASSUME NEW c \in Caller, LockBusy(c) PROVE ITold'
  BY <1>4 DEF LockBusy, FailsOpen, IType, TypeOK, Call
<1>5. ASSUME NEW c \in Caller, Rewrite(c) PROVE ITold'
  BY <1>5 DEF Rewrite, Put, Goes, IType, TypeOK, CarriesLease, Call
<1>6. ASSUME NEW c \in Caller, RewriteBusy(c) PROVE ITold'
  BY <1>6 DEF RewriteBusy, Goes, IType, TypeOK, Call
<1>7. ASSUME NEW c \in Caller, AuthorizedAlready(c) PROVE ITold'
  <2>1. /\ call[c] # None /\ Its(c) \in Session /\ lease[Its(c)] \in Lease /\ lease[Its(c)] # None
        /\ Offers(c, lease[Its(c)])
    BY <1>7 DEF AuthorizedAlready, IType, TypeOK, Call
  <2>2. /\ call'[c].scope = lease[Its(c)] /\ call'[c].step = "act" /\ Its(c)' = Its(c)
        /\ \A d \in Caller \ {c} : call'[d] = call[d]
    BY <2>1, OfferShape DEF IType
  <2>3. UNCHANGED <<lease, told>>
    BY <1>7 DEF AuthorizedAlready
  <2> QED
    BY <2>1, <2>2, <2>3
<1>8. ASSUME NEW c \in Caller, NEW gone \in SUBSET Session, Authorize(c, gone) PROVE ITold'
  <2> DEFINE l == [cwd |-> call[c].cwd, issued |-> clock,
                   decision |-> Decide(call[c].seen, call[c].cwd),
                   notified |-> FALSE, delivered |-> FALSE]
  <2>1. call[c] # None /\ Offers(c, l)
    BY <1>8 DEF Authorize
  <2>2. l \in Lease /\ ~l.delivered
    BY <2>1, DecideType DEF IType, TypeOK, Call, Lease
  <2>3. UNCHANGED told /\ \A s \in Session : lease'[s] \in {lease[s], None, l}
    BY <1>8 DEF Authorize
  <2> HIDE DEF l
  <2>4. /\ call'[c].scope = l /\ call'[c].step = "act" /\ Its(c)' = Its(c)
        /\ \A d \in Caller \ {c} : call'[d] = call[d]
    BY <2>1, <2>2, OfferShape DEF IType
  <2>5. ToldBeforeRecorded'
    BY <2>2, <2>3
  <2> QED
    BY <2>2, <2>3, <2>4, <2>5
<1>9. ASSUME NEW c \in Caller,
             \/ ActOnStart(c) \/ ActOnTool(c) \/ TaskOperationFails(c)
      PROVE ITold'
  <2>1. CASE ActOnStart(c)
    BY <2>1 DEF ActOnStart, Answers, IType, TypeOK, Call
  <2>2. CASE ActOnTool(c)
    BY <2>2 DEF ActOnTool, Answers, IType, TypeOK, Call
  <2>3. CASE TaskOperationFails(c)
    BY <2>3 DEF TaskOperationFails, Answers, IType, TypeOK, Call
  <2> QED
    BY <1>9, <2>1, <2>2, <2>3
<1>10. ASSUME NEW c \in Caller, MarkNotified(c) PROVE ITold'
  <2>1. Its(c) \in Session /\ lease[Its(c)] \in Lease
    BY <1>10 DEF MarkNotified, FirstDelivery, Enabled, IType, TypeOK, Call
  <2>2. [lease[Its(c)] EXCEPT !.notified = TRUE].delivered = lease[Its(c)].delivered
    BY <2>1 DEF Lease
  <2>3. ToldBeforeRecorded' /\ told' = told
    BY <1>10, <2>1, <2>2 DEF MarkNotified, Put, IType, TypeOK
  <2>4. /\ call'[c] # None /\ call'[c].step = "respond" /\ call'[c].scope = call[c].scope /\ Its(c)' = Its(c)
        /\ call[c] # None
        /\ \A d \in Caller \ {c} : call'[d] = call[d]
    BY <1>10 DEF MarkNotified, Answers, IType, TypeOK, Call
  <2> QED
    BY <2>3, <2>4
<1>11. ASSUME NEW c \in Caller,
              EndSession(c) \/ EndBusy(c) \/ ActOnCall(c) \/ RecordBusy(c) \/ Kill(c)
       PROVE ITold'
  BY <1>11 DEF EndSession, EndBusy, ActOnCall, RecordBusy, Kill, Dies, Put, Ends, IType, TypeOK
<1>12. ASSUME NEW c \in Caller, Respond(c) PROVE ITold'
  BY <1>12 DEF Respond, Delivered, Goes, Ends, IType, TypeOK, Call
<1>13. ASSUME NEW c \in Caller, MarkDelivered(c) PROVE ITold'
  <2>1. Its(c) \in told /\ Its(c) \in Session
    BY <1>13 DEF MarkDelivered, IType, TypeOK, Call
  <2> QED
    BY <1>13, <2>1 DEF MarkDelivered, Put, Ends, IType, TypeOK
<1>14. ASSUME NEW c \in Caller, NEW gone \in SUBSET Session, KillInAuthorize(c, gone)
       PROVE ITold'
  BY <1>14 DEF KillInAuthorize, Dies, Ends, IType, TypeOK
<1>15. CASE Reclaim
  BY <1>15 DEF Reclaim
<1>16. ASSUME NEW R \in SUBSET Repository, EditCatalog(R) PROVE ITold'
  BY <1>16 DEF EditCatalog
<1>17. CASE Tick \/ UNCHANGED vars
  BY <1>17 DEF Tick, vars
<1> HIDE DEF ITold, ToldBeforeRecorded, Its, At, store, shown, ledger, bounds
<1>18. ASSUME NEW c \in Caller, Handle(c) PROVE ITold'
  BY <1>2, <1>3, <1>4, <1>5, <1>6, <1>7, <1>8, <1>9, <1>10, <1>11, <1>12, <1>13, <1>18
     DEF Handle
<1> QED
  BY <1>1, <1>11, <1>14, <1>15, <1>16, <1>17, <1>18 DEF Next

\* No lease says its Session was given a marker that no response carried
\* (ToldBeforeRecorded).
THEOREM MarkersAreTold == Spec => []ToldBeforeRecorded
<1>1. Init => ITold
  BY DEF Init, ITold, ToldBeforeRecorded, At
<1>2. ITold => ToldBeforeRecorded
  BY DEF ITold
<1> QED
  BY TypeInit, TypeStep, ToldStep, <1>1, <1>2, PTL DEF Spec

\* A reminder a response is about to carry, and the one a lease may still give.
Pending(s) == {c \in Caller : At(c, "respond") /\ call[c].reminder /\ Its(c) = s}
Unspent(s) == IF lease[s] # None /\ ~lease[s].notified THEN 1 ELSE 0

\* What was shown, what is about to be and what may still be never exceed the leases
\* granted and the decisions rewritten.
IReminders ==
  \A s \in Session :
    reminded[s] + Cardinality(Pending(s)) + Unspent(s) <= grants[s] + rewrites[s]

\* No answer is added by a step that leaves its call elsewhere.
LEMMA PendingShrinks ==
  ASSUME NEW c \in Caller, call'[c] = None \/ call'[c].step # "respond",
         \A d \in Caller \ {c} : call'[d] = call[d], NEW s \in Session
  PROVE  Pending(s)' \subseteq Pending(s)
BY DEF Pending, At, Its

LEMMA PendingIsFinite ==
  ASSUME NEW s
  PROVE IsFiniteSet(Pending(s)) /\ Cardinality(Pending(s)) \in Nat
<1>1. Pending(s) \subseteq Caller
  BY DEF Pending
<1> QED
  BY <1>1, FS_Subset, FS_CardinalityType DEF ScopeAssumption

LEMMA PendingIsFiniteNext ==
  ASSUME NEW s
  PROVE IsFiniteSet(Pending(s)') /\ Cardinality(Pending(s)') \in Nat
<1>1. Pending(s)' \subseteq Caller
  BY DEF Pending
<1> QED
  BY <1>1, FS_Subset, FS_CardinalityType DEF ScopeAssumption

LEMMA UnspentType == \A s : Unspent(s) \in {0, 1} /\ Unspent(s)' \in {0, 1}
BY DEF Unspent

LEMMA RemindersStep == IType /\ IReminders /\ [Next]_vars => IReminders'
<1> SUFFICES ASSUME IType, IReminders, [Next]_vars PROVE IReminders'
  OBVIOUS
<1> DEFINE Budget(s) == grants[s] + rewrites[s]
<1>t. \A s \in Session : reminded[s] \in Nat /\ grants[s] \in Nat /\ rewrites[s] \in Nat
  BY DEF IType, TypeOK
<1>n. IType'
  BY TypeStep
<1>u. \A s \in Session : reminded'[s] \in Nat /\ grants'[s] \in Nat /\ rewrites'[s] \in Nat
  BY <1>n DEF IType, TypeOK
<1>a. ASSUME \A s \in Session : Pending(s)' \subseteq Pending(s), UNCHANGED reminded,
             \A s \in Session : \/ Unspent(s)' <= Unspent(s) /\ Budget(s)' = Budget(s)
                                \/ Budget(s)' = Budget(s) + 1
      PROVE IReminders'
  <2> SUFFICES ASSUME NEW s \in Session
               PROVE (reminded[s] + Cardinality(Pending(s)) + Unspent(s) <= Budget(s))'
    BY DEF IReminders
  <2>1. Cardinality(Pending(s)') <= Cardinality(Pending(s))
    BY <1>a, PendingIsFinite, FS_Subset
  <2>2. reminded[s] + Cardinality(Pending(s)) + Unspent(s) <= Budget(s)
    BY DEF IReminders
  <2>3. /\ Cardinality(Pending(s)) \in Nat /\ Cardinality(Pending(s)') \in Nat
        /\ Unspent(s) \in {0, 1} /\ Unspent(s)' \in {0, 1}
    BY PendingIsFinite, PendingIsFiniteNext, UnspentType
  <2>4. Budget(s) \in Nat /\ Budget(s)' \in Nat /\ reminded'[s] = reminded[s]
    BY <1>a, <1>t, <1>u
  <2>5. \/ Unspent(s)' <= Unspent(s) /\ Budget(s)' = Budget(s)
        \/ Budget(s)' = Budget(s) + 1
    BY <1>a
  <2> HIDE DEF Budget
  <2> QED
    BY <1>t, <2>1, <2>2, <2>3, <2>4, <2>5
<1>c. ASSUME UNCHANGED <<lease, grants, rewrites, reminded>>,
             \A s \in Session : Pending(s)' \subseteq Pending(s)
      PROVE IReminders'
  <2>1. \A s \in Session : Unspent(s)' <= Unspent(s) /\ Budget(s)' = Budget(s)
    BY <1>c, UnspentType DEF Unspent
  <2> QED
    BY <1>a, <1>c, <2>1
<1>1. ASSUME NEW c \in Caller,
             \/ ReadLease(c) \/ ReadMissing(c) \/ LockBusy(c) \/ RewriteBusy(c)
             \/ AuthorizedAlready(c) \/ EndBusy(c) \/ ActOnCall(c) \/ RecordBusy(c)
      PROVE IReminders'
  <2>1. \A s \in Session : Pending(s)' \subseteq Pending(s)
    <3>1. CASE ReadLease(c)
      <4>1. call \in [Caller -> Call \cup {None}] /\ call[c] \in Call
        BY <3>1 DEF ReadLease, At, IType, TypeOK
      <4>2. call'[c].step \in {"act", "rewrite"} /\ \A d \in Caller \ {c} : call'[d] = call[d]
        BY <3>1, <4>1 DEF ReadLease, Call
      <4> QED
        BY <4>2, PendingShrinks
    <3>2. CASE ReadMissing(c) \/ RewriteBusy(c)
      BY <3>2 DEF ReadMissing, RewriteBusy, Goes, Ends, Pending, At, Its, IType, TypeOK, Call
    <3>5. CASE LockBusy(c)
      <4>1. call[c] \in Call /\ call[c].step # "respond"
        BY <3>5 DEF LockBusy, At, IType, TypeOK
      <4>2. /\ call' = [call EXCEPT ![c] = call'[c]]
            /\ call'[c] = None \/ call'[c].step = "act"
        BY <3>5, <4>1 DEF LockBusy, FailsOpen, IType, TypeOK, Call
      <4> QED
        BY <4>1, <4>2 DEF Pending, At, Its, IType, TypeOK
    <3>3. CASE AuthorizedAlready(c)
      <4>1. call[c] # None /\ lease[Its(c)] \in Lease /\ Offers(c, lease[Its(c)])
        BY <3>3 DEF AuthorizedAlready, At, Its, IType, TypeOK, Call
      <4>2. call'[c].step = "act" /\ \A d \in Caller \ {c} : call'[d] = call[d]
        BY <4>1, OfferShape DEF IType
      <4> QED
        BY <4>2, PendingShrinks
    <3>4. CASE EndBusy(c) \/ ActOnCall(c) \/ RecordBusy(c)
      BY <3>4 DEF EndBusy, ActOnCall, RecordBusy, Ends, Pending, At, Its, IType, TypeOK
    <3> QED
      BY <1>1, <3>1, <3>2, <3>3, <3>4, <3>5
  <2> QED
    BY <1>1, <1>c, <2>1 DEF ReadLease, ReadMissing, LockBusy, RewriteBusy, AuthorizedAlready,
       EndBusy, ActOnCall, RecordBusy, store, shown, ledger
<1>2. ASSUME NEW c \in Caller, ActOnStart(c) \/ ActOnTool(c) \/ TaskOperationFails(c)
      PROVE IReminders'
  <2>1. \A s \in Session : Pending(s)' \subseteq Pending(s)
    BY <1>2 DEF ActOnStart, ActOnTool, TaskOperationFails, Answers, Pending, At, Its,
       IType, TypeOK, Call
  <2> QED
    BY <1>2, <1>c, <2>1 DEF ActOnStart, ActOnTool, TaskOperationFails, store, shown, ledger
<1>3. ASSUME NEW c \in Caller, NEW t \in Session, NEW kind \in {"start", "tool", "end", "mcp"},
             NEW cwd \in Cwd, Begin(c, t, kind, cwd)
      PROVE IReminders'
  <2>1. \A s \in Session : Pending(s)' \subseteq Pending(s)
    BY <1>3 DEF Begin, Pending, At, Its, IType, TypeOK
  <2> QED
    BY <1>3, <1>c, <2>1 DEF Begin, store, shown, ledger
<1>4. ASSUME NEW c \in Caller, Kill(c) PROVE IReminders'
  <2>1. \A s \in Session : Pending(s)' \subseteq Pending(s)
    BY <1>4 DEF Kill, Dies, Ends, Pending, At, Its, IType, TypeOK
  <2> QED
    BY <1>4, <1>c, <2>1 DEF Kill, Dies, shown
<1>5. ASSUME NEW c \in Caller, Rewrite(c) PROVE IReminders'
  <2>1. \A s \in Session : Pending(s)' \subseteq Pending(s)
    BY <1>5 DEF Rewrite, Goes, Pending, At, Its, IType, TypeOK, Call
  <2>2. Its(c) \in Session
    BY <1>5 DEF Rewrite, At, Its, IType, TypeOK, Call
  <2>3. CASE SameLease(c)
    <3>1. \A s \in Session : \/ Unspent(s)' <= Unspent(s) /\ Budget(s)' = Budget(s)
                             \/ Budget(s)' = Budget(s) + 1
      <4> TAKE s \in Session
      <4>1. /\ grants' = grants
            /\ rewrites' = [rewrites EXCEPT ![Its(c)] = @ + 1]
            /\ lease' = [lease EXCEPT ![Its(c)] = call[c].scope]
        BY <1>5, <2>3 DEF Rewrite, Put
      <4>2. CASE s = Its(c)
        BY <1>t, <2>2, <4>1, <4>2 DEF IType, TypeOK
      <4>3. CASE s # Its(c)
        <5>1. lease'[s] = lease[s] /\ rewrites'[s] = rewrites[s]
          BY <2>2, <4>1, <4>3 DEF IType, TypeOK
        <5> QED
          BY <4>1, <5>1, UnspentType DEF Unspent
      <4> QED
        BY <4>2, <4>3
    <3> QED
      BY <1>5, <1>a, <2>1, <3>1 DEF Rewrite, shown
  <2>4. CASE ~SameLease(c)
    BY <1>5, <1>c, <2>1, <2>4 DEF Rewrite, shown
  <2> QED
    BY <2>3, <2>4
<1>6. ASSUME NEW c \in Caller, NEW gone \in SUBSET Session, Authorize(c, gone)
      PROVE IReminders'
  <2>1. \A s \in Session : Pending(s)' \subseteq Pending(s)
    <3>1. call'[c].step = "act" /\ \A d \in Caller \ {c} : call'[d] = call[d]
      BY <1>6 DEF Authorize, Offers, At, IType, TypeOK, Call
    <3> QED
      BY <3>1, PendingShrinks
  <2>2. Its(c) \in Session
    BY <1>6 DEF Authorize, At, Its, IType, TypeOK, Call
  <2>3. /\ grants' = [grants EXCEPT ![Its(c)] = @ + 1]
        /\ rewrites' = rewrites
        /\ \A s \in Session \ {Its(c)} : lease'[s] = None \/ lease'[s] = lease[s]
        /\ UNCHANGED reminded
    BY <1>6 DEF Authorize, shown
  <2>4. \A s \in Session : \/ Unspent(s)' <= Unspent(s) /\ Budget(s)' = Budget(s)
                           \/ Budget(s)' = Budget(s) + 1
    <3> TAKE s \in Session
    <3>1. CASE s = Its(c)
      BY <1>t, <2>2, <2>3, <3>1 DEF IType, TypeOK
    <3>2. CASE s # Its(c)
      <4>1. grants'[s] = grants[s] /\ Unspent(s)' <= Unspent(s)
        BY <2>2, <2>3, <3>2, UnspentType DEF Unspent, IType, TypeOK
      <4> QED
        BY <2>3, <4>1
    <3> QED
      BY <3>1, <3>2
  <2> QED
    BY <1>a, <2>1, <2>3, <2>4
<1>7. ASSUME UNCHANGED <<grants, rewrites, reminded>>,
             \A s \in Session : Pending(s)' \subseteq Pending(s),
             \A s \in Session :
               \/ lease'[s] = None
               \/ lease'[s] = lease[s]
               \/ /\ lease[s] # None
                  /\ lease'[s].notified = lease[s].notified
      PROVE IReminders'
  <2>1. \A s \in Session : Unspent(s)' <= Unspent(s) /\ Budget(s)' = Budget(s)
    BY <1>7, UnspentType DEF Unspent
  <2> QED
    BY <1>a, <1>7, <2>1
<1>8. ASSUME NEW c \in Caller, EndSession(c) PROVE IReminders'
  <2>1. \A s \in Session : Pending(s)' \subseteq Pending(s)
    BY <1>8 DEF EndSession, Ends, Pending, At, Its, IType, TypeOK
  <2> QED
    BY <1>7, <1>8, <2>1 DEF EndSession, Put, shown, IType, TypeOK
<1>9. ASSUME NEW c \in Caller, NEW gone \in SUBSET Session, KillInAuthorize(c, gone)
      PROVE IReminders'
  <2>1. \A s \in Session : Pending(s)' \subseteq Pending(s)
    BY <1>9 DEF KillInAuthorize, Dies, Ends, Pending, At, Its, IType, TypeOK
  <2> QED
    BY <1>7, <1>9, <2>1 DEF KillInAuthorize, Dies, shown
<1>10. CASE Reclaim
  <2>1. \A s \in Session : Pending(s)' \subseteq Pending(s)
    BY <1>10 DEF Reclaim, Pending, At, Its
  <2> QED
    BY <1>7, <1>10, <2>1 DEF Reclaim, shown
<1>11. ASSUME NEW c \in Caller, MarkDelivered(c) PROVE IReminders'
  <2>1. \A s \in Session : Pending(s)' \subseteq Pending(s)
    BY <1>11 DEF MarkDelivered, Ends, Pending, At, Its, IType, TypeOK
  <2>2. UNCHANGED <<grants, rewrites, reminded>> /\ Its(c) \in Session
    BY <1>11 DEF MarkDelivered, shown, ledger, At, Its, IType, TypeOK, Call
  <2>3. CASE FirstDelivery(lease[Its(c)], "delivered")
    <3>1. lease[Its(c)] # None /\ lease[Its(c)] \in Lease
      BY <2>2, <2>3 DEF FirstDelivery, Enabled, IType, TypeOK
    <3>2. [lease[Its(c)] EXCEPT !.delivered = TRUE].notified = lease[Its(c)].notified
      BY <3>1 DEF Lease
    <3>3. lease' = [lease EXCEPT ![Its(c)] = [lease[Its(c)] EXCEPT !.delivered = TRUE]]
      BY <1>11, <2>3 DEF MarkDelivered, Put
    <3> QED
      BY <1>7, <2>1, <2>2, <3>1, <3>2, <3>3 DEF IType, TypeOK
  <2>4. CASE ~FirstDelivery(lease[Its(c)], "delivered")
    BY <1>c, <1>11, <2>1, <2>2, <2>4 DEF MarkDelivered
  <2> QED
    BY <2>3, <2>4
<1>12. ASSUME NEW c \in Caller, MarkNotified(c) PROVE IReminders'
  <2> DEFINE l == lease[Its(c)]
             m == [l EXCEPT !.notified = TRUE]
  <2>1. /\ Its(c) \in Session /\ l \in Lease /\ l # None /\ ~l.notified
        /\ call[c] \in Call /\ call[c].step = "act"
    BY <1>12 DEF MarkNotified, FirstDelivery, Enabled, At, Its, IType, TypeOK, Call
  <2>2. m \in Lease /\ m.notified
    BY <2>1 DEF Lease
  <2>3. lease' = [lease EXCEPT ![Its(c)] = m] /\ UNCHANGED <<grants, rewrites, reminded>>
    BY <1>12 DEF MarkNotified, Put, shown, ledger
  <2> HIDE DEF m
  <2> SUFFICES ASSUME NEW s \in Session
               PROVE (reminded[s] + Cardinality(Pending(s)) + Unspent(s) <= Budget(s))'
    BY DEF IReminders
  <2>4. reminded[s] + Cardinality(Pending(s)) + Unspent(s) <= Budget(s)
    BY DEF IReminders
  <2>5. /\ Cardinality(Pending(s)) \in Nat /\ Cardinality(Pending(s)') \in Nat
        /\ IsFiniteSet(Pending(s)) /\ Unspent(s) \in {0, 1} /\ Unspent(s)' \in {0, 1}
    BY PendingIsFinite, PendingIsFiniteNext, UnspentType
  <2>6. CASE s = Its(c)
    <3>1. Unspent(s) = 1 /\ Unspent(s)' = 0
      BY <2>1, <2>2, <2>3, <2>6 DEF Unspent, IType, TypeOK
    <3>2. Pending(s)' \subseteq Pending(s) \cup {c}
      BY <1>12, <2>1 DEF MarkNotified, Answers, Pending, At, Its, IType, TypeOK, Call
    <3>3. Cardinality(Pending(s)') <= Cardinality(Pending(s)) + 1
      <4>1. /\ IsFiniteSet(Pending(s) \cup {c})
            /\ Cardinality(Pending(s) \cup {c}) <= Cardinality(Pending(s)) + 1
        <5>1. Cardinality(Pending(s) \cup {c})
                = IF c \in Pending(s) THEN Cardinality(Pending(s)) ELSE Cardinality(Pending(s)) + 1
          BY <2>5, FS_AddElement
        <5> QED
          BY <2>5, <5>1, FS_AddElement
      <4>2. Cardinality(Pending(s)') <= Cardinality(Pending(s) \cup {c})
        BY <3>2, <4>1, FS_Subset
      <4>3. Cardinality(Pending(s) \cup {c}) \in Nat
        BY <4>1, FS_CardinalityType
      <4> QED
        BY <2>5, <4>1, <4>2, <4>3
    <3> QED
      BY <1>t, <2>3, <2>4, <2>5, <3>1, <3>3
  <2>7. CASE s # Its(c)
    <3>1. Pending(s)' \subseteq Pending(s)
      BY <1>12, <2>1, <2>7 DEF MarkNotified, Answers, Pending, At, Its, IType, TypeOK, Call
    <3>2. Unspent(s)' = Unspent(s)
      BY <2>1, <2>3, <2>7 DEF Unspent, IType, TypeOK
    <3>3. Cardinality(Pending(s)') <= Cardinality(Pending(s))
      BY <2>5, <3>1, FS_Subset
    <3> QED
      BY <1>t, <2>3, <2>4, <2>5, <3>2, <3>3
  <2> QED
    BY <2>6, <2>7
<1>13. ASSUME NEW c \in Caller, Respond(c) PROVE IReminders'
  <2>1. Its(c) \in Session /\ call[c] \in Call /\ At(c, "respond")
    BY <1>13 DEF Respond, At, Its, IType, TypeOK, Call
  <2>2. UNCHANGED <<lease, grants, rewrites>>
    BY <1>13 DEF Respond, store, ledger
  <2>3. \A s \in Session : Pending(s)' \subseteq Pending(s) \ {c}
    BY <1>13, <2>1 DEF Respond, Goes, Ends, Pending, At, Its, IType, TypeOK, Call
  <2>4. CASE ~call[c].reminder
    <3>1. UNCHANGED reminded
      BY <1>13, <2>1, <2>4 DEF Respond, IType, TypeOK
    <3> QED
      BY <1>c, <2>2, <2>3, <3>1
  <2>5. CASE call[c].reminder
    <3>1. reminded' = [reminded EXCEPT ![Its(c)] = @ + 1]
      BY <1>13, <2>5 DEF Respond
    <3> SUFFICES ASSUME NEW s \in Session
                 PROVE (reminded[s] + Cardinality(Pending(s)) + Unspent(s) <= Budget(s))'
      BY DEF IReminders
    <3>2. reminded[s] + Cardinality(Pending(s)) + Unspent(s) <= Budget(s)
      BY DEF IReminders
    <3>3. /\ Cardinality(Pending(s)) \in Nat /\ Cardinality(Pending(s)') \in Nat
          /\ IsFiniteSet(Pending(s)) /\ Unspent(s) \in {0, 1} /\ Unspent(s)' = Unspent(s)
      BY <2>2, PendingIsFinite, PendingIsFiniteNext, UnspentType DEF Unspent
    <3>4. CASE s = Its(c)
      <4>1. c \in Pending(s)
        BY <2>1, <2>5, <3>4 DEF Pending
      <4>2. /\ IsFiniteSet(Pending(s) \ {c})
            /\ Cardinality(Pending(s) \ {c}) = Cardinality(Pending(s)) - 1
        BY <3>3, <4>1, FS_RemoveElement
      <4>3. Cardinality(Pending(s)') <= Cardinality(Pending(s)) - 1
        BY <2>3, <4>2, FS_Subset
      <4>4. reminded'[s] = reminded[s] + 1
        BY <3>1, <3>4 DEF IType, TypeOK
      <4> QED
        BY <1>t, <2>2, <3>2, <3>3, <4>3, <4>4
    <3>5. CASE s # Its(c)
      <4>1. Cardinality(Pending(s)') <= Cardinality(Pending(s))
        BY <2>3, <3>3, FS_Subset
      <4>2. reminded'[s] = reminded[s]
        BY <2>1, <3>1, <3>5 DEF IType, TypeOK
      <4> QED
        BY <1>t, <2>2, <3>2, <3>3, <4>1, <4>2
    <3> QED
      BY <3>4, <3>5
  <2> QED
    BY <2>4, <2>5
<1>14. ASSUME NEW R \in SUBSET Repository, EditCatalog(R) PROVE IReminders'
  <2>1. \A s \in Session : Pending(s)' \subseteq Pending(s)
    BY <1>14 DEF EditCatalog, Pending, At, Its
  <2> QED
    BY <1>c, <1>14, <2>1 DEF EditCatalog, store, shown, ledger
<1>15. CASE Tick \/ UNCHANGED vars
  <2>1. \A s \in Session : Pending(s)' \subseteq Pending(s)
    BY <1>15 DEF Tick, vars, Pending, At, Its
  <2> QED
    BY <1>c, <1>15, <2>1 DEF Tick, vars, store, shown, ledger
<1>16. ASSUME NEW c \in Caller, Handle(c) PROVE IReminders'
  BY <1>1, <1>2, <1>5, <1>6, <1>8, <1>11, <1>12, <1>13, <1>16 DEF Handle
<1> QED
  BY <1>3, <1>4, <1>9, <1>10, <1>14, <1>15, <1>16 DEF Next

\* However the events of a Session overlap, the reminders it is shown never exceed its
\* leases and the rewrites of their decisions (RemindersAreAccounted).
THEOREM RemindersAreBounded == Spec => []RemindersAreAccounted
<1>1. Init => IReminders
  <2> SUFFICES ASSUME Init, NEW s \in Session
               PROVE reminded[s] + Cardinality(Pending(s)) + Unspent(s)
                       <= grants[s] + rewrites[s]
    BY DEF IReminders
  <2>1. Pending(s) = {} /\ Unspent(s) = 0
    BY DEF Init, Pending, Unspent, At
  <2> QED
    BY <2>1, FS_EmptySet DEF Init
<1>2. IType /\ IReminders => RemindersAreAccounted
  <2> SUFFICES ASSUME IType, IReminders, NEW s \in Session
               PROVE reminded[s] <= grants[s] + rewrites[s]
    BY DEF RemindersAreAccounted
  <2>1. reminded[s] + Cardinality(Pending(s)) + Unspent(s) <= grants[s] + rewrites[s]
    BY DEF IReminders
  <2> QED
    BY <2>1, PendingIsFinite, UnspentType DEF IType, TypeOK
<1> QED
  BY TypeInit, TypeStep, RemindersStep, <1>1, <1>2, PTL DEF Spec
=============================================================================

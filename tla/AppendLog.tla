----------------------------- MODULE AppendLog -----------------------------
(***************************************************************************)
(* What the Git knowledge store promises its callers (technical-design.md  *)
(* section 14): a batch made durable is pending until it is committed, as  *)
(* a whole and once, or until the operator sets it aside.                  *)
(***************************************************************************)
EXTENDS Sequences

CONSTANT Batch

VARIABLES
  status,  \* none, pending, committed or aside
  log      \* committed batches, oldest first

Init ==
  /\ status = [b \in Batch |-> "none"]
  /\ log = << >>

\* The journal of b became durable.
Accept(b) ==
  /\ status[b] = "none"
  /\ status' = [status EXCEPT ![b] = "pending"]
  /\ UNCHANGED log

\* One Git commit adds the whole batch.
Commit(b) ==
  /\ status[b] = "pending"
  /\ status' = [status EXCEPT ![b] = "committed"]
  /\ log' = Append(log, b)

\* The operator moves the journal, or what there is of it, to pending-aside.
SetAside(b) ==
  /\ status[b] \in {"none", "pending"}
  /\ status' = [status EXCEPT ![b] = "aside"]
  /\ UNCHANGED log

Next == \E b \in Batch : Accept(b) \/ Commit(b) \/ SetAside(b)

Spec == Init /\ [][Next]_<<status, log>>
=============================================================================

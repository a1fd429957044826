---------------------------- MODULE MCScopedRead ----------------------------
(* Instances of ScopedRead for TLC, and its mapping to AtomicReads.        *)
EXTENDS ScopedRead

\* The account the session will be on when every call has selected back.
RestingAccount ==
  IF ~live THEN NoAccount
  ELSE LET away == {c \in Calls : Away(c)}
       IN IF away = {} THEN active ELSE found[CHOOSE c \in away : TRUE]

Atomic == INSTANCE AtomicReads WITH
  account <- RestingAccount,
  ask <- [c \in Calls |-> ask[c]],
  answer <- outcome,
  rows <- [c \in Calls |-> IF outcome[c] = "ok" THEN seen[c] ELSE {}]

\* The calls of one server alone on a session implement atomic reads (mcp.rs:
\* read's mutex and scoped): no call sees what another selects, and the session
\* stays where it was.
ReadsAreAtomic == Atomic!ASpec
=============================================================================

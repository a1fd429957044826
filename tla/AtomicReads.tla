---------------------------- MODULE AtomicReads -----------------------------
(***************************************************************************)
(* What a tool call promises when nothing but its server uses the session: *)
(* a read of one account that happens at one moment, with the session on   *)
(* the account it was on all along.                                        *)
(***************************************************************************)
CONSTANTS Calls, Linked, Unlinked, NoAccount

VARIABLES
  account,  \* the account the session is on; NoAccount once it has lapsed
  ask,      \* the account each call asks for
  answer,   \* whether the call has its answer
  rows      \* the accounts whose pages the answer holds

avars == <<account, ask, answer, rows>>

AInit ==
  /\ account \in Linked
  /\ ask = [c \in Calls |-> NoAccount]
  /\ answer = [c \in Calls |-> "none"]
  /\ rows = [c \in Calls |-> {}]

Ask(c) ==
  /\ ask[c] = NoAccount
  /\ \E a \in Linked \cup Unlinked : ask' = [ask EXCEPT ![c] = a]
  /\ UNCHANGED <<account, answer, rows>>

\* The read takes effect: a session that is alive, a linked account, its pages.
ReadAll(c) ==
  /\ answer[c] = "none"
  /\ ask[c] \in Linked
  /\ account # NoAccount
  /\ answer' = [answer EXCEPT ![c] = "ok"]
  /\ rows' = [rows EXCEPT ![c] = {ask[c]}]
  /\ UNCHANGED <<account, ask>>

Refuse(c) ==
  /\ answer[c] = "none"
  /\ ask[c] # NoAccount
  /\ answer' = [answer EXCEPT ![c] = "error"]
  /\ UNCHANGED <<account, ask, rows>>

\* The one way a call moves the session: the way back failed, with a warning.
Strand(c) ==
  /\ answer[c] # "none"
  /\ account # NoAccount
  /\ ask[c] \in Linked
  /\ account' = ask[c]
  /\ UNCHANGED <<ask, answer, rows>>

Take(c) ==
  /\ answer[c] # "none"
  /\ ask' = [ask EXCEPT ![c] = NoAccount]
  /\ answer' = [answer EXCEPT ![c] = "none"]
  /\ rows' = [rows EXCEPT ![c] = {}]
  /\ UNCHANGED account

Expire ==
  /\ account # NoAccount
  /\ account' = NoAccount
  /\ UNCHANGED <<ask, answer, rows>>

ANext ==
  \/ \E c \in Calls : Ask(c) \/ ReadAll(c) \/ Refuse(c) \/ Strand(c) \/ Take(c)
  \/ Expire

ASpec == AInit /\ [][ANext]_avars
=============================================================================

-------------------------- MODULE ReminderPromise --------------------------
(***************************************************************************)
(* What a run of a reminder schedule promises, without instances, jobs,     *)
(* senders or queries: its chats are chosen once, each gets one message at   *)
(* most, and one outcome is reported, for good.  Whoever reads `completed`   *)
(* or `partial_failed` reads the last word: nothing is sent after it.  The    *)
(* runs are independent of each other.                                       *)
(***************************************************************************)
EXTENDS Integers

CONSTANTS Runs, Chats
VARIABLES
  wanted,   \* the chats of a run
  got,      \* messages of the run that reached a chat
  outcome   \* what is reported of it, "open" before

promise == <<wanted, got, outcome>>

Init ==
  /\ wanted = [r \in Runs |-> {}]
  /\ got = [r \in Runs |-> [c \in Chats |-> 0]]
  /\ outcome = [r \in Runs |-> "open"]

Stay(r) == UNCHANGED <<wanted[r], got[r], outcome[r]>>

Choose(r) ==
  /\ wanted[r] = {} /\ outcome[r] = "open"
  /\ wanted'[r] \in (SUBSET Chats) \ {{}} /\ UNCHANGED <<got[r], outcome[r]>>

\* A message may still arrive after a failure was reported.
Deliver(r) ==
  /\ outcome[r] \in {"open", "failed"}
  /\ \E c \in wanted[r] : got[r][c] = 0 /\ got'[r] = [got[r] EXCEPT ![c] = 1]
  /\ UNCHANGED <<wanted[r], outcome[r]>>

Report(r) ==
  /\ outcome[r] = "open" /\ wanted[r] # {}
  /\ outcome'[r] \in {"completed", "partial_failed", "failed"}
  /\ outcome'[r] = "completed" => \A c \in wanted[r] : got[r][c] = 1
  /\ outcome'[r] = "partial_failed" => \E c \in wanted[r] : got[r][c] = 1
  /\ UNCHANGED <<wanted[r], got[r]>>

Next == \A r \in Runs : Stay(r) \/ Choose(r) \/ Deliver(r) \/ Report(r)

Spec == Init /\ [][Next]_promise
=============================================================================

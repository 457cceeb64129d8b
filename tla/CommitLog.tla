----------------------------- MODULE CommitLog -----------------------------
(***************************************************************************)
(* What the Sequencer of python/nedb/concurrent.py promises its callers:   *)
(* one log that only grows, by whole batches of calls that are waiting for *)
(* an answer; a call enters it at most once; and a call is answered only   *)
(* once it is in the published log or was settled without an op.           *)
(***************************************************************************)
EXTENDS Integers, Sequences

CONSTANT Intents

VARIABLES pending,    \* calls that wait and are not settled
          committed,  \* the published log
          opless,     \* calls settled without an op: refused, or with nothing to log
          answered    \* calls that have been answered

vars == <<pending, committed, opless, answered>>

Init == pending = {} /\ committed = << >> /\ opless = {} /\ answered = {}

InLog(l) == {l[i] : i \in 1..Len(l)}

Submit(i) ==
  /\ i \notin pending \cup opless \cup answered \cup InLog(committed)
  /\ pending' = pending \cup {i}
  /\ UNCHANGED <<committed, opless, answered>>

\* A batch: some pending calls are appended, each once, and some need no op.
Commit ==
  LET new == {committed'[i] : i \in (Len(committed) + 1)..Len(committed')}
      no  == opless' \ opless
  IN  /\ Len(committed) <= Len(committed')
      /\ \A i \in 1..Len(committed) : committed'[i] = committed[i]
      /\ \A i, j \in 1..Len(committed') : committed'[i] = committed'[j] => i = j
      /\ new \subseteq pending
      /\ opless \subseteq opless' /\ no \subseteq pending /\ no \cap new = {}
      /\ pending' = pending \ (new \cup no)
      /\ UNCHANGED answered

Answer(i) ==
  /\ i \in InLog(committed) \cup opless
  /\ answered' = answered \cup {i}
  /\ UNCHANGED <<pending, committed, opless>>

Next == Commit \/ \E i \in Intents : Submit(i) \/ Answer(i)

Spec == Init /\ [][Next]_vars

=============================================================================

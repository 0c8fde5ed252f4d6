---------------------------- MODULE VaultLedger ----------------------------
(***************************************************************************)
(* What the write path of a vault promises its callers, without locks,     *)
(* steps, files or processes: attempts, each with an outcome, and a log of *)
(* the attempts that took effect.                                          *)
(***************************************************************************)
EXTENDS Naturals, Sequences

VARIABLES attempts,   \* attempts in the order they were started: key and outcome
          log         \* numbers of the attempts that took effect, in order

Outcomes == {"running", "completed", "failed"}
IsLogged(n) == \E i \in DOMAIN log : log[i] = n

Init == attempts = <<>> /\ log = <<>>

\* Somebody starts an attempt, with any key.
Start ==
  /\ Len(attempts') = Len(attempts) + 1
  /\ \A n \in DOMAIN attempts : attempts'[n] = attempts[n]
  /\ attempts'[Len(attempts')].outcome = "running"
  /\ log' = log

\* An attempt takes effect: only the latest, only once, and an ingest only if
\* no attempt with its key has.
Commit ==
  /\ LET n == Len(attempts)
     IN  /\ n # 0
         /\ attempts[n].outcome = "running"
         /\ ~IsLogged(n)
         /\ attempts[n].key.kind # "rebuild"
         /\ attempts[n].key.kind = "ingest" =>
              \A i \in DOMAIN log : attempts[log[i]].key # attempts[n].key
         /\ log' = Append(log, n)
  /\ attempts' = attempts

\* The outcome of an attempt is recorded, or corrected: completed only if it
\* took effect.
Settle ==
  /\ \E n \in DOMAIN attempts, o \in Outcomes :
       /\ o = "completed" => IsLogged(n) \/ attempts[n].key.kind = "rebuild"
       /\ attempts' = [attempts EXCEPT ![n] = [key |-> attempts[n].key, outcome |-> o]]
  /\ log' = log

Next == Start \/ Commit \/ Settle

Spec == Init /\ [][Next]_<<attempts, log>>

=============================================================================

---------------------------- MODULE VaultMutex ----------------------------
(***************************************************************************)
(* What the lock of a vault promises, without a file, a payload, an age or *)
(* a Doctor: one process at a time has it, only that process is inside a   *)
(* command, the lock of a process that dies is nobody's, and nobody's lock *)
(* alone is ever cleared away.                                             *)
(***************************************************************************)
CONSTANT Procs

VARIABLES holder,  \* "free", a living process, or "orphan"
          inside   \* the processes that believe they hold the lock

Init == holder = "free" /\ inside = {}

\* A process gets the lock, and may be inside at once ...
Take(p) ==
  /\ holder = "free"
  /\ holder' = p
  /\ inside' \in {inside, inside \cup {p}}

\* ... or later.
Enter(p) ==
  /\ holder = p
  /\ holder' = holder
  /\ inside' = inside \cup {p}

\* The holder gives it back, or dies with it.
Return(p) ==
  /\ holder = p
  /\ holder' \in {"free", "orphan"}
  /\ inside' = inside \ {p}

\* The lock of a dead process is moved out of the way.
Clear ==
  /\ holder = "orphan"
  /\ holder' = "free"
  /\ inside' = inside

Next == (\E p \in Procs : Take(p) \/ Enter(p) \/ Return(p)) \/ Clear

Spec == Init /\ [][Next]_<<holder, inside>>

=============================================================================

----------------------------- MODULE Publication -----------------------------
(***************************************************************************)
(* What a run of so2a promises about the file at its output path, without  *)
(* how it gets there: the file is left alone while the run works, then     *)
(* emptied once and only ever extended towards the archive, and the run    *)
(* reports success only of the whole archive.  A run may fail, or be       *)
(* killed, at any time; what it leaves then is the file as it was before,  *)
(* or a prefix of the archive, never a mixture of the two.                 *)
(***************************************************************************)
EXTENDS Naturals, Sequences

CONSTANTS
  Runs,   \* the runs that have their output path to themselves
  Goal    \* Goal[r]: the archive r is to leave

VARIABLES
  phase,  \* phase[r]: what r is doing
  out     \* out[r]: the file at r's output path

Phases == {"working", "publishing", "succeeded", "failed"}

\* Anything may be at an output path before.
Init ==
  /\ phase = [r \in Runs |-> "working"]
  /\ out = [r \in Runs |-> out[r]]

\* s is the part of Goal[r] written so far, t some more of it.
Extends(r, s, t) ==
  \E n \in 0..Len(Goal[r]), m \in 0..Len(Goal[r]) :
    n <= m /\ s = SubSeq(Goal[r], 1, n) /\ t = SubSeq(Goal[r], 1, m)

\* The output is emptied, or created.
Start(r) ==
  /\ phase[r] = "working"
  /\ phase' = [phase EXCEPT ![r] = "publishing"]
  /\ out' = [out EXCEPT ![r] = <<>>]

\* More of the archive is written; this may be the last thing r does.
Extend(r) ==
  /\ phase[r] = "publishing"
  /\ Extends(r, out[r], out'[r])
  /\ out' = [out EXCEPT ![r] = out'[r]]
  /\ phase' \in {phase, [phase EXCEPT ![r] = "failed"]}

Succeed(r) ==
  /\ phase[r] = "publishing"
  /\ out[r] = Goal[r]
  /\ phase' = [phase EXCEPT ![r] = "succeeded"]
  /\ UNCHANGED out

Fail(r) ==
  /\ phase[r] \in {"working", "publishing"}
  /\ phase' = [phase EXCEPT ![r] = "failed"]
  /\ UNCHANGED out

Next == \E r \in Runs : Start(r) \/ Extend(r) \/ Succeed(r) \/ Fail(r)

Spec == Init /\ [][Next]_<<phase, out>>
=============================================================================

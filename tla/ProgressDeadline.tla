-------------------------- MODULE ProgressDeadline --------------------------
(***************************************************************************)
(* The progress deadline of a deployment (internal/status/cod).  Times are *)
(* ages: how long ago something was.                                       *)
(***************************************************************************)
EXTENDS Integers, FiniteSets, FiniteSetsExt

CONSTANTS
  Minutes,   \* spec.progressDeadlineMinutes, at least 1; 0: not set
  Unit,      \* a minute in the units of the clock
  Width      \* bits of a time.Duration

\* Of the instantiating module, which assumes it.  The last conjunct follows
\* from the others, but the provers know no powers.
DeadlineAssumption ==
  /\ Minutes \in Nat /\ Unit \in Nat \ {0} /\ Width \in Nat \ {0}
  /\ 2 ^ Width \in Nat \ {0}

\* A product in two's complement.
Wrapped(n) ==
  LET m == n % (2 ^ Width)
  IN IF m >= 2 ^ (Width - 1) THEN m - 2 ^ Width ELSE m

Deadline == Wrapped(Minutes * Unit)

\* What the specification of the field says, without a width.
Promised == Minutes * Unit

\* Variant: the creation alone counts.
SinceCreation(age, stamps) == age

\* How long ago the last milestone was: creation, or a completed phase.
SinceMilestone(age, stamps) == Min({age} \cup stamps)

Verdict(says, requeueAfter) == [says |-> says, requeueAfter |-> requeueAfter]

\* Variant: nothing is asked to run at the deadline.
EvaluateOnEvents(active, completed, age, stamps) ==
  Verdict(IF ~active THEN "NoActiveRevisions"
          ELSE IF completed THEN "Progressed"
          ELSE IF Minutes # 0 /\ SinceMilestone(age, stamps) >= Deadline THEN "DeadlineExceeded"
          ELSE "Progressing", 0)

\* EvaluateDeadline: what the Progressing condition says of the latest active
\* revision, and after which time to look again (0: not at all).
EvaluateDeadline(active, completed, age, stamps) ==
  LET elapsed == SinceMilestone(age, stamps)
  IN IF ~active THEN Verdict("NoActiveRevisions", 0)
     ELSE IF completed THEN Verdict("Progressed", 0)
     ELSE IF Minutes = 0 THEN Verdict("Progressing", 0)
     ELSE IF elapsed >= Deadline THEN Verdict("DeadlineExceeded", 0)
     ELSE Verdict("Progressing", Deadline - elapsed)
=============================================================================

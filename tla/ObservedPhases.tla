--------------------------- MODULE ObservedPhases ---------------------------
(***************************************************************************)
(* The status of a ClusterObjectSet as internal/status/cos computes it     *)
(* from what the phase engine reports, and the rules by which the API      *)
(* server accepts it.                                                      *)
(*                                                                         *)
(* The phases of the spec are a sequence of sets of objects; a phase is    *)
(* named by its position.  What the engine reports of a phase is a         *)
(* function from the objects it looked at to their results, or why the     *)
(* phase was refused, and it may report fewer phases than the spec has.    *)
(* A message is its length.                                                *)
(* Times are ages: now is 0.                                               *)
(***************************************************************************)
EXTENDS Naturals, Sequences, FiniteSets, FiniteSetsExt

CONSTANTS
  MaxMessage,  \* characters the API server takes in a message
  Never,       \* the "age" of a time that is not set
  None         \* an absent value: no hash, no counts

Fields == {"total", "present", "synced", "available"}

\* Of the instantiating module, which assumes it.
ObservedPhasesAssumption ==
  /\ MaxMessage \in Nat \ {0}
  /\ Never \notin Nat /\ None \notin [Fields -> Nat]

Counts(total, present, synced, available) ==
  [total |-> total, present |-> present, synced |-> synced, available |-> available]

NoDetails == [o \in {} |-> {}]

Observed(status, message, counts, details) ==
  [status |-> status, message |-> message, counts |-> counts, details |-> details,
   completedAt |-> Never]

\* The status of a revision that no reconcile has reported on.
NewStatus ==
  [hash |-> None, available |-> "Unknown", reason |-> "None", phases |-> << >>,
   counts |-> None, completedAt |-> Never]

-----------------------------------------------------------------------------
(* Messages.  Those of phases and of probes are truncated, what a read-only *)
(* comparison found different is listed in full.                           *)

Truncated(n) == IF n <= MaxMessage THEN n ELSE MaxMessage

PausedObjectMessages(x) ==
  IF x.action = "Created" THEN {1} ELSE {1 + x.differences}

ObjectMessages(x) ==
  IF x.paused /\ x.action # "Idle" THEN PausedObjectMessages(x)
  ELSE LET said == {1 : why \in {x.action} \cap {"Collision"}}
                   \cup {Truncated(n) : n \in x.probes}
       IN IF said = {} THEN {1} ELSE said

-----------------------------------------------------------------------------
(* Phases after a reconcile.                                               *)

\* Variant: an object that a read-only pass would create counts as present.
IsPresentUnlessAbsent(x) == TRUE

IsPresent(x) == ~x.paused \/ x.action # "Created"

\* Variant: what a read-only pass would update counts as synced.
IsSyncedUnpaused(x) == x.action \in {"Idle", "Updated", "Created", "Recovered"}

IsSynced(x) ==
  x.action \in IF x.paused THEN {"Idle"} ELSE {"Idle", "Updated", "Created", "Recovered"}

ReconciledPhase(objects, results) ==
  LET Number(Is(_)) == Cardinality({o \in DOMAIN results : Is(results[o])})
      counts == Counts(Cardinality(objects), Number(IsPresent), Number(IsSynced),
                       Number(LAMBDA x : x.complete))
      details == [o \in {p \in DOMAIN results : ~results[p].complete} |->
                    ObjectMessages(results[o])]
  IN IF \E o \in DOMAIN results : results[o].paused
     THEN Observed("Pending", 1, counts, details)
     ELSE Observed(IF counts.synced = counts.total THEN "WaitingForAssertions"
                   ELSE "Reconciling", 0, counts, details)

\* Validation found nothing wrong with the phase.  A refusal is what it says
\* of the phase, and of objects of it.
NoRefusal == [absent |-> TRUE]

\* applyValidationError: nothing but the total is counted, if that.
InvalidPhase(total, refusal) ==
  Observed("Invalid", Truncated(refusal.phase), Counts(total, 0, 0, 0),
           [o \in DOMAIN refusal.objects |-> {Truncated(n) : n \in refusal.objects[o]}])

IncompletePhase(objects, reported) ==
  IF reported.refusal # NoRefusal THEN InvalidPhase(Cardinality(objects), reported.refusal)
  ELSE ReconciledPhase(objects, reported.objects)

\* Boxcutter: every object was reconciled and is complete.
IsComplete(objects, results) ==
  objects \subseteq DOMAIN results /\ \A o \in objects : results[o].complete

\* mapSpecPhases: all phases of the spec, whether reported or not.
MapSpecPhases(phases, reported, complete, incomplete, unevaluated) ==
  [k \in DOMAIN phases |->
     IF k \notin DOMAIN reported
     THEN Observed("Unknown", unevaluated, Counts(Cardinality(phases[k]), 0, 0, 0), NoDetails)
     ELSE IF reported[k].complete THEN complete[k] ELSE incomplete[k]]

\* Variant: a phase that was not reported is left out.
BuildReportedPhases(phases, reported) ==
  [k \in DOMAIN reported |-> Observed("Unknown", 1, Counts(0, 0, 0, 0), NoDetails)]

BuildObservedPhases(phases, reported) ==
  LET all == [k \in DOMAIN phases |-> Cardinality(phases[k])]
      complete == [k \in DOMAIN phases |->
        Observed("Available", 0, Counts(all[k], all[k], all[k], all[k]), NoDetails)]
      incomplete == [k \in DOMAIN reported |->
        IncompletePhase(phases[k], reported[k])]
  IN MapSpecPhases(phases, reported, complete, incomplete, 1)

AllPhasesWithStatus(phases, status) ==
  [k \in DOMAIN phases |->
     Observed(status, 0, Counts(Cardinality(phases[k]), 0, 0, 0), NoDetails)]

\* Preflight refused some phases; the others were not looked at.
InvalidPhases(phases, errors) ==
  [k \in DOMAIN phases |->
     IF k \in DOMAIN errors
     THEN InvalidPhase(0, errors[k])
     ELSE Observed("Unknown", 1, Counts(0, 0, 0, 0), NoDetails)]

\* An engine that failed before it began has no result.
NoResult == [absent |-> TRUE]

FromReconcileResult(phases, result) ==
  CASE result = NoResult                             -> << >>
    [] result # NoResult /\ DOMAIN result.errors # {} -> InvalidPhases(phases, result.errors)
    [] result # NoResult /\ DOMAIN result.errors = {} ->
         IF result.progressed THEN AllPhasesWithStatus(phases, "Superseded")
         ELSE BuildObservedPhases(phases, result.phases)

-----------------------------------------------------------------------------
(* Phases after a teardown.  Of a phase that is not torn down yet the      *)
(* report names the objects that are still there.                          *)

TearingDownPhase(objects, waiting, active) ==
  Observed(IF active THEN "TearingDown" ELSE "Pending", IF active THEN 0 ELSE 1,
           Counts(Cardinality(objects), Cardinality(waiting), 0, 0),
           [o \in waiting |-> {1}])

FromTeardownResult(phases, result) ==
  IF result = NoResult THEN << >>
  ELSE LET complete == [k \in DOMAIN phases |->
             Observed("TeardownComplete", 0, Counts(Cardinality(phases[k]), 0, 0, 0), NoDetails)]
           incomplete == [k \in DOMAIN result.phases |->
             TearingDownPhase(phases[k], result.phases[k].waiting, k = result.active)]
       IN MapSpecPhases(phases, result.phases, complete, incomplete, 0)

-----------------------------------------------------------------------------
(* The status.                                                             *)

\* Variant: a phase that is available is stamped again.
RestampCompletionTimes(old, new) ==
  [k \in DOMAIN new |->
     IF new[k].status = "Available" THEN [new[k] EXCEPT !.completedAt = 0]
     ELSE IF k \in DOMAIN old THEN [new[k] EXCEPT !.completedAt = old[k].completedAt]
     ELSE new[k]]

\* The first time a phase was available is kept, the current one is stamped.
PreserveCompletionTimes(old, new) ==
  [k \in DOMAIN new |->
     IF k \in DOMAIN old /\ old[k].completedAt # Never
     THEN [new[k] EXCEPT !.completedAt = old[k].completedAt]
     ELSE IF new[k].status = "Available" THEN [new[k] EXCEPT !.completedAt = 0]
     ELSE new[k]]

SumObjectCounts(phases) ==
  IF phases = << >> THEN None
  ELSE [f \in Fields |-> MapThenSumSet(LAMBDA k : phases[k].counts[f], DOMAIN phases)]

Condition(status, available, reason) ==
  [status EXCEPT !.available = available, !.reason = reason]

\* Apply: the condition, the phases if there are new ones, always the counts.
Apply(status, phases) ==
  [status EXCEPT !.phases = phases, !.counts = SumObjectCounts(phases)]

\* Variant: completedAt follows every reconcile that finds the phases complete.
CompletedAfresh(status) == [status EXCEPT !.completedAt = 0]

Completed(status) ==
  [status EXCEPT !.completedAt = IF @ = Never THEN 0 ELSE @]

ResolutionErrorUpdate(status, pinned) ==
  Apply(Condition(status, IF pinned = None THEN "False" ELSE "Unknown", "InvalidRevision"),
        status.phases)

InternalErrorUpdate(status) ==
  Apply(Condition(status, "Unknown", "InternalError"), << >>)

FromReconcile(status, specPhases, result, error) ==
  LET u == Apply(status, PreserveCompletionTimes(status.phases,
                           FromReconcileResult(specPhases, result)))
  IN CASE error = "resolution" -> ResolutionErrorUpdate(status, status.hash)
       [] error = "internal"   -> InternalErrorUpdate(status)
       [] error = "object"     -> Condition(u, "Unknown", "ReconcileError")
       [] error = "none"       ->
            IF DOMAIN result.errors # {} THEN Condition(u, "False", "InvalidRevision")
            ELSE IF result.progressed THEN Condition(u, "False", "Superseded")
            ELSE IF result.complete THEN Completed(Condition(u, "True", "Available"))
            ELSE Condition(u, "False", "Unavailable")

FromTeardown(status, specPhases, result, error) ==
  LET u == Apply(status, PreserveCompletionTimes(status.phases,
                           FromTeardownResult(specPhases, result)))
  IN CASE error = "resolution" -> ResolutionErrorUpdate(status, status.hash)
       [] error = "internal"   -> InternalErrorUpdate(status)
       [] error = "object"     -> Condition(u, "Unknown", "TeardownError")
       [] error = "none"       -> Condition(u, "False", "Archived")

-----------------------------------------------------------------------------
(* What the API server refuses: the rules of the resource definition that  *)
(* the status could break.                                                 *)

KeptOnceSet(old, new, unset) == old # unset => new = old

ObservedPhaseAdmitted(old, p) ==
  /\ KeptOnceSet(old.completedAt, p.completedAt, Never)
  /\ p.message <= MaxMessage
  /\ \A o \in DOMAIN p.details : \A n \in p.details[o] : n <= MaxMessage

Admitted(old, new) ==
  /\ KeptOnceSet(old.completedAt, new.completedAt, Never)
  /\ KeptOnceSet(old.hash, new.hash, None)
  /\ (new.phases = << >>) = (new.counts = None)
  /\ new.phases # << >> =>
       \A f \in Fields :
         new.counts[f] = MapThenSumSet(LAMBDA k : new.phases[k].counts[f], DOMAIN new.phases)
  /\ \A k \in DOMAIN new.phases :
       ObservedPhaseAdmitted(IF k \in DOMAIN old.phases THEN old.phases[k] ELSE new.phases[k],
                             new.phases[k])
=============================================================================

---------------------------- MODULE GatedRollout ----------------------------
(***************************************************************************)
(* The example program examples/gated-rollout: a terminal dialog that      *)
(* walks its user through a rollout of three gated phases and an upgrade,  *)
(* step by step, and waits in between until the cluster shows the effect.  *)
(*                                                                         *)
(* The dialog is a Bubbletea model: Update handles one message after the   *)
(* other, while commands run concurrently and answer with messages in any  *)
(* order.  Every finished step asks for a refresh, whose answer starts a   *)
(* timer, which asks for a refresh: each adds a chain to those there are.  *)
(* The operator is seen from outside: it stamps and reconciles.            *)
(***************************************************************************)
EXTENDS Naturals, Sequences, FiniteSets, FiniteSetsExt, Bags, BagsExt

CONSTANTS
  MaxInFlight,  \* bound: refreshes under way; a finished step may add one
  Budget        \* bound: how often each disturbance, and any, may happen

Disturbances == {"refresh", "action", "lost", "quit", "any"}

ASSUME GatedAssumption == MaxInFlight \in Nat \ {0} /\ Budget \in [Disturbances -> Nat]

VARIABLES
  ui,        \* the model: step, waiting, executing, err, done, cos
  running,   \* bag of the steps whose action is being executed
  results,   \* bag of stepDone messages: whether there was no error
  asked,     \* refreshes that have not read the cluster yet
  answers,   \* bag of refresh messages
  ticks,     \* timers that run
  cod,       \* the deployment's template: 1, 2, or 0 if there is none
  cos,       \* the highest active revision; NoCOS if there is none
  cms,       \* the ConfigMaps; Missing if there is none
  performed, \* history: steps whose action has had its effect
  mishaps,   \* history: what has gone wrong for this run of the dialog
  budget     \* disturbances left

commands == <<running, results, asked, answers, ticks>>
cluster  == <<cod, cos, cms>>
history  == <<performed, mishaps>>
vars     == <<ui, commands, cluster, history, budget>>

Spend(kind) ==
  /\ budget[kind] > 0 /\ budget["any"] > 0
  /\ budget' = [budget EXCEPT ![kind] = @ - 1, !["any"] = @ - 1]

-----------------------------------------------------------------------------
(* The two templates: phases of ConfigMaps with an assertion about a gate. *)

Phases == <<{"p1-o1", "p1-o2"}, {"p2-o1", "p2-o2"}, {"p3-o1", "p3-o2", "p3-o3"}>>
CMs    == UNION {Phases[k] : k \in 1 .. 3}

CM(foo, gate, upgrade) == [foo |-> foo, gate |-> gate, upgrade |-> upgrade]
Missing == CM("", "", "")

\* buildCODv1 and buildCODv2: content, gate and extra assertion of an object.
Changed == {"p1-o1", "p1-o2", "p3-o1"}

Foo(v, c) == IF v = 2 /\ c \in Changed THEN "baz" ELSE "bar"

\* An assertion says which value a key of the object must have.
Assertions(v, c) ==
  {<<"gate", IF v = 2 /\ c \in Changed THEN "v2-open" ELSE "open">>}
  \cup (IF v = 2 /\ c = "p3-o3" THEN {<<"upgrade", "done">>} ELSE {})

\* The probe made of an object's assertions: all hold.  A ConfigMap has no
\* observed generation that could be behind.
ProbeForAssertions(assertions, cm) == \A a \in assertions : cm[a[1]] = a[2]

Fits(v, c, cm) == ProbeForAssertions(Assertions(v, c), cm)

-----------------------------------------------------------------------------
(* The steps of the dialog.                                                *)

None          == [on |-> "nothing"]
Phase(k, s)   == [on |-> "phase", phase |-> k, status |-> s, revision |-> {1, 2}]
Rollout       == [on |-> "rollout"]
Patch(c, k, v) == [do |-> "patch", cm |-> c, key |-> k, value |-> v]
Step(a, w)    == [action |-> a, waitFor |-> w]

\* Variant: revisions are counted from 0.
UpgradedFromZero == [Phase(1, "WaitingForAssertions") EXCEPT !.revision = {1}]

Upgraded == [Phase(1, "WaitingForAssertions") EXCEPT !.revision = {2}]

\* buildSteps, numbered from 0 as in the code.
BuildSteps ==
  LET Gate(c, w) == Step(Patch(c, "gate", "open"), w)
  IN <<Step([do |-> "create"], Phase(1, "WaitingForAssertions")),
       Gate("p1-o1", None), Gate("p1-o2", Phase(1, "Available")),
       Gate("p2-o1", None), Gate("p2-o2", Phase(2, "Available")),
       Gate("p3-o1", None), Gate("p3-o2", None), Gate("p3-o3", Rollout),
       Step([do |-> "upgrade"], Upgraded),
       Step(Patch("p1-o1", "gate", "v2-open"), None),
       Step(Patch("p1-o2", "gate", "v2-open"), Phase(1, "Available")),
       Step(Patch("p3-o1", "gate", "v2-open"), None),
       Step(Patch("p3-o3", "upgrade", "done"), Rollout)>>

Steps   == 0 .. Len(BuildSteps) - 1
Nth(i)  == BuildSteps[i + 1]

NoCOS == [revision |-> 0, phases |-> << >>, reason |-> ""]

\* Whether what the dialog has seen last is what a step waits for; a revision
\* without status has no phases (phaseStatus, conditionInfo).
Satisfied(w, c) ==
  /\ c # NoCOS
  /\ w.on = "phase" => /\ w.phase \in DOMAIN c.phases /\ c.phases[w.phase] = w.status
                       /\ c.revision \in w.revision
  /\ w.on = "rollout" => c.reason = "Available"

-----------------------------------------------------------------------------
(* The dialog: Update, by kind of message.                                 *)

InFlight == asked + BagCardinality(answers)

NewModel == [step |-> 0, waiting |-> FALSE, executing |-> FALSE, err |-> FALSE,
             done |-> FALSE, cos |-> NoCOS, at |-> "open"]

\* What viewPrompt tells the user.
Prompt ==
  CASE ui.err                                              -> "retry"
    [] ~ui.err /\ ui.done                                  -> "done"
    [] ~ui.err /\ ~ui.done /\ ui.executing                 -> "executing"
    [] ~ui.err /\ ~ui.done /\ ~ui.executing /\ ui.waiting  -> "waiting"
    [] OTHER                                               -> "continue"

\* Variant: Enter starts a step although one is executing.
EnterEagerly ==
  /\ ui.at = "open" /\ Prompt \in {"continue", "executing"}
  /\ ui' = [ui EXCEPT !.err = FALSE, !.executing = TRUE]
  /\ running' = BagAdd(running, ui.step)
  /\ UNCHANGED <<results, asked, answers, ticks, cluster, history, budget>>

\* Enter.  After an error the current step is executed, whatever the error was
\* about; past the last step there is none, and the program panics.
Enter ==
  /\ ui.at = "open" /\ Prompt \in {"retry", "continue"}
  /\ IF ui.step \in Steps
     THEN /\ ui' = [ui EXCEPT !.err = FALSE, !.executing = TRUE]
          /\ running' = BagAdd(running, ui.step)
     ELSE ui' = [ui EXCEPT !.at = "panic"] /\ UNCHANGED running
  /\ mishaps' = IF ui.waiting \/ ui.executing \/ ui.done THEN mishaps \cup {"repeated"} ELSE mishaps
  /\ UNCHANGED <<results, asked, answers, ticks, cluster, performed, budget>>

\* Variant: the last step does not end the dialog.
AdvancedOpenly(m) == [m EXCEPT !.waiting = FALSE, !.step = @ + 1]

Advanced(m) ==
  [m EXCEPT !.waiting = FALSE, !.step = @ + 1, !.done = m.step + 1 \notin Steps]

\* What a step that was executed leads to: the next one, or waiting.
StepSucceeded(m) ==
  LET n == [m EXCEPT !.executing = FALSE, !.err = FALSE]
  IN IF m.step \notin Steps THEN [n EXCEPT !.at = "panic"]
     ELSE IF Nth(m.step).waitFor = None THEN Advanced(n)
     ELSE [n EXCEPT !.waiting = TRUE]

\* stepDoneMsg.  The message does not say which step it is about.
HandleStepDone ==
  /\ ui.at = "open"
  /\ \E ok \in DOMAIN results :
       /\ results' = BagRemove(results, ok)
       /\ IF ok
          THEN /\ InFlight <= MaxInFlight
               /\ ui' = StepSucceeded(ui) /\ asked' = asked + 1
          ELSE /\ ui' = [ui EXCEPT !.executing = FALSE, !.err = TRUE]
               /\ UNCHANGED asked
  /\ UNCHANGED <<running, answers, ticks, cluster, history, budget>>

\* Variant: what a wait asks for is not looked at.
RefreshedAnyway(m) == IF m.waiting /\ m.step \in Steps THEN Advanced(m) ELSE m

Refreshed(m) ==
  IF m.waiting /\ m.step \in Steps /\ Nth(m.step).waitFor # None
     /\ Satisfied(Nth(m.step).waitFor, m.cos)
  THEN Advanced(m) ELSE m

\* refreshMsg.  What was seen before stays if there was an error, and the wait
\* is looked at all the same.  Answers may overtake each other.
HandleRefresh ==
  /\ ui.at = "open"
  /\ \E a \in DOMAIN answers :
       /\ answers' = BagRemove(answers, a)
       /\ ui' = Refreshed(IF a.ok THEN [ui EXCEPT !.cos = a.cos] ELSE [ui EXCEPT !.err = TRUE])
       /\ mishaps' = IF a.ok /\ a.cos.revision < ui.cos.revision
                     THEN mishaps \cup {"misled"} ELSE mishaps
  /\ ticks' = ticks + 1
  /\ UNCHANGED <<running, results, asked, cluster, performed, budget>>

\* tickMsg.
HandleTick ==
  /\ ui.at = "open" /\ ticks > 0 /\ InFlight < MaxInFlight
  /\ ticks' = ticks - 1 /\ asked' = asked + 1
  /\ UNCHANGED <<ui, running, results, answers, cluster, history, budget>>

\* refreshCmd: the list is read, or the call fails.
ReadCluster ==
  /\ asked > 0
  /\ asked' = asked - 1
  /\ answers' = BagAdd(answers, [ok |-> TRUE, cos |-> cos])
  /\ UNCHANGED <<ui, running, results, ticks, cluster, history, budget>>

ReadFails ==
  /\ asked > 0 /\ Spend("refresh")
  /\ asked' = asked - 1
  /\ answers' = BagAdd(answers, [ok |-> FALSE, cos |-> NoCOS])
  /\ UNCHANGED <<ui, running, results, ticks, cluster, history>>

-----------------------------------------------------------------------------
(* Commands: the action of a step at the API server.                       *)

Applies(a) ==
  CASE a.do = "create"  -> cod = 0
    [] a.do = "upgrade" -> cod # 0
    [] a.do = "patch"   -> cms[a.cm] # Missing

Effect(a) ==
  /\ cod' = IF a.do = "patch" THEN cod ELSE IF a.do = "create" THEN 1 ELSE 2
  /\ cms' = IF a.do # "patch" THEN cms
            ELSE IF a.key = "gate" THEN [cms EXCEPT ![a.cm].gate = a.value]
            ELSE [cms EXCEPT ![a.cm].upgrade = a.value]

\* executeStepCmd: the action, and the message that it is done.
Perform(i) ==
  /\ running' = BagRemove(running, i)
  /\ IF Applies(Nth(i).action)
     THEN Effect(Nth(i).action) /\ performed' = performed \cup {i}
     ELSE UNCHANGED <<cod, cms, performed>>
  /\ results' = BagAdd(results, Applies(Nth(i).action))
  /\ UNCHANGED <<ui, asked, answers, ticks, cos, mishaps, budget>>

\* The request, or the answer to it, does not get through.
PerformFails(i) ==
  /\ running' = BagRemove(running, i) /\ results' = BagAdd(results, FALSE)
  /\ \/ Spend("action") /\ UNCHANGED <<cod, cms, performed, mishaps>>
     \/ /\ Spend("lost") /\ Applies(Nth(i).action)
        /\ Effect(Nth(i).action) /\ performed' = performed \cup {i}
        /\ mishaps' = mishaps \cup {"lost"}
  /\ UNCHANGED <<ui, asked, answers, ticks, cos>>

-----------------------------------------------------------------------------
(* The operator, from outside.                                             *)

\* The deployment controller stamps a revision from a new template.
Stamp ==
  /\ cod > cos.revision
  /\ cos' = [NoCOS EXCEPT !.revision = cod]
  /\ UNCHANGED <<ui, commands, cod, cms, history, budget>>

\* A ConfigMap as the operator applies it: the gate belongs to the user.
Applied(c, cm) == [cm EXCEPT !.foo = Foo(cos.revision, c)]

\* The revision's controller applies the phases up to the first that is not
\* complete and reports.  Nobody closes a gate, so that no phase regresses.
Reconcile ==
  /\ cos # NoCOS /\ cod # 0
  /\ LET Complete(k) == \A c \in Phases[k] : Fits(cos.revision, c, cms[c])
         end    == Min({3} \cup {k \in 1 .. 3 : ~Complete(k)})
         status == [k \in 1 .. 3 |-> IF k > end THEN "Pending"
                                     ELSE IF Complete(k) THEN "Available"
                                     ELSE "WaitingForAssertions"]
         next   == [cos EXCEPT !.phases = status,
                               !.reason = IF Complete(end) THEN "Available" ELSE "Unavailable"]
     IN /\ cos' = next
        /\ cms' = [c \in CMs |-> IF \E k \in 1 .. end : c \in Phases[k] THEN Applied(c, cms[c])
                                 ELSE cms[c]]
  /\ UNCHANGED <<ui, commands, cod, history, budget>>

\* A deleted deployment takes its revisions and their objects with it.
CollectGarbage ==
  /\ cod = 0 /\ cos # NoCOS
  /\ cos' = NoCOS /\ cms' = [c \in CMs |-> Missing]
  /\ UNCHANGED <<ui, commands, cod, history, budget>>

-----------------------------------------------------------------------------
(* The user quits and starts the program again, which cleans up first: it  *)
(* deletes the deployment and waits until no revision is listed.           *)

Quit ==
  /\ ui.at = "open" /\ Spend("quit")
  /\ ui' = [NewModel EXCEPT !.at = "cleanup"]
  /\ running' = EmptyBag /\ results' = EmptyBag /\ answers' = EmptyBag
  /\ asked' = 0 /\ ticks' = 0
  /\ cod' = 0
  /\ performed' = {} /\ mishaps' = {}
  /\ UNCHANGED <<cos, cms>>

\* Variant: cleanup does not wait.
CleanupAtOnce ==
  /\ ui.at = "cleanup"
  /\ ui' = NewModel /\ ticks' = 1
  /\ UNCHANGED <<running, results, asked, answers, cluster, history, budget>>

Cleanup ==
  /\ ui.at = "cleanup" /\ cos = NoCOS
  /\ ui' = NewModel /\ ticks' = 1
  /\ UNCHANGED <<running, results, asked, answers, cluster, history, budget>>

Init ==
  /\ ui = NewModel /\ ticks = 1
  /\ running = EmptyBag /\ results = EmptyBag /\ answers = EmptyBag /\ asked = 0
  /\ cod = 0 /\ cos = NoCOS /\ cms = [c \in CMs |-> Missing]
  /\ performed = {} /\ mishaps = {} /\ budget = Budget

Operator   == Stamp \/ CollectGarbage \/ Reconcile
Executing  == HandleStepDone \/ Cleanup \/ \E i \in DOMAIN running : Perform(i)
Refreshing == HandleRefresh \/ HandleTick \/ ReadCluster

Next ==
  \/ Enter \/ Executing \/ Refreshing \/ Operator
  \/ ReadFails \/ Quit \/ \E i \in DOMAIN running : PerformFails(i)

\* The user goes on whenever asked; actions are executed and reported, some
\* refresh chain goes on; the operator works.
Spec ==
  /\ Init /\ [][Next]_vars
  /\ WF_vars(Enter) /\ WF_vars(Executing) /\ WF_vars(Refreshing) /\ WF_vars(Operator)

-----------------------------------------------------------------------------
(* Properties.                                                             *)

IsCOS(c) ==
  /\ c.revision \in 0 .. 2
  /\ c.phases = << >> \/ c.phases \in [1 .. 3 -> {"Pending", "WaitingForAssertions", "Available"}]
  /\ c.reason \in {"", "Available", "Unavailable"}

\* Everything has its type, and unless a failed refresh made the user repeat a
\* step, the dialog never looks for a step past the last one.
TypeOK ==
  /\ IsCOS(cos) /\ IsCOS(ui.cos)
  /\ DOMAIN running \subseteq Steps /\ DOMAIN results \subseteq BOOLEAN
  /\ cms \in [CMs -> [foo : {"", "bar", "baz"}, gate : {"", "open", "v2-open"},
                      upgrade : {"", "done"}]]
  /\ "repeated" \notin mishaps =>
       /\ ui.at # "panic"
       /\ ui.step \in Steps \/ (ui.done /\ ~ui.executing /\ ~ui.waiting)

\* Every step the dialog has passed has had its effect on the cluster: none is
\* skipped or counted twice, although a message does not say whose step it is
\* about (unless the user repeats one that is still under way).
StepsPerformed ==
  "repeated" \notin mishaps =>
    \A i \in Steps : i < ui.step => i \in performed

\* A step's action finds what it acts on: the dialog opens a gate only after
\* the operator has written the ConfigMap, and creates only what an earlier run
\* has left no trace of.
ActionsApply ==
  mishaps = {} => \A i \in DOMAIN running : Applies(Nth(i).action)

\* "Done! All steps completed." is shown only when the upgrade is rolled out:
\* the refresh that ended the last wait was not about the first revision
\* (unless an older answer overtook a newer one).
DoneMeansRolledOut ==
  Prompt = "done" /\ mishaps = {} =>
    /\ cos.revision = 2 /\ cos.reason = "Available"
    /\ \A c \in CMs : cms[c].foo = Foo(2, c) /\ Fits(2, c, cms[c])

\* The dialog gets to its end, after failed calls too and from any number of
\* refresh chains: it never waits for something that has passed by.
DialogCompletes ==
  <>[]({"repeated", "lost"} \cap mishaps = {}) => <>(ui.done)
=============================================================================

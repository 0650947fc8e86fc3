------------------------- MODULE GatedRolloutProofs -------------------------
(***************************************************************************)
(* What holds of the dialog of GatedRollout: it looks for no step past the *)
(* last, passes none that has had no effect, acts on what is there, and    *)
(* says that it is done only when the upgrade is rolled out.               *)
(***************************************************************************)
EXTENDS GatedRollout, LeastElement, TLAPS

-----------------------------------------------------------------------------
(* Bags with at most one element, which is what the dialog's commands and  *)
(* their answers are as long as the user repeats nothing.                  *)

Only(x) == [e \in {x} |-> 1]

LEMMA NothingIn == DOMAIN EmptyBag = {}
BY DEF EmptyBag, SetToBag

LEMMA AddedTo ==
  ASSUME NEW B, NEW x
  PROVE  /\ DOMAIN BagAdd(B, x) = DOMAIN B \cup {x}
         /\ DOMAIN B = {} => BagAdd(B, x) = Only(x)
<1>1. CASE x \in DOMAIN B
  BY <1>1 DEF BagAdd
<1>2. CASE x \notin DOMAIN B
  BY <1>2 DEF BagAdd, Only
<1>3. QED
  BY <1>1, <1>2

LEMMA RemovedFrom ==
  ASSUME NEW B, NEW x
  PROVE  /\ DOMAIN BagRemove(B, x) \subseteq DOMAIN B
         /\ B = Only(x) => DOMAIN BagRemove(B, x) = {}
<1>1. DOMAIN BagRemove(B, x) \subseteq DOMAIN B
  BY DEF BagRemove
<1>2. ASSUME B = Only(x) PROVE DOMAIN BagRemove(B, x) = {}
  <2>1. DOMAIN B = {x} /\ B[x] = 1
    BY <1>2 DEF Only
  <2>2. QED
    BY <2>1 DEF BagRemove
<1>3. QED
  BY <1>1, <1>2

LEMMA OnlyIs ==
  ASSUME NEW x
  PROVE  DOMAIN Only(x) = {x}
BY DEF Only

-----------------------------------------------------------------------------
(* The steps of the dialog.                                                *)

Patches == {1, 2, 3, 4, 5, 6, 7, 9, 10, 11, 12}

\* The ConfigMaps whose gate a step opens, for the first template.
GateOf(i) ==
  CASE i = 1 -> "p1-o1" [] i = 2 -> "p1-o2" [] i = 3 -> "p2-o1" [] i = 4 -> "p2-o2"
    [] i = 5 -> "p3-o1" [] i = 6 -> "p3-o2" [] i = 7 -> "p3-o3"
    [] i = 9 -> "p1-o1" [] i = 10 -> "p1-o2" [] i = 11 -> "p3-o1" [] i = 12 -> "p3-o3"

LEMMA StepsAre ==
  /\ Steps = 0 .. 12
  /\ Nth(0).action.do = "create" /\ Nth(8).action.do = "upgrade"
  /\ \A i \in Patches : Nth(i).action.do = "patch" /\ Nth(i).action.cm = GateOf(i)
  /\ \A i \in 1 .. 7 : i \in Patches /\ Nth(i).action.key = "gate" /\ Nth(i).action.value = "open"
  /\ \A i \in {9, 10, 11} : Nth(i).action.key = "gate" /\ Nth(i).action.value = "v2-open"
  /\ Nth(12).action.key = "upgrade" /\ Nth(12).action.value = "done"
BY DEF Steps, Nth, BuildSteps, Step, Patch, Patches, GateOf, Phase, None, Rollout, Upgraded

LEMMA WaitsAre ==
  /\ Nth(0).waitFor = Phase(1, "WaitingForAssertions") /\ Nth(2).waitFor = Phase(1, "Available")
  /\ Nth(4).waitFor = Phase(2, "Available") /\ Nth(7).waitFor = Rollout
  /\ Nth(8).waitFor = Upgraded /\ Nth(10).waitFor = Phase(1, "Available")
  /\ Nth(12).waitFor = Rollout
  /\ \A i \in {1, 3, 5, 6, 9, 11} : Nth(i).waitFor = None
BY DEF Nth, BuildSteps, Step

-----------------------------------------------------------------------------
(* The inductive invariant.                                                *)

Statuses == {"Pending", "WaitingForAssertions", "Available"}

PhaseStatuses == {<< >>} \cup [1 .. 3 -> Statuses]

Reports ==
  [revision : 0 .. 2, phases : PhaseStatuses, reason : {"", "Available", "Unavailable"}]

\* What the dialog may be told of a revision: that of number 0 is none.
COSs == {c \in Reports : c.revision = 0 => c = NoCOS}

Contents == [foo : {"", "bar", "baz"}, gate : {"", "open", "v2-open"}, upgrade : {"", "done"}]

Models ==
  [step : 0 .. 13, waiting : BOOLEAN, executing : BOOLEAN, err : BOOLEAN, done : BOOLEAN,
   cos : COSs, at : {"open", "panic", "cleanup"}]

\* The types, and that there are no ConfigMaps where there is no revision.
Typed ==
  /\ ui \in Models
  /\ DOMAIN running \subseteq Steps /\ DOMAIN results \subseteq BOOLEAN
  /\ DOMAIN answers \subseteq [ok : BOOLEAN, cos : COSs]
  /\ cod \in 0 .. 2 /\ cos \in COSs /\ cms \in [CMs -> Contents]
  /\ cos = NoCOS => \A c \in CMs : cms[c] = Missing

\* One step at a time: its action is under way, or its result is, and nothing
\* else; the dialog waits only for the effect of an action that had one.
OneAtATime ==
  /\ ui.at # "panic"
  /\ ui.done <=> ui.step = 13
  /\ ui.executing =>
       /\ ui.step \in Steps /\ ~ui.waiting
       /\ \/ running = Only(ui.step) /\ DOMAIN results = {}
          \/ /\ DOMAIN running = {}
             /\ \/ results = Only(TRUE) /\ ui.step \in performed
                \/ results = Only(FALSE)
  /\ ~ui.executing => DOMAIN running = {} /\ DOMAIN results = {}
  /\ ui.waiting => ui.step \in Steps /\ ui.step \in performed
  /\ \A i \in Steps : i < ui.step => i \in performed

\* While an earlier run of the program is being cleaned up, nothing of the new
\* one has begun.
NotBegun ==
  ui.at = "cleanup" =>
    /\ ui = [NewModel EXCEPT !.at = "cleanup"] /\ asked = 0 /\ cod = 0 /\ performed = {}
    /\ DOMAIN running = {} /\ DOMAIN results = {} /\ DOMAIN answers = {}

Sequential == "repeated" \notin mishaps => OneAtATime

Present(k) == \A c \in Phases[k] : cms[c] # Missing

RolledOut ==
  /\ cos.revision = 2 /\ cos.reason = "Available"
  /\ \A c \in CMs : cms[c].foo = Foo(2, c) /\ Fits(2, c, cms[c])

\* What the status of a revision says of the cluster, now and from then on.
Shows(c) ==
  /\ 1 \in DOMAIN c.phases /\ c.phases[1] = "WaitingForAssertions" => Present(1)
  /\ 1 \in DOMAIN c.phases /\ c.phases[1] = "Available" => Present(2)
  /\ 2 \in DOMAIN c.phases /\ c.phases[2] = "Available" => Present(3)
  /\ c.revision = 2 /\ c.reason = "Available" => RolledOut

\* What a dialog that nothing has happened to knows of the cluster.
Knows ==
  /\ performed \subseteq 0 .. ui.step
  /\ ui.step \in performed => ui.waiting \/ results = Only(TRUE)
  /\ cod = IF 8 \in performed THEN 2 ELSE IF 0 \in performed THEN 1 ELSE 0
  /\ cos.revision <= cod
  /\ cms["p3-o3"].upgrade = "done" => 12 \in performed
  /\ ui.step >= 1 => Present(1)
  /\ ui.step >= 3 => Present(2)
  /\ ui.step >= 5 => Present(3)
  /\ ui.step >= 9 => ui.cos.revision = 2
  /\ ui.step = 13 => RolledOut
  /\ Shows(cos) /\ Shows(ui.cos)
  /\ \A a \in DOMAIN answers : Shows(a.cos)

Undisturbed == mishaps = {} /\ ui.at = "open" => Knows

IInv == Typed /\ NotBegun /\ Sequential /\ Undisturbed

-----------------------------------------------------------------------------
(* The operators of the model.                                             *)

LEMMA CMsAre ==
  /\ CMs = {"p1-o1", "p1-o2", "p2-o1", "p2-o2", "p3-o1", "p3-o2", "p3-o3"}
  /\ Phases[1] = {"p1-o1", "p1-o2"} /\ Phases[2] = {"p2-o1", "p2-o2"}
  /\ Phases[3] = {"p3-o1", "p3-o2", "p3-o3"}
  /\ \A k \in 1 .. 3 : Phases[k] \subseteq CMs
  /\ \A c \in CMs : \E k \in 1 .. 3 : c \in Phases[k]
<1>1. /\ Phases[1] = {"p1-o1", "p1-o2"} /\ Phases[2] = {"p2-o1", "p2-o2"}
      /\ Phases[3] = {"p3-o1", "p3-o2", "p3-o3"}
  BY DEF Phases
<1>2. CMs = Phases[1] \cup Phases[2] \cup Phases[3]
  <2>1. 1 .. 3 = {1, 2, 3}
    OBVIOUS
  <2>2. QED
    BY <2>1, Zenon DEF CMs
<1>3. QED
  BY <1>1, <1>2

LEMMA MissingIs ==
  /\ Missing = [foo |-> "", gate |-> "", upgrade |-> ""]
  /\ Missing \in Contents
BY DEF Missing, CM, Contents

LEMMA NoPhases == << >> \in PhaseStatuses /\ DOMAIN << >> = {}
BY DEF PhaseStatuses

LEMMA NoCOSIs ==
  /\ NoCOS.revision = 0 /\ NoCOS.phases = << >> /\ NoCOS.reason = ""
  /\ NoCOS \in COSs /\ DOMAIN NoCOS.phases = {}
<1>1. PICK e : e = << >>
  OBVIOUS
<1>2. e \in PhaseStatuses /\ DOMAIN e = {}
  BY <1>1, NoPhases, Zenon
<1>3. NoCOS = [revision |-> 0, phases |-> e, reason |-> ""]
  BY <1>1, Zenon DEF NoCOS
<1>4. NoCOS.revision = 0 /\ NoCOS.phases = e /\ NoCOS.reason = ""
  BY <1>3
<1>5. NoCOS \in Reports
  <2>1. [revision |-> 0, phases |-> e, reason |-> ""] \in Reports
    BY <1>2 DEF Reports
  <2>2. QED
    BY <1>3, <2>1, Zenon
<1>6. NoCOS \in COSs
  BY <1>5, Zenon DEF COSs
<1>7. QED
  BY <1>1, <1>2, <1>4, <1>6, Zenon

LEMMA COSParts ==
  ASSUME NEW c \in COSs
  PROVE  /\ c.revision \in 0 .. 2 /\ c.reason \in {"", "Available", "Unavailable"}
         /\ c.phases = << >> \/ c.phases \in [1 .. 3 -> Statuses]
         /\ c # NoCOS => c.revision \in 1 .. 2
<1>1. c \in Reports /\ (c.revision = 0 => c = NoCOS)
  BY Zenon DEF COSs
<1>2. /\ c.revision \in 0 .. 2 /\ c.phases \in PhaseStatuses
      /\ c.reason \in {"", "Available", "Unavailable"}
  BY <1>1 DEF Reports
<1>3. c.phases = << >> \/ c.phases \in [1 .. 3 -> Statuses]
  BY <1>2, Zenon DEF PhaseStatuses
<1>4. \A v \in 0 .. 2 : v # 0 => v \in 1 .. 2
  OBVIOUS
<1>5. QED
  BY <1>1, <1>2, <1>3, <1>4, Zenon

LEMMA OneOrTwo == \A v \in 1 .. 2 : v # 0 /\ v \in 0 .. 2
OBVIOUS

\* A revision that has just been stamped.
LEMMA Stamped ==
  ASSUME NEW d \in 1 .. 2, NEW e \in PhaseStatuses
  PROVE  /\ [revision |-> d, phases |-> e, reason |-> ""] \in COSs
         /\ [revision |-> d, phases |-> e, reason |-> ""] # NoCOS
<1>1. PICK n : n = [revision |-> d, phases |-> e, reason |-> ""]
  OBVIOUS
<1>2. n.revision = d
  BY <1>1
<1>3. n.revision # 0 /\ n # NoCOS
  BY <1>2, OneOrTwo, NoCOSIs, Zenon
<1>4. n \in Reports
  <2>1. "" \in {"", "Available", "Unavailable"}
    OBVIOUS
  <2>2. n \in [revision : 0 .. 2, phases : PhaseStatuses,
               reason : {"", "Available", "Unavailable"}]
    BY <1>1, <2>1, OneOrTwo, Zenon
  <2>3. QED
    BY <2>2, Zenon DEF Reports
<1>5. n \in COSs
  BY <1>3, <1>4, Zenon DEF COSs
<1>6. QED
  BY <1>1, <1>3, <1>5, Zenon

LEMMA NewModelIs ==
  /\ NewModel \in Models /\ NewModel.step = 0 /\ NewModel.at = "open"
  /\ NewModel.waiting = FALSE /\ NewModel.executing = FALSE /\ NewModel.done = FALSE
  /\ NewModel.cos = NoCOS
<1>1. NewModel = [step |-> 0, waiting |-> FALSE, executing |-> FALSE, err |-> FALSE,
                  done |-> FALSE, cos |-> NoCOS, at |-> "open"]
  BY DEF NewModel
<1>2. NewModel \in Models
  <2>1. \A c \in COSs :
          [step |-> 0, waiting |-> FALSE, executing |-> FALSE, err |-> FALSE,
           done |-> FALSE, cos |-> c, at |-> "open"] \in Models
    BY DEF Models
  <2>2. QED
    BY <1>1, <2>1, NoCOSIs, Zenon
<1>3. QED
  BY <1>1, <1>2

\* A ConfigMap whose gate the user opens, or whose upgrade is done.
LEMMA KeySet ==
  ASSUME NEW m \in [CMs -> Contents], NEW c \in CMs, NEW g \in {"open", "v2-open"}
  PROVE  /\ [m[c] EXCEPT !.gate = g] \in Contents \ {Missing}
         /\ [m[c] EXCEPT !.gate = g].upgrade = m[c].upgrade
         /\ [m[c] EXCEPT !.upgrade = "done"] \in Contents \ {Missing}
<1>1. m[c] \in Contents
  OBVIOUS
<1>2. QED
  BY <1>1, MissingIs DEF Contents

\* When the action of a step applies.
LEMMA AppliesIs ==
  ASSUME NEW i \in Steps
  PROVE  Applies(Nth(i).action) = IF i = 0 THEN cod = 0 ELSE IF i = 8 THEN cod # 0
                                  ELSE cms[GateOf(i)] # Missing
<1> DEFINE a == Nth(i).action
<1>1. CASE i = 0
  <2>1. a.do = "create"
    BY <1>1, StepsAre
  <2>2. QED
    BY <1>1, <2>1 DEF Applies
<1>2. CASE i = 8
  <2>1. a.do = "upgrade"
    BY <1>2, StepsAre
  <2>2. QED
    BY <1>2, <2>1 DEF Applies
<1>3. CASE i \in Patches
  <2>1. a.do = "patch" /\ a.cm = GateOf(i) /\ i # 0 /\ i # 8
    BY <1>3, StepsAre DEF Patches
  <2>2. QED
    BY <2>1 DEF Applies
<1>4. i = 0 \/ i = 8 \/ i \in Patches
  BY StepsAre DEF Patches
<1>5. QED
  BY <1>1, <1>2, <1>3, <1>4

\* What the action of a step does where it applies.
LEMMA EffectOf ==
  ASSUME cms \in [CMs -> Contents], cod \in 0 .. 2,
         NEW i \in Steps, Applies(Nth(i).action), Effect(Nth(i).action)
  PROVE  /\ cod' = IF i = 0 THEN 1 ELSE IF i = 8 THEN 2 ELSE cod
         /\ cms' \in [CMs -> Contents]
         /\ \A c \in CMs : cms[c] # Missing <=> cms'[c] # Missing
         /\ i # 12 => \A c \in CMs : cms'[c].upgrade = cms[c].upgrade
<1> DEFINE a == Nth(i).action
<1>1. Applies(a) /\ Effect(a)
  OBVIOUS
<1>2. CASE i = 0
  <2>1. a.do = "create"
    BY <1>2, StepsAre
  <2>2. QED
    BY <1>1, <1>2, <2>1 DEF Effect
<1>3. CASE i = 8
  <2>1. a.do = "upgrade"
    BY <1>3, StepsAre
  <2>2. QED
    BY <1>1, <1>3, <2>1 DEF Effect
<1>4. CASE i \in Patches
  <2>1. a.do = "patch" /\ a.cm = GateOf(i) /\ GateOf(i) \in CMs /\ i # 0 /\ i # 8
    BY <1>4, StepsAre, CMsAre DEF Patches, GateOf
  <2>2. cms[GateOf(i)] # Missing /\ cod' = cod
    BY <1>1, <2>1 DEF Applies, Effect
  <2>3. CASE i = 12
    <3>1. a.key = "upgrade" /\ a.value = "done"
      BY <2>3, StepsAre
    <3>2. cms' = [cms EXCEPT ![GateOf(i)].upgrade = "done"]
      BY <1>1, <2>1, <3>1 DEF Effect
    <3>3. /\ cms' \in [CMs -> Contents] /\ cms'[GateOf(i)] # Missing
          /\ \A d \in CMs \ {GateOf(i)} : cms'[d] = cms[d]
      <4>1. PICK m \in [CMs -> Contents] : m = cms
        OBVIOUS
      <4>2. PICK n : n = cms'
        OBVIOUS
      <4>3. PICK c \in CMs : c = GateOf(i)
        BY <2>1
      <4>4. PICK r : r = [m[c] EXCEPT !.upgrade = "done"]
        OBVIOUS
      <4>5. r \in Contents /\ r # Missing
        BY <4>4, KeySet
      <4>6. n = [m EXCEPT ![c] = r]
        BY <3>2, <4>1, <4>2, <4>3, <4>4
      <4>7. QED
        BY <4>1, <4>2, <4>3, <4>5, <4>6
    <3>4. QED
      BY <2>1, <2>2, <2>3, <3>3
  <2>4. CASE i # 12
    <3>1. a.key = "gate" /\ a.value \in {"open", "v2-open"}
      <4>1. i \in 1 .. 7 \/ i \in {9, 10, 11}
        BY <1>4, <2>4 DEF Patches
      <4>2. QED
        BY <4>1, StepsAre
    <3>2. PICK g \in {"open", "v2-open"} : a.value = g
      BY <3>1
    <3>3. cms' = [cms EXCEPT ![GateOf(i)].gate = g]
      BY <1>1, <2>1, <3>1, <3>2 DEF Effect
    <3>4. /\ cms' \in [CMs -> Contents] /\ cms'[GateOf(i)] # Missing
          /\ \A d \in CMs : cms'[d].upgrade = cms[d].upgrade
          /\ \A d \in CMs \ {GateOf(i)} : cms'[d] = cms[d]
      <4>1. PICK m \in [CMs -> Contents] : m = cms
        OBVIOUS
      <4>2. PICK n : n = cms'
        OBVIOUS
      <4>3. PICK c \in CMs : c = GateOf(i)
        BY <2>1
      <4>4. PICK r : r = [m[c] EXCEPT !.gate = g]
        OBVIOUS
      <4>5. r \in Contents /\ r # Missing /\ r.upgrade = m[c].upgrade
        BY <4>4, KeySet
      <4>6. n = [m EXCEPT ![c] = r]
        BY <3>3, <4>1, <4>2, <4>3, <4>4
      <4>7. QED
        BY <4>1, <4>2, <4>3, <4>5, <4>6
    <3>5. QED
      BY <2>1, <2>2, <2>4, <3>4
  <2>5. QED
    BY <2>3, <2>4
<1>5. i = 0 \/ i = 8 \/ i \in Patches
  BY StepsAre DEF Patches
<1>6. QED
  BY <1>2, <1>3, <1>4, <1>5

-----------------------------------------------------------------------------
(* The dialog's steps forward.                                             *)

\* What the dialog has seen when it stops waiting for the effect of a step.
LEMMA SatisfiedMeans ==
  ASSUME NEW c
  PROVE  /\ Satisfied(Nth(0).waitFor, c) =>
              1 \in DOMAIN c.phases /\ c.phases[1] = "WaitingForAssertions"
         /\ Satisfied(Nth(2).waitFor, c) => 1 \in DOMAIN c.phases /\ c.phases[1] = "Available"
         /\ Satisfied(Nth(4).waitFor, c) => 2 \in DOMAIN c.phases /\ c.phases[2] = "Available"
         /\ Satisfied(Nth(8).waitFor, c) => c.revision = 2
         /\ Satisfied(Nth(12).waitFor, c) => c.reason = "Available"
<1>1. /\ Nth(0).waitFor = Phase(1, "WaitingForAssertions") /\ Nth(2).waitFor = Phase(1, "Available")
      /\ Nth(4).waitFor = Phase(2, "Available") /\ Nth(8).waitFor = Upgraded
      /\ Nth(12).waitFor = Rollout
  BY WaitsAre, Zenon
<1>2. ASSUME NEW k, NEW s
      PROVE  Satisfied(Phase(k, s), c) => k \in DOMAIN c.phases /\ c.phases[k] = s
  BY DEF Satisfied, Phase
<1>3. Satisfied(Upgraded, c) => c.revision = 2
  <2>1. Upgraded.on = "phase" /\ Upgraded.revision = {2}
    BY DEF Upgraded, Phase
  <2>2. QED
    BY <2>1 DEF Satisfied
<1>4. Satisfied(Rollout, c) => c.reason = "Available"
  BY DEF Satisfied, Rollout
<1>5. /\ Satisfied(Phase(1, "WaitingForAssertions"), c) =>
           1 \in DOMAIN c.phases /\ c.phases[1] = "WaitingForAssertions"
      /\ Satisfied(Phase(1, "Available"), c) =>
           1 \in DOMAIN c.phases /\ c.phases[1] = "Available"
      /\ Satisfied(Phase(2, "Available"), c) =>
           2 \in DOMAIN c.phases /\ c.phases[2] = "Available"
  BY <1>2
<1>6. QED
  BY <1>1, <1>3, <1>4, <1>5

\* The only steps after which the dialog does not wait.
LEMMA WaitsFor ==
  ASSUME NEW i \in Steps
  PROVE  Nth(i).waitFor = None <=> i \in {1, 3, 5, 6, 9, 11}
<1>1. i \in {1, 3, 5, 6, 9, 11} \/ i \in {0, 2, 4, 7, 8, 10, 12}
  BY StepsAre
<1>2. \A k, s : Phase(k, s) # None
  <2>1. ASSUME NEW k, NEW s PROVE Phase(k, s).on = "phase" /\ None.on = "nothing"
    BY DEF Phase, None
  <2>2. QED
    BY <2>1
<1>3. Rollout # None /\ Upgraded # None
  <2>1. Rollout.on = "rollout" /\ Upgraded.on = "phase" /\ None.on = "nothing"
    BY DEF Rollout, Upgraded, Phase, None
  <2>2. QED
    BY <2>1
<1>4. QED
  BY <1>1, <1>2, <1>3, WaitsAre

LEMMA Advances ==
  ASSUME NEW m \in Models, m.step \in Steps, NEW n, n = Advanced(m)
  PROVE  /\ n \in Models
         /\ n.step = m.step + 1 /\ n.waiting = FALSE /\ (n.done <=> n.step = 13)
         /\ n.executing = m.executing /\ n.err = m.err /\ n.cos = m.cos /\ n.at = m.at
<1>1. m.step \in 0 .. 12 /\ (m.step + 1 \notin Steps) = (m.step = 12)
  BY StepsAre
<1>2. PICK p \in 0 .. 13 : p = m.step + 1
  BY <1>1
<1>3. PICK d \in BOOLEAN : d = (m.step = 12)
  OBVIOUS
<1>4. n = [m EXCEPT !.waiting = FALSE, !.step = p, !.done = d]
  BY <1>1, <1>2, <1>3 DEF Advanced
<1>5. /\ n \in Models /\ n.step = p /\ n.waiting = FALSE /\ n.done = d
      /\ n.executing = m.executing /\ n.err = m.err /\ n.cos = m.cos /\ n.at = m.at
  BY <1>4 DEF Models
<1>6. d <=> p = 13
  <2>1. m.step = 12 <=> p = 13
    BY <1>1, <1>2
  <2>2. QED
    BY <1>3, <2>1, Zenon
<1>7. QED
  BY <1>2, <1>5, <1>6

LEMMA Succeeds ==
  ASSUME NEW m \in Models, NEW n, n = StepSucceeded(m)
  PROVE  /\ n \in Models /\ n.at \in {m.at, "panic"}
         /\ m.step \in Steps =>
              /\ n.executing = FALSE /\ n.at = m.at /\ n.cos = m.cos
              /\ \/ n.step = m.step /\ n.waiting = TRUE /\ n.done = m.done
                 \/ /\ n.step = m.step + 1 /\ n.waiting = FALSE /\ (n.done <=> n.step = 13)
                    /\ m.step \in {1, 3, 5, 6, 9, 11}
<1>1. PICK e : e = [m EXCEPT !.executing = FALSE, !.err = FALSE]
  OBVIOUS
<1>2. /\ e \in Models /\ e.step = m.step /\ e.executing = FALSE /\ e.at = m.at
      /\ e.cos = m.cos /\ e.done = m.done
  BY <1>1 DEF Models
<1>3. n = IF m.step \notin Steps THEN [e EXCEPT !.at = "panic"]
          ELSE IF Nth(m.step).waitFor = None THEN Advanced(e)
          ELSE [e EXCEPT !.waiting = TRUE]
  BY <1>1 DEF StepSucceeded
<1>4. CASE m.step \notin Steps
  <2>1. n = [e EXCEPT !.at = "panic"]
    BY <1>3, <1>4
  <2>2. QED
    BY <1>2, <1>4, <2>1 DEF Models
<1>5. CASE m.step \in Steps /\ Nth(m.step).waitFor = None
  <2>1. n = Advanced(e)
    BY <1>3, <1>5
  <2>2. m.step \in {1, 3, 5, 6, 9, 11}
    BY <1>5, WaitsFor
  <2>3. /\ n \in Models
        /\ n.step = e.step + 1 /\ n.waiting = FALSE /\ (n.done <=> n.step = 13)
        /\ n.executing = e.executing /\ n.cos = e.cos /\ n.at = e.at
    BY <1>2, <1>5, <2>1, Advances
  <2>4. QED
    BY <1>2, <2>2, <2>3
<1>6. CASE m.step \in Steps /\ Nth(m.step).waitFor # None
  <2>1. n = [e EXCEPT !.waiting = TRUE]
    BY <1>3, <1>6
  <2>2. QED
    BY <1>2, <1>6, <2>1 DEF Models
<1>7. QED
  BY <1>4, <1>5, <1>6

LEMMA Refreshes ==
  ASSUME NEW m \in Models, NEW n, n = Refreshed(m)
  PROVE  /\ n \in Models
         /\ \/ n = m
            \/ /\ m.waiting /\ m.step \in Steps /\ Nth(m.step).waitFor # None
               /\ Satisfied(Nth(m.step).waitFor, m.cos)
               /\ n.step = m.step + 1 /\ n.waiting = FALSE /\ (n.done <=> n.step = 13)
               /\ n.executing = m.executing /\ n.cos = m.cos /\ n.at = m.at
<1>1. CASE /\ m.waiting /\ m.step \in Steps /\ Nth(m.step).waitFor # None
           /\ Satisfied(Nth(m.step).waitFor, m.cos)
  <2>1. n = Advanced(m)
    BY <1>1 DEF Refreshed
  <2>2. QED
    BY <1>1, <2>1, Advances
<1>2. CASE ~(/\ m.waiting /\ m.step \in Steps /\ Nth(m.step).waitFor # None
             /\ Satisfied(Nth(m.step).waitFor, m.cos))
  <2>1. n = m
    BY <1>2, Zenon DEF Refreshed
  <2>2. QED
    BY <2>1
<1>3. QED
  BY <1>1, <1>2

\* What the answer to a refresh is looked at with.
LEMMA Told ==
  ASSUME NEW m \in Models, NEW a \in [ok : BOOLEAN, cos : COSs],
         NEW n, n = IF a.ok THEN [m EXCEPT !.cos = a.cos] ELSE [m EXCEPT !.err = TRUE]
  PROVE  /\ n \in Models
         /\ n.step = m.step /\ n.waiting = m.waiting /\ n.executing = m.executing
         /\ n.done = m.done /\ n.at = m.at
         /\ n.cos = IF a.ok THEN a.cos ELSE m.cos
<1>1. CASE a.ok
  <2>1. n = [m EXCEPT !.cos = a.cos]
    BY <1>1
  <2>2. QED
    BY <1>1, <2>1 DEF Models
<1>2. CASE ~a.ok
  <2>1. n = [m EXCEPT !.err = TRUE]
    BY <1>2
  <2>2. QED
    BY <1>2, <2>1 DEF Models
<1>3. QED
  BY <1>1, <1>2

-----------------------------------------------------------------------------
(* The operator's reconciliation, as far as the dialog depends on it.      *)

LEMMA FooIs ==
  ASSUME NEW v, NEW c
  PROVE  Foo(v, c) \in {"bar", "baz"}
BY DEF Foo

\* Whether a ConfigMap passes depends only on what its user has set.
LEMMA FitsIs ==
  ASSUME NEW v, NEW c, NEW cm
  PROVE  Fits(v, c, cm) <=>
           /\ cm.gate = IF v = 2 /\ c \in Changed THEN "v2-open" ELSE "open"
           /\ v = 2 /\ c = "p3-o3" => cm.upgrade = "done"
<1>1. PICK g : g = IF v = 2 /\ c \in Changed THEN "v2-open" ELSE "open"
  OBVIOUS
<1>2. CASE v = 2 /\ c = "p3-o3"
  <2>1. Assertions(v, c) = {<<"gate", g>>, <<"upgrade", "done">>}
    BY <1>1, <1>2 DEF Assertions
  <2>2. Fits(v, c, cm) <=> cm["gate"] = g /\ cm["upgrade"] = "done"
    BY <2>1 DEF Fits, ProbeForAssertions
  <2>3. QED
    BY <1>1, <1>2, <2>2
<1>3. CASE ~(v = 2 /\ c = "p3-o3")
  <2>1. Assertions(v, c) = {<<"gate", g>>}
    BY <1>1, <1>3 DEF Assertions
  <2>2. Fits(v, c, cm) <=> cm["gate"] = g
    BY <2>1 DEF Fits, ProbeForAssertions
  <2>3. QED
    BY <1>1, <1>3, <2>2
<1>4. QED
  BY <1>2, <1>3

\* A stamp names the deployment's template, and shows nothing yet.
LEMMA Stamps ==
  ASSUME cos \in COSs, cod \in 0 .. 2, Stamp
  PROVE  /\ cos' \in COSs /\ cos' # NoCOS /\ cos'.revision = cod /\ cos'.reason = ""
         /\ DOMAIN cos'.phases = {} /\ cos.revision < cod
<1>1. cos' = [NoCOS EXCEPT !.revision = cod] /\ cod > cos.revision
  BY DEF Stamp
<1>2. PICK r : r = cos.revision
  OBVIOUS
<1>3. r \in 0 .. 2
  BY <1>2, COSParts, Zenon
<1>4. PICK d \in 1 .. 2 : d = cod
  BY <1>1, <1>2, <1>3
<1>5. PICK e \in PhaseStatuses : e = << >> /\ DOMAIN e = {}
  BY NoPhases, Zenon
<1>6. PICK n : n = cos'
  OBVIOUS
<1>7. n = [revision |-> d, phases |-> e, reason |-> ""]
  BY <1>1, <1>4, <1>5, <1>6 DEF NoCOS
<1>8. n \in COSs /\ n # NoCOS /\ n.revision = d /\ n.reason = "" /\ n.phases = e
  <2>1. n \in COSs /\ n # NoCOS
    BY <1>7, Stamped, Zenon
  <2>2. n.revision = d /\ n.reason = "" /\ n.phases = e
    BY <1>7
  <2>3. QED
    BY <2>1, <2>2, Zenon
<1>9. cos.revision < cod
  BY <1>1, <1>2, <1>3, <1>4
<1>10. QED
  BY <1>4, <1>5, <1>6, <1>8, <1>9, Zenon

\* What a reconciliation writes, and what its report says.
LEMMA Reconciles ==
  ASSUME cms \in [CMs -> Contents], cos \in COSs, Reconcile
  PROVE  /\ cos.revision # 0 /\ cod # 0
         /\ cos' \in COSs /\ cos'.revision = cos.revision
         /\ cms' \in [CMs -> Contents]
         /\ \A c \in CMs : /\ cms[c] # Missing => cms'[c] # Missing
                           /\ cms'[c].gate = cms[c].gate /\ cms'[c].upgrade = cms[c].upgrade
                           /\ cms[c].foo = Foo(cos.revision, c) =>
                                cms'[c].foo = Foo(cos.revision, c)
         /\ \A c \in Phases[1] : cms'[c] # Missing
         /\ cos'.phases[1] = "Available" => \A c \in Phases[2] : cms'[c] # Missing
         /\ cos'.phases[2] = "Available" => \A c \in Phases[3] : cms'[c] # Missing
         /\ cos'.reason = "Available" =>
              \A c \in CMs : /\ cms'[c].foo = Foo(cos.revision, c)
                             /\ Fits(cos.revision, c, cms'[c])
         /\ (\A c \in CMs : Fits(cos.revision, c, cms[c])) => cos'.reason = "Available"
<1> DEFINE Complete(k) == \A c \in Phases[k] : Fits(cos.revision, c, cms[c])
           Stops == {3} \cup {k \in 1 .. 3 : ~Complete(k)}
<1>1. PICK end : end = Min(Stops)
  OBVIOUS
<1>2. PICK status :
        status = [k \in 1 .. 3 |-> IF k > end THEN "Pending"
                                   ELSE IF Complete(k) THEN "Available"
                                   ELSE "WaitingForAssertions"]
  OBVIOUS
<1>3. /\ cos # NoCOS /\ cod # 0
      /\ cos' = [cos EXCEPT !.phases = status,
                            !.reason = IF Complete(end) THEN "Available" ELSE "Unavailable"]
      /\ cms' = [c \in CMs |-> IF \E k \in 1 .. end : c \in Phases[k] THEN Applied(c, cms[c])
                               ELSE cms[c]]
  BY <1>1, <1>2, Zenon DEF Reconcile
<1>4. /\ end \in 1 .. 3
      /\ end = 3 \/ ~Complete(end)
      /\ \A k \in 1 .. 3 : k < end => Complete(k)
  <2>1. Stops \subseteq Nat /\ Stops # {}
    OBVIOUS
  <2>2. end \in Stops /\ \A y \in Stops : end <= y
    BY <1>1, <2>1, MinIsLeast
  <2>3. QED
    BY <2>2
<1>5. PICK R : R = IF Complete(end) THEN "Available" ELSE "Unavailable"
  OBVIOUS
<1>6. /\ status \in [1 .. 3 -> Statuses]
      /\ status[1] = "Available" => Complete(1)
      /\ status[2] = "Available" => 2 <= end /\ Complete(2)
  <2>1. \A k \in 1 .. 3 : status[k] = "Available" => k <= end /\ Complete(k)
    BY <1>2, <1>4
  <2>2. status \in [1 .. 3 -> Statuses]
    BY <1>2 DEF Statuses
  <2>3. QED
    BY <2>1, <2>2
<1>7. /\ cos.revision \in 1 .. 2
      /\ cos' \in COSs /\ cos'.revision = cos.revision
      /\ cos'.phases = status /\ cos'.reason = R
  <2>1. cos \in Reports /\ cos.revision \in 1 .. 2
    BY <1>3, COSParts, Zenon DEF COSs
  <2>2. PICK o \in Reports : o = cos
    BY <2>1
  <2>3. PICK n : n = cos'
    OBVIOUS
  <2>4. n = [o EXCEPT !.phases = status, !.reason = R]
    BY <1>3, <1>5, <2>2, <2>3, Zenon
  <2>5. R \in {"", "Available", "Unavailable"} /\ status \in PhaseStatuses
    BY <1>5, <1>6 DEF PhaseStatuses
  <2>6. n \in Reports /\ n.revision = o.revision /\ n.phases = status /\ n.reason = R
    BY <2>4, <2>5 DEF Reports
  <2>7. o.revision # 0
    <3>1. \A v \in 1 .. 2 : v # 0
      OBVIOUS
    <3>2. QED
      BY <2>1, <2>2, <3>1, Zenon
  <2>8. n \in COSs
    BY <2>6, <2>7, Zenon DEF COSs
  <2>9. QED
    BY <2>1, <2>2, <2>3, <2>6, <2>8, Zenon
<1> HIDE DEF Complete, Stops
<1>8. ASSUME NEW c \in CMs
      PROVE  /\ cms'[c] \in Contents
             /\ cms'[c].gate = cms[c].gate /\ cms'[c].upgrade = cms[c].upgrade
             /\ cms'[c] = cms[c] \/ (cms'[c] # Missing /\ cms'[c].foo = Foo(cos.revision, c))
             /\ (\E k \in 1 .. end : c \in Phases[k]) =>
                  cms'[c] # Missing /\ cms'[c].foo = Foo(cos.revision, c)
  <2>1. PICK f \in {"bar", "baz"} : f = Foo(cos.revision, c)
    BY FooIs
  <2>2. cms'[c] = IF \E k \in 1 .. end : c \in Phases[k] THEN [cms[c] EXCEPT !.foo = f]
                  ELSE cms[c]
    BY <1>3, <2>1 DEF Applied
  <2>3. cms[c] \in Contents
    OBVIOUS
  <2>4. CASE \E k \in 1 .. end : c \in Phases[k]
    <3>1. cms'[c] = [cms[c] EXCEPT !.foo = f]
      BY <2>2, <2>4
    <3>2. QED
      BY <2>1, <2>3, <3>1, MissingIs DEF Contents
  <2>5. CASE ~(\E k \in 1 .. end : c \in Phases[k])
    BY <2>2, <2>3, <2>5
  <2>6. QED
    BY <2>4, <2>5
<1>9. cms' \in [CMs -> Contents]
  BY <1>3, <1>8
<1>10. ASSUME NEW k \in 1 .. 3, k <= end
       PROVE  \A c \in Phases[k] : cms'[c] # Missing /\ cms'[c].foo = Foo(cos.revision, c)
  BY <1>4, <1>8, <1>10, CMsAre
<1>11. \A k \in 1 .. 3 : Complete(k) /\ k <= end => end = 3 \/ k + 1 <= end
  BY <1>4
<1>12. ASSUME cos'.reason = "Available"
       PROVE  \A c \in CMs : /\ cms'[c].foo = Foo(cos.revision, c)
                             /\ Fits(cos.revision, c, cms'[c])
  <2>1. end = 3 /\ \A k \in 1 .. 3 : Complete(k)
    <3>1. Complete(end)
      BY <1>5, <1>7, <1>12
    <3>2. QED
      BY <1>4, <3>1
  <2>2. SUFFICES ASSUME NEW c \in CMs
                 PROVE  cms'[c].foo = Foo(cos.revision, c) /\ Fits(cos.revision, c, cms'[c])
    OBVIOUS
  <2>3. PICK k \in 1 .. 3 : c \in Phases[k]
    BY CMsAre
  <2>4. Fits(cos.revision, c, cms[c])
    BY <2>1, <2>3 DEF Complete
  <2>5. Fits(cos.revision, c, cms'[c])
    BY <1>8, <2>4, FitsIs
  <2>6. QED
    BY <1>10, <2>1, <2>3, <2>5
<1>13. ASSUME \A c \in CMs : Fits(cos.revision, c, cms[c])
       PROVE  cos'.reason = "Available"
  <2>1. Complete(end)
    BY <1>4, <1>13, CMsAre DEF Complete
  <2>2. QED
    BY <1>5, <1>7, <2>1
<1>14. \A c \in Phases[1] : cms'[c] # Missing
  BY <1>4, <1>10
<1>15. cos'.phases[1] = "Available" => \A c \in Phases[2] : cms'[c] # Missing
  <2>1. cos'.phases[1] = "Available" => 2 <= end
    BY <1>4, <1>6, <1>7, <1>11
  <2>2. QED
    BY <1>10, <2>1
<1>16. cos'.phases[2] = "Available" => \A c \in Phases[3] : cms'[c] # Missing
  <2>1. cos'.phases[2] = "Available" => 3 <= end
    BY <1>4, <1>6, <1>7, <1>11
  <2>2. QED
    BY <1>10, <2>1
<1>17. cos.revision # 0 /\ cod # 0 /\ cos' \in COSs /\ cos'.revision = cos.revision
  BY <1>3, <1>7
<1>18. \A c \in CMs : /\ cms[c] # Missing => cms'[c] # Missing
                      /\ cms'[c].gate = cms[c].gate /\ cms'[c].upgrade = cms[c].upgrade
                      /\ cms[c].foo = Foo(cos.revision, c) =>
                           cms'[c].foo = Foo(cos.revision, c)
  BY <1>8
<1>19. QED
  BY <1>9, <1>12, <1>13, <1>14, <1>15, <1>16, <1>17, <1>18, Zenon

-----------------------------------------------------------------------------
(* The parts of the invariant are kept: first the types.                   *)

LEMMA InitialState == Init => IInv
<1>1. SUFFICES ASSUME Init PROVE IInv
  OBVIOUS
<1>2. /\ ui = NewModel /\ asked = 0 /\ cod = 0 /\ cos = NoCOS
      /\ cms = [c \in CMs |-> Missing] /\ performed = {} /\ mishaps = {}
      /\ DOMAIN running = {} /\ DOMAIN results = {} /\ DOMAIN answers = {}
  BY <1>1, NothingIn DEF Init
<1>3. cms \in [CMs -> Contents] /\ \A c \in CMs : cms[c] = Missing
  BY <1>2, MissingIs
<1>4. Typed
  <2>1. cos \in COSs /\ ui \in Models
    BY <1>2, NewModelIs, NoCOSIs, Zenon
  <2>2. cod \in 0 .. 2
    <3>1. 0 \in 0 .. 2
      OBVIOUS
    <3>2. QED
      BY <1>2, <3>1, Zenon
  <2>3. QED
    BY <1>2, <1>3, <2>1, <2>2, Zenon DEF Typed
<1>5. NotBegun
  BY <1>2, NewModelIs DEF NotBegun
<1>6. Sequential
  <2>1. /\ ui.step = 0 /\ ui.at = "open" /\ ui.waiting = FALSE /\ ui.executing = FALSE
        /\ ui.done = FALSE
    BY <1>2, NewModelIs, Zenon
  <2>2. \A i \in Steps : ~(i < 0)
    BY StepsAre
  <2>3. OneAtATime
    <3>1. DOMAIN running = {} /\ DOMAIN results = {}
      BY <1>2
    <3>2. ui.at # "panic" /\ ui.step # 13
      BY <2>1
    <3>3. QED
      BY <2>1, <2>2, <3>1, <3>2, Zenon DEF OneAtATime
  <2>4. QED
    BY <2>3 DEF Sequential
<1>7. \A c : c = NoCOS => Shows(c)
  <2>1. DOMAIN NoCOS.phases = {} /\ NoCOS.revision = 0
    BY NoCOSIs, Zenon
  <2>2. QED
    BY <2>1 DEF Shows
<1>8. cms["p3-o3"].upgrade # "done"
  <2>1. cms["p3-o3"] = Missing
    BY <1>3, CMsAre
  <2>2. Missing.upgrade = ""
    BY DEF Missing, CM
  <2>3. QED
    BY <2>1, <2>2
<1>9. cos.revision <= cod
  <2>1. cos.revision = 0
    BY <1>2, NoCOSIs, Zenon
  <2>2. QED
    BY <1>2, <2>1
<1>10. Undisturbed
  BY <1>2, <1>7, <1>8, <1>9, NewModelIs DEF Undisturbed, Knows
<1>11. QED
  BY <1>4, <1>5, <1>6, <1>10 DEF IInv

LEMMA TypedKept == Typed /\ [Next]_vars => Typed'
<1>1. SUFFICES ASSUME Typed, [Next]_vars PROVE Typed'
  OBVIOUS
<1>2. /\ ui \in Models
      /\ DOMAIN running \subseteq Steps /\ DOMAIN results \subseteq BOOLEAN
      /\ DOMAIN answers \subseteq [ok : BOOLEAN, cos : COSs]
      /\ cod \in 0 .. 2 /\ cos \in COSs /\ cms \in [CMs -> Contents]
      /\ cos = NoCOS => \A c \in CMs : cms[c] = Missing
  BY <1>1 DEF Typed
<1>3. CASE Enter
  <2>1. UNCHANGED <<results, answers, cod, cos, cms>>
    BY <1>3 DEF Enter, cluster
  <2>2. CASE ui.step \in Steps
    <3>1. ui' = [ui EXCEPT !.err = FALSE, !.executing = TRUE] /\ running' = BagAdd(running, ui.step)
      BY <1>3, <2>2 DEF Enter
    <3>2. ui' \in Models
      BY <1>2, <3>1 DEF Models
    <3>3. DOMAIN running' \subseteq Steps
      <4>1. PICK p \in Steps : p = ui.step
        BY <2>2
      <4>2. DOMAIN running' = DOMAIN running \cup {p}
        BY <3>1, <4>1, AddedTo
      <4>3. QED
        BY <1>2, <4>2
    <3>4. QED
      BY <1>2, <2>1, <3>2, <3>3 DEF Typed
  <2>3. CASE ui.step \notin Steps
    <3>1. ui' = [ui EXCEPT !.at = "panic"] /\ running' = running
      BY <1>3, <2>3 DEF Enter
    <3>2. ui' \in Models
      BY <1>2, <3>1 DEF Models
    <3>3. QED
      BY <1>2, <2>1, <3>1, <3>2 DEF Typed
  <2>4. QED
    BY <2>2, <2>3
<1>4. CASE HandleStepDone
  <2>1. UNCHANGED <<running, answers, cod, cos, cms>>
    BY <1>4 DEF HandleStepDone, cluster
  <2>2. PICK ok \in DOMAIN results :
          /\ results' = BagRemove(results, ok)
          /\ IF ok THEN ui' = StepSucceeded(ui)
             ELSE ui' = [ui EXCEPT !.executing = FALSE, !.err = TRUE]
    BY <1>4 DEF HandleStepDone
  <2>3. DOMAIN results' \subseteq BOOLEAN
    BY <1>2, <2>2, RemovedFrom
  <2>4. ui' \in Models
    <3>1. CASE ok
      BY <1>2, <2>2, <3>1, Succeeds
    <3>2. CASE ~ok
      <4>1. ui' = [ui EXCEPT !.executing = FALSE, !.err = TRUE]
        BY <2>2, <3>2
      <4>2. QED
        BY <1>2, <4>1 DEF Models
    <3>3. QED
      BY <3>1, <3>2
  <2>5. QED
    BY <1>2, <2>1, <2>3, <2>4 DEF Typed
<1>5. CASE Cleanup
  <2>1. ui' = NewModel /\ UNCHANGED <<running, results, answers, cod, cos, cms>>
    BY <1>5 DEF Cleanup, cluster
  <2>2. QED
    BY <1>2, <2>1, NewModelIs DEF Typed
<1>6. ASSUME NEW i \in DOMAIN running,
             \/ Perform(i)
             \/ PerformFails(i)
      PROVE  Typed'
  <2>1. /\ UNCHANGED <<ui, answers, cos>> /\ running' = BagRemove(running, i)
        /\ \/ UNCHANGED <<cod, cms>>
           \/ Applies(Nth(i).action) /\ Effect(Nth(i).action)
        /\ \E ok \in BOOLEAN : results' = BagAdd(results, ok)
    <3>1. CASE Perform(i)
      <4>1. Applies(Nth(i).action) \in BOOLEAN
        BY <1>2, AppliesIs
      <4>2. QED
        BY <3>1, <4>1, Zenon DEF Perform
    <3>2. CASE PerformFails(i)
      BY <3>2, Zenon DEF PerformFails
    <3>3. QED
      BY <1>6, <3>1, <3>2
  <2>2. DOMAIN results' \subseteq BOOLEAN
    <3>1. PICK ok \in BOOLEAN : results' = BagAdd(results, ok)
      BY <2>1
    <3>2. DOMAIN results' = DOMAIN results \cup {ok}
      BY <3>1, AddedTo
    <3>3. QED
      BY <1>2, <3>2
  <2>3. DOMAIN running' \subseteq Steps
    BY <1>2, <2>1, RemovedFrom
  <2>4. CASE UNCHANGED <<cod, cms>>
    BY <1>2, <2>1, <2>2, <2>3, <2>4 DEF Typed
  <2>5. CASE Applies(Nth(i).action) /\ Effect(Nth(i).action)
    <3>1. i \in Steps
      BY <1>2
    <3>2. /\ cod' = IF i = 0 THEN 1 ELSE IF i = 8 THEN 2 ELSE cod
          /\ cms' \in [CMs -> Contents]
          /\ \A c \in CMs : cms[c] # Missing <=> cms'[c] # Missing
      BY <1>2, <2>5, <3>1, EffectOf
    <3>3. cod' \in 0 .. 2
      BY <1>2, <3>2
    <3>4. cos' = NoCOS => \A c \in CMs : cms'[c] = Missing
      BY <1>2, <2>1, <3>2
    <3>5. QED
      BY <1>2, <2>1, <2>2, <2>3, <3>2, <3>3, <3>4 DEF Typed
  <2>6. QED
    BY <2>1, <2>4, <2>5
<1>7. CASE HandleRefresh
  <2>1. UNCHANGED <<running, results, cod, cos, cms>>
    BY <1>7 DEF HandleRefresh, cluster
  <2>2. PICK a \in DOMAIN answers :
          /\ answers' = BagRemove(answers, a)
          /\ ui' = Refreshed(IF a.ok THEN [ui EXCEPT !.cos = a.cos] ELSE [ui EXCEPT !.err = TRUE])
    BY <1>7 DEF HandleRefresh
  <2>3. PICK m : m = IF a.ok THEN [ui EXCEPT !.cos = a.cos] ELSE [ui EXCEPT !.err = TRUE]
    OBVIOUS
  <2>4. a \in [ok : BOOLEAN, cos : COSs]
    BY <1>2
  <2>5. m \in Models
    BY <1>2, <2>3, <2>4, Told
  <2>6. ui' \in Models
    BY <2>2, <2>3, <2>5, Refreshes
  <2>7. DOMAIN answers' \subseteq [ok : BOOLEAN, cos : COSs]
    BY <1>2, <2>2, RemovedFrom
  <2>8. QED
    BY <1>2, <2>1, <2>6, <2>7 DEF Typed
<1>8. CASE HandleTick
  BY <1>2, <1>8 DEF HandleTick, cluster, Typed
<1>9. CASE ReadCluster \/ ReadFails
  <2>1. /\ UNCHANGED <<ui, running, results, cod, cos, cms>>
        /\ \E a \in [ok : BOOLEAN, cos : COSs] : answers' = BagAdd(answers, a)
    <3>1. CASE ReadCluster
      <4>1. [ok |-> TRUE, cos |-> cos] \in [ok : BOOLEAN, cos : COSs]
        BY <1>2
      <4>2. QED
        BY <3>1, <4>1, Zenon DEF ReadCluster, cluster
    <3>2. CASE ReadFails
      <4>1. [ok |-> FALSE, cos |-> NoCOS] \in [ok : BOOLEAN, cos : COSs]
        BY NoCOSIs
      <4>2. QED
        BY <3>2, <4>1, Zenon DEF ReadFails, cluster
    <3>3. QED
      BY <1>9, <3>1, <3>2
  <2>2. PICK a \in [ok : BOOLEAN, cos : COSs] : answers' = BagAdd(answers, a)
    BY <2>1
  <2>3. DOMAIN answers' = DOMAIN answers \cup {a}
    BY <2>2, AddedTo
  <2>4. DOMAIN answers' \subseteq [ok : BOOLEAN, cos : COSs]
    BY <1>2, <2>3
  <2>5. QED
    BY <1>2, <2>1, <2>4 DEF Typed
<1>10. CASE Stamp
  <2>1. /\ cos' = [NoCOS EXCEPT !.revision = cod] /\ cod > cos.revision
        /\ UNCHANGED <<ui, running, results, answers, cod, cms>>
    BY <1>10 DEF Stamp, commands
  <2>4. cos' \in COSs /\ cos' # NoCOS
    BY <1>2, <1>10, Stamps
  <2>5. QED
    BY <1>2, <2>1, <2>4 DEF Typed
<1>11. CASE CollectGarbage
  <2>1. /\ cos' = NoCOS /\ cms' = [c \in CMs |-> Missing]
        /\ UNCHANGED <<ui, running, results, answers, cod>>
    BY <1>11 DEF CollectGarbage, commands
  <2>2. cms' \in [CMs -> Contents] /\ \A c \in CMs : cms'[c] = Missing
    BY <2>1, MissingIs
  <2>3. QED
    BY <1>2, <2>1, <2>2, NoCOSIs DEF Typed
<1>12. CASE Reconcile
  <2>1. UNCHANGED <<ui, running, results, answers, cod>>
    BY <1>12, Zenon DEF Reconcile, commands
  <2>2. /\ cos.revision # 0 /\ cos' \in COSs /\ cos'.revision = cos.revision
        /\ cms' \in [CMs -> Contents]
    BY <1>2, <1>12, Reconciles
  <2>3. cos' # NoCOS
    BY <2>2, NoCOSIs
  <2>4. QED
    BY <1>2, <2>1, <2>2, <2>3 DEF Typed
<1>13. CASE Quit
  <2>1. /\ ui' = [NewModel EXCEPT !.at = "cleanup"] /\ cod' = 0 /\ UNCHANGED <<cos, cms>>
        /\ running' = EmptyBag /\ results' = EmptyBag /\ answers' = EmptyBag
    BY <1>13 DEF Quit
  <2>2. DOMAIN running' = {} /\ DOMAIN results' = {} /\ DOMAIN answers' = {}
    BY <2>1, NothingIn
  <2>3. ui' \in Models
    BY <2>1, NewModelIs DEF Models
  <2>4. QED
    BY <1>2, <2>1, <2>2, <2>3 DEF Typed
<1>14. CASE UNCHANGED vars
  BY <1>2, <1>14 DEF vars, commands, cluster, Typed
<1>15. QED
  BY <1>1, <1>3, <1>4, <1>5, <1>6, <1>7, <1>8, <1>9, <1>10, <1>11, <1>12, <1>13, <1>14, Zenon
     DEF Next, Operator, Executing, Refreshing

-----------------------------------------------------------------------------
(* That nothing begins before the cleanup is over, and one step at a time. *)

LEMMA NotBegunKept == Typed /\ NotBegun /\ [Next]_vars => NotBegun'
<1>1. SUFFICES ASSUME Typed, NotBegun, [Next]_vars PROVE NotBegun'
  OBVIOUS
<1>2. ui \in Models
  BY <1>1 DEF Typed
<1>3. ui.at = "cleanup" =>
        /\ ui = [NewModel EXCEPT !.at = "cleanup"] /\ asked = 0 /\ cod = 0 /\ performed = {}
        /\ DOMAIN running = {} /\ DOMAIN results = {} /\ DOMAIN answers = {}
  BY <1>1 DEF NotBegun
<1>4. CASE Enter
  <2>1. \/ ui.at = "open" /\ ui' = [ui EXCEPT !.err = FALSE, !.executing = TRUE]
        \/ ui' = [ui EXCEPT !.at = "panic"]
    BY <1>4 DEF Enter
  <2>2. ui'.at # "cleanup"
    BY <1>2, <2>1 DEF Models
  <2>3. QED
    BY <2>2 DEF NotBegun
<1>5. CASE HandleStepDone
  <2>1. /\ ui.at = "open"
        /\ ui' = StepSucceeded(ui) \/ ui' = [ui EXCEPT !.executing = FALSE, !.err = TRUE]
    BY <1>5 DEF HandleStepDone
  <2>2. ui'.at # "cleanup"
    <3>1. CASE ui' = StepSucceeded(ui)
      <4>1. ui'.at \in {ui.at, "panic"}
        BY <1>2, <3>1, Succeeds
      <4>2. QED
        BY <2>1, <4>1
    <3>2. CASE ui' = [ui EXCEPT !.executing = FALSE, !.err = TRUE]
      BY <1>2, <2>1, <3>2 DEF Models
    <3>3. QED
      BY <2>1, <3>1, <3>2
  <2>3. QED
    BY <2>2 DEF NotBegun
<1>6. CASE Cleanup
  <2>1. ui'.at # "cleanup"
    BY <1>6, NewModelIs DEF Cleanup
  <2>2. QED
    BY <2>1 DEF NotBegun
<1>7. ASSUME NEW i \in DOMAIN running, Perform(i) \/ PerformFails(i)
      PROVE  NotBegun'
  <2>1. ui' = ui
    BY <1>7, Zenon DEF Perform, PerformFails
  <2>2. ui'.at # "cleanup"
    BY <1>3, <1>7, <2>1
  <2>3. QED
    BY <2>2 DEF NotBegun
<1>8. CASE HandleRefresh
  <2>1. PICK a \in DOMAIN answers :
          ui' = Refreshed(IF a.ok THEN [ui EXCEPT !.cos = a.cos] ELSE [ui EXCEPT !.err = TRUE])
    BY <1>8 DEF HandleRefresh
  <2>2. PICK m : m = IF a.ok THEN [ui EXCEPT !.cos = a.cos] ELSE [ui EXCEPT !.err = TRUE]
    OBVIOUS
  <2>3. a \in [ok : BOOLEAN, cos : COSs]
    BY <1>1 DEF Typed
  <2>4. m \in Models /\ m.at = ui.at
    BY <1>2, <2>2, <2>3, Told
  <2>5. ui'.at = m.at
    BY <2>1, <2>2, <2>4, Refreshes
  <2>6. ui.at = "open"
    BY <1>8 DEF HandleRefresh
  <2>7. QED
    BY <2>4, <2>5, <2>6 DEF NotBegun
<1>9. CASE HandleTick
  BY <1>9 DEF HandleTick, NotBegun
<1>10. CASE ReadCluster \/ ReadFails
  <2>1. ui' = ui /\ asked > 0
    BY <1>10 DEF ReadCluster, ReadFails
  <2>2. ui'.at # "cleanup"
    BY <1>3, <2>1
  <2>3. QED
    BY <2>2 DEF NotBegun
<1>11. CASE Stamp \/ CollectGarbage \/ Reconcile
  <2>1. UNCHANGED <<ui, running, results, asked, answers, cod, performed>>
    BY <1>11, Zenon DEF Stamp, CollectGarbage, Reconcile, commands, history
  <2>2. QED
    BY <1>3, <2>1 DEF NotBegun
<1>12. CASE Quit
  <2>1. /\ ui' = [NewModel EXCEPT !.at = "cleanup"] /\ asked' = 0 /\ cod' = 0
        /\ performed' = {} /\ running' = EmptyBag /\ results' = EmptyBag /\ answers' = EmptyBag
    BY <1>12 DEF Quit
  <2>2. QED
    BY <2>1, NothingIn DEF NotBegun
<1>13. CASE UNCHANGED vars
  BY <1>3, <1>13 DEF vars, commands, cluster, history, NotBegun
<1>14. QED
  BY <1>1, <1>4, <1>5, <1>6, <1>7, <1>8, <1>9, <1>10, <1>11, <1>12, <1>13, Zenon
     DEF Next, Operator, Executing, Refreshing

LEMMA SequentialKept ==
  Typed /\ NotBegun /\ Sequential /\ [Next]_vars => Sequential'
<1>1. SUFFICES ASSUME Typed, NotBegun, Sequential, [Next]_vars, "repeated" \notin mishaps'
               PROVE  OneAtATime'
  BY DEF Sequential
<1>2. ui \in Models /\ DOMAIN running \subseteq Steps /\ DOMAIN results \subseteq BOOLEAN
  BY <1>1 DEF Typed
<1>3. ASSUME "repeated" \notin mishaps
      PROVE  /\ ui.at # "panic"
             /\ ui.done <=> ui.step = 13
             /\ ui.executing =>
                  /\ ui.step \in Steps /\ ~ui.waiting
                  /\ \/ running = Only(ui.step) /\ DOMAIN results = {}
                     \/ /\ DOMAIN running = {}
                        /\ \/ results = Only(TRUE) /\ ui.step \in performed
                           \/ results = Only(FALSE)
             /\ ~ui.executing => DOMAIN running = {} /\ DOMAIN results = {}
             /\ ui.waiting => ui.step \in Steps /\ ui.step \in performed
             /\ \A i \in Steps : i < ui.step => i \in performed
  BY <1>1, <1>3 DEF Sequential, OneAtATime
<1>4. CASE Enter
  <2>1. /\ mishaps' = mishaps /\ ~ui.waiting /\ ~ui.executing /\ ~ui.done
        /\ UNCHANGED <<results, performed>> /\ ui.at = "open"
    BY <1>1, <1>4 DEF Enter
  <2>2. /\ ui.step \in Steps /\ DOMAIN running = {} /\ DOMAIN results = {}
        /\ \A i \in Steps : i < ui.step => i \in performed
    <3>1. ui.step # 13
      BY <1>1, <1>3, <2>1
    <3>2. ui.step \in 0 .. 13
      BY <1>2 DEF Models
    <3>3. ui.step \in Steps
      BY <3>1, <3>2, StepsAre
    <3>4. QED
      BY <1>1, <1>3, <2>1, <3>3
  <2>3. ui' = [ui EXCEPT !.err = FALSE, !.executing = TRUE] /\ running' = BagAdd(running, ui.step)
    BY <1>4, <2>2 DEF Enter
  <2>4. running' = Only(ui.step)
    BY <2>2, <2>3, AddedTo, Zenon
  <2>5. /\ ui'.step = ui.step /\ ui'.waiting = ui.waiting /\ ui'.executing = TRUE
        /\ ui'.done = ui.done /\ ui'.at = ui.at
    BY <1>2, <2>3 DEF Models
  <2>6. ui'.done <=> ui'.step = 13
    BY <1>1, <1>3, <2>1, <2>5
  <2>7. QED
    BY <2>1, <2>2, <2>4, <2>5, <2>6 DEF OneAtATime
<1>5. CASE HandleStepDone
  <2>1. PICK ok \in DOMAIN results :
          /\ results' = BagRemove(results, ok)
          /\ IF ok THEN ui' = StepSucceeded(ui)
             ELSE ui' = [ui EXCEPT !.executing = FALSE, !.err = TRUE]
    BY <1>5 DEF HandleStepDone
  <2>2. UNCHANGED <<running, performed, mishaps>>
    BY <1>5 DEF HandleStepDone, history
  <2>3. ok \in BOOLEAN
    BY <1>2
  <2>4. ui.executing /\ DOMAIN results # {}
    BY <1>1, <1>3, <2>2
  <2>5. /\ ui.step \in Steps /\ ~ui.waiting /\ DOMAIN running = {}
        /\ \/ results = Only(TRUE) /\ ui.step \in performed
           \/ results = Only(FALSE)
    BY <1>1, <1>3, <2>2, <2>4
  <2>6. results = Only(ok) /\ (ok => ui.step \in performed)
    <3>1. CASE results = Only(TRUE) /\ ui.step \in performed
      <4>1. DOMAIN results = {TRUE}
        BY <3>1, OnlyIs
      <4>2. QED
        BY <3>1, <4>1
    <3>2. CASE results = Only(FALSE)
      <4>1. DOMAIN results = {FALSE}
        BY <3>2, OnlyIs
      <4>2. ok = FALSE
        BY <4>1
      <4>3. QED
        BY <3>2, <4>2
    <3>3. QED
      BY <2>5, <3>1, <3>2
  <2>7. DOMAIN results' = {}
    BY <2>1, <2>6, RemovedFrom
  <2>8. ui.step \in 0 .. 12 /\ (ui.done <=> ui.step = 13) /\ ui.at # "panic"
    BY <1>1, <1>3, <2>2, <2>5, StepsAre
  <2>9. \A i \in Steps : i < ui.step => i \in performed
    BY <1>1, <1>3, <2>2
  <2>10. CASE ok
    <3>1. /\ ui'.executing = FALSE /\ ui'.at = ui.at
          /\ \/ ui'.step = ui.step /\ ui'.waiting = TRUE /\ ui'.done = ui.done
             \/ /\ ui'.step = ui.step + 1 /\ ui'.waiting = FALSE
                /\ (ui'.done <=> ui'.step = 13)
      BY <1>2, <2>1, <2>5, <2>10, Succeeds
    <3>2. ui.step \in performed
      BY <2>6, <2>10
    <3>3. \A i \in Steps : i < ui'.step => i \in performed
      BY <2>8, <2>9, <3>1, <3>2, StepsAre
    <3>4. ui'.done <=> ui'.step = 13
      BY <2>8, <3>1
    <3>5. ui'.waiting => ui'.step \in Steps /\ ui'.step \in performed
      BY <2>5, <3>1, <3>2
    <3>6. QED
      BY <2>2, <2>5, <2>7, <2>8, <3>1, <3>3, <3>4, <3>5 DEF OneAtATime
  <2>11. CASE ~ok
    <3>1. ui' = [ui EXCEPT !.executing = FALSE, !.err = TRUE]
      BY <2>1, <2>11
    <3>2. /\ ui'.step = ui.step /\ ui'.waiting = ui.waiting /\ ui'.executing = FALSE
          /\ ui'.done = ui.done /\ ui'.at = ui.at
      BY <1>2, <3>1 DEF Models
    <3>3. QED
      BY <2>2, <2>5, <2>7, <2>8, <2>9, <3>2 DEF OneAtATime
  <2>12. QED
    BY <2>10, <2>11
<1>6. CASE Cleanup
  <2>1. /\ ui.at = "cleanup" /\ ui' = NewModel
        /\ UNCHANGED <<running, results, performed, mishaps>>
    BY <1>6 DEF Cleanup, history
  <2>2. performed = {} /\ DOMAIN running = {} /\ DOMAIN results = {}
    BY <1>1, <2>1 DEF NotBegun
  <2>3. /\ ui'.step = 0 /\ ui'.at = "open" /\ ui'.waiting = FALSE /\ ui'.executing = FALSE
        /\ ui'.done = FALSE
    BY <2>1, NewModelIs, Zenon
  <2>4. ui'.at # "panic" /\ ui'.step # 13 /\ \A i \in Steps : ~(i < ui'.step)
    BY <2>3, StepsAre
  <2>5. QED
    BY <2>1, <2>2, <2>3, <2>4, Zenon DEF OneAtATime
<1>7. ASSUME NEW i \in DOMAIN running, Perform(i) \/ PerformFails(i)
      PROVE  OneAtATime'
  <2>1. ui' = ui /\ running' = BagRemove(running, i) /\ "repeated" \notin mishaps
    <3>1. ui' = ui /\ running' = BagRemove(running, i)
      BY <1>7, Zenon DEF Perform, PerformFails
    <3>2. mishaps' = mishaps \/ mishaps' = mishaps \cup {"lost"}
      BY <1>7, Zenon DEF Perform, PerformFails
    <3>3. QED
      BY <1>1, <3>1, <3>2
  <2>2. /\ \/ results' = BagAdd(results, TRUE) /\ performed' = performed \cup {i}
           \/ results' = BagAdd(results, FALSE)
        /\ performed' = performed \/ performed' = performed \cup {i}
    <3>1. CASE Perform(i)
      <4>1. CASE Applies(Nth(i).action)
        <5>1. Applies(Nth(i).action) = TRUE
          BY <1>2, <1>7, <4>1, AppliesIs
        <5>2. QED
          BY <3>1, <4>1, <5>1, Zenon DEF Perform
      <4>2. CASE ~Applies(Nth(i).action)
        <5>1. Applies(Nth(i).action) = FALSE
          BY <1>2, <1>7, <4>2, AppliesIs
        <5>2. QED
          BY <3>1, <4>2, <5>1, Zenon DEF Perform
      <4>3. QED
        BY <4>1, <4>2
    <3>2. CASE PerformFails(i)
      BY <3>2, Zenon DEF PerformFails
    <3>3. QED
      BY <1>7, <3>1, <3>2
  <2>3. /\ ui.executing /\ ui.step \in Steps /\ ~ui.waiting
        /\ running = Only(ui.step) /\ DOMAIN results = {}
    BY <1>3, <1>7, <2>1
  <2>4. i = ui.step
    BY <1>7, <2>3, OnlyIs
  <2>5. DOMAIN running' = {}
    BY <2>1, <2>3, <2>4, RemovedFrom
  <2>6. \/ results' = Only(TRUE) /\ ui.step \in performed'
        \/ results' = Only(FALSE)
    BY <2>2, <2>3, <2>4, AddedTo
  <2>7. \A j \in Steps : j < ui.step => j \in performed'
    BY <1>3, <2>1, <2>2
  <2>8. ui.at # "panic" /\ (ui.done <=> ui.step = 13)
    BY <1>3, <2>1
  <2>9. QED
    BY <2>1, <2>3, <2>5, <2>6, <2>7, <2>8 DEF OneAtATime
<1>8. CASE HandleRefresh
  <2>1. PICK a \in DOMAIN answers :
          ui' = Refreshed(IF a.ok THEN [ui EXCEPT !.cos = a.cos] ELSE [ui EXCEPT !.err = TRUE])
    BY <1>8 DEF HandleRefresh
  <2>2. PICK m : m = IF a.ok THEN [ui EXCEPT !.cos = a.cos] ELSE [ui EXCEPT !.err = TRUE]
    OBVIOUS
  <2>3. a \in [ok : BOOLEAN, cos : COSs]
    BY <1>1 DEF Typed
  <2>4. /\ m \in Models /\ m.step = ui.step /\ m.waiting = ui.waiting /\ m.at = ui.at
        /\ m.executing = ui.executing /\ m.done = ui.done
    BY <1>2, <2>2, <2>3, Told
  <2>5. UNCHANGED <<running, results, performed>> /\ "repeated" \notin mishaps
    <3>1. UNCHANGED <<running, results, performed>>
      BY <1>8 DEF HandleRefresh
    <3>2. mishaps \subseteq mishaps'
      BY <1>8 DEF HandleRefresh
    <3>3. QED
      BY <1>1, <3>1, <3>2
  <2>6. /\ ui'.executing = ui.executing /\ ui'.at = ui.at
        /\ \/ ui'.step = ui.step /\ ui'.waiting = ui.waiting /\ ui'.done = ui.done
           \/ /\ ui.waiting /\ ui.step \in Steps
              /\ ui'.step = ui.step + 1 /\ ui'.waiting = FALSE /\ (ui'.done <=> ui'.step = 13)
    <3>1. PICK n : n = ui'
      OBVIOUS
    <3>2. n = Refreshed(m)
      BY <2>1, <2>2, <3>1, Zenon
    <3>3. \/ n = m
          \/ /\ m.waiting /\ m.step \in Steps
             /\ n.step = m.step + 1 /\ n.waiting = FALSE /\ (n.done <=> n.step = 13)
             /\ n.executing = m.executing /\ n.at = m.at
      BY <2>4, <3>2, Refreshes
    <3>4. QED
      BY <2>4, <3>1, <3>3
  <2>7. CASE ui'.step = ui.step /\ ui'.waiting = ui.waiting /\ ui'.done = ui.done
    BY <1>3, <2>5, <2>6, <2>7 DEF OneAtATime
  <2>8. CASE /\ ui.waiting /\ ui.step \in Steps
             /\ ui'.step = ui.step + 1 /\ ui'.waiting = FALSE /\ (ui'.done <=> ui'.step = 13)
    <3>1. /\ ui.step \in performed /\ ~ui.executing /\ DOMAIN running = {} /\ DOMAIN results = {}
          /\ ui.at # "panic"
      BY <1>3, <2>5, <2>8
    <3>2. \A i \in Steps : i < ui'.step => i \in performed
      BY <1>3, <2>5, <2>8, <3>1, StepsAre
    <3>3. ui'.done <=> ui'.step = 13
      BY <2>8, StepsAre
    <3>4. QED
      BY <2>5, <2>6, <2>8, <3>1, <3>2, <3>3 DEF OneAtATime
  <2>9. QED
    BY <2>6, <2>7, <2>8
<1>9. CASE HandleTick \/ ReadCluster \/ ReadFails \/ Stamp \/ CollectGarbage \/ Reconcile
  <2>1. UNCHANGED <<ui, running, results, performed, mishaps>>
    BY <1>9, Zenon DEF HandleTick, ReadCluster, ReadFails, Stamp, CollectGarbage, Reconcile,
                       commands, history
  <2>2. QED
    BY <1>1, <1>3, <2>1 DEF OneAtATime
<1>10. CASE Quit
  <2>1. /\ ui' = [NewModel EXCEPT !.at = "cleanup"]
        /\ running' = EmptyBag /\ results' = EmptyBag
    BY <1>10 DEF Quit
  <2>2. DOMAIN running' = {} /\ DOMAIN results' = {}
    BY <2>1, NothingIn
  <2>3. /\ ui'.step = 0 /\ ui'.at = "cleanup" /\ ui'.waiting = FALSE /\ ui'.executing = FALSE
        /\ ui'.done = FALSE
    BY <2>1 DEF NewModel
  <2>4. ui'.at # "panic" /\ ui'.step # 13 /\ \A i \in Steps : ~(i < ui'.step)
    BY <2>3, StepsAre
  <2>5. QED
    BY <2>2, <2>3, <2>4, Zenon DEF OneAtATime
<1>11. CASE UNCHANGED vars
  <2>1. UNCHANGED <<ui, running, results, performed, mishaps>>
    BY <1>11 DEF vars, commands, history
  <2>2. QED
    BY <1>1, <1>3, <2>1 DEF OneAtATime
<1>12. QED
  BY <1>1, <1>4, <1>5, <1>6, <1>7, <1>8, <1>9, <1>10, <1>11, Zenon
     DEF Next, Operator, Executing, Refreshing

-----------------------------------------------------------------------------
(* What the dialog knows of the cluster stays true.                        *)

\* A report says nothing that the cluster takes back.
LEMMA ShowsKept ==
  ASSUME NEW c, Shows(c),
         \A x \in CMs : cms[x] # Missing => cms'[x] # Missing,
         RolledOut => RolledOut'
  PROVE  Shows(c)'
<1>1. \A k \in 1 .. 3 : Present(k) => Present(k)'
  BY CMsAre DEF Present
<1>2. QED
  BY <1>1 DEF Shows

LEMMA PresentKept ==
  ASSUME \A x \in CMs : cms[x] # Missing => cms'[x] # Missing
  PROVE  /\ Present(1) => Present(1)'
         /\ Present(2) => Present(2)'
         /\ Present(3) => Present(3)'
BY CMsAre DEF Present

\* While the upgrade has not been done by the dialog, nothing is rolled out.
LEMMA NotRolledOutBefore ==
  ASSUME Knows, 12 \notin performed
  PROVE  ~RolledOut
<1>1. SUFFICES ASSUME RolledOut PROVE FALSE
  OBVIOUS
<1>2. Fits(2, "p3-o3", cms["p3-o3"])
  BY <1>1, CMsAre DEF RolledOut
<1>3. cms["p3-o3"].upgrade = "done"
  BY <1>2, FitsIs
<1>4. QED
  BY <1>3 DEF Knows

\* The dialog's and the clients' steps leave the cluster alone.
LEMMA KnowsAsBefore ==
  ASSUME Knows, UNCHANGED <<cod, cos, cms, performed>>,
         ui'.step = ui.step, ui'.cos = ui.cos, ui'.waiting = ui.waiting,
         results' = results \/ ui.step \notin performed,
         \A a \in DOMAIN answers' : a \in DOMAIN answers \/ Shows(a.cos)
  PROVE  Knows'
<1>1. \A x \in CMs : cms[x] # Missing => cms'[x] # Missing
  OBVIOUS
<1>2. RolledOut => RolledOut'
  BY DEF RolledOut
<1>3. Shows(cos) /\ Shows(ui.cos) /\ \A a \in DOMAIN answers' : Shows(a.cos)
  BY DEF Knows
<1>4. \A c : Shows(c) => Shows(c)'
  BY <1>1, <1>2, ShowsKept
<1>5. Shows(cos)'
  <2>1. PICK c : c = cos
    OBVIOUS
  <2>2. Shows(c)'
    BY <1>3, <1>4, <2>1
  <2>3. QED
    BY <2>1, <2>2 DEF Shows
<1>6. Shows(ui.cos)'
  <2>1. PICK c : c = ui.cos
    OBVIOUS
  <2>2. Shows(c)'
    BY <1>3, <1>4, <2>1
  <2>3. QED
    BY <2>1, <2>2 DEF Shows
<1>7. (\A a \in DOMAIN answers : Shows(a.cos))'
  <2>1. ASSUME NEW a \in DOMAIN answers' PROVE Shows(a.cos)'
    BY <1>3, <1>4, <2>1
  <2>2. QED
    BY <2>1
<1>8. Present(1) => Present(1)'
  BY <1>1, PresentKept
<1>9. Present(2) => Present(2)'
  BY <1>1, PresentKept
<1>10. Present(3) => Present(3)'
  BY <1>1, PresentKept
<1>11. QED
  BY <1>2, <1>5, <1>6, <1>7, <1>8, <1>9, <1>10 DEF Knows

\* The effect of a step's action: the step is the current one, and it was not
\* performed before.
LEMMA PerformKnows ==
  ASSUME Typed, OneAtATime, Knows, NEW i \in DOMAIN running,
         Applies(Nth(i).action), Effect(Nth(i).action),
         performed' = performed \cup {i}, results' = BagAdd(results, TRUE),
         UNCHANGED <<ui, answers, cos>>
  PROVE  Knows'
<1>1. /\ ui.executing /\ ui.step \in Steps /\ ~ui.waiting
      /\ running = Only(ui.step) /\ DOMAIN results = {}
  BY DEF OneAtATime
<1>2. i = ui.step /\ i \in 0 .. 12
  <2>1. DOMAIN running = {ui.step}
    BY <1>1, OnlyIs, Zenon
  <2>2. i = ui.step
    BY <2>1
  <2>3. QED
    BY <1>1, <2>2, StepsAre, Zenon
<1>3. i \notin performed
  <2>1. results # Only(TRUE)
    BY <1>1, OnlyIs
  <2>2. QED
    BY <1>1, <1>2, <2>1 DEF Knows
<1>4. /\ performed \subseteq 0 .. i
      /\ cod = IF 8 \in performed THEN 2 ELSE IF 0 \in performed THEN 1 ELSE 0
      /\ cos.revision <= cod
  BY <1>2 DEF Knows
<1>5. cod \in 0 .. 2 /\ cms \in [CMs -> Contents] /\ cos.revision \in 0 .. 2
  BY COSParts, Zenon DEF Typed
<1>6. /\ cod' = IF i = 0 THEN 1 ELSE IF i = 8 THEN 2 ELSE cod
      /\ \A c \in CMs : cms[c] # Missing <=> cms'[c] # Missing
      /\ i # 12 => \A c \in CMs : cms'[c].upgrade = cms[c].upgrade
  BY <1>1, <1>2, <1>5, EffectOf
<1>7. 12 \notin performed
  BY <1>2, <1>3, <1>4
<1>8. ~RolledOut
  BY <1>7, NotRolledOutBefore
<1>9. performed' \subseteq 0 .. i
  <2>1. i \in 0 .. i
    BY <1>2
  <2>2. QED
    BY <1>4, <2>1, Zenon
<1>10. cod' = IF 8 \in performed' THEN 2 ELSE IF 0 \in performed' THEN 1 ELSE 0
  BY <1>2, <1>3, <1>4, <1>6
<1>11. cos'.revision <= cod'
  <2>1. PICK r \in 0 .. 2 : r = cos.revision
    BY <1>5
  <2>2. r <= cod'
    BY <1>2, <1>3, <1>4, <1>5, <1>6, <2>1
  <2>3. QED
    BY <2>1, <2>2
<1>12. cms'["p3-o3"].upgrade = "done" => 12 \in performed'
  <2>1. CASE i = 12
    BY <2>1
  <2>2. CASE i # 12
    <3>1. cms'["p3-o3"].upgrade = cms["p3-o3"].upgrade
      BY <1>6, <2>2, CMsAre
    <3>2. QED
      BY <3>1 DEF Knows
  <2>3. QED
    BY <2>1, <2>2
<1>13. results' = Only(TRUE)
  BY <1>1, AddedTo
<1>14. \A x \in CMs : cms[x] # Missing => cms'[x] # Missing
  BY <1>6
<1>15. \A c : Shows(c) => Shows(c)'
  BY <1>8, <1>14, ShowsKept
<1>16. Shows(cos)'
  <2>1. PICK c : c = cos
    OBVIOUS
  <2>2. Shows(c)'
    BY <1>15, <2>1 DEF Knows
  <2>3. QED
    BY <2>1, <2>2 DEF Shows
<1>17. Shows(ui.cos)'
  <2>1. PICK c : c = ui.cos
    OBVIOUS
  <2>2. Shows(c)'
    BY <1>15, <2>1 DEF Knows
  <2>3. QED
    BY <2>1, <2>2 DEF Shows
<1>18. (\A a \in DOMAIN answers : Shows(a.cos))'
  <2>1. ASSUME NEW a \in DOMAIN answers' PROVE Shows(a.cos)'
    BY <1>15, <2>1 DEF Knows
  <2>2. QED
    BY <2>1
<1>19. Present(1) => Present(1)'
  BY <1>14, PresentKept
<1>20. Present(2) => Present(2)'
  BY <1>14, PresentKept
<1>21. Present(3) => Present(3)'
  BY <1>14, PresentKept
<1>22. ui.step # 13
  BY <1>2
<1>23. QED
  BY <1>2, <1>9, <1>10, <1>11, <1>12, <1>13, <1>16, <1>17, <1>18, <1>19, <1>20, <1>21, <1>22
     DEF Knows

\* The operator's work: it adds to what there is.
LEMMA OperatorKnows ==
  ASSUME Typed, Knows, Stamp \/ Reconcile
  PROVE  Knows'
<1>1. UNCHANGED <<ui, results, answers, cod, performed>>
  BY Zenon DEF Stamp, Reconcile, commands, history
<1>2. cod \in 0 .. 2 /\ cms \in [CMs -> Contents] /\ cos \in COSs
  BY DEF Typed
<1>3. /\ \A x \in CMs : cms[x] # Missing => cms'[x] # Missing
      /\ \A x \in CMs : cms'[x].upgrade = cms[x].upgrade
      /\ cos'.revision <= cod
      /\ RolledOut => RolledOut'
      /\ Shows(cos)'
  <2>1. CASE Stamp
    <3>1. /\ cos'.revision = cod /\ cos'.reason = "" /\ DOMAIN cos'.phases = {}
          /\ cos.revision < cod
      BY <1>2, <2>1, Stamps
    <3>2. cms' = cms
      BY <2>1 DEF Stamp
    <3>3. ~RolledOut
      <4>1. \A r \in 0 .. 2, d \in 0 .. 2 : r < d => r # 2
        OBVIOUS
      <4>2. cos.revision \in 0 .. 2
        BY <1>2, COSParts, Zenon
      <4>3. cos.revision # 2
        BY <1>2, <3>1, <4>1, <4>2, Zenon
      <4>4. QED
        BY <4>3, Zenon DEF RolledOut
    <3>4. Shows(cos)'
      BY <3>1 DEF Shows
    <3>5. cos'.revision <= cod
      <4>1. cod <= cod
        BY <1>2
      <4>2. QED
        BY <3>1, <4>1, Zenon
    <3>6. QED
      BY <3>2, <3>3, <3>4, <3>5
  <2>2. CASE Reconcile
    <3>1. /\ cos'.revision = cos.revision
          /\ \A c \in CMs : /\ cms[c] # Missing => cms'[c] # Missing
                            /\ cms'[c].upgrade = cms[c].upgrade
      BY <1>2, <2>2, Reconciles
    <3>2. /\ \A c \in Phases[1] : cms'[c] # Missing
          /\ cos'.phases[1] = "Available" => \A c \in Phases[2] : cms'[c] # Missing
          /\ cos'.phases[2] = "Available" => \A c \in Phases[3] : cms'[c] # Missing
      BY <1>2, <2>2, Reconciles
    <3>3. cos'.reason = "Available" =>
            \A c \in CMs : /\ cms'[c].foo = Foo(cos.revision, c)
                           /\ Fits(cos.revision, c, cms'[c])
      BY <1>2, <2>2, Reconciles
    <3>4. (\A c \in CMs : Fits(cos.revision, c, cms[c])) => cos'.reason = "Available"
      BY <1>2, <2>2, Reconciles
    <3>5. cos.revision = 2 /\ cos'.reason = "Available" => RolledOut'
      BY <3>1, <3>3 DEF RolledOut
    <3>6. RolledOut => RolledOut'
      BY <3>4, <3>5 DEF RolledOut
    <3>7. Shows(cos)'
      BY <3>1, <3>2, <3>5 DEF Shows, Present
    <3>8. QED
      BY <3>1, <3>6, <3>7 DEF Knows
  <2>3. QED
    BY <2>1, <2>2
<1>4. \A c : Shows(c) => Shows(c)'
  BY <1>3, ShowsKept
<1>5. Shows(ui.cos)'
  <2>1. PICK c : c = ui.cos
    OBVIOUS
  <2>2. Shows(c)'
    BY <1>4, <2>1 DEF Knows
  <2>3. QED
    BY <1>1, <2>1, <2>2 DEF Shows
<1>6. (\A a \in DOMAIN answers : Shows(a.cos))'
  <2>1. ASSUME NEW a \in DOMAIN answers' PROVE Shows(a.cos)'
    BY <1>1, <1>4, <2>1 DEF Knows
  <2>2. QED
    BY <2>1
<1>7. Present(1) => Present(1)'
  BY <1>3, PresentKept
<1>8. Present(2) => Present(2)'
  BY <1>3, PresentKept
<1>9. Present(3) => Present(3)'
  BY <1>3, PresentKept
<1>10. cms'["p3-o3"].upgrade = cms["p3-o3"].upgrade
  BY <1>3, CMsAre
<1>11. QED
  BY <1>1, <1>3, <1>5, <1>6, <1>7, <1>8, <1>9, <1>10 DEF Knows

\* The answer to a refresh moves the dialog on only when it shows what the
\* step waits for.
LEMMA RefreshKnows ==
  ASSUME Typed, OneAtATime, Knows, HandleRefresh, mishaps' = {}
  PROVE  Knows'
<1>1. UNCHANGED <<running, results, cod, cos, cms, performed>>
  BY DEF HandleRefresh, cluster
<1>2. PICK a \in DOMAIN answers :
        /\ answers' = BagRemove(answers, a)
        /\ ui' = Refreshed(IF a.ok THEN [ui EXCEPT !.cos = a.cos] ELSE [ui EXCEPT !.err = TRUE])
        /\ ~(a.ok /\ a.cos.revision < ui.cos.revision)
  BY DEF HandleRefresh
<1>3. PICK m : m = IF a.ok THEN [ui EXCEPT !.cos = a.cos] ELSE [ui EXCEPT !.err = TRUE]
  OBVIOUS
<1>4. ui \in Models /\ a \in [ok : BOOLEAN, cos : COSs]
  BY DEF Typed
<1>5. /\ m \in Models /\ m.step = ui.step /\ m.waiting = ui.waiting
      /\ m.cos = IF a.ok THEN a.cos ELSE ui.cos
  BY <1>3, <1>4, Told
<1>6. PICK n : n = ui'
  OBVIOUS
<1>7. n = Refreshed(m)
  BY <1>2, <1>3, <1>6, Zenon
<1>8. /\ n.cos = m.cos
      /\ \/ n.step = m.step /\ n.waiting = m.waiting
         \/ /\ m.waiting /\ m.step \in Steps /\ Nth(m.step).waitFor # None
            /\ Satisfied(Nth(m.step).waitFor, m.cos)
            /\ n.step = m.step + 1 /\ n.waiting = FALSE
  <2>1. CASE n = m
    BY <2>1
  <2>2. CASE n # m
    BY <1>5, <1>7, <2>2, Refreshes
  <2>3. QED
    BY <2>1, <2>2
<1>9. Shows(m.cos)
  BY <1>5 DEF Knows
<1>10. ui.step >= 9 => m.cos.revision = 2
  <2>1. \A r \in 0 .. 2 : ~(r < 2) => r = 2
    OBVIOUS
  <2>2. a.ok => a.cos.revision \in 0 .. 2
    <3>1. a.cos \in COSs
      BY <1>4
    <3>2. QED
      BY <3>1, COSParts, Zenon
  <2>3. ui.step >= 9 => ui.cos.revision = 2
    BY DEF Knows
  <2>4. QED
    BY <1>2, <1>5, <2>1, <2>2, <2>3, Zenon
<1>11. PICK c : c = m.cos
  OBVIOUS
<1>12. Shows(c)'
  <2>1. \A x \in CMs : cms[x] # Missing => cms'[x] # Missing
    BY <1>1
  <2>2. RolledOut => RolledOut'
    BY <1>1 DEF RolledOut
  <2>3. Shows(c)
    BY <1>9, <1>11
  <2>4. QED
    BY <2>1, <2>2, <2>3, ShowsKept
<1>13. Shows(ui.cos)'
  BY <1>6, <1>8, <1>11, <1>12 DEF Shows
<1>14. Shows(cos)'
  BY <1>1 DEF Knows, Shows, Present, RolledOut
<1>15. (\A b \in DOMAIN answers : Shows(b.cos))'
  <2>1. ASSUME NEW b \in DOMAIN answers' PROVE Shows(b.cos)'
    <3>1. b \in DOMAIN answers
      BY <1>2, <2>1, RemovedFrom
    <3>2. Shows(b.cos)
      BY <3>1 DEF Knows
    <3>3. QED
      BY <1>1, <3>2 DEF Shows, Present, RolledOut
  <2>2. QED
    BY <2>1
<1>16. /\ performed \subseteq 0 .. ui.step
       /\ cod = IF 8 \in performed THEN 2 ELSE IF 0 \in performed THEN 1 ELSE 0
       /\ cos.revision <= cod
       /\ cms["p3-o3"].upgrade = "done" => 12 \in performed
       /\ ui.step >= 1 => Present(1)
       /\ ui.step >= 3 => Present(2)
       /\ ui.step >= 5 => Present(3)
       /\ ui.step = 13 => RolledOut
       /\ ui.step \in performed => ui.waiting \/ results = Only(TRUE)
  BY DEF Knows
<1>17. (Present(1) => Present(1)') /\ (Present(2) => Present(2)') /\ (Present(3) => Present(3)')
  BY <1>1 DEF Present
<1>18. RolledOut => RolledOut'
  BY <1>1 DEF RolledOut
<1>19. CASE n.step = m.step /\ n.waiting = m.waiting
  <2>1. ui'.step = ui.step /\ ui'.waiting = ui.waiting
    BY <1>5, <1>6, <1>19
  <2>2. ui'.step >= 9 => ui'.cos.revision = 2
    BY <1>6, <1>8, <1>10, <2>1
  <2>3. QED
    BY <1>1, <1>13, <1>14, <1>15, <1>16, <1>17, <1>18, <2>1, <2>2 DEF Knows
<1>20. CASE /\ m.waiting /\ m.step \in Steps /\ Nth(m.step).waitFor # None
            /\ Satisfied(Nth(m.step).waitFor, m.cos)
            /\ n.step = m.step + 1 /\ n.waiting = FALSE
  <2>1. ui.step \in {0, 2, 4, 7, 8, 10, 12}
    <3>1. PICK s \in Steps : s = ui.step
      BY <1>5, <1>20
    <3>2. s \notin {1, 3, 5, 6, 9, 11}
      BY <1>5, <1>20, <3>1, WaitsFor
    <3>3. QED
      BY <3>1, <3>2, StepsAre
  <2>2. ui'.step = ui.step + 1
    BY <1>5, <1>6, <1>20
  <2>3. Satisfied(Nth(ui.step).waitFor, c)
    BY <1>5, <1>11, <1>20
  <2>4. ui'.step >= 1 => Present(1)
    <3>1. CASE ui.step = 0
      BY <1>9, <1>11, <2>3, <3>1, SatisfiedMeans DEF Shows
    <3>2. CASE ui.step # 0
      BY <1>16, <2>1, <3>2
    <3>3. QED
      BY <3>1, <3>2
  <2>5. ui'.step >= 3 => Present(2)
    <3>1. CASE ui.step = 2
      BY <1>9, <1>11, <2>3, <3>1, SatisfiedMeans DEF Shows
    <3>2. CASE ui.step # 2
      BY <1>16, <2>1, <2>2, <3>2
    <3>3. QED
      BY <3>1, <3>2
  <2>6. ui'.step >= 5 => Present(3)
    <3>1. CASE ui.step = 4
      BY <1>9, <1>11, <2>3, <3>1, SatisfiedMeans DEF Shows
    <3>2. CASE ui.step # 4
      BY <1>16, <2>1, <2>2, <3>2
    <3>3. QED
      BY <3>1, <3>2
  <2>7. ui'.step >= 9 => ui'.cos.revision = 2
    <3>1. CASE ui.step = 8
      <4>1. c.revision = 2
        BY <2>3, <3>1, SatisfiedMeans
      <4>2. QED
        BY <1>6, <1>8, <1>11, <4>1
    <3>2. CASE ui.step # 8
      <4>1. ui'.step >= 9 => ui.step >= 9
        BY <2>1, <2>2, <3>2
      <4>2. QED
        BY <1>6, <1>8, <1>10, <4>1
    <3>3. QED
      BY <3>1, <3>2
  <2>8. ui'.step = 13 => RolledOut
    <3>1. SUFFICES ASSUME ui'.step = 13 PROVE RolledOut
      OBVIOUS
    <3>2. ui.step = 12
      BY <2>1, <2>2, <3>1
    <3>3. c.revision = 2
      BY <1>10, <1>11, <3>2
    <3>4. c.reason = "Available"
      BY <2>3, <3>2, SatisfiedMeans
    <3>5. QED
      BY <1>9, <1>11, <3>3, <3>4 DEF Shows
  <2>9. performed \subseteq 0 .. ui'.step /\ ui'.step \notin performed
    <3>1. ui.step \in 0 .. 12
      BY <2>1
    <3>2. QED
      BY <1>16, <2>2, <3>1
  <2>10. QED
    BY <1>1, <1>13, <1>14, <1>15, <1>16, <1>17, <1>18,
       <2>4, <2>5, <2>6, <2>7, <2>8, <2>9 DEF Knows
<1>21. QED
  BY <1>8, <1>19, <1>20

\* A finished step moves the dialog on only when it does not have to wait.
LEMMA StepDoneKnows ==
  ASSUME Typed, OneAtATime, Knows, HandleStepDone
  PROVE  Knows'
<1>1. UNCHANGED <<running, answers, cod, cos, cms, performed>>
  BY DEF HandleStepDone, cluster, history
<1>2. PICK ok \in DOMAIN results :
        /\ results' = BagRemove(results, ok)
        /\ IF ok THEN ui' = StepSucceeded(ui)
           ELSE ui' = [ui EXCEPT !.executing = FALSE, !.err = TRUE]
  BY DEF HandleStepDone
<1>3. ui \in Models /\ ok \in BOOLEAN
  BY DEF Typed
<1>4. /\ ui.executing /\ ui.step \in Steps /\ ~ui.waiting
      /\ \/ results = Only(TRUE) /\ ui.step \in performed
         \/ results = Only(FALSE)
  BY <1>2 DEF OneAtATime
<1>5. DOMAIN Only(TRUE) = {TRUE} /\ DOMAIN Only(FALSE) = {FALSE}
  BY OnlyIs
<1>6. ui.step \in 0 .. 12
  BY <1>4, StepsAre
<1>7. CASE ok
  <2>1. PICK n : n = ui'
    OBVIOUS
  <2>2. n = StepSucceeded(ui)
    BY <1>2, <1>7, <2>1
  <2>3. /\ n.cos = ui.cos
        /\ \/ n.step = ui.step /\ n.waiting = TRUE
           \/ /\ n.step = ui.step + 1 /\ n.waiting = FALSE
              /\ ui.step \in {1, 3, 5, 6, 9, 11}
    BY <1>3, <1>4, <2>2, Succeeds
  <2>4. CASE n.step = ui.step /\ n.waiting = TRUE
    <3>1. Shows(cos)' /\ Shows(ui.cos)' /\ (\A a \in DOMAIN answers : Shows(a.cos))'
      BY <1>1, <2>1, <2>3 DEF Knows, Shows, Present, RolledOut
    <3>2. QED
      BY <1>1, <2>1, <2>3, <2>4, <3>1 DEF Knows, Present, RolledOut
  <2>5. CASE /\ n.step = ui.step + 1 /\ n.waiting = FALSE
             /\ ui.step \in {1, 3, 5, 6, 9, 11}
    <3>1. Shows(cos)' /\ Shows(ui.cos)' /\ (\A a \in DOMAIN answers : Shows(a.cos))'
      BY <1>1, <2>1, <2>3 DEF Knows, Shows, Present, RolledOut
    <3>2. ui'.step = ui.step + 1
      BY <2>1, <2>5
    <3>3. performed \subseteq 0 .. ui'.step /\ ui'.step \notin performed
      <4>1. performed \subseteq 0 .. ui.step
        BY DEF Knows
      <4>2. QED
        BY <1>6, <3>2, <4>1
    <3>4. /\ ui'.step >= 1 => ui.step >= 1
          /\ ui'.step >= 3 => ui.step >= 3
          /\ ui'.step >= 5 => ui.step >= 5
          /\ ui'.step >= 9 => ui.step >= 9
          /\ ui'.step # 13
      BY <2>5, <3>2
    <3>5. (Present(1) => Present(1)') /\ (Present(2) => Present(2)') /\ (Present(3) => Present(3)')
      BY <1>1 DEF Present
    <3>6. ui'.step >= 9 => ui'.cos.revision = 2
      BY <2>1, <2>3, <3>4 DEF Knows
    <3>7. QED
      BY <1>1, <3>1, <3>3, <3>4, <3>5, <3>6 DEF Knows
  <2>6. QED
    BY <2>3, <2>4, <2>5
<1>8. CASE ~ok
  <2>1. results # Only(TRUE)
    BY <1>3, <1>5, <1>8
  <2>2. ui.step \notin performed
    BY <1>4, <2>1 DEF Knows
  <2>3. ui' = [ui EXCEPT !.executing = FALSE, !.err = TRUE]
    BY <1>2, <1>8
  <2>4. ui'.step = ui.step /\ ui'.cos = ui.cos /\ ui'.waiting = ui.waiting
    BY <1>3, <2>3 DEF Models
  <2>5. \A a \in DOMAIN answers' : a \in DOMAIN answers \/ Shows(a.cos)
    BY <1>1
  <2>6. QED
    BY <1>1, <2>2, <2>4, <2>5, KnowsAsBefore
<1>9. QED
  BY <1>7, <1>8

LEMMA UndisturbedKept ==
  Typed /\ NotBegun /\ Sequential /\ Undisturbed /\ [Next]_vars => Undisturbed'
<1>1. SUFFICES ASSUME Typed, NotBegun, Sequential, Undisturbed, [Next]_vars,
                      mishaps' = {}, ui'.at = "open"
               PROVE  Knows'
  BY DEF Undisturbed
<1>2. mishaps = {} => OneAtATime
  BY <1>1 DEF Sequential
<1>3. mishaps = {} /\ ui.at = "open" => Knows
  BY <1>1 DEF Undisturbed
<1>4. ui \in Models
  BY <1>1 DEF Typed
<1>5. CASE Enter
  <2>1. /\ UNCHANGED <<results, answers, cod, cos, cms, performed>> /\ ui.at = "open"
        /\ mishaps \subseteq mishaps'
        /\ \/ ui' = [ui EXCEPT !.err = FALSE, !.executing = TRUE]
           \/ ui' = [ui EXCEPT !.at = "panic"]
    BY <1>5 DEF Enter, cluster
  <2>2. ui'.step = ui.step /\ ui'.cos = ui.cos /\ ui'.waiting = ui.waiting
    BY <1>4, <2>1 DEF Models
  <2>3. Knows
    BY <1>1, <1>3, <2>1
  <2>4. \A a \in DOMAIN answers' : a \in DOMAIN answers \/ Shows(a.cos)
    BY <2>1
  <2>5. QED
    BY <2>1, <2>2, <2>3, <2>4, KnowsAsBefore
<1>6. CASE HandleStepDone
  <2>1. ui.at = "open" /\ mishaps' = mishaps
    BY <1>6 DEF HandleStepDone, history
  <2>2. QED
    BY <1>1, <1>2, <1>3, <1>6, <2>1, StepDoneKnows
<1>7. CASE Cleanup
  <2>1. /\ ui.at = "cleanup" /\ cos = NoCOS /\ ui' = NewModel
        /\ UNCHANGED <<running, results, answers, cod, cos, cms, performed>>
    BY <1>7 DEF Cleanup, cluster, history
  <2>2. performed = {} /\ cod = 0 /\ DOMAIN answers = {}
    BY <1>1, <2>1 DEF NotBegun
  <2>3. ui'.step = 0 /\ ui'.cos = NoCOS
    BY <2>1, NewModelIs, Zenon
  <2>4. cms["p3-o3"].upgrade # "done"
    <3>1. cms["p3-o3"] = Missing
      BY <1>1, <2>1, CMsAre DEF Typed
    <3>2. Missing.upgrade = ""
      BY DEF Missing, CM
    <3>3. QED
      BY <3>1, <3>2
  <2>5. cos'.revision = 0 /\ DOMAIN cos'.phases = {} /\ DOMAIN ui'.cos.phases = {}
        /\ ui'.cos.revision = 0
    BY <2>1, <2>3, NoCOSIs, Zenon
  <2>6. Shows(cos)' /\ Shows(ui.cos)'
    BY <2>5 DEF Shows
  <2>7. QED
    BY <2>1, <2>2, <2>3, <2>4, <2>5, <2>6 DEF Knows
<1>8. ASSUME NEW i \in DOMAIN running, Perform(i) \/ PerformFails(i)
      PROVE  Knows'
  <2>1. UNCHANGED <<ui, answers, cos>> /\ mishaps = {}
    <3>1. UNCHANGED <<ui, answers, cos>>
      BY <1>8, Zenon DEF Perform, PerformFails
    <3>2. mishaps' = mishaps \/ mishaps' = mishaps \cup {"lost"}
      BY <1>8, Zenon DEF Perform, PerformFails
    <3>3. QED
      BY <1>1, <3>1, <3>2
  <2>2. OneAtATime /\ Knows
    BY <1>1, <1>2, <1>3, <2>1
  <2>3. i \in Steps
    BY <1>1, <1>8 DEF Typed
  <2>4. \/ /\ Applies(Nth(i).action) /\ Effect(Nth(i).action)
           /\ performed' = performed \cup {i} /\ results' = BagAdd(results, TRUE)
        \/ UNCHANGED <<cod, cms, performed>>
    <3>1. CASE Perform(i)
      <4>1. CASE Applies(Nth(i).action)
        <5>1. Applies(Nth(i).action) = TRUE
          BY <2>3, <4>1, AppliesIs
        <5>2. QED
          BY <3>1, <4>1, <5>1, Zenon DEF Perform
      <4>2. CASE ~Applies(Nth(i).action)
        BY <3>1, <4>2, Zenon DEF Perform
      <4>3. QED
        BY <4>1, <4>2
    <3>2. CASE PerformFails(i)
      <4>1. mishaps' # mishaps \cup {"lost"}
        BY <1>1
      <4>2. QED
        BY <3>2, <4>1, Zenon DEF PerformFails
    <3>3. QED
      BY <1>8, <3>1, <3>2
  <2>5. CASE /\ Applies(Nth(i).action) /\ Effect(Nth(i).action)
             /\ performed' = performed \cup {i} /\ results' = BagAdd(results, TRUE)
    BY <1>1, <1>8, <2>1, <2>2, <2>5, PerformKnows
  <2>6. CASE UNCHANGED <<cod, cms, performed>>
    <3>1. ui.executing /\ ~ui.waiting /\ DOMAIN results = {}
      BY <1>8, <2>2 DEF OneAtATime
    <3>2. results # Only(TRUE)
      BY <3>1, OnlyIs
    <3>3. ui.step \notin performed
      BY <2>2, <3>1, <3>2 DEF Knows
    <3>4. \A a \in DOMAIN answers' : a \in DOMAIN answers \/ Shows(a.cos)
      BY <2>1
    <3>5. QED
      BY <2>1, <2>2, <2>6, <3>3, <3>4, KnowsAsBefore
  <2>7. QED
    BY <2>4, <2>5, <2>6
<1>9. CASE HandleRefresh
  <2>1. ui.at = "open" /\ mishaps \subseteq mishaps'
    BY <1>9 DEF HandleRefresh
  <2>2. QED
    BY <1>1, <1>2, <1>3, <1>9, <2>1, RefreshKnows
<1>10. CASE HandleTick
  <2>1. UNCHANGED <<ui, results, answers, cod, cos, cms, performed, mishaps>>
    BY <1>10 DEF HandleTick, cluster, history
  <2>2. Knows
    BY <1>1, <1>3, <2>1
  <2>3. \A a \in DOMAIN answers' : a \in DOMAIN answers \/ Shows(a.cos)
    BY <2>1
  <2>4. QED
    BY <2>1, <2>2, <2>3, KnowsAsBefore
<1>11. CASE ReadCluster \/ ReadFails
  <2>1. UNCHANGED <<ui, results, cod, cos, cms, performed, mishaps>>
    BY <1>11 DEF ReadCluster, ReadFails, cluster, history
  <2>2. Knows
    BY <1>1, <1>3, <2>1
  <2>3. \A a \in DOMAIN answers' : a \in DOMAIN answers \/ Shows(a.cos)
    <3>1. CASE ReadCluster
      <4>1. PICK b : b = [ok |-> TRUE, cos |-> cos]
        OBVIOUS
      <4>2. answers' = BagAdd(answers, b)
        BY <3>1, <4>1 DEF ReadCluster
      <4>3. DOMAIN answers' = DOMAIN answers \cup {b}
        BY <4>2, AddedTo
      <4>4. Shows(cos)
        BY <2>2 DEF Knows
      <4>5. Shows(b.cos)
        BY <4>1, <4>4
      <4>6. QED
        BY <4>3, <4>5
    <3>2. CASE ReadFails
      <4>1. PICK b : b = [ok |-> FALSE, cos |-> NoCOS]
        OBVIOUS
      <4>2. answers' = BagAdd(answers, b)
        BY <3>2, <4>1 DEF ReadFails
      <4>3. DOMAIN answers' = DOMAIN answers \cup {b}
        BY <4>2, AddedTo
      <4>4. b.cos = NoCOS
        BY <4>1
      <4>5. b.cos.revision = 0 /\ DOMAIN b.cos.phases = {}
        BY <4>4, NoCOSIs, Zenon
      <4>6. Shows(b.cos)
        BY <4>5 DEF Shows
      <4>7. QED
        BY <4>3, <4>6
    <3>3. QED
      BY <1>11, <3>1, <3>2
  <2>4. QED
    BY <2>1, <2>2, <2>3, KnowsAsBefore
<1>12. CASE Stamp \/ Reconcile
  <2>1. UNCHANGED <<ui, mishaps>>
    BY <1>12, Zenon DEF Stamp, Reconcile, history
  <2>2. QED
    BY <1>1, <1>3, <1>12, <2>1, OperatorKnows
<1>13. CASE CollectGarbage
  <2>1. cod = 0 /\ cos # NoCOS /\ UNCHANGED <<ui, mishaps>>
    BY <1>13 DEF CollectGarbage, history
  <2>2. cos.revision <= 0
    BY <1>1, <1>3, <2>1 DEF Knows
  <2>3. cos.revision \in 1 .. 2
    BY <1>1, <2>1, COSParts, Zenon DEF Typed
  <2>4. \A r \in 1 .. 2 : ~(r <= 0)
    OBVIOUS
  <2>5. QED
    BY <2>2, <2>3, <2>4, Zenon
<1>14. CASE Quit
  <2>1. ui' = [NewModel EXCEPT !.at = "cleanup"]
    BY <1>14 DEF Quit
  <2>2. ui'.at = "cleanup"
    BY <2>1 DEF NewModel
  <2>3. QED
    BY <1>1, <2>2
<1>15. CASE UNCHANGED vars
  <2>1. UNCHANGED <<ui, results, answers, cod, cos, cms, performed, mishaps>>
    BY <1>15 DEF vars, commands, cluster, history
  <2>2. Knows
    BY <1>1, <1>3, <2>1
  <2>3. \A a \in DOMAIN answers' : a \in DOMAIN answers \/ Shows(a.cos)
    BY <2>1
  <2>4. QED
    BY <2>1, <2>2, <2>3, KnowsAsBefore
<1>16. QED
  BY <1>1, <1>5, <1>6, <1>7, <1>8, <1>9, <1>10, <1>11, <1>12, <1>13, <1>14, <1>15, Zenon
     DEF Next, Operator, Executing, Refreshing

-----------------------------------------------------------------------------
(* The theorems.                                                           *)

\* Whatever the user, the commands and the operator do: the dialog is at one
\* step, with its action or its result under way, and what it has been told
\* of the cluster still holds, until something goes wrong that it does not
\* notice (Update, executeStepCmd, refreshCmd).
THEOREM DialogInvariant == Spec => []IInv
<1>1. Init => IInv
  BY InitialState
<1>2. IInv /\ [Next]_vars => IInv'
  BY TypedKept, NotBegunKept, SequentialKept, UndisturbedKept, Zenon DEF IInv
<1>3. QED
  BY <1>1, <1>2, PTL DEF Spec

\* Every value has its type, and the dialog never looks for a step past the
\* last one, unless a failed refresh made its user repeat a step
\* (buildSteps is indexed by m.step without a check).
THEOREM TypeCorrect == Spec => []TypeOK
<1>1. IInv => TypeOK
  <2>1. SUFFICES ASSUME IInv PROVE TypeOK
    OBVIOUS
  <2>2. /\ ui \in Models /\ cos \in COSs /\ cms \in [CMs -> Contents]
        /\ DOMAIN running \subseteq Steps /\ DOMAIN results \subseteq BOOLEAN
    BY <2>1 DEF IInv, Typed
  <2>3. ui.cos \in COSs
    BY <2>2 DEF Models
  <2>4. IsCOS(cos) /\ IsCOS(ui.cos)
    BY <2>2, <2>3, COSParts, Zenon DEF IsCOS, Statuses
  <2>5. "repeated" \notin mishaps =>
          /\ ui.at # "panic"
          /\ ui.step \in Steps \/ (ui.done /\ ~ui.executing /\ ~ui.waiting)
    <3>1. SUFFICES ASSUME "repeated" \notin mishaps
                   PROVE  /\ ui.at # "panic"
                          /\ ui.step \in Steps \/ (ui.done /\ ~ui.executing /\ ~ui.waiting)
      OBVIOUS
    <3>2. OneAtATime
      BY <2>1, <3>1 DEF IInv, Sequential
    <3>3. ui.step \in Steps \/ ui.step = 13
      <4>1. ui.step \in 0 .. 13
        BY <2>2 DEF Models
      <4>2. QED
        BY <4>1, StepsAre
    <3>4. 13 \notin Steps
      BY StepsAre
    <3>5. QED
      BY <3>2, <3>3, <3>4 DEF OneAtATime
  <2>6. QED
    BY <2>2, <2>4, <2>5, Zenon DEF TypeOK, Contents
<1>2. QED
  BY <1>1, DialogInvariant, PTL

\* The dialog passes no step that has had no effect on the cluster: a message
\* that a step is done is always about the current one, although it does not
\* say so (stepDoneMsg).
THEOREM NoStepSkipped == Spec => []StepsPerformed
<1>1. IInv => StepsPerformed
  BY DEF IInv, Sequential, OneAtATime, StepsPerformed
<1>2. QED
  BY <1>1, DialogInvariant, PTL

\* Each action finds what it acts on: a gate is opened only after the operator
\* has written its ConfigMap, which the dialog has seen in the status of an
\* earlier phase (buildSteps).
THEOREM ActionsFindTheirObjects == Spec => []ActionsApply
<1>1. IInv => ActionsApply
  <2>1. SUFFICES ASSUME IInv, mishaps = {}, NEW i \in DOMAIN running
                 PROVE  Applies(Nth(i).action)
    BY DEF ActionsApply
  <2>2. OneAtATime /\ NotBegun
    BY <2>1 DEF IInv, Sequential
  <2>3. /\ ui.executing /\ ui.step \in Steps /\ ~ui.waiting
        /\ running = Only(ui.step) /\ DOMAIN results = {}
    BY <2>1, <2>2 DEF OneAtATime
  <2>4. i = ui.step
    <3>1. DOMAIN running = {ui.step}
      BY <2>3, OnlyIs, Zenon
    <3>2. QED
      BY <2>1, <3>1
  <2>5. Knows
    <3>1. ui.at # "cleanup" /\ ui.at # "panic"
      BY <2>1, <2>2 DEF NotBegun, OneAtATime
    <3>2. ui \in Models
      BY <2>1 DEF IInv, Typed
    <3>3. ui.at = "open"
      BY <3>1, <3>2 DEF Models
    <3>4. QED
      BY <2>1, <3>3 DEF IInv, Undisturbed
  <2>6. i \in 0 .. 12 /\ i \in Steps
    BY <2>3, <2>4, StepsAre
  <2>7. i \notin performed /\ performed \subseteq 0 .. i
    <3>1. results # Only(TRUE)
      BY <2>3, OnlyIs
    <3>2. QED
      BY <2>3, <2>4, <2>5, <3>1 DEF Knows
  <2>8. cod = IF 8 \in performed THEN 2 ELSE IF 0 \in performed THEN 1 ELSE 0
    BY <2>5 DEF Knows
  <2>9. CASE i = 0
    <3>1. cod = 0
      BY <2>7, <2>8, <2>9
    <3>2. QED
      BY <2>6, <2>9, <3>1, AppliesIs
  <2>10. CASE i = 8
    <3>1. 0 \in performed
      BY <2>2, <2>4, <2>10, StepsAre DEF OneAtATime
    <3>2. cod # 0
      BY <2>8, <3>1
    <3>3. Applies(Nth(i).action) = (cod # 0)
      BY <2>6, <2>10, AppliesIs
    <3>4. QED
      BY <3>2, <3>3, Zenon
  <2>11. CASE i \in Patches
    <3>1. cms[GateOf(i)] # Missing
      <4>1. CASE i \in {1, 2, 9, 10}
        <5>1. Present(1)
          BY <2>4, <2>5, <4>1 DEF Knows
        <5>2. GateOf(i) \in Phases[1]
          BY <4>1, CMsAre DEF GateOf
        <5>3. QED
          BY <5>1, <5>2 DEF Present
      <4>2. CASE i \in {3, 4}
        <5>1. Present(2)
          BY <2>4, <2>5, <4>2 DEF Knows
        <5>2. GateOf(i) \in Phases[2]
          BY <4>2, CMsAre DEF GateOf
        <5>3. QED
          BY <5>1, <5>2 DEF Present
      <4>3. CASE i \in {5, 6, 7, 11, 12}
        <5>1. Present(3)
          BY <2>4, <2>5, <4>3 DEF Knows
        <5>2. GateOf(i) \in Phases[3]
          BY <4>3, CMsAre DEF GateOf
        <5>3. QED
          BY <5>1, <5>2 DEF Present
      <4>4. QED
        BY <2>11, <4>1, <4>2, <4>3 DEF Patches
    <3>2. i # 0 /\ i # 8
      BY <2>11 DEF Patches
    <3>3. QED
      BY <2>6, <3>1, <3>2, AppliesIs
  <2>12. i = 0 \/ i = 8 \/ i \in Patches
    BY <2>6 DEF Patches
  <2>13. QED
    BY <2>9, <2>10, <2>11, <2>12
<1>2. QED
  BY <1>1, DialogInvariant, PTL

\* "Done! All steps completed." is not shown before the second revision is
\* available and every ConfigMap has its content and passes its assertions:
\* the status of the first revision cannot end the last wait (viewPrompt).
THEOREM DoneIsTrue == Spec => []DoneMeansRolledOut
<1>1. IInv => DoneMeansRolledOut
  <2>1. SUFFICES ASSUME IInv, Prompt = "done", mishaps = {}
                 PROVE  /\ cos.revision = 2 /\ cos.reason = "Available"
                        /\ \A c \in CMs : cms[c].foo = Foo(2, c) /\ Fits(2, c, cms[c])
    BY DEF DoneMeansRolledOut
  <2>2. OneAtATime /\ NotBegun /\ ui \in Models
    BY <2>1 DEF IInv, Sequential, Typed
  <2>3. ui.done
    BY <2>1 DEF Prompt
  <2>4. ui.step = 13 /\ ui.at # "panic"
    BY <2>2, <2>3 DEF OneAtATime
  <2>5. ui.at # "cleanup"
    <3>1. SUFFICES ASSUME ui.at = "cleanup" PROVE FALSE
      OBVIOUS
    <3>2. ui = [NewModel EXCEPT !.at = "cleanup"]
      BY <2>2, <3>1 DEF NotBegun
    <3>3. ui.step = 0
      BY <3>2 DEF NewModel
    <3>4. QED
      BY <2>4, <3>3
  <2>6. ui.at = "open"
    BY <2>2, <2>4, <2>5 DEF Models
  <2>7. RolledOut
    BY <2>1, <2>4, <2>6 DEF IInv, Undisturbed, Knows
  <2>8. QED
    BY <2>7 DEF RolledOut
<1>2. QED
  BY <1>1, DialogInvariant, PTL
=============================================================================

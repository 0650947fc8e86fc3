------------------------ MODULE FieldOwnershipProofs ------------------------
(* The fields of a revision and their managers are well formed, the applies  *)
(* the controllers make from an up-to-date copy are admitted, and the        *)
(* deployment's applies never take the finalizer away, whatever the lag and  *)
(* the number of edits.                                                      *)
EXTENDS FieldOwnership, TLAPS

-----------------------------------------------------------------------------
(* What the API server holds.  Beyond TypeOK, the deployment controller does *)
(* not manage the finalizer, and the immutable fields are the template's;    *)
(* older copies have the same shape.                                         *)

Fields == UNION {[D -> Value] : D \in SUBSET Field}
Objects == [fields : Fields, managed : [Manager -> SUBSET Field], deleting : BOOLEAN]

OfTemplate(fields) == "spec" \in DOMAIN fields => fields["spec"] = "template"

Kept == {o \in Objects :
  /\ \A f \in Field : Has(o, f) <=> \E m \in Manager : f \in o.managed[m]
  /\ "finalizer" \notin o.managed["cod"]
  /\ OfTemplate(o.fields)
  /\ Exists(o) => Required \subseteq DOMAIN o.fields}

Stored == {o \in Kept : o.deleting => Has(o, "finalizer")}

\* What m may apply.
Configs(m) == {config \in Fields :
  /\ OfTemplate(config)
  /\ m = "cod" => "finalizer" \notin DOMAIN config}

ApiOK == obj \in Stored /\ stream \in Seq(Stored) /\ Len(stream) <= MaxLag

DeploymentOK ==
  /\ pc \in {"idle", "adopt", "sync", "claim", "archive"}
  /\ listed \in [copy : Stored, superseded : BOOLEAN]
  /\ queued \in BOOLEAN

FieldInv ==
  /\ ApiOK /\ DeploymentOK
  /\ seen \in Stored
  /\ superseded \in BOOLEAN
  /\ budget \in [Kind -> Nat]

-----------------------------------------------------------------------------
(* Functions from fields to values.                                        *)

LEMMA InFields ==
  ASSUME NEW D, D \subseteq Field, NEW g, g \in [D -> Value]
  PROVE  g \in Fields /\ DOMAIN g = D
BY DEF Fields

LEMMA FieldsAre ==
  ASSUME NEW g \in Fields
  PROVE  /\ DOMAIN g \subseteq Field
         /\ g \in [DOMAIN g -> Value]
         /\ \A f \in DOMAIN g : f \in Field /\ g[f] \in Value
BY DEF Fields

LEMMA RestrictIs ==
  ASSUME NEW g \in Fields, NEW D, D \subseteq DOMAIN g
  PROVE  /\ Restrict(g, D) \in Fields
         /\ DOMAIN Restrict(g, D) = D
         /\ \A f \in D : Restrict(g, D)[f] = g[f]
<1>1. Restrict(g, D) \in [D -> Value] /\ D \subseteq Field
  BY FieldsAre DEF Restrict
<1>2. QED
  BY <1>1, InFields DEF Restrict

LEMMA MergeIs ==
  ASSUME NEW g \in Fields, NEW h \in Fields
  PROVE  /\ Merged(g, h) \in Fields
         /\ DOMAIN Merged(g, h) = DOMAIN g \cup DOMAIN h
         /\ \A f \in DOMAIN g : Merged(g, h)[f] = g[f]
         /\ \A f \in DOMAIN h \ DOMAIN g : Merged(g, h)[f] = h[f]
<1> DEFINE D == DOMAIN g \cup DOMAIN h
<1>1. Merged(g, h) \in [D -> Value] /\ D \subseteq Field
  BY FieldsAre DEF Merged
<1>2. QED
  BY <1>1, InFields DEF Merged

LEMMA NothingIs ==
  /\ Nothing \in Fields /\ DOMAIN Nothing = {}
  /\ Gone \in Stored /\ ~Exists(Gone) /\ Gone.fields = Nothing
<1>1. Nothing \in [{} -> Value] /\ DOMAIN Nothing = {}
  BY DEF Nothing
<1>2. Nothing \in Fields
  BY <1>1, InFields
<1>3. Gone \in Objects
  BY <1>2 DEF Gone, Objects
<1>4. QED
  BY <1>1, <1>2, <1>3 DEF Gone, Stored, Kept, Has, Exists, OfTemplate, Manager

-----------------------------------------------------------------------------
(* Objects.                                                                *)

LEMMA KeptIs ==
  ASSUME NEW o \in Kept
  PROVE  /\ o \in Objects
         /\ o.fields \in Fields /\ DOMAIN o.fields \subseteq Field
         /\ o.managed \in [Manager -> SUBSET Field]
         /\ o.deleting \in BOOLEAN
         /\ \A f \in Field : Has(o, f) <=> \E m \in Manager : f \in o.managed[m]
         /\ \A m \in Manager : o.managed[m] \subseteq DOMAIN o.fields
         /\ "finalizer" \notin o.managed["cod"]
         /\ OfTemplate(o.fields)
         /\ Exists(o) => Required \subseteq DOMAIN o.fields
<1>1. o \in Objects
  BY DEF Kept
<1>2. o.fields \in Fields /\ o.managed \in [Manager -> SUBSET Field] /\ o.deleting \in BOOLEAN
  BY <1>1 DEF Objects
<1>3. \A f \in Field : Has(o, f) <=> \E m \in Manager : f \in o.managed[m]
  BY DEF Kept
<1>4. \A m \in Manager : o.managed[m] \subseteq DOMAIN o.fields
  BY <1>2, <1>3 DEF Has
<1>5. QED
  BY <1>1, <1>2, <1>3, <1>4, FieldsAre DEF Kept

LEMMA StoredIsKept == Stored \subseteq Kept
BY DEF Stored

\* An object of these parts is as the API server may hold it.
LEMMA KeptFrom ==
  ASSUME NEW fields \in Fields, NEW managed \in [Manager -> SUBSET Field],
         NEW deleting \in BOOLEAN,
         \A f \in Field : f \in DOMAIN fields <=> \E m \in Manager : f \in managed[m],
         "finalizer" \notin managed["cod"],
         OfTemplate(fields),
         Required \subseteq DOMAIN fields
  PROVE  [fields |-> fields, managed |-> managed, deleting |-> deleting] \in Kept
BY DEF Kept, Objects, Has

\* Another object with what m applies to it, and what the other managers keep.
OverlaidBy(o, m, config, new) ==
  /\ new \in Objects
  /\ DOMAIN config \subseteq DOMAIN new.fields
  /\ \A f \in DOMAIN config : new.fields[f] = config[f]
  /\ \A f \in DOMAIN new.fields \ DOMAIN config :
       f \in DOMAIN o.fields /\ new.fields[f] = o.fields[f]
  /\ \A f \in DOMAIN o.fields : f \notin o.managed[m] => f \in DOMAIN new.fields
  /\ new.managed[m] = DOMAIN config
  /\ \A n \in Manager : n # m => new.managed[n] \subseteq o.managed[n]
  /\ \A f \in Field : Has(new, f) <=> \E n \in Manager : f \in new.managed[n]
  /\ new.deleting = o.deleting

LEMMA AppliedIs ==
  ASSUME NEW o \in Kept, NEW m \in Manager, NEW config \in Fields
  PROVE  OverlaidBy(o, m, config, Applied(o, m, config))
<1> DEFINE dropped == o.managed[m] \ (DOMAIN config \cup UNION {o.managed[n] : n \in Manager \ {m}})
           forced == {f \in DOMAIN config : Has(o, f) /\ o.fields[f] # config[f]}
           rest == Restrict(o.fields, DOMAIN o.fields \ dropped)
           fields == Merged(config, rest)
           managed == [n \in Manager |-> IF n = m THEN DOMAIN config ELSE o.managed[n] \ forced]
           made == [fields |-> fields, managed |-> managed, deleting |-> o.deleting]
<1>1. Applied(o, m, config) = made
  <2>1. Applied(o, m, config) = [o EXCEPT !.fields = fields, !.managed = managed]
    BY DEF Applied
  <2>2. o \in [fields : Fields, managed : [Manager -> SUBSET Field], deleting : BOOLEAN]
    BY KeptIs DEF Objects
  <2> HIDE DEF fields, managed
  <2>3. QED
    BY <2>1, <2>2
<1>2. /\ rest \in Fields /\ DOMAIN rest = DOMAIN o.fields \ dropped
      /\ \A f \in DOMAIN rest : rest[f] = o.fields[f]
  BY KeptIs, RestrictIs
<1>3. /\ fields \in Fields /\ DOMAIN fields = DOMAIN config \cup DOMAIN rest
      /\ \A f \in DOMAIN config : fields[f] = config[f]
      /\ \A f \in DOMAIN rest \ DOMAIN config : fields[f] = rest[f]
  BY <1>2, MergeIs
<1>4. managed \in [Manager -> SUBSET Field]
  BY KeptIs, FieldsAre
<1>5. ASSUME NEW f \in Field
      PROVE  f \in DOMAIN fields <=> \E n \in Manager : f \in managed[n]
  <2>1. CASE f \in DOMAIN config
    BY <2>1, <1>3
  <2>2. CASE f \notin DOMAIN config
    <3>1. f \in DOMAIN fields <=> Has(o, f) /\ f \notin dropped
      BY <2>2, <1>2, <1>3 DEF Has
    <3>2. Has(o, f) <=> \E n \in Manager : f \in o.managed[n]
      BY KeptIs
    <3>3. f \notin forced /\ f \notin managed[m]
      BY <2>2
    <3>4. \A n \in Manager : n # m => (f \in managed[n] <=> f \in o.managed[n])
      BY <3>3
    <3>5. f \in dropped <=> f \in o.managed[m] /\ \A n \in Manager \ {m} : f \notin o.managed[n]
      BY <2>2
    <3>6. QED
      BY <3>1, <3>2, <3>3, <3>4, <3>5
  <2>3. QED
    BY <2>1, <2>2
<1>6. made \in Objects
  BY <1>3, <1>4, KeptIs DEF Objects
<1>7. \A f \in DOMAIN o.fields : f \notin o.managed[m] => f \in DOMAIN fields
  BY <1>2, <1>3
<1>8. \A f \in DOMAIN fields \ DOMAIN config : f \in DOMAIN o.fields /\ fields[f] = o.fields[f]
  BY <1>2, <1>3
<1>9. managed[m] = DOMAIN config /\ \A n \in Manager : n # m => managed[n] \subseteq o.managed[n]
  OBVIOUS
<1> HIDE DEF fields, managed
<1>10. OverlaidBy(o, m, config, made)
  BY <1>3, <1>5, <1>6, <1>7, <1>8, <1>9 DEF Has, OverlaidBy
<1>11. QED
  BY <1>1, <1>10

LEMMA AppliedKept ==
  ASSUME NEW o \in Kept, NEW m \in Manager, NEW config \in Configs(m),
         Admitted(o, Applied(o, m, config))
  PROVE  Applied(o, m, config) \in Kept
<1> DEFINE new == Applied(o, m, config)
<1>1. config \in Fields /\ OfTemplate(config) /\ (m = "cod" => "finalizer" \notin DOMAIN config)
  BY DEF Configs
<1>2. OverlaidBy(o, m, config, new)
  BY <1>1, AppliedIs
<1>3. Required \subseteq DOMAIN new.fields
  BY DEF Admitted
<1>4. "cod" \in Manager /\ "finalizer" \notin o.managed["cod"] /\ OfTemplate(o.fields)
  BY KeptIs DEF Manager
<1> HIDE DEF new
<1>5. OfTemplate(new.fields)
  BY <1>1, <1>2, <1>4 DEF OfTemplate, OverlaidBy
<1>6. "finalizer" \notin new.managed["cod"]
  BY <1>1, <1>2, <1>4 DEF OverlaidBy
<1>7. new \in Kept
  BY <1>2, <1>3, <1>5, <1>6 DEF OverlaidBy, Kept
<1>8. QED
  BY <1>7 DEF new

\* What an update leaves, that takes away neither required fields nor what it
\* sets.
LEMMA UpdatedIs ==
  ASSUME NEW o \in Kept, NEW m \in Manager \ {"cod"}, NEW changes \in Fields,
         NEW removed \in SUBSET (Field \ Required),
         removed \cap DOMAIN changes = {},
         OfTemplate(changes),
         Exists(o) \/ Required \subseteq DOMAIN changes
  PROVE  /\ Updated(o, m, changes, removed) \in Kept
         /\ DOMAIN Updated(o, m, changes, removed).fields
              = DOMAIN changes \cup (DOMAIN o.fields \ removed)
<1> DEFINE changed == {f \in DOMAIN changes : ~Has(o, f) \/ o.fields[f] # changes[f]}
           rest == Restrict(o.fields, DOMAIN o.fields \ removed)
           fields == Merged(changes, rest)
           managed == [n \in Manager |-> (o.managed[n] \ (changed \cup removed))
                                          \cup (IF n = m THEN changed ELSE {})]
           new == [fields |-> fields, managed |-> managed, deleting |-> o.deleting]
<1>1. Updated(o, m, changes, removed) = new
  <2>1. o \in [fields : Fields, managed : [Manager -> SUBSET Field], deleting : BOOLEAN]
    BY KeptIs DEF Objects
  <2>2. DOMAIN o.managed = Manager
    BY KeptIs
  <2>3. Updated(o, m, changes, removed) = [o EXCEPT !.fields = fields, !.managed = managed]
    BY <2>2 DEF Updated
  <2> HIDE DEF fields, managed
  <2>4. QED
    BY <2>1, <2>3
<1>2. /\ rest \in Fields /\ DOMAIN rest = DOMAIN o.fields \ removed
      /\ \A f \in DOMAIN rest : rest[f] = o.fields[f]
  BY KeptIs, RestrictIs
<1>3. /\ fields \in Fields /\ DOMAIN fields = DOMAIN changes \cup DOMAIN rest
      /\ \A f \in DOMAIN changes : fields[f] = changes[f]
      /\ \A f \in DOMAIN rest \ DOMAIN changes : fields[f] = rest[f]
  BY <1>2, MergeIs
<1>4. managed \in [Manager -> SUBSET Field]
  BY KeptIs, FieldsAre
<1>5. ASSUME NEW f \in Field
      PROVE  f \in DOMAIN fields <=> \E n \in Manager : f \in managed[n]
  <2>1. Has(o, f) <=> \E n \in Manager : f \in o.managed[n]
    BY KeptIs
  <2>2. \A n \in Manager : f \in managed[n]
                             <=> \/ f \in o.managed[n] /\ f \notin changed /\ f \notin removed
                                 \/ n = m /\ f \in changed
    OBVIOUS
  <2>3. f \in DOMAIN fields <=> f \in DOMAIN changes \/ (Has(o, f) /\ f \notin removed)
    BY <1>2, <1>3 DEF Has
  <2>4. f \in DOMAIN changes => f \notin removed /\ (f \in changed \/ Has(o, f))
    OBVIOUS
  <2>5. f \in changed => f \in DOMAIN changes
    OBVIOUS
  <2> HIDE DEF managed, fields, changed
  <2>6. QED
    BY <2>1, <2>2, <2>3, <2>4, <2>5
<1>6. "finalizer" \notin managed["cod"]
  BY KeptIs DEF Manager
<1>7. OfTemplate(fields)
  BY <1>2, <1>3, KeptIs DEF OfTemplate
<1>8. Required \subseteq DOMAIN fields
  BY <1>2, <1>3, KeptIs
<1>9. o.deleting \in BOOLEAN
  BY KeptIs
<1> HIDE DEF fields, managed
<1>10. new \in Kept
  BY <1>3, <1>4, <1>5, <1>6, <1>7, <1>8, <1>9, KeptFrom
<1>11. QED
  BY <1>1, <1>2, <1>3, <1>10
LEMMA SettledIs ==
  ASSUME NEW o \in Kept
  PROVE  Settled(o) \in Stored /\ (Has(Settled(o), "finalizer") <=> Has(o, "finalizer"))
<1>1. CASE o.deleting /\ ~Has(o, "finalizer")
  BY <1>1, NothingIs DEF Settled, Has
<1>2. CASE ~(o.deleting /\ ~Has(o, "finalizer"))
  BY <1>2 DEF Settled, Stored
<1>3. QED
  BY <1>1, <1>2

\* A write keeps what the API server holds and what it has told well formed,
\* and takes the finalizer only if what it writes has none.
LEMMA PutKeeps ==
  ASSUME ApiOK, NEW o \in Kept, Put(o)
  PROVE  ApiOK' /\ (Has(obj', "finalizer") <=> Has(o, "finalizer"))
<1>1. Settled(o) \in Stored /\ (Has(Settled(o), "finalizer") <=> Has(o, "finalizer"))
  BY SettledIs
<1>2. CASE Settled(o) = obj
  BY <1>1, <1>2 DEF Put, api, ApiOK
<1>3. CASE Settled(o) # obj
  <2>1. Len(stream) < MaxLag /\ obj' = Settled(o) /\ stream' = Append(stream, Settled(o))
    BY <1>3 DEF Put
  <2>2. stream' \in Seq(Stored) /\ Len(stream') = Len(stream) + 1
    BY <1>1, <2>1 DEF ApiOK
  <2>3. Len(stream) \in Nat
    BY DEF ApiOK
  <2>4. QED
    BY <1>1, <2>1, <2>2, <2>3, FieldAssumption DEF ApiOK
<1>4. QED
  BY <1>2, <1>3

-----------------------------------------------------------------------------
(* Apply configurations.                                                   *)

LEMMA ExtractIs ==
  ASSUME NEW o \in Kept, NEW m \in Manager
  PROVE  /\ Extract(o, m) \in Configs(m)
         /\ DOMAIN Extract(o, m) = o.managed[m]
         /\ \A f \in o.managed[m] : Has(o, f) /\ Extract(o, m)[f] = o.fields[f]
<1>1. o.managed[m] \subseteq DOMAIN o.fields /\ o.fields \in Fields
  BY KeptIs
<1>2. Extract(o, m) = Restrict(o.fields, o.managed[m])
  <2>1. o.managed[m] \cap DOMAIN o.fields = o.managed[m]
    BY <1>1
  <2>2. QED
    BY <2>1 DEF Extract
<1>3. /\ Extract(o, m) \in Fields
      /\ DOMAIN Extract(o, m) = o.managed[m]
      /\ \A f \in o.managed[m] : Extract(o, m)[f] = o.fields[f]
  BY <1>1, <1>2, RestrictIs
<1>4. OfTemplate(Extract(o, m))
  BY <1>1, <1>3, KeptIs DEF OfTemplate
<1>5. m = "cod" => "finalizer" \notin o.managed[m]
  BY KeptIs
<1>6. QED
  BY <1>1, <1>3, <1>4, <1>5 DEF Configs, Has

LEMMA ConfigureIs ==
  ASSUME NEW o \in Kept, NEW m \in Manager, NEW mutation \in Configs(m)
  PROVE  /\ Configure(o, m, mutation) \in Configs(m)
         /\ DOMAIN Configure(o, m, mutation) = DOMAIN mutation \cup o.managed[m]
         /\ \A f \in DOMAIN mutation : Configure(o, m, mutation)[f] = mutation[f]
         /\ \A f \in o.managed[m] \ DOMAIN mutation :
              Has(o, f) /\ Configure(o, m, mutation)[f] = o.fields[f]
<1> DEFINE extracted == Extract(o, m)
           config == Configure(o, m, mutation)
<1>1. /\ extracted \in Configs(m) /\ DOMAIN extracted = o.managed[m]
      /\ \A f \in o.managed[m] : Has(o, f) /\ extracted[f] = o.fields[f]
  BY ExtractIs
<1>2. config = Merged(mutation, extracted)
  BY DEF Configure
<1> HIDE DEF extracted, config
<1>3. extracted \in Fields /\ mutation \in Fields
  BY <1>1 DEF Configs
<1>4. /\ config \in Fields /\ DOMAIN config = DOMAIN mutation \cup DOMAIN extracted
      /\ \A f \in DOMAIN mutation : config[f] = mutation[f]
      /\ \A f \in DOMAIN extracted \ DOMAIN mutation : config[f] = extracted[f]
  BY <1>2, <1>3, MergeIs
<1>5. OfTemplate(config)
  BY <1>1, <1>4 DEF OfTemplate, Configs
<1>6. m = "cod" => "finalizer" \notin DOMAIN config
  BY <1>1, <1>4 DEF Configs
<1>7. config \in Configs(m)
  BY <1>4, <1>5, <1>6 DEF Configs
<1>8. QED
  BY <1>1, <1>4, <1>7 DEF config

\* A single field as a configuration.
LEMMA SingleIs ==
  ASSUME NEW f \in Field, NEW v \in Value, NEW g, g = [x \in {f} |-> v]
  PROVE  Merged(g, Nothing) = g /\ g \in Fields /\ DOMAIN g = {f}
<1>1. g \in [{f} -> Value] /\ {f} \subseteq Field
  OBVIOUS
<1>2. g \in Fields /\ DOMAIN g = {f} /\ g[f] = v
  BY <1>1, InFields
<1>3. Merged(g, Nothing) = g
  BY <1>2, NothingIs DEF Merged
<1>4. QED
  BY <1>2, <1>3

LEMMA MutationsAre ==
  /\ SetControllerReference(Nothing) = [owner |-> "cod"]
  /\ WithLifecycleState(Nothing, "Archived") = [lifecycle |-> "Archived"]
  /\ WithFinalizers(Nothing, "cos") = [finalizer |-> "cos"]
  /\ [owner |-> "cod"] \in Configs("cod")
  /\ [lifecycle |-> "Archived"] \in Configs("cod")
  /\ [finalizer |-> "cos"] \in Configs("cos")
<1>1. /\ [owner |-> "cod"] = [x \in {"owner"} |-> "cod"]
      /\ [lifecycle |-> "Archived"] = [x \in {"lifecycle"} |-> "Archived"]
      /\ [finalizer |-> "cos"] = [x \in {"finalizer"} |-> "cos"]
  OBVIOUS
<1>2. /\ "owner" \in Field /\ "lifecycle" \in Field /\ "finalizer" \in Field
      /\ "cod" \in Value /\ "Archived" \in Value /\ "cos" \in Value
  BY DEF Field, Value
<1>3. /\ Merged([owner |-> "cod"], Nothing) = [owner |-> "cod"]
      /\ [owner |-> "cod"] \in Fields /\ DOMAIN [owner |-> "cod"] = {"owner"}
  BY <1>1, <1>2, SingleIs
<1>4. /\ Merged([lifecycle |-> "Archived"], Nothing) = [lifecycle |-> "Archived"]
      /\ [lifecycle |-> "Archived"] \in Fields
      /\ DOMAIN [lifecycle |-> "Archived"] = {"lifecycle"}
  BY <1>1, <1>2, SingleIs
<1>5. /\ Merged([finalizer |-> "cos"], Nothing) = [finalizer |-> "cos"]
      /\ [finalizer |-> "cos"] \in Fields /\ DOMAIN [finalizer |-> "cos"] = {"finalizer"}
  BY <1>1, <1>2, SingleIs
<1>6. SetControllerReference(Nothing) = [owner |-> "cod"]
  BY <1>3 DEF SetControllerReference, WithOwnerReferences
<1>7. WithLifecycleState(Nothing, "Archived") = [lifecycle |-> "Archived"]
  BY <1>4 DEF WithLifecycleState
<1>8. WithFinalizers(Nothing, "cos") = [finalizer |-> "cos"]
  BY <1>5 DEF WithFinalizers
<1>9. [owner |-> "cod"] \in Configs("cod")
  BY <1>3 DEF Configs, OfTemplate
<1>10. [lifecycle |-> "Archived"] \in Configs("cod")
  BY <1>4 DEF Configs, OfTemplate
<1>11. [finalizer |-> "cos"] \in Configs("cos")
  BY <1>5 DEF Configs, OfTemplate
<1>12. QED
  BY <1>6, <1>7, <1>8, <1>9, <1>10, <1>11

LEMMA DesiredIs ==
  /\ Desired \in Configs("cod")
  /\ DOMAIN Desired = {"spec", "lifecycle", "hash", "label", "owner"}
<1> DEFINE spec == [spec |-> "template"]
           active == WithLifecycleState(spec, "Active")
           labelled == WithLabels(Nothing, "current")
           whole == WithSpec(labelled, active)
<1>1. spec \in Fields /\ DOMAIN spec = {"spec"} /\ spec["spec"] = "template"
  <2>1. spec \in [{"spec"} -> Value] /\ {"spec"} \subseteq Field
    BY DEF Value, Field
  <2>2. QED
    BY <2>1, InFields
<1>2. [lifecycle |-> "Active"] \in Fields /\ DOMAIN [lifecycle |-> "Active"] = {"lifecycle"}
  <2>1. [lifecycle |-> "Active"] \in [{"lifecycle"} -> Value] /\ {"lifecycle"} \subseteq Field
    BY DEF Value, Field
  <2>2. QED
    BY <2>1, InFields
<1>3. /\ [hash |-> "current", label |-> "template"] \in Fields
      /\ DOMAIN [hash |-> "current", label |-> "template"] = {"hash", "label"}
  <2>1. /\ [hash |-> "current", label |-> "template"] \in [{"hash", "label"} -> Value]
        /\ {"hash", "label"} \subseteq Field
    BY DEF Value, Field
  <2>2. QED
    BY <2>1, InFields
<1>4. [owner |-> "cod"] \in Fields /\ DOMAIN [owner |-> "cod"] = {"owner"}
  <2>1. [owner |-> "cod"] \in [{"owner"} -> Value] /\ {"owner"} \subseteq Field
    BY DEF Value, Field
  <2>2. QED
    BY <2>1, InFields
<1>5. active \in Fields /\ DOMAIN active = {"lifecycle", "spec"} /\ active["spec"] = "template"
  <2>1. active = Merged([lifecycle |-> "Active"], spec)
    BY DEF WithLifecycleState
  <2> HIDE DEF spec, active
  <2>2. QED
    BY <1>1, <1>2, <2>1, MergeIs
<1>6. labelled \in Fields /\ DOMAIN labelled = {"hash", "label"}
  <2>1. labelled = Merged([hash |-> "current", label |-> "template"], Nothing)
    BY DEF WithLabels
  <2>2. PICK g : g = [hash |-> "current", label |-> "template"]
    OBVIOUS
  <2>3. g \in Fields /\ DOMAIN g = {"hash", "label"}
    BY <1>3, <2>2
  <2>4. labelled = Merged(g, Nothing)
    BY <2>1, <2>2
  <2> HIDE DEF labelled
  <2>5. labelled \in Fields /\ DOMAIN labelled = DOMAIN g \cup DOMAIN Nothing
    BY <2>3, <2>4, NothingIs, MergeIs
  <2>6. QED
    BY <2>3, <2>5, NothingIs
<1>7. Desired = Merged([owner |-> "cod"], Merged(active, labelled))
  BY DEF Desired, SetControllerReference, WithOwnerReferences, WithSpec
<1> HIDE DEF spec, active, labelled
<1>8. /\ Merged(active, labelled) \in Fields
      /\ DOMAIN Merged(active, labelled) = {"lifecycle", "spec", "hash", "label"}
      /\ Merged(active, labelled)["spec"] = "template"
  <2>1. /\ Merged(active, labelled) \in Fields
        /\ DOMAIN Merged(active, labelled) = DOMAIN active \cup DOMAIN labelled
        /\ \A f \in DOMAIN active : Merged(active, labelled)[f] = active[f]
    BY <1>5, <1>6, MergeIs
  <2>2. QED
    BY <1>5, <1>6, <2>1
<1>9. /\ Desired \in Fields
      /\ DOMAIN Desired = {"spec", "lifecycle", "hash", "label", "owner"}
      /\ Desired["spec"] = "template"
  BY <1>4, <1>7, <1>8, MergeIs
<1>10. QED
  BY <1>9 DEF Configs, OfTemplate

LEMMA ConfigurationsAre ==
  ASSUME NEW o \in Kept
  PROVE  /\ Adoption(o) = Configure(o, "cod", [owner |-> "cod"])
         /\ Archival(o) = Configure(o, "cod", [lifecycle |-> "Archived"])
         /\ Protection(o) = Configure(o, "cos", [finalizer |-> "cos"])
         /\ Adoption(o) \in Configs("cod")
         /\ Archival(o) \in Configs("cod")
         /\ Protection(o) \in Configs("cos")
<1>1. "cod" \in Manager /\ "cos" \in Manager
  BY DEF Manager
<1>2. /\ Adoption(o) = Configure(o, "cod", [owner |-> "cod"])
      /\ Archival(o) = Configure(o, "cod", [lifecycle |-> "Archived"])
      /\ Protection(o) = Configure(o, "cos", [finalizer |-> "cos"])
  BY MutationsAre DEF Adoption, Archival, Protection, FieldOwner
<1>3. Configure(o, "cod", [owner |-> "cod"]) \in Configs("cod")
  BY <1>1, MutationsAre, ConfigureIs
<1>4. Configure(o, "cod", [lifecycle |-> "Archived"]) \in Configs("cod")
  BY <1>1, MutationsAre, ConfigureIs
<1>5. Configure(o, "cos", [finalizer |-> "cos"]) \in Configs("cos")
  BY <1>1, MutationsAre, ConfigureIs
<1>6. QED
  BY <1>2, <1>3, <1>4, <1>5

-----------------------------------------------------------------------------
(* The steps.  The finalizer goes only from a revision that is to go.      *)

FinalizerStays ==
  (Has(obj, "finalizer") /\ ~Has(obj', "finalizer")) => (obj.deleting \/ Archived(obj))

\* The writes of the deployment's reconcile to a revision that is there.
OwnerWrites ==
  \/ UNCHANGED api
  \/ \E config \in Configs("cod") :
       Admitted(obj, Applied(obj, "cod", config)) /\ Put(Applied(obj, "cod", config))

LEMMA ApiStays ==
  ASSUME ApiOK, UNCHANGED api
  PROVE  ApiOK' /\ FinalizerStays
BY DEF ApiOK, api, FinalizerStays

LEMMA OwnerWritesKeep ==
  ASSUME ApiOK, OwnerWrites
  PROVE  ApiOK' /\ FinalizerStays
<1>1. CASE UNCHANGED api
  BY <1>1, ApiStays
<1>2. CASE \E config \in Configs("cod") :
             Admitted(obj, Applied(obj, "cod", config)) /\ Put(Applied(obj, "cod", config))
  <2>1. PICK config \in Configs("cod") :
             Admitted(obj, Applied(obj, "cod", config)) /\ Put(Applied(obj, "cod", config))
    BY <1>2
  <2>2. obj \in Kept /\ "cod" \in Manager /\ config \in Fields
    BY StoredIsKept DEF ApiOK, Manager, Configs
  <2>3. Applied(obj, "cod", config) \in Kept
    BY <2>1, <2>2, AppliedKept
  <2>4. OverlaidBy(obj, "cod", config, Applied(obj, "cod", config))
    BY <2>2, AppliedIs
  <2>5. "finalizer" \notin obj.managed["cod"]
    BY <2>2, KeptIs
  <2>6. Has(obj, "finalizer") => Has(Applied(obj, "cod", config), "finalizer")
    BY <2>4, <2>5 DEF OverlaidBy, Has
  <2>7. ApiOK' /\ (Has(obj', "finalizer") <=> Has(Applied(obj, "cod", config), "finalizer"))
    BY <2>1, <2>3, PutKeeps
  <2>8. QED
    BY <2>6, <2>7 DEF FinalizerStays
<1>3. QED
  BY <1>1, <1>2 DEF OwnerWrites

LEMMA IdleKeeps ==
  ASSUME DeploymentOK, NEW again \in BOOLEAN, Idle(again)
  PROVE  DeploymentOK'
BY NothingIs DEF DeploymentOK, Idle, Unlisted

LEMMA AtKeeps ==
  ASSUME DeploymentOK, NEW label \in {"sync", "claim", "archive"}, At(label)
  PROVE  DeploymentOK'
BY DEF DeploymentOK, At

LEMMA StartKeeps ==
  ASSUME FieldInv, Start
  PROVE  FieldInv' /\ FinalizerStays
<1>1. ApiOK' /\ FinalizerStays
  BY ApiStays DEF FieldInv, Start
<1>2. DeploymentOK'
  BY DEF FieldInv, Start, DeploymentOK
<1>3. QED
  BY <1>1, <1>2 DEF FieldInv, Start

LEMMA AdoptOrphansKeeps ==
  ASSUME FieldInv, AdoptOrphans
  PROVE  FieldInv' /\ FinalizerStays
<1>1. listed.copy \in Kept
  BY StoredIsKept DEF FieldInv, DeploymentOK
<1>2. OwnerWrites
  BY <1>1, ConfigurationsAre DEF AdoptOrphans, Attempt, FieldOwner, OwnerWrites
<1>3. At("sync") \/ Idle(TRUE)
  BY DEF AdoptOrphans, Attempt
<1>4. QED
  BY <1>2, <1>3, OwnerWritesKeep, IdleKeeps, AtKeeps DEF FieldInv, AdoptOrphans

LEMMA EnsureFieldOwnershipKeeps ==
  ASSUME FieldInv, EnsureFieldOwnership
  PROVE  FieldInv' /\ FinalizerStays
<1>1. OwnerWrites
  BY DesiredIs DEF EnsureFieldOwnership, Attempt, FieldOwner, OwnerWrites
<1>2. At("archive") \/ Idle(TRUE)
  BY DEF EnsureFieldOwnership, Attempt
<1>3. QED
  BY <1>1, <1>2, OwnerWritesKeep, IdleKeeps, AtKeeps DEF FieldInv, EnsureFieldOwnership

\* A new revision has no finalizer and no managers yet.
LEMMA CreatedIs ==
  ASSUME NEW m \in Manager \ {"cod"}, NEW config \in Configs("cod"),
         Required \subseteq DOMAIN config
  PROVE  Updated(Gone, m, config, {}) \in Kept
<1>1. Gone \in Kept
  BY NothingIs, StoredIsKept
<1>2. config \in Fields /\ OfTemplate(config) /\ {} \in SUBSET (Field \ Required)
  BY DEF Configs
<1>3. QED
  BY <1>1, <1>2, UpdatedIs

LEMMA CreateRevisionKeeps ==
  ASSUME FieldInv, CreateRevision
  PROVE  FieldInv' /\ FinalizerStays
<1>1. CASE Exists(obj)
  <2>1. Idle(TRUE) /\ UNCHANGED api
    BY <1>1 DEF CreateRevision
  <2>2. QED
    BY <2>1, ApiStays, IdleKeeps DEF FieldInv, CreateRevision
<1>2. CASE ~Exists(obj)
  <2>1. Put(Updated(Gone, "create", Desired, {})) /\ At("claim")
    BY <1>2 DEF CreateRevision
  <2>2. Updated(Gone, "create", Desired, {}) \in Kept
    BY DesiredIs, CreatedIs DEF Required, Manager
  <2>3. ApiOK'
    BY <2>1, <2>2, PutKeeps DEF FieldInv
  <2>4. ~Has(obj, "finalizer")
    BY <1>2, NothingIs DEF Exists, Has
  <2>5. QED
    BY <2>1, <2>3, <2>4, AtKeeps DEF FieldInv, CreateRevision, FinalizerStays
<1>3. QED
  BY <1>1, <1>2

LEMMA ClaimRevisionKeeps ==
  ASSUME FieldInv, ClaimRevision
  PROVE  FieldInv' /\ FinalizerStays
<1>1. OwnerWrites
  BY DesiredIs DEF ClaimRevision, Attempt, FieldOwner, OwnerWrites
<1>2. Idle(FALSE) \/ Idle(TRUE)
  BY DEF ClaimRevision, Attempt
<1>3. QED
  BY <1>1, <1>2, OwnerWritesKeep, IdleKeeps DEF FieldInv, ClaimRevision

LEMMA CreateNextKeeps ==
  ASSUME FieldInv, CreateNext
  PROVE  FieldInv' /\ FinalizerStays
BY ApiStays, IdleKeeps DEF FieldInv, CreateNext

LEMMA SyncNewerKeeps ==
  ASSUME FieldInv, SyncNewer
  PROVE  FieldInv' /\ FinalizerStays
BY ApiStays, AtKeeps DEF FieldInv, SyncNewer

LEMMA ArchiveSupersededKeeps ==
  ASSUME FieldInv, ArchiveSuperseded
  PROVE  FieldInv' /\ FinalizerStays
<1>1. listed.copy \in Kept
  BY StoredIsKept DEF FieldInv, DeploymentOK
<1>2. OwnerWrites
  BY <1>1, ConfigurationsAre DEF ArchiveSuperseded, Attempt, FieldOwner, OwnerWrites
<1>3. Idle(FALSE) \/ Idle(TRUE)
  BY DEF ArchiveSuperseded, Attempt
<1>4. QED
  BY <1>2, <1>3, OwnerWritesKeep, IdleKeeps DEF FieldInv, ArchiveSuperseded
\* Spending what is left of a budget.
LEMMA SpendKeeps ==
  ASSUME budget \in [Kind -> Nat], NEW k \in Kind, Spend(k)
  PROVE  budget' \in [Kind -> Nat]
BY DEF Spend

LEMMA FailKeeps ==
  ASSUME FieldInv, Fail
  PROVE  FieldInv' /\ FinalizerStays
<1>1. budget' \in [Kind -> Nat]
  BY SpendKeeps DEF FieldInv, Fail, Kind
<1>2. QED
  BY <1>1, ApiStays, IdleKeeps DEF FieldInv, Fail

LEMMA CrashKeeps ==
  ASSUME FieldInv, Crash
  PROVE  FieldInv' /\ FinalizerStays
<1>1. budget' \in [Kind -> Nat]
  BY SpendKeeps DEF FieldInv, Crash, Kind
<1>2. ApiOK' /\ seen' \in Stored
  BY FieldAssumption DEF FieldInv, Crash, ApiOK
<1>3. DeploymentOK'
  BY NothingIs DEF DeploymentOK, Crash, Unlisted
<1>4. QED
  BY <1>1, <1>2, <1>3 DEF FieldInv, Crash, FinalizerStays

LEMMA EnsureFinalizerKeeps ==
  ASSUME FieldInv, EnsureFinalizer
  PROVE  FieldInv' /\ FinalizerStays
<1> DEFINE config == Protection(seen)
           new == Applied(obj, "cos", config)
<1>1. Admitted(obj, new) /\ Put(new)
  BY DEF EnsureFinalizer, FieldOwner
<1>2. seen \in Kept /\ obj \in Kept /\ "cos" \in Manager
  BY StoredIsKept DEF FieldInv, ApiOK, Manager
<1>3. config \in Configs("cos") /\ config = Configure(seen, "cos", [finalizer |-> "cos"])
  BY <1>2, ConfigurationsAre
<1>4. new \in Kept
  BY <1>1, <1>2, <1>3, AppliedKept
<1>5. Has(new, "finalizer")
  <2>1. config \in Fields
    BY <1>3 DEF Configs
  <2>2. OverlaidBy(obj, "cos", config, new)
    BY <1>2, <2>1, AppliedIs
  <2>3. DOMAIN config = {"finalizer"} \cup seen.managed["cos"]
    <3>1. DOMAIN Configure(seen, "cos", [finalizer |-> "cos"])
            = DOMAIN [finalizer |-> "cos"] \cup seen.managed["cos"]
      BY <1>2, MutationsAre, ConfigureIs
    <3>2. DOMAIN [finalizer |-> "cos"] = {"finalizer"}
      OBVIOUS
    <3>3. QED
      BY <1>3, <3>1, <3>2
  <2> HIDE DEF config, new
  <2>4. QED
    BY <2>2, <2>3 DEF OverlaidBy, Has
<1> HIDE DEF new
<1>6. ApiOK' /\ Has(obj', "finalizer")
  BY <1>1, <1>4, <1>5, PutKeeps DEF FieldInv
<1>7. DeploymentOK'
  BY DEF FieldInv, EnsureFinalizer, DeploymentOK
<1>8. QED
  BY <1>6, <1>7 DEF FieldInv, EnsureFinalizer, FinalizerStays

LEMMA ChangedIs ==
  ASSUME NEW o \in Objects, NEW fields, NEW managed,
         NEW new, new = [o EXCEPT !.fields = fields, !.managed = managed]
  PROVE  new = [fields |-> fields, managed |-> managed, deleting |-> o.deleting]
BY DEF Objects

\* What is left when a field is removed.
LEMMA RemovedIs ==
  ASSUME NEW fields \in Fields, NEW managed \in [Manager -> SUBSET Field],
         NEW deleting \in BOOLEAN, NEW o,
         o = [fields |-> fields, managed |-> managed, deleting |-> deleting]
  PROVE  Updated(o, "cos", Nothing, {"finalizer"})
           = [fields |-> Merged(Nothing, Restrict(fields, DOMAIN fields \ {"finalizer"})),
              managed |-> [n \in Manager |-> managed[n] \ {"finalizer"}],
              deleting |-> deleting]
<1> DEFINE changed == {f \in DOMAIN Nothing : ~Has(o, f) \/ o.fields[f] # Nothing[f]}
           rest == Merged(Nothing, Restrict(o.fields, DOMAIN o.fields \ {"finalizer"}))
           left == [n \in Manager |-> (o.managed[n] \ (changed \cup {"finalizer"}))
                                       \cup (IF n = "cos" THEN changed ELSE {})]
<1>1. o.fields = fields /\ o.managed = managed /\ o.deleting = deleting /\ DOMAIN o.managed = Manager
  OBVIOUS
<1>2. changed = {}
  BY NothingIs
<1> HIDE DEF changed
<1>3. left = [n \in Manager |-> managed[n] \ {"finalizer"}]
  BY <1>1, <1>2
<1>4. Updated(o, "cos", Nothing, {"finalizer"}) = [o EXCEPT !.fields = rest, !.managed = left]
  BY <1>1 DEF Updated, changed
<1> HIDE DEF rest, left
<1>5. o \in Objects
  BY DEF Objects
<1>6. Updated(o, "cos", Nothing, {"finalizer"})
        = [fields |-> rest, managed |-> left, deleting |-> o.deleting]
  BY <1>4, <1>5, ChangedIs
<1>7. QED
  BY <1>1, <1>3, <1>6 DEF rest

\* Clearing the entry first changes nothing in what the removal leaves: a
\* field that is removed has no manager in any case.
LEMMA RemovalIs ==
  ASSUME NEW o \in Kept
  PROVE  RemoveFinalizer(o) = Updated(o, "cos", Nothing, {"finalizer"})
<1> DEFINE cleared == ClearFinalizerFieldOwnership(o.managed)
           copy == [fields |-> o.fields, managed |-> cleared, deleting |-> o.deleting]
<1>1. /\ o.fields \in Fields /\ o.managed \in [Manager -> SUBSET Field] /\ o.deleting \in BOOLEAN
      /\ o = [fields |-> o.fields, managed |-> o.managed, deleting |-> o.deleting]
  BY KeptIs DEF Objects
<1>2. cleared \in [Manager -> SUBSET Field]
      /\ [n \in Manager |-> cleared[n] \ {"finalizer"}] = [n \in Manager |-> o.managed[n] \ {"finalizer"}]
  BY <1>1 DEF ClearFinalizerFieldOwnership
<1> HIDE DEF cleared
<1>3. [o EXCEPT !.managed = cleared] = copy
  BY <1>1
<1>4. RemoveFinalizer(o) = Updated(copy, "cos", Nothing, {"finalizer"})
  BY <1>3 DEF RemoveFinalizer, cleared
<1> HIDE DEF copy
<1>5. Updated(copy, "cos", Nothing, {"finalizer"})
        = [fields |-> Merged(Nothing, Restrict(o.fields, DOMAIN o.fields \ {"finalizer"})),
           managed |-> [n \in Manager |-> cleared[n] \ {"finalizer"}],
           deleting |-> o.deleting]
  BY <1>1, <1>2, RemovedIs DEF copy
<1>6. Updated(o, "cos", Nothing, {"finalizer"})
        = [fields |-> Merged(Nothing, Restrict(o.fields, DOMAIN o.fields \ {"finalizer"})),
           managed |-> [n \in Manager |-> o.managed[n] \ {"finalizer"}],
           deleting |-> o.deleting]
  BY <1>1, RemovedIs
<1>7. QED
  BY <1>2, <1>4, <1>5, <1>6

LEMMA ReleaseKeeps ==
  ASSUME FieldInv, Release
  PROVE  FieldInv' /\ FinalizerStays
<1>1. obj \in Kept /\ seen = obj /\ Put(RemoveFinalizer(seen))
  BY StoredIsKept DEF FieldInv, ApiOK, Release
<1>2. Exists(obj) /\ (obj.deleting \/ Archived(obj))
  BY NothingIs DEF Release, Has, Exists
<1>3. RemoveFinalizer(obj) \in Kept
  <2>1. "cos" \in Manager \ {"cod"} /\ {"finalizer"} \in SUBSET (Field \ Required)
    BY DEF Manager, Field, Required
  <2>2. Nothing \in Fields /\ {"finalizer"} \cap DOMAIN Nothing = {} /\ OfTemplate(Nothing)
    BY NothingIs DEF OfTemplate
  <2>3. QED
    BY <1>1, <1>2, <2>1, <2>2, UpdatedIs, RemovalIs
<1>4. ApiOK'
  BY <1>1, <1>3, PutKeeps DEF FieldInv
<1>5. DeploymentOK'
  BY DEF FieldInv, Release, DeploymentOK
<1>6. QED
  BY <1>2, <1>4, <1>5 DEF FieldInv, Release, FinalizerStays

LEMMA DeliverCOSKeeps ==
  ASSUME FieldInv, DeliverCOS
  PROVE  FieldInv' /\ FinalizerStays
<1>1. stream \in Seq(Stored) /\ stream # <<>> /\ Len(stream) <= MaxLag
  BY DEF FieldInv, ApiOK, DeliverCOS
<1>2. Head(stream) \in Stored /\ Tail(stream) \in Seq(Stored) /\ Len(Tail(stream)) <= MaxLag
  BY <1>1, FieldAssumption
<1>3. ApiOK' /\ seen' \in Stored
  BY <1>2 DEF FieldInv, ApiOK, DeliverCOS
<1>4. DeploymentOK'
  BY DEF FieldInv, DeliverCOS, DeploymentOK
<1>5. QED
  BY <1>3, <1>4 DEF FieldInv, DeliverCOS, FinalizerStays
LEMMA SupersedeKeeps ==
  ASSUME FieldInv, Supersede
  PROVE  FieldInv' /\ FinalizerStays
<1>1. budget' \in [Kind -> Nat]
  BY SpendKeeps DEF FieldInv, Supersede, Kind
<1>2. DeploymentOK'
  BY DEF FieldInv, Supersede, DeploymentOK
<1>3. QED
  BY <1>1, <1>2, ApiStays DEF FieldInv, Supersede

\* What a user does to the revision alone.
LEMMA UserWriteKeeps ==
  ASSUME FieldInv, NEW k \in Kind, Spend(k), NEW o \in Kept, Put(o),
         Has(obj, "finalizer") => Has(o, "finalizer"),
         UNCHANGED <<seen, superseded, pc, listed, queued>>
  PROVE  FieldInv' /\ FinalizerStays
<1>1. budget' \in [Kind -> Nat]
  BY SpendKeeps DEF FieldInv
<1>2. ApiOK' /\ FinalizerStays
  BY PutKeeps DEF FieldInv, FinalizerStays
<1>3. DeploymentOK'
  BY DEF FieldInv, DeploymentOK
<1>4. QED
  BY <1>1, <1>2, <1>3 DEF FieldInv

LEMMA CreateOrphanKeeps ==
  ASSUME FieldInv, CreateOrphan
  PROVE  FieldInv' /\ FinalizerStays
<1>1. PICK removed \in {{}, {"hash", "label"}} :
        Put(Updated(Gone, "user", Restrict(Unowned, DOMAIN Unowned \ removed), {}))
  BY DEF CreateOrphan
<1>2. Desired \in Fields /\ OfTemplate(Desired)
  BY DesiredIs DEF Configs
<1>3. /\ Unowned \in Fields /\ DOMAIN Unowned = {"spec", "lifecycle", "hash", "label"}
      /\ \A f \in DOMAIN Unowned : Unowned[f] = Desired[f]
  <2>1. DOMAIN Desired \ {"owner"} = {"spec", "lifecycle", "hash", "label"}
    BY DesiredIs
  <2>2. DOMAIN Desired \ {"owner"} \subseteq DOMAIN Desired
    OBVIOUS
  <2>3. QED
    BY <1>2, <2>1, <2>2, RestrictIs DEF Unowned
<1>4. PICK config : config = Restrict(Unowned, DOMAIN Unowned \ removed)
  OBVIOUS
<1>5. /\ config \in Fields /\ DOMAIN config = DOMAIN Unowned \ removed
      /\ \A f \in DOMAIN config : config[f] = Unowned[f]
  BY <1>3, <1>4, RestrictIs
<1>6. OfTemplate(config) /\ "finalizer" \notin DOMAIN config /\ Required \subseteq DOMAIN config
  BY <1>2, <1>3, <1>5, DesiredIs DEF OfTemplate, Required
<1>7. config \in Configs("cod")
  BY <1>5, <1>6 DEF Configs
<1>8. Updated(Gone, "user", config, {}) \in Kept
  BY <1>6, <1>7, CreatedIs DEF Manager
<1>9. ~Has(obj, "finalizer")
  BY NothingIs DEF CreateOrphan, Exists, Has
<1>10. Spend("orphan") /\ "orphan" \in Kind
       /\ UNCHANGED <<seen, superseded, pc, listed, queued>>
  BY DEF CreateOrphan, Kind
<1>11. QED
  BY <1>1, <1>4, <1>8, <1>9, <1>10, UserWriteKeeps

LEMMA EditKeeps ==
  ASSUME FieldInv, NEW k \in Kind, NEW changes \in Fields,
         NEW removed \in SUBSET (Field \ (Required \cup {"finalizer"})),
         removed \cap DOMAIN changes = {}, "spec" \notin DOMAIN changes,
         Edit(k, changes, removed)
  PROVE  FieldInv' /\ FinalizerStays
<1>1. obj \in Kept /\ "user" \in Manager \ {"cod"}
  BY StoredIsKept DEF FieldInv, ApiOK, Manager
<1>2. Exists(obj) /\ Spend(k) /\ Put(Updated(obj, "user", changes, removed))
      /\ UNCHANGED <<seen, superseded, pc, listed, queued>>
  BY DEF Edit
<1>3. OfTemplate(changes) /\ removed \in SUBSET (Field \ Required)
  BY DEF OfTemplate
<1>4. /\ Updated(obj, "user", changes, removed) \in Kept
      /\ DOMAIN Updated(obj, "user", changes, removed).fields
           = DOMAIN changes \cup (DOMAIN obj.fields \ removed)
  BY <1>1, <1>2, <1>3, UpdatedIs
<1>5. Has(obj, "finalizer") => Has(Updated(obj, "user", changes, removed), "finalizer")
  BY <1>4 DEF Has
<1>6. QED
  BY <1>2, <1>4, <1>5, UserWriteKeeps

LEMMA UserKeeps ==
  ASSUME FieldInv, Disown \/ Unlabel \/ Relabel \/ Annotate \/ UserArchive
  PROVE  FieldInv' /\ FinalizerStays
<1>1. {"disown", "unlabel", "relabel", "annotate", "archive"} \subseteq Kind
  BY DEF Kind
<1>2. /\ {"owner"} \in SUBSET (Field \ (Required \cup {"finalizer"}))
      /\ {"hash"} \in SUBSET (Field \ (Required \cup {"finalizer"}))
  BY DEF Field, Required
<1>3. CASE Disown
  <2>1. "disown" \in Kind
    BY <1>1
  <2>2. QED
    BY <1>2, <1>3, <2>1, NothingIs, EditKeeps DEF Disown
<1>4. CASE Unlabel
  <2>1. "unlabel" \in Kind
    BY <1>1
  <2>2. QED
    BY <1>2, <1>4, <2>1, NothingIs, EditKeeps DEF Unlabel
<1>5. CASE Relabel
  <2>1. [label |-> "user"] \in [{"label"} -> Value] /\ {"label"} \subseteq Field
    BY DEF Field, Value
  <2>2. [label |-> "user"] \in Fields /\ DOMAIN [label |-> "user"] = {"label"}
    BY <2>1, InFields
  <2>3. "relabel" \in Kind
    BY <1>1
  <2>4. QED
    BY <1>5, <2>2, <2>3, EditKeeps DEF Relabel
<1>6. CASE Annotate
  <2>1. [note |-> "user"] \in [{"note"} -> Value] /\ {"note"} \subseteq Field
    BY DEF Field, Value
  <2>2. [note |-> "user"] \in Fields /\ DOMAIN [note |-> "user"] = {"note"}
    BY <2>1, InFields
  <2>3. "annotate" \in Kind
    BY <1>1
  <2>4. QED
    BY <1>6, <2>2, <2>3, EditKeeps DEF Annotate
<1>7. CASE UserArchive
  <2>1. [lifecycle |-> "Archived"] \in Fields
    BY MutationsAre DEF Configs
  <2>2. DOMAIN [lifecycle |-> "Archived"] = {"lifecycle"}
    OBVIOUS
  <2>3. "archive" \in Kind
    BY <1>1
  <2>4. QED
    BY <1>7, <2>1, <2>2, <2>3, EditKeeps DEF UserArchive
<1>8. QED
  BY <1>3, <1>4, <1>5, <1>6, <1>7

LEMMA DeleteKeeps ==
  ASSUME FieldInv, Delete
  PROVE  FieldInv' /\ FinalizerStays
<1>1. obj \in Kept
  BY StoredIsKept DEF FieldInv, ApiOK
<1>2. PICK o : o = [obj EXCEPT !.deleting = TRUE]
  OBVIOUS
<1>3. /\ o \in Objects /\ o.fields = obj.fields /\ o.managed = obj.managed
  BY <1>1, <1>2, KeptIs DEF Objects
<1>4. Exists(obj) /\ Spend("delete") /\ Put(o)
      /\ UNCHANGED <<seen, superseded, pc, listed, queued>>
  BY <1>2 DEF Delete
<1>5. o \in Kept
  BY <1>1, <1>3, <1>4 DEF Kept, Has
<1>6. "delete" \in Kind /\ (Has(obj, "finalizer") => Has(o, "finalizer"))
  BY <1>3 DEF Kind, Has
<1>7. QED
  BY <1>4, <1>5, <1>6, UserWriteKeeps
-----------------------------------------------------------------------------
(* The theorems.                                                           *)

LEMMA InitFields == Init => FieldInv
<1> SUFFICES ASSUME Init PROVE FieldInv
  OBVIOUS
<1>1. Gone \in Stored
  BY NothingIs
<1>2. ApiOK
  BY <1>1, FieldAssumption DEF Init, ApiOK
<1>3. DeploymentOK
  BY <1>1 DEF Init, DeploymentOK, Unlisted
<1>4. QED
  BY <1>1, <1>2, <1>3, FieldAssumption DEF Init, FieldInv

LEMMA NextKeeps ==
  ASSUME FieldInv, [Next]_vars
  PROVE  FieldInv' /\ FinalizerStays
<1>1. CASE Deployment
  BY <1>1, StartKeeps, AdoptOrphansKeeps, EnsureFieldOwnershipKeeps, CreateRevisionKeeps,
     ClaimRevisionKeeps, CreateNextKeeps, SyncNewerKeeps, ArchiveSupersededKeeps
  DEF Deployment
<1>2. CASE Environment
  BY <1>2, FailKeeps, CrashKeeps, SupersedeKeeps, CreateOrphanKeeps, UserKeeps, DeleteKeeps
  DEF Environment
<1>3. CASE EnsureFinalizer \/ Release \/ DeliverCOS
  BY <1>3, EnsureFinalizerKeeps, ReleaseKeeps, DeliverCOSKeeps
<1>4. CASE UNCHANGED vars
  <2>1. UNCHANGED <<api, seen, superseded, pc, listed, queued, budget>>
    BY <1>4 DEF vars, api
  <2>2. ApiOK' /\ FinalizerStays
    BY <2>1, ApiStays DEF FieldInv
  <2>3. DeploymentOK'
    BY <2>1 DEF FieldInv, DeploymentOK
  <2>4. QED
    BY <2>1, <2>2, <2>3 DEF FieldInv
<1>5. QED
  BY <1>1, <1>2, <1>3, <1>4 DEF Next

\* Whatever is applied, edited, released or deleted, and from however old a
\* copy: every stored field has a manager and every manager's field is stored,
\* the deployment controller never manages the finalizer, and an object that
\* is being deleted stays only for its finalizer (cosutil.Apply).
THEOREM FieldInvariant == Spec => []FieldInv
<1>1. FieldInv /\ [Next]_vars => FieldInv'
  BY NextKeeps
<1>2. QED
  BY InitFields, <1>1, PTL DEF Spec

LEMMA KeptIsObject ==
  ASSUME NEW o \in Kept
  PROVE  IsObject(o)
<1>1. DOMAIN o.fields \subseteq Field /\ Range(o.fields) \subseteq Value
  BY KeptIs, FieldsAre DEF Range
<1>2. QED
  BY <1>1, KeptIs DEF IsObject

\* Every variable has its type, and the parts of the stored revision agree
\* (RemoveFinalizer, ClearFinalizerFieldOwnership).
THEOREM TypeCorrect == Spec => []TypeOK
<1>1. ASSUME FieldInv PROVE TypeOK
  <2>1. obj \in Kept /\ seen \in Kept /\ listed.copy \in Kept /\ stream \in Seq(Kept)
    <3>1. stream \in [1 .. Len(stream) -> Stored] /\ Len(stream) \in Nat
      BY <1>1 DEF FieldInv, ApiOK
    <3>2. stream \in Seq(Kept)
      BY <1>1, StoredIsKept DEF FieldInv, ApiOK
    <3>3. QED
      BY <1>1, <3>2, StoredIsKept DEF FieldInv, ApiOK, DeploymentOK
  <2>2. IsObject(obj) /\ IsObject(seen) /\ IsObject(listed.copy)
        /\ \A i \in DOMAIN stream : IsObject(stream[i])
    BY <2>1, KeptIsObject
  <2>3. UNION {obj.managed[m] : m \in Manager} = DOMAIN obj.fields
    <3>1. \A f \in Field : f \in DOMAIN obj.fields <=> \E m \in Manager : f \in obj.managed[m]
      BY <2>1, KeptIs DEF Has
    <3>2. DOMAIN obj.fields \subseteq Field /\ \A m \in Manager : obj.managed[m] \subseteq Field
      BY <2>1, KeptIs
    <3>3. QED
      BY <3>1, <3>2
  <2>4. Exists(obj) => Required \subseteq DOMAIN obj.fields
    BY <2>1, KeptIs
  <2>5. obj.deleting => Has(obj, "finalizer")
    BY <1>1 DEF FieldInv, ApiOK, Stored
  <2>6. DOMAIN budget = Kind /\ Range(budget) \subseteq Nat
    BY <1>1 DEF FieldInv, Range
  <2>7. QED
    BY <1>1, <2>2, <2>3, <2>4, <2>5, <2>6 DEF TypeOK, FieldInv, ApiOK, DeploymentOK
<1>2. QED
  BY <1>1, FieldInvariant, PTL

\* The revision loses its finalizer only when it is archived or deleted: no
\* apply of the deployment controller, from however old a copy, lists or drops
\* it (ensureFieldOwnership, archiveSuperseded, release).
THEOREM FinalizerSurvives == Spec => FinalizerKept
<1>1. FieldInv /\ [Next]_vars =>
        [(Has(obj, "finalizer") /\ ~Has(obj', "finalizer"))
         => (obj.deleting \/ Archived(obj))]_vars
  BY NextKeeps DEF FinalizerStays
<1>2. QED
  BY <1>1, FieldInvariant, PTL DEF Spec, FinalizerKept

\* What a manager listed last, with a mutation that leaves the spec alone and
\* archives at most, is admitted on top of what the API server has.
LEMMA ConfigurationAdmitted ==
  ASSUME NEW o \in Stored, Exists(o), NEW m \in Manager, NEW mutation \in Configs(m),
         "spec" \notin DOMAIN mutation,
         "lifecycle" \in DOMAIN mutation => mutation["lifecycle"] = "Archived"
  PROVE  Admitted(o, Applied(o, m, Configure(o, m, mutation)))
<1> DEFINE config == Configure(o, m, mutation)
           new == Applied(o, m, config)
<1>1. o \in Kept
  BY StoredIsKept
<1>2. /\ config \in Configs(m)
      /\ DOMAIN config = DOMAIN mutation \cup o.managed[m]
      /\ \A f \in DOMAIN mutation : config[f] = mutation[f]
      /\ \A f \in o.managed[m] \ DOMAIN mutation : Has(o, f) /\ config[f] = o.fields[f]
  BY <1>1, ConfigureIs
<1>3. config \in Fields
  BY <1>2 DEF Configs
<1>4. OverlaidBy(o, m, config, new)
  BY <1>1, <1>3, AppliedIs
<1>5. Required \subseteq DOMAIN o.fields
  BY <1>1, KeptIs
<1>6. o.deleting => Has(o, "finalizer")
  BY DEF Stored
<1> HIDE DEF config, new
<1>7. Required \subseteq DOMAIN new.fields
  BY <1>2, <1>4, <1>5 DEF OverlaidBy
<1>8. o.fields["spec"] = new.fields["spec"]
  BY <1>2, <1>4, <1>7 DEF OverlaidBy, Required
<1>9. Archived(o) => Archived(new)
  BY <1>2, <1>4, <1>7 DEF OverlaidBy, Required, Archived, Has
<1>10. Admitted(o, new)
  BY <1>6, <1>7, <1>8, <1>9 DEF Admitted
<1>11. QED
  BY <1>10 DEF config, new

\* An apply from an up-to-date copy is always admitted: what was extracted
\* keeps the required fields, the immutable ones are the template's, and a
\* revision is not brought back (cosutil.Apply, ensureFieldOwnership).
THEOREM AppliesStayAdmitted == Spec => []AppliesAdmitted
<1>1. ASSUME FieldInv PROVE AppliesAdmitted
  <2> SUFFICES ASSUME Exists(obj)
               PROVE  /\ Admitted(obj, Applied(obj, "cod", Adoption(obj)))
                      /\ Admitted(obj, Applied(obj, "cod", Archival(obj)))
                      /\ Current(obj) => Admitted(obj, Applied(obj, "cod", Desired))
                      /\ Admitted(obj, Applied(obj, "cos", Protection(obj)))
    BY DEF AppliesAdmitted, FieldOwner
  <2>1. obj \in Stored /\ obj \in Kept /\ "cod" \in Manager /\ "cos" \in Manager
    BY <1>1, StoredIsKept DEF FieldInv, ApiOK, Manager
  <2>2. Admitted(obj, Applied(obj, "cod", Adoption(obj)))
    <3>1. "spec" \notin DOMAIN [owner |-> "cod"] /\ "lifecycle" \notin DOMAIN [owner |-> "cod"]
      OBVIOUS
    <3>2. Admitted(obj, Applied(obj, "cod", Configure(obj, "cod", [owner |-> "cod"])))
      BY <2>1, <3>1, MutationsAre, ConfigurationAdmitted
    <3>3. QED
      BY <2>1, <3>2, ConfigurationsAre
  <2>3. Admitted(obj, Applied(obj, "cod", Archival(obj)))
    <3>1. "spec" \notin DOMAIN [lifecycle |-> "Archived"]
          /\ [lifecycle |-> "Archived"]["lifecycle"] = "Archived"
      OBVIOUS
    <3>2. Admitted(obj, Applied(obj, "cod", Configure(obj, "cod", [lifecycle |-> "Archived"])))
      BY <2>1, <3>1, MutationsAre, ConfigurationAdmitted
    <3>3. QED
      BY <2>1, <3>2, ConfigurationsAre
  <2>4. Admitted(obj, Applied(obj, "cos", Protection(obj)))
    <3>1. "spec" \notin DOMAIN [finalizer |-> "cos"] /\ "lifecycle" \notin DOMAIN [finalizer |-> "cos"]
      OBVIOUS
    <3>2. Admitted(obj, Applied(obj, "cos", Configure(obj, "cos", [finalizer |-> "cos"])))
      BY <2>1, <3>1, MutationsAre, ConfigurationAdmitted
    <3>3. QED
      BY <2>1, <3>2, ConfigurationsAre
  <2>5. ASSUME Current(obj) PROVE Admitted(obj, Applied(obj, "cod", Desired))
    <3> DEFINE new == Applied(obj, "cod", Desired)
    <3>1. /\ Desired \in Fields /\ Desired["spec"] = "template"
          /\ DOMAIN Desired = {"spec", "lifecycle", "hash", "label", "owner"}
      BY DesiredIs DEF Configs, OfTemplate
    <3>2. OverlaidBy(obj, "cod", Desired, new)
      BY <2>1, <3>1, AppliedIs
    <3>3. Required \subseteq DOMAIN obj.fields /\ OfTemplate(obj.fields)
      BY <2>1, KeptIs
    <3>4. ~obj.deleting /\ ~Archived(obj)
      BY <2>5 DEF Current
    <3> HIDE DEF new
    <3>5. Required \subseteq DOMAIN new.fields /\ new.fields["spec"] = obj.fields["spec"]
      BY <3>1, <3>2, <3>3 DEF OverlaidBy, Required, OfTemplate
    <3>6. Admitted(obj, new)
      BY <3>4, <3>5 DEF Admitted
    <3>7. QED
      BY <3>6 DEF new
  <2>6. QED
    BY <2>2, <2>3, <2>4, <2>5
<1>2. QED
  BY <1>1, FieldInvariant, PTL
=============================================================================

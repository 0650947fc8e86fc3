-------------------------- MODULE CODHistoryProofs --------------------------
(* What the deployment controller makes of a deployment's revisions over   *)
(* time, as long as users leave the revisions alone: no gap, no second     *)
(* revision for the same template, a pruned history that keeps what it     *)
(* must, a deployment that stays available, and the abstract history.      *)
(*                                                                         *)
(* The controller decides by listings that may be old.  The argument is    *)
(* about all the listings it may still act on: every one of them is an     *)
(* earlier state of the API server's group, and none is more than one      *)
(* revision behind it.                                                     *)
EXTENDS CODControllerProofs, FiniteSetTheorems

-----------------------------------------------------------------------------
(* The invariant.                                                          *)

\* What a restarted operator may find: nobody else owns a member, none is being
\* deleted, there is an active one at or above every member, and an available
\* one at or above every member whose rollout was completed.
WellOrdered(g) ==
  \A r \in DOMAIN g :
    /\ g[r].owner # "other" /\ ~g[r].deleting
    /\ \E q \in DOMAIN g : q >= r /\ IsActive(g[q])
    /\ g[r].rollout # "Progressing" =>
         \E q \in DOMAIN g : q >= r /\ IsActive(g[q]) /\ g[q].rollout = "Available"

OrderlyStart == \A g \in InitialGroups : WellOrdered(g)

\* The informer's copy, and after it what the watch has yet to deliver.
View(i) == IF i = 0 THEN cache ELSE stream[i]

\* The listings the controller acts on, or may come to act on, and the pairs of
\* them in which the first is the older one.
Seen == {View(i) : i \in 0 .. Len(stream)} \cup (IF pc = "idle" THEN {} ELSE {snap})

InOrder ==
  {<<View(p[1]), View(p[2])>> :
      p \in {x \in (0 .. Len(stream)) \X (0 .. Len(stream)) : x[1] <= x[2]}} \cup
  {<<snap, View(j)>> : j \in IF pc = "idle" THEN {} ELSE 0 .. Len(stream)}

Live(r) == r \in DOMAIN cos /\ IsActive(cos[r])
Gone(r) == r \in used /\ (r \in DOMAIN cos => cos[r].deleting)

\* The group shows a deployment that is available or in transition.
Up(g) == \E a \in ActiveOwned(g) :
           g[a].rollout = "Available" \/ \E b \in ActiveOwned(g) : b # a

\* What a listing tells, however old: the number after its highest one is at
\* least every number given out, what is inactive by now is not its highest,
\* and what is gone by now was archived already.
Good(g) ==
  /\ DOMAIN g \subseteq used
  /\ \A r \in DOMAIN g : g[r].owner # "other"
  /\ \A r \in DOMAIN g : \E q \in DOMAIN g : q >= r /\ IsActive(g[q])
  /\ \A u \in used : u <= NextRevision(g)
  /\ \A u \in used : ~Live(u) => u + 1 < NextRevision(g)
  /\ \A r \in DOMAIN g : Gone(r) => g[r].archived
  /\ \A r \in DOMAIN g : g[r].rollout = "Available" => r \in succeeded

\* What an older listing has in common with a later one.
Later(g, h) ==
  /\ NextRevision(g) <= NextRevision(h)
  /\ \A r \in DOMAIN g \cap DOMAIN h :
       h[r].hash = g[r].hash /\ (g[r].archived => h[r].archived)
  /\ Untouched("degrade") /\ Up(g) => Up(h)

Listings ==
  /\ cos = View(Len(stream))
  /\ \A v \in Seen : Good(v)
  /\ \A p \in InOrder : Later(p[1], p[2])

\* An available deployment is up in every listing.
Serving ==
  Untouched("degrade") /\ cod.status.available # "False" => \A v \in Seen : Up(v)

Work ==
  /\ pc = "claim" => NextRevision(snap) \in used
  /\ pc = "archive" => todo \subseteq Superseded(snap)
  /\ pc = "prune" => todo \subseteq Prunable(snap)

\* At or above everything that was rolled out, something that was is active.
Succession ==
  \A s \in succeeded : \E q \in succeeded :
    q >= s /\ Live(q) /\ (Untouched("degrade") => cos[q].rollout = "Available")

\* Above everything that is gone, the history is as long as it has to be.
KeptAbove(r) == {q \in DOMAIN cos : q > r /\ cos[q].archived /\ ~cos[q].deleting}

Retention == \A r \in used : Gone(r) => Cardinality(KeptAbove(r)) >= HistoryLimit

Orderly == Listings /\ Serving /\ Work /\ Succession /\ Retention

Within == \A what \in Disturbances : budget[what] <= Budget[what]

HistoryInv == Within /\ (Untouched("touch") => Orderly)

-----------------------------------------------------------------------------
(* Numbers.                                                                *)

\* The number createRevision chooses is one above the highest listed one.
LEMMA NextRevisionIsNext ==
  ASSUME NEW g \in Groups
  PROVE  /\ NextRevision(g) \in Nat \ {0}
         /\ \A r \in DOMAIN g : r + 1 <= NextRevision(g)
         /\ DOMAIN g # {} => \E r \in DOMAIN g : NextRevision(g) = r + 1
         /\ DOMAIN g = {} => NextRevision(g) = 1
<1> DEFINE S == {0} \cup DOMAIN g
<1>1. S \subseteq 0 .. MaxRevision /\ S # {} /\ MaxRevision \in Nat
  BY GroupIs, GroupAssumption DEF Revisions
<1>2. DOMAIN g \subseteq Nat \ {0}
  BY GroupIs, GroupAssumption DEF Revisions
<1>3. Max(S) \in S /\ \A y \in S : y <= Max(S)
  <2> HIDE DEF S
  <2>1. QED
    BY <1>1, MaxIsGreatest
<1>4. NextRevision(g) = Max(S) + 1
  BY DEF NextRevision
<1>5. \A y \in DOMAIN g : y <= Max(S)
  BY <1>3
<1>6. Max(S) = 0 \/ Max(S) \in DOMAIN g
  BY <1>3
<1> HIDE DEF S
<1>7. QED
  BY <1>2, <1>4, <1>5, <1>6

LEMMA NextRevisionGrows ==
  ASSUME NEW g \in Groups, NEW h \in Groups,
         \A r \in DOMAIN g : \E q \in DOMAIN h : q >= r
  PROVE  NextRevision(g) <= NextRevision(h)
<1>1. DOMAIN g \subseteq Nat /\ DOMAIN h \subseteq Nat
  BY GroupIs, GroupAssumption DEF Revisions
<1>2. NextRevision(g) \in Nat \ {0} /\ NextRevision(h) \in Nat \ {0}
  BY NextRevisionIsNext
<1>3. CASE DOMAIN g = {}
  BY <1>2, <1>3, NextRevisionIsNext
<1>4. CASE DOMAIN g # {}
  <2>1. PICK r \in DOMAIN g : NextRevision(g) = r + 1
    BY <1>4, NextRevisionIsNext
  <2>2. PICK q \in DOMAIN h : q >= r
    OBVIOUS
  <2>3. q + 1 <= NextRevision(h)
    BY NextRevisionIsNext
  <2>4. QED
    BY <1>1, <1>2, <2>1, <2>2, <2>3
<1>5. QED
  BY <1>3, <1>4

\* Archived revisions are counted in finite sets.
LEMMA MoreAreKept ==
  ASSUME NEW S, NEW T, S \subseteq T, T \subseteq Revisions, Cardinality(S) >= HistoryLimit
  PROVE  Cardinality(T) >= HistoryLimit
<1>1. IsFiniteSet(Revisions)
  BY FS_Interval, GroupAssumption DEF Revisions
<1>2. IsFiniteSet(T)
  BY <1>1, FS_Subset
<1>3. IsFiniteSet(S) /\ Cardinality(S) <= Cardinality(T)
  BY <1>2, FS_Subset
<1>4. Cardinality(S) \in Nat /\ Cardinality(T) \in Nat
  BY <1>2, <1>3, FS_CardinalityType
<1>5. QED
  BY <1>3, <1>4, GroupAssumption

-----------------------------------------------------------------------------
(* The listings a step leaves.                                             *)

LEMMA ViewIsGroup ==
  ASSUME TypeInv, NEW i \in 0 .. Len(stream)
  PROVE  View(i) \in Groups
<1>1. CASE i = 0
  BY <1>1 DEF View, TypeInv, RestOK
<1>2. CASE i # 0
  <2>1. i \in 1 .. Len(stream) /\ stream \in Seq(Groups)
    BY <1>2 DEF TypeInv, ApiOK
  <2>2. QED
    BY <1>2, <2>1 DEF View
<1>3. QED
  BY <1>1, <1>2

LEMMA SeenAreGroups ==
  ASSUME TypeInv
  PROVE  Seen \subseteq Groups
BY ViewIsGroup DEF Seen, TypeInv, StepOK

LEMMA LengthIsNat ==
  ASSUME TypeInv
  PROVE  Len(stream) \in Nat
BY DEF TypeInv, ApiOK

\* The API server's group is the last of them, and later than each.
LEMMA CurrentIsSeen ==
  ASSUME TypeInv, cos = View(Len(stream))
  PROVE  /\ cos \in Seen
         /\ \A v \in Seen : <<v, cos>> \in InOrder
<1>1. Len(stream) \in 0 .. Len(stream)
  BY LengthIsNat
<1>2. cos \in Seen
  BY <1>1 DEF Seen
<1>3. ASSUME NEW i \in 0 .. Len(stream) PROVE <<View(i), cos>> \in InOrder
  <2>1. <<i, Len(stream)>> \in {x \in (0 .. Len(stream)) \X (0 .. Len(stream)) : x[1] <= x[2]}
    BY <1>1
  <2>2. <<View(<<i, Len(stream)>>[1]), View(<<i, Len(stream)>>[2])>> \in InOrder
    BY <2>1 DEF InOrder
  <2>3. QED
    BY <2>2
<1>4. pc # "idle" => <<snap, cos>> \in InOrder
  BY <1>1 DEF InOrder
<1>5. QED
  BY <1>2, <1>3, <1>4 DEF Seen

LEMMA ViewsInOrder ==
  ASSUME NEW i \in 0 .. Len(stream), NEW j \in 0 .. Len(stream), i <= j
  PROVE  <<View(i), View(j)>> \in InOrder
<1>1. <<i, j>> \in {x \in (0 .. Len(stream)) \X (0 .. Len(stream)) : x[1] <= x[2]}
  OBVIOUS
<1>2. <<View(<<i, j>>[1]), View(<<i, j>>[2])>> \in InOrder
  BY <1>1 DEF InOrder
<1>3. QED
  BY <1>2

\* The listing of a running reconcile is older than everything else.
LEMMA SnapIsOldest ==
  ASSUME TypeInv, pc # "idle"
  PROVE  snap \in Seen /\ \A v \in Seen : v = snap \/ <<snap, v>> \in InOrder
<1>1. snap \in Seen
  BY DEF Seen
<1>2. \A j \in 0 .. Len(stream) : <<snap, View(j)>> \in InOrder
  BY DEF InOrder
<1>3. QED
  BY <1>1, <1>2 DEF Seen

\* A step that goes on with its listing or ends.
Lasting == cache' = cache /\ (pc' # "idle" => pc # "idle" /\ snap' = snap)

LEMMA SameSeen ==
  ASSUME Lasting, UNCHANGED api
  PROVE  Seen' \subseteq Seen /\ InOrder' \subseteq InOrder /\ View(Len(stream))' = View(Len(stream))
<1>1. cache' = cache /\ stream' = stream
  BY DEF Lasting, api
<1>2. \A i : View(i)' = View(i)
  BY <1>1 DEF View
<1>3. Seen' \subseteq Seen
  BY <1>1, <1>2 DEF Seen, Lasting
<1>4. ASSUME NEW p \in InOrder' PROVE p \in InOrder
  <2>1. CASE \E i, j \in 0 .. Len(stream)' : i <= j /\ p = <<View(i)', View(j)'>>
    <3>1. PICK i, j \in 0 .. Len(stream) : i <= j /\ p = <<View(i), View(j)>>
      BY <1>1, <1>2, <2>1
    <3>2. QED
      BY <3>1, ViewsInOrder
  <2>2. CASE pc' # "idle" /\ \E j \in 0 .. Len(stream)' : p = <<snap', View(j)'>>
    <3>1. PICK j \in 0 .. Len(stream) : p = <<snap, View(j)>>
      BY <1>1, <1>2, <2>2 DEF Lasting
    <3>2. QED
      BY <2>2, <3>1 DEF InOrder, Lasting
  <2>3. QED
    BY <2>1, <2>2 DEF InOrder
<1>5. QED
  BY <1>1, <1>2, <1>3, <1>4

\* A write adds the group it leaves, later than all the others.
LEMMA WriteSeen ==
  ASSUME TypeInv, Lasting, NEW g \in Groups, stream' = Append(stream, g)
  PROVE  /\ View(Len(stream))' = g
         /\ Seen' \subseteq Seen \cup {g}
         /\ \A p \in InOrder' : p \in InOrder \/ (p[2] = g /\ p[1] \in Seen \cup {g})
<1>1. cache' = cache /\ stream \in Seq(Groups)
  BY DEF Lasting, TypeInv, ApiOK
<1>2. Len(stream') = Len(stream) + 1 /\ Len(stream) \in Nat
  BY <1>1
<1>3. \A i \in 0 .. Len(stream) : View(i)' = View(i)
  BY <1>1, <1>2 DEF View
<1>4. ASSUME NEW i, i = Len(stream) + 1 PROVE View(i)' = g
  BY <1>1, <1>2, <1>4 DEF View
<1>5. \A i \in 0 .. Len(stream') : i \in 0 .. Len(stream) \/ i = Len(stream) + 1
  BY <1>2
<1>6. View(Len(stream))' = g
  BY <1>1, <1>2 DEF View
<1>7. \A v \in Seen' : (\E i \in 0 .. Len(stream') : v = View(i)') \/ (pc' # "idle" /\ v = snap')
  BY DEF Seen
<1>8. Seen' \subseteq Seen \cup {g}
  <2>1. \A i \in 0 .. Len(stream') : View(i)' \in Seen \cup {g}
    BY <1>3, <1>4, <1>5 DEF Seen
  <2>2. pc' # "idle" => snap' \in Seen
    BY DEF Lasting, Seen
  <2>3. QED
    BY <1>7, <2>1, <2>2
<1>9. ASSUME NEW p \in InOrder' PROVE p \in InOrder \/ (p[2] = g /\ p[1] \in Seen \cup {g})
  <2>1. CASE \E i, j \in 0 .. Len(stream)' : i <= j /\ p = <<View(i)', View(j)'>>
    <3>1. PICK i, j \in 0 .. Len(stream') : i <= j /\ p = <<View(i)', View(j)'>>
      BY <2>1
    <3>2. CASE j = Len(stream) + 1
      <4>1. View(i)' \in Seen \cup {g}
        BY <1>3, <1>4, <1>5, <3>1 DEF Seen
      <4>2. QED
        BY <1>4, <3>1, <3>2, <4>1
    <3>3. CASE j \in 0 .. Len(stream)
      <4>1. i \in 0 .. Len(stream)
        BY <1>2, <3>1, <3>3
      <4>2. p = <<View(i), View(j)>>
        BY <1>3, <3>1, <3>3, <4>1
      <4>3. QED
        BY <3>1, <3>3, <4>1, <4>2, ViewsInOrder
    <3>4. QED
      BY <1>5, <3>1, <3>2, <3>3
  <2>2. CASE pc' # "idle" /\ \E j \in 0 .. Len(stream)' : p = <<snap', View(j)'>>
    <3>1. PICK j \in 0 .. Len(stream') : p = <<snap', View(j)'>>
      BY <2>2
    <3>2. pc # "idle" /\ snap' = snap /\ snap \in Seen
      BY <2>2 DEF Lasting, Seen
    <3>3. CASE j = Len(stream) + 1
      BY <1>4, <3>1, <3>2, <3>3
    <3>4. CASE j \in 0 .. Len(stream)
      <4>1. p = <<snap, View(j)>>
        BY <1>3, <3>1, <3>2, <3>4
      <4>2. QED
        BY <3>2, <3>4, <4>1 DEF InOrder
    <3>5. QED
      BY <1>5, <3>1, <3>3, <3>4
  <2>3. QED
    BY <2>1, <2>2 DEF InOrder
<1>10. QED
  BY <1>6, <1>8, <1>9
\* A reconcile starts with the informer's copy.
LEMMA StartSeen ==
  ASSUME TypeInv, Start
  PROVE  Seen' \subseteq Seen /\ InOrder' \subseteq InOrder /\ View(Len(stream))' = View(Len(stream))
<1>1. cache' = cache /\ stream' = stream /\ snap' = cache
  BY DEF Start, api
<1>2. \A i : View(i)' = View(i)
  BY <1>1 DEF View
<1>3. 0 \in 0 .. Len(stream) /\ snap' = View(0)
  BY <1>1, LengthIsNat DEF View
<1>4. Seen' \subseteq Seen
  BY <1>1, <1>2, <1>3 DEF Seen
<1>5. ASSUME NEW p \in InOrder' PROVE p \in InOrder
  <2>1. CASE \E i, j \in 0 .. Len(stream)' : i <= j /\ p = <<View(i)', View(j)'>>
    <3>1. PICK i, j \in 0 .. Len(stream) : i <= j /\ p = <<View(i), View(j)>>
      BY <1>1, <1>2, <2>1
    <3>2. QED
      BY <3>1, ViewsInOrder
  <2>2. CASE pc' # "idle" /\ \E j \in 0 .. Len(stream)' : p = <<snap', View(j)'>>
    <3>1. PICK j \in 0 .. Len(stream) : p = <<View(0), View(j)>>
      BY <1>1, <1>2, <1>3, <2>2
    <3>2. 0 <= j
      BY <3>1
    <3>3. QED
      BY <1>3, <3>1, <3>2, ViewsInOrder
  <2>3. QED
    BY <2>1, <2>2 DEF InOrder
<1>6. QED
  BY <1>1, <1>2, <1>4, <1>5

\* A delivery forgets the informer's previous copy.
LEMMA DeliverySeen ==
  ASSUME TypeInv, DeliverCOS
  PROVE  Seen' \subseteq Seen /\ InOrder' \subseteq InOrder /\ View(Len(stream))' = View(Len(stream))
<1>1. /\ stream # <<>> /\ stream \in Seq(Groups)
      /\ cache' = Head(stream) /\ stream' = Tail(stream) /\ UNCHANGED <<snap, pc>>
  BY DEF DeliverCOS, step, TypeInv, ApiOK
<1>2. /\ Len(stream) \in Nat \ {0} /\ Len(stream') = Len(stream) - 1
      /\ cache' = stream[1] /\ \A i \in 1 .. Len(stream') : stream'[i] = stream[i + 1]
  BY <1>1
<1>3. \A i \in 0 .. Len(stream') : i + 1 \in 0 .. Len(stream) /\ View(i)' = View(i + 1)
  BY <1>2 DEF View
<1>4. View(Len(stream))' = View(Len(stream))
  <2>1. ASSUME NEW n, n = Len(stream') PROVE View(n)' = View(n + 1) /\ n + 1 = Len(stream)
    BY <1>2, <1>3, <2>1
  <2>2. View(Len(stream))' = View(Len(stream') + 1) /\ Len(stream') + 1 = Len(stream)
    BY <1>2 DEF View
  <2>3. QED
    BY <2>2
<1>5. Seen' \subseteq Seen
  BY <1>1, <1>3 DEF Seen
<1>6. ASSUME NEW p \in InOrder' PROVE p \in InOrder
  <2>1. CASE \E i, j \in 0 .. Len(stream)' : i <= j /\ p = <<View(i)', View(j)'>>
    <3>1. PICK i, j \in 0 .. Len(stream') : i <= j /\ p = <<View(i + 1), View(j + 1)>>
      BY <1>3, <2>1
    <3>2. i + 1 \in 0 .. Len(stream) /\ j + 1 \in 0 .. Len(stream) /\ i + 1 <= j + 1
      BY <1>3, <3>1
    <3>3. QED
      BY <3>1, <3>2, ViewsInOrder
  <2>2. CASE pc' # "idle" /\ \E j \in 0 .. Len(stream)' : p = <<snap', View(j)'>>
    <3>1. PICK j \in 0 .. Len(stream') : p = <<snap, View(j + 1)>>
      BY <1>1, <1>3, <2>2
    <3>2. pc # "idle" /\ j + 1 \in 0 .. Len(stream)
      BY <1>1, <1>3, <2>2, <3>1
    <3>3. QED
      BY <3>1, <3>2 DEF InOrder
  <2>3. QED
    BY <2>1, <2>2 DEF InOrder
<1>7. QED
  BY <1>4, <1>5, <1>6

\* A new operator lists the API server's group.
LEMMA CrashSeen ==
  ASSUME TypeInv, cos = View(Len(stream)), Crash
  PROVE  Seen' \subseteq Seen /\ InOrder' \subseteq InOrder /\ View(Len(stream))' = View(Len(stream))
<1>1. cache' = cos /\ stream' = <<>> /\ pc' = "idle"
  BY DEF Crash, At
<1>2. Len(stream') = 0
  BY <1>1
<1>3. 0 .. Len(stream') = {0}
  BY <1>2
<1>4. View(0)' = cos /\ View(Len(stream))' = cos
  BY <1>1, <1>2 DEF View
<1>5. cos \in Seen /\ <<cos, cos>> \in InOrder
  BY CurrentIsSeen
<1>6. Seen' \subseteq Seen
  BY <1>1, <1>3, <1>4, <1>5 DEF Seen
<1>7. ASSUME NEW p \in InOrder' PROVE p = <<cos, cos>>
  <2>1. \E i, j \in 0 .. Len(stream)' : i <= j /\ p = <<View(i)', View(j)'>>
    BY <1>1 DEF InOrder
  <2>2. QED
    BY <1>3, <1>4, <2>1
<1>8. QED
  BY <1>4, <1>5, <1>6, <1>7
-----------------------------------------------------------------------------
(* The writes, as long as users leave the revisions alone.                 *)

Others(g, r) == \A q \in DOMAIN cos \ {r} : q \in DOMAIN g /\ g[q] = cos[q]

\* Adoption, a claim or a report: no revision's lifecycle changes, and only an
\* active one becomes available.
Tends(g) ==
  /\ DOMAIN g = DOMAIN cos
  /\ \A q \in DOMAIN cos :
       /\ g[q].hash = cos[q].hash /\ g[q].archived = cos[q].archived
       /\ g[q].deleting = cos[q].deleting /\ g[q].owner # "other"
       /\ g[q].rollout = "Available" => cos[q].rollout = "Available" \/ IsActive(cos[q])
       /\ cos[q].rollout = "Available" /\ IsActive(cos[q]) /\ Untouched("degrade")'
            => g[q].rollout = "Available"
  /\ \E r \in DOMAIN cos : Others(g, r)

Stamps(g, n) ==
  /\ pc # "idle" /\ NeedsRevision(snap, codSnap.hash) /\ codSnap.hash \in Templates
  /\ n = NextRevision(snap) /\ n \in Revisions /\ n \notin DOMAIN cos
  /\ DOMAIN g = DOMAIN cos \cup {n} /\ Others(g, n)
  /\ g[n] = NewCOS(codSnap.hash, FALSE)

Archives(g, r) ==
  /\ pc # "idle" /\ r \in Superseded(snap) /\ Live(r)
  /\ DOMAIN g = DOMAIN cos /\ Others(g, r)
  /\ g[r].archived /\ ~g[r].deleting /\ g[r].hash = cos[r].hash
  /\ g[r].owner = cos[r].owner /\ g[r].rollout = cos[r].rollout

Drops(g, r) ==
  /\ pc # "idle" /\ r \in Prunable(snap) /\ r \in DOMAIN cos /\ ~cos[r].deleting
  /\ DOMAIN g \subseteq DOMAIN cos /\ Others(g, r)
  /\ r \in DOMAIN g =>
       /\ g[r].deleting /\ g[r].archived = cos[r].archived /\ g[r].hash = cos[r].hash
       /\ g[r].owner = cos[r].owner /\ g[r].rollout = cos[r].rollout

Releases(g, r) ==
  /\ r \in DOMAIN cos /\ cos[r].deleting
  /\ DOMAIN g = DOMAIN cos \ {r} /\ Others(g, r)

Kind(g) ==
  \/ Tends(g)
  \/ \E r \in Revisions : Stamps(g, r) \/ Archives(g, r) \/ Drops(g, r) \/ Releases(g, r)

\* What all of them have in common.
Moves(g) ==
  /\ \A r \in DOMAIN g : g[r].owner # "other"
  /\ \A r \in DOMAIN g \cap DOMAIN cos :
       g[r].hash = cos[r].hash /\ (cos[r].archived => g[r].archived)
  /\ \A r \in DOMAIN g \ DOMAIN cos :
       r \notin used /\ IsActive(g[r]) /\ \A v \in Seen : r <= NextRevision(v)
  /\ \A r \in DOMAIN cos : (r \in DOMAIN g => g[r].deleting) =>
       \A v \in Seen : r \in DOMAIN v => v[r].archived
  /\ \A r \in DOMAIN cos : IsActive(cos[r]) =>
       \/ r \in DOMAIN g /\ IsActive(g[r])
       \/ \A v \in Seen : r + 1 < NextRevision(v)
  /\ \A r \in DOMAIN cos : \E q \in DOMAIN g : q >= r /\ IsActive(g[q])
  /\ Untouched("degrade")' /\ Up(cos) => Up(g)

\* A group in which everything that was active or available still is, is up if
\* the old one was.
LEMMA StaysUp ==
  ASSUME NEW g, NEW h, Up(g),
         \A a \in ActiveOwned(g) : /\ a \in ActiveOwned(h)
                                   /\ g[a].rollout = "Available" => h[a].rollout = "Available"
  PROVE  Up(h)
BY DEF Up

LEMMA TendingMoves ==
  ASSUME TypeInv, Listings, NEW g \in Groups, Tends(g)
  PROVE  Moves(g)
<1>1. cos \in Seen
  BY CurrentIsSeen DEF Listings
<1>2. Good(cos)
  BY <1>1 DEF Listings
<1>3. DOMAIN g = DOMAIN cos
  BY DEF Tends
<1>4. \A q \in DOMAIN cos : IsActive(cos[q]) => IsActive(g[q])
  BY DEF Tends, IsActive
<1>5. ASSUME NEW r \in DOMAIN cos, r \in DOMAIN g => g[r].deleting, NEW v \in Seen, r \in DOMAIN v
      PROVE  v[r].archived
  <2>1. cos[r].deleting
    BY <1>3, <1>5 DEF Tends
  <2>2. Gone(r)
    BY <1>2, <2>1 DEF Gone, Good
  <2>3. QED
    BY <1>5, <2>2 DEF Listings, Good
<1>6. \A r \in DOMAIN cos : \E q \in DOMAIN g : q >= r /\ IsActive(g[q])
  BY <1>2, <1>3, <1>4 DEF Good
<1>7. ASSUME Untouched("degrade")', Up(cos) PROVE Up(g)
  <2>1. \A a \in ActiveOwned(cos) : a \in ActiveOwned(g)
    BY <1>3, <1>4 DEF ActiveOwned, Owned, Tends
  <2>2. \A a \in ActiveOwned(cos) : cos[a].rollout = "Available" => g[a].rollout = "Available"
    BY <1>7 DEF ActiveOwned, Owned, Tends
  <2>3. QED
    BY <1>7, <2>1, <2>2, StaysUp
<1>8. /\ \A r \in DOMAIN g : g[r].owner # "other"
      /\ \A r \in DOMAIN g \cap DOMAIN cos :
           g[r].hash = cos[r].hash /\ (cos[r].archived => g[r].archived)
  BY DEF Tends
<1>9. QED
  BY <1>3, <1>4, <1>5, <1>6, <1>7, <1>8 DEF Moves

\* A new number is new: it is above every number ever given out, and at most the
\* next one after any listing.
LEMMA StampedIsNew ==
  ASSUME TypeInv, Listings, NEW g, NEW n, Stamps(g, n)
  PROVE  /\ n \notin used /\ n \in Nat
         /\ \A u \in used : u < n
         /\ \A v \in Seen : n <= NextRevision(v)
<1>1. snap \in Seen /\ \A v \in Seen : v = snap \/ <<snap, v>> \in InOrder
  BY SnapIsOldest DEF Stamps
<1>2. Good(snap) /\ \A v \in Seen : v = snap \/ Later(snap, v)
  <2>1. \A v \in Seen : <<snap, v>> \in InOrder => Later(<<snap, v>>[1], <<snap, v>>[2])
    BY DEF Listings
  <2>2. QED
    BY <1>1, <2>1 DEF Listings
<1>3. n = NextRevision(snap) /\ n \in Nat /\ n \notin DOMAIN cos
  BY NextRevisionIsNext DEF Stamps, TypeInv, StepOK
<1>4. n \notin used
  <2>1. ~Live(n)
    BY <1>3 DEF Live
  <2>2. ~(n + 1 < n)
    BY <1>3
  <2>3. QED
    BY <1>2, <1>3, <2>1, <2>2 DEF Good
<1>5. ASSUME NEW u \in used PROVE u < n
  <2>1. u \in Nat
    BY GroupAssumption DEF TypeInv, ApiOK, Revisions
  <2>2. u <= n /\ u # n
    BY <1>2, <1>3, <1>4 DEF Good
  <2>3. QED
    BY <1>3, <2>1, <2>2
<1>6. \A v \in Seen : n <= NextRevision(v)
  BY <1>2, <1>3 DEF Later
<1>7. QED
  BY <1>3, <1>4, <1>5, <1>6

LEMMA StampingMoves ==
  ASSUME TypeInv, Listings, NEW g \in Groups, NEW n \in Revisions, Stamps(g, n)
  PROVE  Moves(g)
<1>1. cos \in Seen /\ Good(cos)
  BY CurrentIsSeen DEF Listings
<1>2. n \notin used /\ \A v \in Seen : n <= NextRevision(v)
  BY StampedIsNew
<1>3. /\ DOMAIN g = DOMAIN cos \cup {n} /\ n \notin DOMAIN cos
      /\ \A q \in DOMAIN cos : g[q] = cos[q]
  BY DEF Stamps, Others
<1>4. IsActive(g[n]) /\ g[n].owner = "cod"
  BY DEF Stamps, NewCOS, IsActive
<1>5. \A r \in DOMAIN g : g[r].owner # "other"
  BY <1>1, <1>3, <1>4 DEF Good
<1>6. ASSUME NEW r \in DOMAIN cos, r \in DOMAIN g => g[r].deleting, NEW v \in Seen, r \in DOMAIN v
      PROVE  v[r].archived
  <2>1. Gone(r)
    BY <1>1, <1>3, <1>6 DEF Gone, Good
  <2>2. QED
    BY <1>6, <2>1 DEF Listings, Good
<1>7. \A r \in DOMAIN cos : \E q \in DOMAIN g : q >= r /\ IsActive(g[q])
  BY <1>1, <1>3 DEF Good
<1>8. Up(cos) => Up(g)
  <2>1. \A a \in ActiveOwned(cos) : a \in ActiveOwned(g) /\ g[a] = cos[a]
    BY <1>3 DEF ActiveOwned, Owned
  <2>2. QED
    BY <2>1, StaysUp
<1>9. \A r \in DOMAIN g \ DOMAIN cos :
        r \notin used /\ IsActive(g[r]) /\ \A v \in Seen : r <= NextRevision(v)
  BY <1>2, <1>3, <1>4
<1>10. \A r \in DOMAIN cos : r \in DOMAIN g /\ g[r] = cos[r]
  BY <1>3
<1>11. QED
  BY <1>5, <1>6, <1>7, <1>8, <1>9, <1>10 DEF Moves
\* What archiveSuperseded picks is below a revision that was rolled out, and so
\* below one that still is active.
LEMMA SupersededHasSuccessor ==
  ASSUME TypeInv, Listings, Succession, pc # "idle", NEW r \in Superseded(snap)
  PROVE  /\ r + 1 < NextRevision(snap)
         /\ \E q \in succeeded : /\ q > r /\ Live(q)
                                 /\ Untouched("degrade") => cos[q].rollout = "Available"
<1>1. snap \in Groups /\ DOMAIN snap \subseteq Nat /\ Superseded(snap) \subseteq DOMAIN snap
  BY GroupIs, GroupAssumption, SupersededBelowAvailable DEF TypeInv, StepOK, Revisions
<1>2. PICK l \in DOMAIN snap : snap[l].rollout = "Available" /\ r < l
  BY <1>1, SupersededBelowAvailable
<1>3. Good(snap)
  BY SnapIsOldest DEF Listings
<1>4. PICK q \in succeeded : q >= l /\ Live(q) /\ (Untouched("degrade") => cos[q].rollout = "Available")
  BY <1>2, <1>3 DEF Good, Succession
<1>5. q \in Nat /\ r \in Nat /\ l \in Nat
  BY <1>1, <1>2, GroupAssumption DEF TypeInv, ApiOK, Revisions
<1>6. l + 1 <= NextRevision(snap) /\ NextRevision(snap) \in Nat
  BY <1>1, NextRevisionIsNext
<1>7. r + 1 < NextRevision(snap) /\ q > r
  BY <1>2, <1>4, <1>5, <1>6
<1>8. QED
  BY <1>4, <1>7

\* The listing of a running reconcile is the oldest that is still in use.
LEMMA SnapFirst ==
  ASSUME TypeInv, Listings, pc # "idle"
  PROVE  /\ snap \in Seen /\ Good(snap)
         /\ \A v \in Seen : v = snap \/ Later(snap, v)
<1>1. snap \in Seen /\ \A v \in Seen : v = snap \/ <<snap, v>> \in InOrder
  BY SnapIsOldest
<1>2. \A v \in Seen : <<snap, v>> \in InOrder => Later(<<snap, v>>[1], <<snap, v>>[2])
  BY DEF Listings
<1>3. QED
  BY <1>1, <1>2 DEF Listings

LEMMA ArchivingMoves ==
  ASSUME TypeInv, Listings, Succession, Untouched("degrade")' => Untouched("degrade"),
         NEW g \in Groups, NEW r \in Revisions, Archives(g, r)
  PROVE  Moves(g)
<1>1. cos \in Seen /\ Good(cos)
  BY CurrentIsSeen DEF Listings
<1>2. /\ DOMAIN g = DOMAIN cos /\ r \in DOMAIN cos /\ IsActive(cos[r]) /\ r \in Superseded(snap)
      /\ \A q \in DOMAIN cos : q # r => g[q] = cos[q]
      /\ g[r].archived /\ ~g[r].deleting /\ g[r].hash = cos[r].hash /\ g[r].owner = cos[r].owner
  BY DEF Archives, Others, Live
<1>3. PICK w \in succeeded : w > r /\ Live(w) /\ (Untouched("degrade") => cos[w].rollout = "Available")
  BY SupersededHasSuccessor DEF Archives
<1>4. w \in Nat /\ r \in Nat /\ DOMAIN cos \subseteq Nat /\ w # r
  BY <1>3, GroupIs, GroupAssumption DEF TypeInv, ApiOK, Revisions
<1>5. w \in DOMAIN g /\ g[w] = cos[w] /\ IsActive(g[w])
  BY <1>2, <1>3, <1>4 DEF Live
<1>6. \A q \in DOMAIN g : g[q].owner # "other"
  BY <1>1, <1>2 DEF Good
<1>7. \A q \in DOMAIN g \cap DOMAIN cos :
        g[q].hash = cos[q].hash /\ (cos[q].archived => g[q].archived)
  BY <1>2
<1>8. ASSUME NEW q \in DOMAIN cos, q \in DOMAIN g => g[q].deleting, NEW v \in Seen, q \in DOMAIN v
      PROVE  v[q].archived
  <2>1. Gone(q)
    BY <1>1, <1>2, <1>8 DEF Gone, Good
  <2>2. QED
    BY <1>8, <2>1 DEF Listings, Good
<1>9. \A v \in Seen : r + 1 < NextRevision(v)
  <2>1. r + 1 < NextRevision(snap)
    BY SupersededHasSuccessor DEF Archives
  <2>2. \A v \in Seen : v = snap \/ NextRevision(snap) <= NextRevision(v)
    BY SnapFirst DEF Later, Archives
  <2>3. \A v \in Seen : NextRevision(v) \in Nat
    BY SeenAreGroups, NextRevisionIsNext
  <2>4. snap \in Seen
    BY SnapFirst DEF Archives
  <2>5. QED
    BY <1>4, <2>1, <2>2, <2>3, <2>4
<1>10. \A q \in DOMAIN cos : IsActive(cos[q]) =>
         \/ q \in DOMAIN g /\ IsActive(g[q])
         \/ \A v \in Seen : q + 1 < NextRevision(v)
  <2>1. ASSUME NEW q \in DOMAIN cos, IsActive(cos[q]), ~(\A v \in Seen : q + 1 < NextRevision(v))
        PROVE  q \in DOMAIN g /\ IsActive(g[q])
    <3>1. q # r
      BY <1>9, <2>1
    <3>2. QED
      BY <1>2, <2>1, <3>1
  <2>2. QED
    BY <2>1
<1>11. \A q \in DOMAIN cos : \E p \in DOMAIN g : p >= q /\ IsActive(g[p])
  <2>1. ASSUME NEW q \in DOMAIN cos PROVE \E p \in DOMAIN g : p >= q /\ IsActive(g[p])
    <3>1. PICK p \in DOMAIN cos : p >= q /\ IsActive(cos[p])
      BY <1>1 DEF Good
    <3>2. CASE p = r
      <4>1. w >= q
        BY <1>3, <1>4, <3>1, <3>2
      <4>2. QED
        BY <1>5, <4>1
    <3>3. CASE p # r
      BY <1>2, <3>1, <3>3
    <3>4. QED
      BY <3>2, <3>3
  <2>2. QED
    BY <2>1
<1>12. Untouched("degrade")' => Up(g)
  <2>1. w \in ActiveOwned(g)
    BY <1>5, <1>6 DEF ActiveOwned, Owned
  <2>2. QED
    BY <1>3, <1>5, <2>1 DEF Up
<1>13. DOMAIN g \ DOMAIN cos = {}
  BY <1>2
<1>14. QED
  BY <1>6, <1>7, <1>8, <1>10, <1>11, <1>12, <1>13 DEF Moves

\* What the deployment controller prunes is archived, here and in every listing.
LEMMA PrunedIsArchived ==
  ASSUME TypeInv, Listings, pc # "idle", NEW r \in Prunable(snap), NEW v \in Seen, r \in DOMAIN v
  PROVE  v[r].archived
<1>1. r \in DOMAIN snap /\ snap[r].archived
  BY DEF Prunable, Owned
<1>2. v = snap \/ Later(snap, v)
  BY SnapFirst
<1>3. QED
  BY <1>1, <1>2 DEF Later

LEMMA DroppingMoves ==
  ASSUME TypeInv, Listings, NEW g \in Groups, NEW r \in Revisions, Drops(g, r) \/ Releases(g, r)
  PROVE  Moves(g)
<1>1. cos \in Seen /\ Good(cos)
  BY CurrentIsSeen DEF Listings
<1>2. /\ DOMAIN g \subseteq DOMAIN cos /\ r \in DOMAIN cos
      /\ \A q \in DOMAIN cos : q # r => q \in DOMAIN g /\ g[q] = cos[q]
      /\ r \in DOMAIN g => g[r].archived = cos[r].archived /\ g[r].hash = cos[r].hash
                           /\ g[r].owner = cos[r].owner
  BY DEF Drops, Releases, Others
<1>3. \A v \in Seen : r \in DOMAIN v => v[r].archived
  <2>1. CASE Drops(g, r)
    BY <2>1, PrunedIsArchived DEF Drops
  <2>2. CASE Releases(g, r)
    <3>1. Gone(r)
      BY <1>1, <2>2 DEF Releases, Gone, Good
    <3>2. QED
      BY <3>1 DEF Listings, Good
  <2>3. QED
    BY <2>1, <2>2
<1>4. cos[r].archived
  BY <1>1, <1>2, <1>3
<1>5. \A q \in DOMAIN g : g[q].owner # "other"
  BY <1>1, <1>2 DEF Good
<1>6. \A q \in DOMAIN g \cap DOMAIN cos :
        g[q].hash = cos[q].hash /\ (cos[q].archived => g[q].archived)
  BY <1>2
<1>7. ASSUME NEW q \in DOMAIN cos, q \in DOMAIN g => g[q].deleting, NEW v \in Seen, q \in DOMAIN v
      PROVE  v[q].archived
  <2>1. CASE q = r
    BY <1>3, <1>7, <2>1
  <2>2. CASE q # r
    <3>1. Gone(q)
      BY <1>1, <1>2, <1>7, <2>2 DEF Gone, Good
    <3>2. QED
      BY <1>7, <3>1 DEF Listings, Good
  <2>3. QED
    BY <2>1, <2>2
<1>8. \A q \in DOMAIN cos : IsActive(cos[q]) => q \in DOMAIN g /\ IsActive(g[q]) /\ g[q] = cos[q]
  BY <1>2, <1>4 DEF IsActive
<1>9. \A q \in DOMAIN cos : \E p \in DOMAIN g : p >= q /\ IsActive(g[p])
  BY <1>1, <1>8 DEF Good
<1>10. Up(cos) => Up(g)
  <2>1. \A a \in ActiveOwned(cos) : a \in ActiveOwned(g) /\ g[a] = cos[a]
    BY <1>8 DEF ActiveOwned, Owned
  <2>2. QED
    BY <2>1, StaysUp
<1>11. DOMAIN g \ DOMAIN cos = {}
  BY <1>2
<1>12. QED
  BY <1>5, <1>6, <1>7, <1>8, <1>9, <1>10, <1>11 DEF Moves

LEMMA KindMoves ==
  ASSUME TypeInv, Listings, Succession, Untouched("degrade")' => Untouched("degrade"),
         NEW g \in Groups, Kind(g)
  PROVE  Moves(g)
BY TendingMoves, StampingMoves, ArchivingMoves, DroppingMoves DEF Kind
\* A write that changes the group, in a step that keeps or ends its listing.
Writes(g) ==
  /\ Lasting /\ cos' = g /\ stream' = Append(stream, g) /\ used' = used \cup DOMAIN g
  /\ succeeded' = succeeded \cup {r \in DOMAIN g : g[r].rollout = "Available"}

\* What a listing tells stays true.
LEMMA GoodStays ==
  ASSUME TypeInv, Listings, NEW g \in Groups, Moves(g), Writes(g), NEW v \in Seen
  PROVE  Good(v)'
<1>1. cos \in Seen /\ Good(cos) /\ Good(v)
  BY CurrentIsSeen DEF Listings
<1>2. cos' = g /\ used' = used \cup DOMAIN g /\ succeeded \subseteq succeeded'
  BY DEF Writes
<1>3. \A u \in used' : u \in used \/ (u \in DOMAIN g /\ u \notin DOMAIN cos)
  BY <1>1, <1>2 DEF Good
<1>4. \A u \in used' : u <= NextRevision(v)
  BY <1>1, <1>3 DEF Good, Moves
<1>5. ASSUME NEW u \in used', ~Live(u)' PROVE u + 1 < NextRevision(v)
  <2>1. u \in used
    BY <1>2, <1>3, <1>5 DEF Moves, Live
  <2>2. CASE Live(u)
    BY <1>2, <1>5, <2>2 DEF Moves, Live
  <2>3. CASE ~Live(u)
    BY <1>1, <2>1, <2>3 DEF Good
  <2>4. QED
    BY <2>2, <2>3
<1>6. ASSUME NEW r \in DOMAIN v, Gone(r)' PROVE v[r].archived
  <2>1. r \in used /\ (r \in DOMAIN g => g[r].deleting)
    BY <1>1, <1>2, <1>6 DEF Good, Gone
  <2>2. CASE r \in DOMAIN cos
    BY <2>1, <2>2 DEF Moves
  <2>3. CASE r \notin DOMAIN cos
    BY <1>1, <2>1, <2>3 DEF Gone, Good
  <2>4. QED
    BY <2>2, <2>3
<1>7. DOMAIN v \subseteq used'
  BY <1>1, <1>2 DEF Good
<1>8. \A r \in DOMAIN v : v[r].rollout = "Available" => r \in succeeded'
  BY <1>1, <1>2 DEF Good
<1>9. /\ \A r \in DOMAIN v : v[r].owner # "other"
      /\ \A r \in DOMAIN v : \E q \in DOMAIN v : q >= r /\ IsActive(v[q])
  BY <1>1 DEF Good
<1>10. QED
  BY <1>4, <1>5, <1>6, <1>7, <1>8, <1>9 DEF Good

\* The number after the highest revision never falls.
LEMMA MovesNext ==
  ASSUME TypeInv, NEW g \in Groups, Moves(g)
  PROVE  NextRevision(cos) <= NextRevision(g)
<1>1. \A r \in DOMAIN cos : \E q \in DOMAIN g : q >= r
  BY DEF Moves
<1>2. QED
  BY <1>1, NextRevisionGrows DEF TypeInv, ApiOK

LEMMA NewIsGood ==
  ASSUME TypeInv, Listings, NEW g \in Groups, Moves(g), Writes(g)
  PROVE  Good(g)'
<1>1. cos \in Seen /\ Good(cos)
  BY CurrentIsSeen DEF Listings
<1>2. cos' = g /\ used' = used \cup DOMAIN g
      /\ succeeded' = succeeded \cup {r \in DOMAIN g : g[r].rollout = "Available"}
  BY DEF Writes
<1>3. /\ NextRevision(cos) <= NextRevision(g)
      /\ NextRevision(g) \in Nat /\ NextRevision(cos) \in Nat
      /\ \A r \in DOMAIN g : r + 1 <= NextRevision(g)
  BY MovesNext, NextRevisionIsNext DEF TypeInv, ApiOK
<1>4. used \subseteq Nat /\ DOMAIN g \subseteq Nat
  BY GroupIs, GroupAssumption DEF TypeInv, ApiOK, Revisions
<1>5. \A r \in DOMAIN g : \E q \in DOMAIN g : q >= r /\ IsActive(g[q])
  <2>1. ASSUME NEW r \in DOMAIN g PROVE \E q \in DOMAIN g : q >= r /\ IsActive(g[q])
    <3>1. CASE r \in DOMAIN cos
      BY <3>1 DEF Moves
    <3>2. CASE r \notin DOMAIN cos
      <4>1. IsActive(g[r]) /\ r >= r
        BY <1>4, <3>2 DEF Moves
      <4>2. QED
        BY <4>1
    <3>3. QED
      BY <3>1, <3>2
  <2>2. QED
    BY <2>1
<1>6. \A u \in used' : u <= NextRevision(g)
  <2>1. \A u \in used : u <= NextRevision(g)
    BY <1>1, <1>3, <1>4 DEF Good
  <2>2. \A u \in DOMAIN g : u <= NextRevision(g)
    BY <1>3, <1>4
  <2>3. QED
    BY <1>2, <2>1, <2>2
<1>7. ASSUME NEW u \in used', ~Live(u)' PROVE u + 1 < NextRevision(g)
  <2>1. u \in used
    <3>1. u \in DOMAIN g => u \in DOMAIN cos
      BY <1>2, <1>7 DEF Moves, Live
    <3>2. QED
      BY <1>1, <1>2, <3>1 DEF Good
  <2>2. u + 1 < NextRevision(cos)
    <3>1. CASE Live(u)
      BY <1>1, <1>2, <1>7, <3>1 DEF Moves, Live
    <3>2. CASE ~Live(u)
      BY <1>1, <2>1, <3>2 DEF Good
    <3>3. QED
      BY <3>1, <3>2
  <2>3. u \in Nat
    BY <1>4, <2>1
  <2>4. QED
    BY <1>3, <2>2, <2>3
<1>8. ASSUME NEW r \in DOMAIN g, Gone(r)' PROVE g[r].archived
  <2>1. g[r].deleting
    BY <1>2, <1>8 DEF Gone
  <2>2. r \in DOMAIN cos
    BY <2>1 DEF Moves, IsActive
  <2>3. cos[r].archived
    BY <1>1, <2>1, <2>2 DEF Moves
  <2>4. QED
    BY <2>2, <2>3 DEF Moves
<1>9. \A r \in DOMAIN g : g[r].rollout = "Available" => r \in succeeded'
  BY <1>2
<1>10. DOMAIN g \subseteq used'
  BY <1>2
<1>11. \A r \in DOMAIN g : g[r].owner # "other"
  BY DEF Moves
<1>12. QED
  BY <1>5, <1>6, <1>7, <1>8, <1>9, <1>10, <1>11 DEF Good

\* The group a write leaves is later than all the listings.
LEMMA NewIsLater ==
  ASSUME TypeInv, Listings, Untouched("degrade")' => Untouched("degrade"),
         NEW g \in Groups, Moves(g), Writes(g), NEW v \in Seen
  PROVE  Later(v, g)'
<1>1. cos \in Seen /\ <<v, cos>> \in InOrder
  BY CurrentIsSeen DEF Listings
<1>2. Later(v, cos) /\ Good(v)
  <2>1. Later(<<v, cos>>[1], <<v, cos>>[2])
    BY <1>1 DEF Listings
  <2>2. QED
    BY <2>1 DEF Listings
<1>3. NextRevision(v) <= NextRevision(g)
  <2>1. NextRevision(cos) <= NextRevision(g) /\ NextRevision(v) <= NextRevision(cos)
    BY <1>2, MovesNext DEF Later
  <2>2. NextRevision(v) \in Nat /\ NextRevision(cos) \in Nat /\ NextRevision(g) \in Nat
    BY <1>1, SeenAreGroups, NextRevisionIsNext
  <2>3. QED
    BY <2>1, <2>2
<1>4. ASSUME NEW r \in DOMAIN v \cap DOMAIN g
      PROVE  g[r].hash = v[r].hash /\ (v[r].archived => g[r].archived)
  <2>1. r \in DOMAIN cos
    BY <1>2 DEF Good, Moves
  <2>2. QED
    BY <1>2, <2>1 DEF Later, Moves
<1>5. Untouched("degrade")' /\ Up(v) => Up(g)
  BY <1>2 DEF Later, Moves
<1>6. QED
  BY <1>3, <1>4, <1>5 DEF Later

LEMMA LaterStays ==
  ASSUME NEW v, NEW w, Later(v, w), Untouched("degrade")' => Untouched("degrade")
  PROVE  Later(v, w)'
BY DEF Later

LEMMA WriteKeepsListings ==
  ASSUME TypeInv, Listings, Untouched("degrade")' => Untouched("degrade"),
         NEW g \in Groups, Moves(g), Writes(g)
  PROVE  Listings'
<1>1. /\ View(Len(stream))' = g
      /\ Seen' \subseteq Seen \cup {g}
      /\ \A p \in InOrder' : p \in InOrder \/ (p[2] = g /\ p[1] \in Seen \cup {g})
  BY WriteSeen DEF Writes
<1>2. \A v \in Seen' : Good(v)'
  BY <1>1, GoodStays, NewIsGood
<1>3. ASSUME NEW p \in InOrder' PROVE Later(p[1], p[2])'
  <2>1. CASE p \in InOrder
    <3>1. Later(p[1], p[2])
      BY <2>1 DEF Listings
    <3>2. QED
      BY <3>1, LaterStays
  <2>2. CASE p[2] = g /\ p[1] \in Seen
    BY <2>2, NewIsLater
  <2>3. CASE p[2] = g /\ p[1] = g
    <3>1. Later(g, g)'
      <4>1. NextRevision(g) \in Nat
        BY NextRevisionIsNext
      <4>2. QED
        BY <4>1 DEF Later
    <3>2. QED
      BY <2>3, <3>1
  <2>4. QED
    BY <1>1, <2>1, <2>2, <2>3
<1>4. cos' = View(Len(stream))'
  BY <1>1 DEF Writes
<1>5. QED
  BY <1>2, <1>3, <1>4 DEF Listings

\* So does every step that only forgets listings.
LEMMA ForgettingKeepsListings ==
  ASSUME Listings, UNCHANGED <<cos, used, succeeded>>,
         Untouched("degrade")' => Untouched("degrade"),
         Seen' \subseteq Seen, InOrder' \subseteq InOrder,
         View(Len(stream))' = View(Len(stream))
  PROVE  Listings'
<1>1. ASSUME NEW v \in Seen' PROVE Good(v)'
  <2>1. Good(v)
    BY DEF Listings
  <2>2. QED
    BY <2>1 DEF Good, Gone, Live
<1>2. ASSUME NEW p \in InOrder' PROVE Later(p[1], p[2])'
  <2>1. Later(p[1], p[2])
    BY DEF Listings
  <2>2. QED
    BY <2>1, LaterStays
<1>3. QED
  BY <1>1, <1>2 DEF Listings
-----------------------------------------------------------------------------
(* What was rolled out has an active successor.                            *)

\* Every write keeps an active revision at or above each that was rolled out.
LEMMA SuccessorStays ==
  ASSUME TypeInv, Listings, Succession, Untouched("degrade")' => Untouched("degrade"),
         NEW g \in Groups, Kind(g), NEW s \in succeeded
  PROVE  \E q \in succeeded : /\ q >= s /\ q \in DOMAIN g /\ IsActive(g[q])
                              /\ Untouched("degrade")' => g[q].rollout = "Available"
<1>1. PICK q \in succeeded : q >= s /\ Live(q) /\ (Untouched("degrade") => cos[q].rollout = "Available")
  BY DEF Succession
<1>2. succeeded \subseteq Nat
  BY GroupAssumption DEF TypeInv, ApiOK, Revisions
<1>3. q \in DOMAIN cos /\ IsActive(cos[q])
  BY <1>1 DEF Live
<1>4. ASSUME q \in DOMAIN g, g[q] = cos[q]
      PROVE  \E w \in succeeded : /\ w >= s /\ w \in DOMAIN g /\ IsActive(g[w])
                                  /\ Untouched("degrade")' => g[w].rollout = "Available"
  BY <1>1, <1>3, <1>4
<1>5. CASE Tends(g)
  <2>1. q \in DOMAIN g /\ IsActive(g[q])
    BY <1>3, <1>5 DEF Tends, IsActive
  <2>2. Untouched("degrade")' => g[q].rollout = "Available"
    BY <1>1, <1>3, <1>5 DEF Tends
  <2>3. QED
    BY <1>1, <2>1, <2>2
<1>6. ASSUME NEW r \in Revisions, Stamps(g, r) PROVE q \in DOMAIN g /\ g[q] = cos[q]
  BY <1>3, <1>6 DEF Stamps, Others
<1>7. ASSUME NEW r \in Revisions, Drops(g, r) PROVE q \in DOMAIN g /\ g[q] = cos[q]
  <2>1. pc # "idle" /\ r \in Prunable(snap) /\ r \in DOMAIN cos
    BY <1>7 DEF Drops
  <2>2. cos \in Seen
    BY CurrentIsSeen DEF Listings
  <2>3. cos[r].archived
    BY <2>1, <2>2, PrunedIsArchived
  <2>4. q # r
    BY <1>3, <2>3 DEF IsActive
  <2>5. QED
    BY <1>3, <1>7, <2>4 DEF Drops, Others
<1>8. ASSUME NEW r \in Revisions, Releases(g, r) PROVE q \in DOMAIN g /\ g[q] = cos[q]
  BY <1>3, <1>8 DEF Releases, Others, IsActive
<1>9. ASSUME NEW r \in Revisions, Archives(g, r)
      PROVE  \E w \in succeeded : /\ w >= s /\ w \in DOMAIN g /\ IsActive(g[w])
                                  /\ Untouched("degrade")' => g[w].rollout = "Available"
  <2>1. CASE q # r
    BY <1>3, <1>4, <1>9, <2>1 DEF Archives, Others
  <2>2. CASE q = r
    <3>1. PICK w \in succeeded : w > r /\ Live(w) /\ (Untouched("degrade") => cos[w].rollout = "Available")
      BY <1>9, SupersededHasSuccessor DEF Archives
    <3>2. r \in Nat /\ w \in Nat /\ s \in Nat /\ w # r
      BY <1>2, <2>2, <3>1
    <3>3. w \in DOMAIN g /\ g[w] = cos[w] /\ IsActive(g[w])
      BY <1>9, <3>1, <3>2 DEF Archives, Others, Live
    <3>4. w >= s
      BY <1>1, <2>2, <3>1, <3>2
    <3>5. QED
      BY <3>1, <3>3, <3>4
  <2>3. QED
    BY <2>1, <2>2
<1>10. QED
  BY <1>4, <1>5, <1>6, <1>7, <1>8, <1>9 DEF Kind

\* Only an active revision becomes available.
LEMMA OnlyActiveSucceeds ==
  ASSUME TypeInv, Listings, NEW g \in Groups, Kind(g),
         NEW s \in DOMAIN g, g[s].rollout = "Available"
  PROVE  s \in succeeded \/ (Tends(g) /\ s \in DOMAIN cos /\ IsActive(cos[s]) /\ IsActive(g[s]))
<1>1. Good(cos)
  BY CurrentIsSeen DEF Listings
<1>2. ASSUME s \in DOMAIN cos, cos[s].rollout = "Available" PROVE s \in succeeded
  BY <1>1, <1>2 DEF Good
<1>3. CASE Tends(g)
  <2>1. s \in DOMAIN cos /\ (cos[s].rollout = "Available" \/ IsActive(cos[s]))
    BY <1>3 DEF Tends
  <2>2. IsActive(cos[s]) => IsActive(g[s])
    BY <1>3, <2>1 DEF Tends, IsActive
  <2>3. QED
    BY <1>2, <1>3, <2>1, <2>2
<1>4. ASSUME NEW r \in Revisions, Stamps(g, r) PROVE s \in succeeded
  <2>1. s # r
    BY <1>4 DEF Stamps, NewCOS
  <2>2. s \in DOMAIN cos /\ g[s] = cos[s]
    BY <1>4, <2>1 DEF Stamps, Others
  <2>3. QED
    BY <1>2, <2>2
<1>5. ASSUME NEW r \in Revisions, Archives(g, r) \/ Drops(g, r) \/ Releases(g, r)
      PROVE  s \in succeeded
  <2>1. s \in DOMAIN cos /\ g[s].rollout = cos[s].rollout
    BY <1>5 DEF Archives, Drops, Releases, Others
  <2>2. QED
    BY <1>2, <2>1
<1>6. QED
  BY <1>3, <1>4, <1>5 DEF Kind

LEMMA WriteKeepsSuccession ==
  ASSUME TypeInv, Listings, Succession, Untouched("degrade")' => Untouched("degrade"),
         NEW g \in Groups, Kind(g), Writes(g)
  PROVE  Succession'
<1>1. cos' = g /\ succeeded' = succeeded \cup {r \in DOMAIN g : g[r].rollout = "Available"}
  BY DEF Writes
<1>2. ASSUME NEW s \in succeeded'
      PROVE  \E q \in succeeded' : q >= s /\ Live(q)' /\ (Untouched("degrade")' => g[q].rollout = "Available")
  <2>1. CASE s \in succeeded
    <3>1. PICK q \in succeeded : /\ q >= s /\ q \in DOMAIN g /\ IsActive(g[q])
                                 /\ Untouched("degrade")' => g[q].rollout = "Available"
      BY <2>1, SuccessorStays
    <3>2. Live(q)' /\ q \in succeeded'
      BY <1>1, <3>1 DEF Live
    <3>3. QED
      BY <3>1, <3>2
  <2>2. CASE s \notin succeeded
    <3>1. s \in DOMAIN g /\ g[s].rollout = "Available"
      BY <1>1, <2>2
    <3>2. IsActive(g[s])
      BY <2>2, <3>1, OnlyActiveSucceeds
    <3>3. s >= s
      BY <3>1, GroupIs, GroupAssumption DEF Revisions
    <3>4. Live(s)'
      BY <1>1, <3>1, <3>2 DEF Live
    <3>5. QED
      BY <1>2, <3>1, <3>3, <3>4
  <2>3. QED
    BY <2>1, <2>2
<1>3. QED
  BY <1>1, <1>2 DEF Succession

-----------------------------------------------------------------------------
(* The history is long enough.                                             *)

\* When the controller drops a revision, those that its listing shows archived
\* above it are kept, or one of them is gone and has as many kept above it.
LEMMA EnoughIsKept ==
  ASSUME TypeInv, Listings, Retention, pc # "idle", NEW r \in Prunable(snap)
  PROVE  Cardinality(KeptAbove(r)) >= HistoryLimit
<1> DEFINE archived == {q \in Owned(snap) : snap[q].archived}
           U == {q \in archived : q > r}
<1>1. Cardinality(U) >= HistoryLimit /\ r \in Owned(snap)
  BY DEF Prunable
<1>2. snap \in Groups /\ Good(snap) /\ cos \in Groups
  BY SnapFirst DEF TypeInv, StepOK, ApiOK
<1>3. DOMAIN snap \subseteq Revisions /\ DOMAIN cos \subseteq Revisions /\ Revisions \subseteq Nat
  BY <1>2, GroupIs, GroupAssumption DEF Revisions
<1>4. \A q \in U : q \in DOMAIN snap /\ snap[q].archived /\ q > r
  BY DEF Owned
<1>5. KeptAbove(r) \subseteq Revisions
  BY <1>3 DEF KeptAbove
<1>6. CASE \E d \in U : Gone(d)
  <2>1. PICK d \in U : Gone(d)
    BY <1>6
  <2>2. d \in used /\ d > r /\ d \in Nat /\ r \in Nat
    BY <1>1, <1>3, <1>4, <2>1 DEF Gone, Owned
  <2>3. Cardinality(KeptAbove(d)) >= HistoryLimit
    BY <2>1, <2>2 DEF Retention
  <2>4. KeptAbove(d) \subseteq KeptAbove(r)
    <3>1. \A q \in DOMAIN cos : q \in Nat
      BY <1>3
    <3>2. \A q \in DOMAIN cos : q > d => q > r
      <4> HIDE DEF U, archived
      <4>1. QED
        BY <2>2, <3>1
    <3>3. QED
      BY <3>2, Zenon DEF KeptAbove
  <2>5. QED
    BY <1>5, <2>3, <2>4, MoreAreKept
<1>7. CASE ~\E d \in U : Gone(d)
  <2>1. ASSUME NEW q \in U PROVE q \in KeptAbove(r)
    <3>1. q \in used
      BY <1>2, <1>4 DEF Good
    <3>2. q \in DOMAIN cos /\ ~cos[q].deleting
      BY <1>7, <3>1 DEF Gone
    <3>3. cos \in Seen
      BY CurrentIsSeen DEF Listings
    <3>4. cos = snap \/ Later(snap, cos)
      BY <3>3, SnapFirst
    <3>5. cos[q].archived
      BY <1>4, <3>2, <3>4 DEF Later
    <3>6. QED
      BY <1>4, <3>2, <3>5 DEF KeptAbove
  <2>2. U \subseteq KeptAbove(r)
    BY <2>1
  <2> HIDE DEF U
  <2>3. QED
    BY <1>1, <1>5, <2>2, MoreAreKept
<1>8. QED
  BY <1>6, <1>7

LEMMA WriteKeepsRetention ==
  ASSUME TypeInv, Listings, Retention, NEW g \in Groups, Kind(g), Moves(g), Writes(g)
  PROVE  Retention'
<1>1. cos' = g /\ used' = used \cup DOMAIN g /\ Good(cos)
  BY CurrentIsSeen DEF Writes, Listings
<1>2. cos \in Groups
  BY DEF TypeInv, ApiOK
<1>3. DOMAIN g \subseteq Revisions /\ DOMAIN cos \subseteq Revisions /\ Revisions \subseteq Nat
  BY <1>2, GroupIs, GroupAssumption DEF Revisions
<1>4. \A d : KeptAbove(d)' = {q \in DOMAIN g : q > d /\ g[q].archived /\ ~g[q].deleting}
  BY <1>1 DEF KeptAbove
<1>5. \A d : KeptAbove(d)' \subseteq Revisions
  BY <1>3, <1>4
<1>6. ASSUME NEW d \in used', Gone(d)', Gone(d), KeptAbove(d) \subseteq KeptAbove(d)'
      PROVE  Cardinality(KeptAbove(d)') >= HistoryLimit
  BY <1>5, <1>6, MoreAreKept DEF Retention, Gone
<1>7. ASSUME NEW d \in used', Gone(d)', Gone(d) PROVE d \in used
  BY <1>7 DEF Gone
<1>8. ASSUME NEW d \in used', Gone(d)' PROVE Cardinality(KeptAbove(d)') >= HistoryLimit
  <2>1. d \in used /\ (d \in DOMAIN g => g[d].deleting)
    <3>1. d \in DOMAIN g => g[d].deleting
      BY <1>1, <1>8 DEF Gone
    <3>2. d \in DOMAIN g => d \in DOMAIN cos
      BY <3>1 DEF Moves, IsActive
    <3>3. QED
      BY <1>1, <3>1, <3>2 DEF Good
  <2>2. CASE Tends(g)
    <3>1. Gone(d) /\ KeptAbove(d) \subseteq KeptAbove(d)'
      BY <1>4, <2>1, <2>2 DEF Tends, Gone, KeptAbove
    <3>2. QED
      BY <1>6, <1>8, <3>1
  <2>3. ASSUME NEW r \in Revisions, Stamps(g, r) PROVE Gone(d) /\ KeptAbove(d) \subseteq KeptAbove(d)'
    <3>1. \A q \in DOMAIN cos : q \in DOMAIN g /\ g[q] = cos[q]
      BY <2>3 DEF Stamps, Others
    <3>2. QED
      BY <1>4, <2>1, <3>1 DEF Gone, KeptAbove
  <2>4. ASSUME NEW r \in Revisions, Archives(g, r) PROVE Gone(d) /\ KeptAbove(d) \subseteq KeptAbove(d)'
    <3>1. \A q \in DOMAIN cos : q \in DOMAIN g /\ (q # r => g[q] = cos[q])
      BY <2>4 DEF Archives, Others
    <3>2. g[r].archived /\ ~g[r].deleting
      BY <2>4 DEF Archives
    <3>3. QED
      BY <1>4, <2>1, <3>1, <3>2 DEF Gone, KeptAbove
  <2>5. ASSUME NEW r \in Revisions, Releases(g, r) PROVE Gone(d) /\ KeptAbove(d) \subseteq KeptAbove(d)'
    <3>1. \A q \in DOMAIN cos : q # r => q \in DOMAIN g /\ g[q] = cos[q]
      BY <2>5 DEF Releases, Others
    <3>2. cos[r].deleting
      BY <2>5 DEF Releases
    <3>3. QED
      BY <1>4, <2>1, <3>1, <3>2 DEF Gone, KeptAbove
  <2>6. ASSUME NEW r \in Revisions, Drops(g, r) PROVE Cardinality(KeptAbove(d)') >= HistoryLimit
    <3>1. /\ pc # "idle" /\ r \in Prunable(snap) /\ r \in DOMAIN cos
          /\ \A q \in DOMAIN cos : q # r => q \in DOMAIN g /\ g[q] = cos[q]
      BY <2>6 DEF Drops, Others
    <3>2. Cardinality(KeptAbove(r)) >= HistoryLimit
      BY <3>1, EnoughIsKept
    <3>3. d \in Nat /\ r \in Nat
      BY <1>3, <2>1 DEF TypeInv, ApiOK
    <3>4. CASE d <= r
      <4>1. KeptAbove(r) \subseteq KeptAbove(d)'
        BY <1>3, <1>4, <3>1, <3>3, <3>4 DEF KeptAbove
      <4>2. QED
        BY <1>5, <3>2, <4>1, MoreAreKept
    <3>5. CASE d > r
      <4>1. Gone(d)
        BY <2>1, <3>1, <3>3, <3>5 DEF Gone
      <4>2. KeptAbove(d) \subseteq KeptAbove(d)'
        BY <1>3, <1>4, <3>1, <3>3, <3>5 DEF KeptAbove
      <4>3. QED
        BY <1>6, <1>8, <4>1, <4>2
    <3>6. QED
      BY <3>3, <3>4, <3>5
  <2>7. QED
    BY <1>6, <1>8, <2>2, <2>3, <2>4, <2>5, <2>6 DEF Kind
<1>9. QED
  BY <1>8 DEF Retention
-----------------------------------------------------------------------------
(* Every step is one of these, or only forgets listings.                   *)

\* What changing one field of one revision leaves.
LEMMA OneChanged ==
  ASSUME NEW g \in Groups, NEW r \in DOMAIN g, NEW c
  PROVE  /\ DOMAIN [g EXCEPT ![r] = c] = DOMAIN g
         /\ [g EXCEPT ![r] = c][r] = c
         /\ \A q \in DOMAIN g : q # r => [g EXCEPT ![r] = c][q] = g[q]
BY GroupIs

\* A group in which only owner, claim or rollout of one revision changed tends
\* the group.
LEMMA OneTended ==
  ASSUME TypeInv, Good(cos), NEW g, NEW r \in DOMAIN cos,
         DOMAIN g = DOMAIN cos, \A q \in DOMAIN cos : q # r => g[q] = cos[q],
         g[r].hash = cos[r].hash, g[r].archived = cos[r].archived,
         g[r].deleting = cos[r].deleting, g[r].owner # "other",
         g[r].rollout = "Available" => cos[r].rollout = "Available" \/ IsActive(cos[r]),
         cos[r].rollout = "Available" /\ IsActive(cos[r]) /\ Untouched("degrade")'
           => g[r].rollout = "Available"
  PROVE  Tends(g)
<1>1. \A q \in DOMAIN cos : cos[q].owner # "other"
  BY DEF Good
<1>2. Others(g, r)
  BY DEF Others
<1>3. QED
  BY <1>1, <1>2 DEF Tends

LEMMA AdoptionTends ==
  ASSUME TypeInv, Good(cos), NEW r \in DOMAIN cos
  PROVE  Tends([cos EXCEPT ![r].owner = "cod"])
<1>1. cos \in Groups /\ cos[r] \in COS
  BY MemberIsCOS DEF TypeInv, ApiOK
<1>2. PICK c : c = [cos[r] EXCEPT !.owner = "cod"]
  OBVIOUS
<1>3. /\ c.hash = cos[r].hash /\ c.archived = cos[r].archived /\ c.deleting = cos[r].deleting
      /\ c.owner = "cod" /\ c.rollout = cos[r].rollout
  BY <1>1, <1>2 DEF COS
<1>4. Tends([cos EXCEPT ![r] = c])
  BY <1>1, <1>3, OneChanged, OneTended
<1>5. QED
  BY <1>2, <1>4

LEMMA ClaimTends ==
  ASSUME TypeInv, Good(cos), NEW r \in DOMAIN cos, NEW h
  PROVE  Tends(WithDesired(cos, r, h))
<1>1. cos \in Groups /\ cos[r] \in COS /\ cos \in [DOMAIN cos -> COS]
  BY MemberIsCOS, GroupIs DEF TypeInv, ApiOK
<1>2. PICK c : c = [[cos[r] EXCEPT !.claimed = TRUE] EXCEPT !.owner = "cod"]
  OBVIOUS
<1>3. /\ c.hash = cos[r].hash /\ c.archived = cos[r].archived /\ c.deleting = cos[r].deleting
      /\ c.owner = "cod" /\ c.rollout = cos[r].rollout
  BY <1>1, <1>2 DEF COS
<1>4. WithDesired(cos, r, h) = [cos EXCEPT ![r] = c]
  BY <1>1, <1>2 DEF WithDesired
<1>5. Tends([cos EXCEPT ![r] = c])
  BY <1>1, <1>3, OneChanged, OneTended
<1>6. QED
  BY <1>4, <1>5

LEMMA ReportTends ==
  ASSUME TypeInv, Good(cos), NEW r \in DOMAIN cos, NEW s,
         s = "Available" => IsActive(cos[r]),
         cos[r].rollout = "Available" /\ IsActive(cos[r]) /\ Untouched("degrade")' => s = "Available"
  PROVE  Tends([cos EXCEPT ![r].rollout = s])
<1>1. cos \in Groups /\ cos[r] \in COS /\ cos[r].owner # "other"
  BY MemberIsCOS DEF TypeInv, ApiOK, Good
<1>2. PICK c : c = [cos[r] EXCEPT !.rollout = s]
  OBVIOUS
<1>3. /\ c.hash = cos[r].hash /\ c.archived = cos[r].archived /\ c.deleting = cos[r].deleting
      /\ c.owner = cos[r].owner /\ c.rollout = s
  BY <1>1, <1>2 DEF COS
<1>4. Tends([cos EXCEPT ![r] = c])
  BY <1>1, <1>3, OneChanged, OneTended
<1>5. QED
  BY <1>2, <1>4

\* Archiving what is archived already changes nothing.
LEMMA ArchivingIsKind ==
  ASSUME TypeInv, Good(cos), NEW r \in DOMAIN cos, ~cos[r].deleting,
         pc # "idle", r \in Superseded(snap)
  PROVE  Kind([cos EXCEPT ![r].archived = TRUE])
<1>1. cos \in Groups /\ cos[r] \in COS /\ cos[r].owner # "other" /\ r \in Revisions
  BY MemberIsCOS DEF TypeInv, ApiOK, Good
<1>2. PICK c : c = [cos[r] EXCEPT !.archived = TRUE]
  OBVIOUS
<1>3. /\ c.hash = cos[r].hash /\ c.archived = TRUE /\ c.deleting = cos[r].deleting
      /\ c.owner = cos[r].owner /\ c.rollout = cos[r].rollout
  BY <1>1, <1>2 DEF COS
<1>4. CASE cos[r].archived
  <2>1. cos[r].archived = TRUE
    BY <1>1, <1>4 DEF COS
  <2>2. Tends([cos EXCEPT ![r] = c])
    BY <1>1, <1>3, <2>1, OneChanged, OneTended
  <2>3. QED
    BY <1>2, <2>2 DEF Kind
<1>5. CASE ~cos[r].archived
  <2>1. Live(r)
    BY <1>5 DEF Live, IsActive
  <2>2. /\ DOMAIN [cos EXCEPT ![r] = c] = DOMAIN cos /\ [cos EXCEPT ![r] = c][r] = c
        /\ \A q \in DOMAIN cos : q # r => [cos EXCEPT ![r] = c][q] = cos[q]
    BY <1>1, OneChanged
  <2>3. Archives([cos EXCEPT ![r] = c], r)
    BY <1>3, <2>1, <2>2 DEF Archives, Others
  <2>4. QED
    BY <1>1, <1>2, <2>3 DEF Kind
<1>6. QED
  BY <1>4, <1>5

LEMMA DeletionIsKind ==
  ASSUME TypeInv, NEW r \in DOMAIN cos, ~cos[r].deleting,
         pc # "idle", r \in Prunable(snap), NEW g \in Deletions(cos, r)
  PROVE  Kind(g)
<1>1. cos \in Groups /\ cos[r] \in COS /\ r \in Revisions
  BY MemberIsCOS DEF TypeInv, ApiOK
<1>2. PICK c : c = [cos[r] EXCEPT !.deleting = TRUE]
  OBVIOUS
<1>3. /\ c.hash = cos[r].hash /\ c.archived = cos[r].archived /\ c.deleting = TRUE
      /\ c.owner = cos[r].owner /\ c.rollout = cos[r].rollout
  BY <1>1, <1>2 DEF COS
<1>4. g = [cos EXCEPT ![r] = c] \/ g = Without(cos, r)
  BY <1>2 DEF Deletions
<1>5. CASE g = [cos EXCEPT ![r] = c]
  <2>1. /\ DOMAIN g = DOMAIN cos /\ g[r] = c
        /\ \A q \in DOMAIN cos : q # r => g[q] = cos[q]
    BY <1>1, <1>5, OneChanged
  <2>2. Drops(g, r)
    BY <1>3, <2>1 DEF Drops, Others
  <2>3. QED
    BY <1>1, <2>2 DEF Kind
<1>6. CASE g = Without(cos, r)
  <2>1. /\ DOMAIN g = DOMAIN cos \ {r}
        /\ \A q \in DOMAIN cos \ {r} : g[q] = cos[q]
    BY <1>1, <1>6, WithoutIsGroup
  <2>2. Drops(g, r)
    BY <2>1 DEF Drops, Others
  <2>3. QED
    BY <1>1, <2>2 DEF Kind
<1>7. QED
  BY <1>4, <1>5, <1>6

LEMMA ReleaseIsKind ==
  ASSUME TypeInv, NEW r \in DOMAIN cos, cos[r].deleting
  PROVE  Kind(Without(cos, r))
<1>1. cos \in Groups /\ r \in Revisions
  BY MemberIsCOS DEF TypeInv, ApiOK
<1>2. Releases(Without(cos, r), r)
  BY <1>1, WithoutIsGroup DEF Releases, Others
<1>3. QED
  BY <1>1, <1>2 DEF Kind

LEMMA StampIsKind ==
  ASSUME TypeInv, CreateRevision, NextRevision(snap) \notin DOMAIN cos
  PROVE  Stamps(Store(cos, NextRevision(snap), NewCOS(codSnap.hash, FALSE)), NextRevision(snap))
<1>1. /\ pc = "adopt" /\ NeedsRevision(snap, codSnap.hash) /\ NextRevision(snap) \in Revisions
      /\ codSnap \in CODs
  BY DEF CreateRevision, Synced, TypeInv, StepOK
<1>2. codSnap.hash \in Templates
  BY <1>1 DEF CODs
<1>3. NewCOS(codSnap.hash, FALSE) \in COS
  BY <1>2, NewIsCOS
<1>4. PICK c, n : c = NewCOS(codSnap.hash, FALSE) /\ n = NextRevision(snap)
  OBVIOUS
<1>5. /\ DOMAIN Store(cos, n, c) = DOMAIN cos \cup {n}
      /\ \A q \in DOMAIN cos \cup {n} : Store(cos, n, c)[q] = IF q = n THEN c ELSE cos[q]
  <2>1. cos \in Groups /\ n \in Revisions /\ c \in COS
    BY <1>1, <1>3, <1>4 DEF TypeInv, ApiOK
  <2>2. QED
    BY <2>1, StoreIsGroup
<1>6. Store(cos, n, c)[n] = c /\ \A q \in DOMAIN cos \ {n} : Store(cos, n, c)[q] = cos[q]
  BY <1>5
<1>7. Stamps(Store(cos, n, c), n)
  BY <1>1, <1>2, <1>4, <1>5, <1>6 DEF Stamps, Others
<1>8. QED
  BY <1>4, <1>7
\* A step that goes on with its listing or ends, and writes what it may.
Tame ==
  /\ Lasting
  /\ \/ UNCHANGED api
     \/ \E g \in Groups : Put(g) /\ Kind(g)

\* What a listing shows active as the newest is active.
LEMMA NewestIsLive ==
  ASSUME TypeInv, Listings, pc # "idle", ActiveOwned(snap) # {}
  PROVE  Max(ActiveOwned(snap)) \in DOMAIN cos
<1> DEFINE m == Max(ActiveOwned(snap))
<1>1. snap \in Groups /\ Good(snap)
  BY SnapFirst DEF TypeInv, StepOK
<1>2. ActiveOwned(snap) \subseteq DOMAIN snap /\ DOMAIN snap \subseteq Nat
  BY <1>1, GroupIs, GroupAssumption DEF ActiveOwned, Owned, Revisions
<1>3. m \in ActiveOwned(snap) /\ \A y \in ActiveOwned(snap) : y <= m
  <2>1. ActiveOwned(snap) \subseteq 0 .. MaxRevision /\ MaxRevision \in Nat
    BY <1>1, <1>2, GroupIs, GroupAssumption DEF Revisions
  <2>2. QED
    BY <2>1, MaxIsGreatest
<1> HIDE DEF m
<1>4. CASE ~Live(m)
  <2>1. m + 1 < NextRevision(snap)
    BY <1>1, <1>2, <1>3, <1>4 DEF Good
  <2>2. PICK r \in DOMAIN snap : NextRevision(snap) = r + 1
    BY <1>1, <1>2, <1>3, NextRevisionIsNext
  <2>3. PICK q \in DOMAIN snap : q >= r /\ IsActive(snap[q])
    BY <1>1 DEF Good
  <2>4. q \in ActiveOwned(snap)
    BY <1>1, <2>3 DEF ActiveOwned, Owned, Good
  <2>5. m \in Nat /\ r \in Nat /\ q \in Nat /\ q <= m
    BY <1>2, <1>3, <2>4
  <2>6. QED
    BY <2>1, <2>2, <2>3, <2>5
<1>5. QED
  BY <1>4 DEF Live, m

LEMMA ApplyTame ==
  ASSUME TypeInv, Good(cos), NEW r \in DOMAIN cos, pc \in {"adopt", "claim"},
         ApplyDesired(r), cache' = cache
  PROVE  Tame
<1>1. codSnap.hash \in Templates /\ r \in Revisions /\ cos \in Groups
  BY MemberIsCOS DEF TypeInv, ApiOK, StepOK, CODs
<1>2. CASE AcceptsDesired(cos, r, codSnap.hash)
  <2>1. Put(WithDesired(cos, r, codSnap.hash)) /\ snap' = snap
    BY <1>2 DEF ApplyDesired, ToWrites, Keep
  <2>2. WithDesired(cos, r, codSnap.hash) \in Groups
    BY <1>1, DesiredIsGroup
  <2>3. Kind(WithDesired(cos, r, codSnap.hash))
    BY ClaimTends DEF Kind
  <2>4. QED
    BY <2>1, <2>2, <2>3 DEF Tame, Lasting
<1>3. CASE ~AcceptsDesired(cos, r, codSnap.hash)
  BY <1>3 DEF ApplyDesired, Idle, At, Tame, Lasting
<1>4. QED
  BY <1>2, <1>3

LEMMA IdleTame ==
  ASSUME NEW again, Idle(again), UNCHANGED api, cache' = cache
  PROVE  Tame
BY DEF Idle, At, Tame, Lasting

LEMMA ReconcileTame ==
  ASSUME TypeInv, Listings, Work, Reconcile, ~Start
  PROVE  Tame
<1>1. cos \in Groups /\ snap \in Groups /\ Good(cos)
  BY CurrentIsSeen DEF TypeInv, ApiOK, StepOK, Listings
<1>2. CASE Adopt
  <2> DEFINE r == Min(todo)
  <2>1. cache' = cache /\ pc = "adopt"
    BY <1>2 DEF Adopt
  <2>2. CASE r \in DOMAIN cos /\ cos[r].owner # "other"
    <3>1. Put([cos EXCEPT ![r].owner = "cod"]) /\ snap' = snap
      BY <1>2, <2>2 DEF Adopt, Keep
    <3>2. [cos EXCEPT ![r].owner = "cod"] \in Groups /\ Kind([cos EXCEPT ![r].owner = "cod"])
      BY <1>1, <2>2, OwnedIsGroup, AdoptionTends DEF Kind
    <3>3. QED
      BY <2>1, <3>1, <3>2 DEF Tame, Lasting
  <2>3. CASE ~(r \in DOMAIN cos /\ cos[r].owner # "other")
    <3>1. Idle(TRUE) /\ UNCHANGED api
      BY <1>2, <2>3 DEF Adopt
    <3>2. QED
      BY <2>1, <3>1, IdleTame
  <2>4. QED
    BY <2>2, <2>3
<1>3. CASE CreateRevision
  <2> DEFINE n == NextRevision(snap)
  <2>1. cache' = cache /\ n \in Revisions /\ codSnap.hash \in Templates /\ pc = "adopt"
    BY <1>3 DEF CreateRevision, Synced, TypeInv, StepOK, CODs
  <2>2. CASE n \in DOMAIN cos
    <3>1. Idle(TRUE) /\ UNCHANGED api
      BY <1>3, <2>2 DEF CreateRevision
    <3>2. QED
      BY <2>1, <3>1, IdleTame
  <2>3. CASE n \notin DOMAIN cos
    <3>1. Put(Store(cos, n, NewCOS(codSnap.hash, FALSE))) /\ snap' = snap
      BY <1>3, <2>3 DEF CreateRevision, Keep
    <3>2. Store(cos, n, NewCOS(codSnap.hash, FALSE)) \in Groups
      BY <1>1, <2>1, NewIsCOS, StoreIsGroup
    <3>3. Kind(Store(cos, n, NewCOS(codSnap.hash, FALSE)))
      BY <1>3, <2>1, <2>3, StampIsKind DEF Kind
    <3>4. QED
      BY <2>1, <3>1, <3>2, <3>3 DEF Tame, Lasting
  <2>4. QED
    BY <2>2, <2>3
<1>4. CASE ClaimRevision
  <2> DEFINE n == NextRevision(snap)
  <2>1. pc = "claim" /\ ApplyDesired(n) /\ cache' = cache
    BY <1>4 DEF ClaimRevision
  <2>2. n \in used /\ Good(snap) /\ n \in Nat
    BY <1>1, <2>1, SnapFirst, NextRevisionIsNext DEF Work
  <2>3. ~(n + 1 < n)
    BY <2>2
  <2>4. n \in DOMAIN cos
    BY <2>2, <2>3 DEF Good, Live
  <2>5. QED
    BY <1>1, <2>1, <2>4, ApplyTame
<1>5. CASE EnsureFieldOwnership
  <2> DEFINE latest == Max(ActiveOwned(snap))
  <2>1. cache' = cache /\ pc = "adopt" /\ ActiveOwned(snap) # {}
    BY <1>5 DEF EnsureFieldOwnership, Synced, NeedsRevision
  <2>2. CASE snap[latest].claimed
    BY <1>5, <2>1, <2>2 DEF EnsureFieldOwnership, ToWrites, Keep, Tame, Lasting
  <2>3. CASE ~snap[latest].claimed
    <3>1. ApplyDesired(latest)
      BY <1>5, <2>3 DEF EnsureFieldOwnership
    <3>2. latest \in DOMAIN cos
      BY <2>1, NewestIsLive
    <3>3. QED
      BY <1>1, <2>1, <3>1, <3>2, ApplyTame
  <2>4. QED
    BY <2>2, <2>3
<1>6. CASE ArchiveSuperseded
  <2> DEFINE r == Min(todo)
  <2>1. cache' = cache /\ pc = "archive" /\ snap' = snap
    BY <1>6 DEF ArchiveSuperseded, Keep
  <2>2. r \in Superseded(snap) /\ r \in DOMAIN snap
    BY <2>1, LeastTodo DEF Work, TypeInv, StepOK
  <2>3. ~snap[r].archived /\ Good(snap)
    BY <2>1, <2>2, SnapFirst DEF Superseded
  <2>4. r \in DOMAIN cos /\ ~cos[r].deleting
    BY <2>2, <2>3 DEF Good, Gone
  <2>5. CASE AcceptsArchived(cos, snap, r)
    <3>1. Put([cos EXCEPT ![r].archived = TRUE])
      BY <1>6, <2>4, <2>5 DEF ArchiveSuperseded, WithArchived
    <3>2. [cos EXCEPT ![r].archived = TRUE] \in Groups
      BY <1>1, <2>4, ArchivedIsGroup
    <3>3. Kind([cos EXCEPT ![r].archived = TRUE])
      BY <1>1, <2>1, <2>2, <2>4, ArchivingIsKind
    <3>4. QED
      BY <2>1, <3>1, <3>2, <3>3 DEF Tame, Lasting
  <2>6. CASE ~AcceptsArchived(cos, snap, r)
    BY <1>6, <2>1, <2>6 DEF ArchiveSuperseded, Tame, Lasting
  <2>7. QED
    BY <2>5, <2>6
<1>7. CASE PruneArchived
  <2> DEFINE r == Min(todo)
  <2>1. cache' = cache /\ pc = "prune" /\ snap' = snap /\ todo # {}
    BY <1>7 DEF PruneArchived, Keep
  <2>2. r \in Prunable(snap)
    BY <2>1, LeastTodo DEF Work, TypeInv
  <2>3. CASE r \in DOMAIN cos
    <3>1. PICK g \in Deletions(cos, r) : Put(g)
      BY <1>7, <2>3 DEF PruneArchived
    <3>2. g \in Groups
      BY <1>1, <2>3, DeletionsAreGroups
    <3>3. CASE cos[r].deleting
      <4>1. g = cos
        BY <3>3 DEF Deletions
      <4>2. QED
        BY <2>1, <3>1, <4>1 DEF Put, Tame, Lasting
    <3>4. CASE ~cos[r].deleting
      <4>1. Kind(g)
        BY <2>1, <2>2, <2>3, <3>4, DeletionIsKind
      <4>2. QED
        BY <2>1, <3>1, <3>2, <4>1 DEF Tame, Lasting
    <3>5. QED
      BY <3>3, <3>4
  <2>4. CASE r \notin DOMAIN cos
    BY <1>7, <2>1, <2>4 DEF PruneArchived, Tame, Lasting
  <2>5. QED
    BY <2>3, <2>4
<1>8. CASE UpdateStatus
  <2>1. UNCHANGED api /\ cache' = cache /\ (Idle(TRUE) \/ Idle(FALSE))
    BY <1>8 DEF UpdateStatus
  <2>2. QED
    BY <2>1, IdleTame
<1>9. QED
  BY <1>2, <1>3, <1>4, <1>5, <1>6, <1>7, <1>8 DEF Reconcile
\* Disturbances are spent, never given back.
LEMMA SpendingFalls ==
  ASSUME TypeInv, Within, NEW what \in Disturbances, Spend(what)
  PROVE  /\ Within' /\ ~Untouched(what)'
         /\ \A other \in Disturbances : Untouched(other)' => Untouched(other)
<1>1. budget \in [Disturbances -> Nat] /\ Budget \in [Disturbances -> Nat]
  BY ControllerAssumption DEF TypeInv, RestOK
<1>2. /\ budget[what] > 0 /\ budget'[what] = budget[what] - 1
      /\ \A other \in Disturbances : other # what => budget'[other] = budget[other]
  BY <1>1 DEF Spend
<1>3. /\ budget[what] \in Nat /\ Budget[what] \in Nat /\ budget[what] <= Budget[what]
      /\ \A other \in Disturbances : budget[other] <= Budget[other]
  BY <1>1 DEF Within
<1>4. budget'[what] < Budget[what]
  BY <1>2, <1>3
<1>5. budget'[what] <= Budget[what] /\ budget'[what] # Budget[what]
  BY <1>2, <1>3
<1>6. \A other \in Disturbances : budget'[other] <= Budget[other]
  BY <1>2, <1>3, <1>5
<1>7. QED
  BY <1>2, <1>5, <1>6 DEF Within, Untouched

LEMMA BudgetFalls ==
  ASSUME TypeInv, Within, [Next]_vars
  PROVE  /\ Within'
         /\ \A what \in Disturbances : Untouched(what)' => Untouched(what)
<1>1. CASE UNCHANGED budget
  BY <1>1 DEF Within, Untouched
<1>2. CASE \E what \in Disturbances : Spend(what)
  BY <1>2, SpendingFalls
<1>3. UNCHANGED budget \/ \E what \in Disturbances : Spend(what)
  <2>1. CASE Reconcile
    BY <2>1 DEF Reconcile, Start, Adopt, CreateRevision, ClaimRevision, EnsureFieldOwnership,
                ArchiveSuperseded, PruneArchived, UpdateStatus
  <2>2. CASE Informer
    BY <2>2 DEF Informer, DeliverCOS, DeliverCOD
  <2>3. CASE COSController
    BY <2>3 DEF COSController, RollOut, Degrade, Finalize, Disturbances
  <2>4. CASE User
    BY <2>4 DEF User, EditTemplate, UserArchive, UserDelete, Disturbances
  <2>5. CASE Fail \/ Crash
    BY <2>5 DEF Fail, Crash, Disturbances
  <2>6. CASE UNCHANGED vars
    BY <2>6 DEF vars
  <2>7. QED
    BY <2>1, <2>2, <2>3, <2>4, <2>5, <2>6 DEF Next
<1>4. QED
  BY <1>1, <1>2, <1>3

\* Users that leave the revisions alone only edit the template.
LEMMA UserEdits ==
  ASSUME TypeInv, Within, User, Untouched("touch")'
  PROVE  \E h \in Templates : EditTemplate(h)
<1>1. "touch" \in Disturbances
  BY DEF Disturbances
<1>2. ~Spend("touch")
  BY <1>1, SpendingFalls
<1>3. QED
  BY <1>2 DEF User, UserArchive, UserDelete

LEMMA ExternalLasts ==
  ASSUME External
  PROVE  Lasting
BY DEF External, step, Lasting

LEMMA ReportsTame ==
  ASSUME TypeInv, Within, Listings, COSController
  PROVE  Tame /\ UNCHANGED cod
<1>1. PICK r \in DOMAIN cos : RollOut(r) \/ Degrade(r) \/ Finalize(r)
  BY DEF COSController
<1>2. cos \in Groups /\ Good(cos)
  BY CurrentIsSeen DEF TypeInv, ApiOK, Listings
<1>3. CASE RollOut(r)
  <2>1. Put([cos EXCEPT ![r].rollout = "Available"]) /\ External /\ IsActive(cos[r]) /\ UNCHANGED cod
    BY <1>3 DEF RollOut
  <2>2. [cos EXCEPT ![r].rollout = "Available"] \in Groups
    BY <1>2, RolledIsGroup DEF Rollouts
  <2>3. Kind([cos EXCEPT ![r].rollout = "Available"])
    BY <1>2, <2>1, ReportTends DEF Kind
  <2>4. QED
    BY <2>1, <2>2, <2>3, ExternalLasts DEF Tame
<1>4. CASE Degrade(r)
  <2>1. Put([cos EXCEPT ![r].rollout = "Degraded"]) /\ External /\ UNCHANGED cod
    BY <1>4 DEF Degrade
  <2>2. [cos EXCEPT ![r].rollout = "Degraded"] \in Groups
    BY <1>2, RolledIsGroup DEF Rollouts
  <2>3. IsActive(cos[r]) => ~Untouched("degrade")'
    <3>1. "degrade" \in Disturbances
      BY DEF Disturbances
    <3>2. IsActive(cos[r]) => Spend("degrade")
      BY <1>4 DEF Degrade
    <3>3. QED
      BY <3>1, <3>2, SpendingFalls
  <2>4. Tends([cos EXCEPT ![r].rollout = "Degraded"])
    BY <1>2, <2>3, ReportTends
  <2>5. QED
    BY <2>1, <2>2, <2>4, ExternalLasts DEF Tame, Kind
<1>5. CASE Finalize(r)
  <2>1. Put(Without(cos, r)) /\ External /\ cos[r].deleting /\ UNCHANGED cod
    BY <1>5 DEF Finalize
  <2>2. Without(cos, r) \in Groups /\ Kind(Without(cos, r))
    BY <1>2, <2>1, WithoutIsGroup, ReleaseIsKind
  <2>3. QED
    BY <2>1, <2>2, ExternalLasts DEF Tame
<1>6. QED
  BY <1>1, <1>3, <1>4, <1>5

\* Every step is a tame one, or takes a listing, or forgets one.
LEMMA NextTame ==
  ASSUME TypeInv, Within, Listings, Work, [Next]_vars, Untouched("touch")'
  PROVE  Tame \/ Start \/ DeliverCOS \/ Crash
<1>1. CASE Reconcile
  BY <1>1, ReconcileTame
<1>2. CASE Informer
  BY <1>2 DEF Informer, DeliverCOD, step, Tame, Lasting
<1>3. CASE COSController
  BY <1>3, ReportsTame
<1>4. CASE User
  <2>1. PICK h \in Templates : EditTemplate(h)
    BY <1>4, UserEdits
  <2>2. QED
    BY <2>1, ExternalLasts DEF EditTemplate, Tame
<1>5. CASE Fail
  BY <1>5 DEF Fail, Idle, At, Keep, Tame, Lasting
<1>6. CASE Crash
  BY <1>6
<1>7. CASE UNCHANGED vars
  BY <1>7 DEF vars, Tame, Lasting, api
<1>8. QED
  BY <1>1, <1>2, <1>3, <1>4, <1>5, <1>6, <1>7 DEF Next
-----------------------------------------------------------------------------
(* The invariant is one.                                                   *)

LEMMA TameOutcome ==
  ASSUME Tame
  PROVE  UNCHANGED api \/ \E g \in Groups : g # cos /\ Kind(g) /\ Writes(g)
BY DEF Tame, Put, Writes

LEMMA NextListings ==
  ASSUME TypeInv, Within, Listings, Work, Succession, Retention, [Next]_vars, Untouched("touch")'
  PROVE  Listings' /\ Succession' /\ Retention'
<1>1. Untouched("degrade")' => Untouched("degrade")
  BY BudgetFalls DEF Disturbances
<1>2. ASSUME UNCHANGED <<cos, used, succeeded>> PROVE Succession' /\ Retention'
  <2>1. Succession'
    BY <1>1, <1>2 DEF Succession, Live
  <2>2. Retention'
    BY <1>2 DEF Retention, Gone, KeptAbove
  <2>3. QED
    BY <2>1, <2>2
<1>3. CASE Tame /\ UNCHANGED api
  <2>1. Seen' \subseteq Seen /\ InOrder' \subseteq InOrder /\ View(Len(stream))' = View(Len(stream))
    BY <1>3, SameSeen DEF Tame
  <2>2. UNCHANGED <<cos, used, succeeded>>
    BY <1>3 DEF api
  <2>3. QED
    BY <1>1, <1>2, <2>1, <2>2, ForgettingKeepsListings
<1>4. CASE Tame /\ ~UNCHANGED api
  <2>1. PICK g \in Groups : Kind(g) /\ Writes(g)
    BY <1>4, TameOutcome
  <2>2. Moves(g)
    BY <1>1, <2>1, KindMoves
  <2>3. QED
    BY <1>1, <2>1, <2>2, WriteKeepsListings, WriteKeepsSuccession, WriteKeepsRetention
<1>5. CASE Start
  <2>1. Seen' \subseteq Seen /\ InOrder' \subseteq InOrder /\ View(Len(stream))' = View(Len(stream))
    BY <1>5, StartSeen
  <2>2. UNCHANGED <<cos, used, succeeded>>
    BY <1>5 DEF Start, api
  <2>3. QED
    BY <1>1, <1>2, <2>1, <2>2, ForgettingKeepsListings
<1>6. CASE DeliverCOS
  <2>1. Seen' \subseteq Seen /\ InOrder' \subseteq InOrder /\ View(Len(stream))' = View(Len(stream))
    BY <1>6, DeliverySeen
  <2>2. UNCHANGED <<cos, used, succeeded>>
    BY <1>6 DEF DeliverCOS
  <2>3. QED
    BY <1>1, <1>2, <2>1, <2>2, ForgettingKeepsListings
<1>7. CASE Crash
  <2>1. Seen' \subseteq Seen /\ InOrder' \subseteq InOrder /\ View(Len(stream))' = View(Len(stream))
    BY <1>7, CrashSeen DEF Listings
  <2>2. UNCHANGED <<cos, used, succeeded>>
    BY <1>7 DEF Crash
  <2>3. QED
    BY <1>1, <1>2, <2>1, <2>2, ForgettingKeepsListings
<1>8. QED
  BY <1>3, <1>4, <1>5, <1>6, <1>7, NextTame

\* The work of the loops is what the listing gave them.
LEMMA UsedGrows ==
  ASSUME TypeInv, Within, Listings, Work, [Next]_vars, Untouched("touch")'
  PROVE  used \subseteq used'
<1>1. CASE Tame
  BY <1>1, TameOutcome DEF api, Writes
<1>2. CASE Start \/ DeliverCOS \/ Crash
  BY <1>2 DEF Start, DeliverCOS, Crash, api
<1>3. QED
  BY <1>1, <1>2, NextTame

LEMMA ToWritesWork ==
  ASSUME ToWrites
  PROVE  Work'
BY DEF ToWrites, At, Keep, Work

LEMMA IdleWork ==
  ASSUME NEW again, Idle(again)
  PROVE  Work'
BY DEF Idle, At, Work

LEMMA ApplyWork ==
  ASSUME NEW r, ApplyDesired(r)
  PROVE  Work'
BY ToWritesWork, IdleWork DEF ApplyDesired

LEMMA SameWork ==
  ASSUME Work, UNCHANGED step, used \subseteq used'
  PROVE  Work'
BY DEF Work, step

LEMMA NextWork ==
  ASSUME TypeInv, Within, Listings, Work, [Next]_vars, Untouched("touch")'
  PROVE  Work'
<1>1. used \subseteq used'
  BY UsedGrows
<1>2. CASE Start
  BY <1>2 DEF Start, At, Work
<1>3. CASE Adopt
  <2>1. (At("adopt", todo \ {Min(todo)}) /\ Keep) \/ Idle(TRUE)
    BY <1>3 DEF Adopt
  <2>2. QED
    BY <2>1, IdleWork DEF At, Work
<1>4. CASE CreateRevision
  <2> DEFINE n == NextRevision(snap)
             g == Store(cos, n, NewCOS(codSnap.hash, FALSE))
  <2>1. CASE n \in DOMAIN cos
    BY <1>4, <2>1, IdleWork DEF CreateRevision
  <2>2. CASE n \notin DOMAIN cos
    <3>1. Put(g) /\ At("claim", {}) /\ Keep
      BY <1>4, <2>2 DEF CreateRevision
    <3>2. n \in DOMAIN g
      BY DEF Store
    <3>3. g # cos
      BY <2>2, <3>2
    <3>4. n \in used'
      <4> HIDE DEF g, n
      <4>1. used' = used \cup DOMAIN g
        BY <3>1, <3>3 DEF Put
      <4>2. QED
        BY <3>2, <4>1
    <3>5. QED
      BY <3>1, <3>4 DEF At, Keep, Work
  <2>3. QED
    BY <2>1, <2>2
<1>5. CASE ClaimRevision
  BY <1>5, ApplyWork DEF ClaimRevision
<1>6. CASE EnsureFieldOwnership
  BY <1>6, ApplyWork, ToWritesWork DEF EnsureFieldOwnership
<1>7. CASE ArchiveSuperseded
  <2> DEFINE rest == todo \ {Min(todo)}
  <2>1. /\ Keep /\ pc = "archive"
        /\ At("archive", rest) \/ At("prune", Prunable(snap)) \/ At("status", {})
    BY <1>7 DEF ArchiveSuperseded
  <2>2. QED
    BY <2>1 DEF At, Keep, Work
<1>8. CASE PruneArchived
  <2>1. /\ Keep /\ pc = "prune"
        /\ At("prune", todo \ {Min(todo)}) \/ At("status", {})
    BY <1>8 DEF PruneArchived
  <2>2. QED
    BY <2>1 DEF At, Keep, Work
<1>9. CASE UpdateStatus
  BY <1>9, IdleWork DEF UpdateStatus
<1>10. CASE Informer
  BY <1>1, <1>10, SameWork DEF Informer, DeliverCOS, DeliverCOD
<1>11. CASE COSController
  BY <1>1, <1>11, SameWork DEF COSController, RollOut, Degrade, Finalize, External
<1>12. CASE User
  BY <1>1, <1>12, SameWork DEF User, EditTemplate, UserArchive, UserDelete, External
<1>13. CASE Fail
  <2>1. (At("status", {}) /\ Keep) \/ Idle(TRUE)
    BY <1>13 DEF Fail
  <2>2. QED
    BY <2>1, IdleWork DEF At, Work
<1>14. CASE Crash
  BY <1>14 DEF Crash, At, Work
<1>15. CASE UNCHANGED vars
  <2>1. UNCHANGED step
    BY <1>15 DEF vars, step
  <2>2. QED
    BY <1>1, <2>1, SameWork
<1>16. QED
  BY <1>2, <1>3, <1>4, <1>5, <1>6, <1>7, <1>8, <1>9, <1>10, <1>11, <1>12, <1>13,
     <1>14, <1>15 DEF Next, Reconcile

-----------------------------------------------------------------------------
(* Availability.                                                           *)

\* evaluateAvailability says something other than False of exactly the groups
\* that are up.
LEMMA AvailableIsUp ==
  ASSUME NEW g \in Groups
  PROVE  EvaluateAvailability(g) # "False" <=> Up(g)
<1> DEFINE A == ActiveOwned(g)
           n == Cardinality(A)
<1>1. IsFiniteSet(A)
  <2>1. A \subseteq Revisions
    BY GroupIs DEF ActiveOwned, Owned
  <2>2. IsFiniteSet(Revisions)
    BY FS_Interval, GroupAssumption DEF Revisions
  <2>3. QED
    BY <2>1, <2>2, FS_Subset
<1>2. EvaluateAvailability(g)
        = CASE n = 0 -> "False"
            [] n = 1 -> (IF \A r \in A : g[r].rollout = "Available" THEN "True" ELSE "False")
            [] OTHER -> "Unknown"
  BY DEF EvaluateAvailability
<1>3. Up(g) <=> \E a \in A : g[a].rollout = "Available" \/ \E b \in A : b # a
  BY DEF Up
<1>4. (n = 0 <=> A = {}) /\ (n = 1 <=> \E x : A = {x})
  <2> HIDE DEF A
  <2>1. QED
    BY <1>1, FS_EmptySet, FS_Singleton
<1> HIDE DEF A, n
<1>5. CASE n = 0
  <2>1. EvaluateAvailability(g) = "False"
    BY <1>2, <1>5
  <2>2. ~Up(g)
    BY <1>3, <1>4, <1>5
  <2>3. QED
    BY <2>1, <2>2
<1>6. CASE n = 1
  <2>1. PICK x : A = {x}
    BY <1>4, <1>6
  <2>2. EvaluateAvailability(g)
          = IF \A r \in A : g[r].rollout = "Available" THEN "True" ELSE "False"
    BY <1>2, <1>6
  <2>3. Up(g) <=> g[x].rollout = "Available"
    BY <1>3, <2>1
  <2>4. QED
    BY <2>1, <2>2, <2>3
<1>7. CASE n # 0 /\ n # 1
  <2>1. EvaluateAvailability(g) = "Unknown"
    BY <1>2, <1>7
  <2>2. PICK a : a \in A
    BY <1>4, <1>7
  <2>3. PICK b \in A : b # a
    BY <1>4, <1>7, <2>2
  <2>4. Up(g)
    BY <1>3, <2>2, <2>3
  <2>5. QED
    BY <2>1, <2>4
<1>8. QED
  BY <1>5, <1>6, <1>7
\* Only updateStatus writes the status, from its own listing.
LEMMA StatusIsEvaluated ==
  ASSUME TypeInv, [Next]_vars
  PROVE  \/ cod'.status = cod.status
         \/ pc # "idle" /\ cod'.status.available = EvaluateAvailability(snap)
<1>1. cod \in CODs /\ cod = [gen |-> cod.gen, hash |-> cod.hash, status |-> cod.status]
  BY DEF TypeInv, RestOK, CODs
<1>2. CASE UpdateStatus
  <2> DEFINE status == StatusFrom(snap, codSnap.gen)
  <2>1. pc # "idle" /\ (cod' = cod \/ cod' = [cod EXCEPT !.status = status])
    BY <1>2 DEF UpdateStatus
  <2>2. status.available = EvaluateAvailability(snap)
    BY DEF StatusFrom
  <2> HIDE DEF status
  <2>3. [cod EXCEPT !.status = status].status = status
    BY <1>1
  <2>4. QED
    BY <2>1, <2>2, <2>3
<1>3. ASSUME NEW h \in Templates, EditTemplate(h) PROVE cod'.status = cod.status
  BY <1>1, <1>3 DEF EditTemplate
<1>4. ASSUME NEW r \in DOMAIN cos, UserArchive(r) \/ UserDelete(r) PROVE cod' = cod
  BY <1>4 DEF UserArchive, UserDelete
<1>5. CASE Reconcile /\ ~UpdateStatus
  BY <1>5 DEF Reconcile, Start, Adopt, CreateRevision, ClaimRevision, EnsureFieldOwnership,
              ArchiveSuperseded, PruneArchived
<1>6. CASE Informer \/ COSController
  BY <1>6 DEF Informer, DeliverCOS, DeliverCOD, COSController, RollOut, Degrade, Finalize
<1>7. CASE Fail \/ Crash \/ UNCHANGED vars
  BY <1>7 DEF Fail, Crash, vars
<1>8. QED
  BY <1>2, <1>3, <1>4, <1>5, <1>6, <1>7 DEF Next, User

\* While nothing that was available fails, a group that is up in every listing
\* stays so.
LEMMA ListingsStayUp ==
  ASSUME TypeInv, Within, Listings, Work, Succession, [Next]_vars,
         Untouched("touch")', Untouched("degrade")', \A v \in Seen : Up(v)
  PROVE  \A v \in Seen' : Up(v)
<1>1. Untouched("degrade")' => Untouched("degrade")
  BY BudgetFalls DEF Disturbances
<1>2. CASE Tame /\ UNCHANGED api
  BY <1>2, SameSeen DEF Tame
<1>3. CASE Tame /\ ~UNCHANGED api
  <2>1. PICK g \in Groups : Kind(g) /\ Writes(g)
    BY <1>3, TameOutcome
  <2>2. Moves(g) /\ cos \in Seen
    BY <1>1, <2>1, KindMoves, CurrentIsSeen DEF Listings
  <2>3. Up(g)
    BY <2>2 DEF Moves
  <2>4. Seen' \subseteq Seen \cup {g}
    BY <2>1, WriteSeen DEF Writes
  <2>5. QED
    BY <2>3, <2>4
<1>4. CASE Start
  BY <1>4, StartSeen
<1>5. CASE DeliverCOS
  BY <1>5, DeliverySeen
<1>6. CASE Crash
  BY <1>6, CrashSeen DEF Listings
<1>7. QED
  BY <1>2, <1>3, <1>4, <1>5, <1>6, NextTame

LEMMA NextServing ==
  ASSUME TypeInv, Within, Listings, Work, Succession, Serving, [Next]_vars, Untouched("touch")'
  PROVE  Serving'
<1> SUFFICES ASSUME Untouched("degrade")', cod'.status.available # "False"
             PROVE  \A v \in Seen' : Up(v)
  BY DEF Serving
<1>1. Untouched("degrade")
  BY BudgetFalls DEF Disturbances
<1>2. \A v \in Seen : Up(v)
  <2>1. CASE cod'.status = cod.status
    BY <1>1, <2>1 DEF Serving
  <2>2. CASE pc # "idle" /\ cod'.status.available = EvaluateAvailability(snap)
    <3>1. Up(snap)
      BY <2>2, AvailableIsUp DEF TypeInv, StepOK
    <3>2. \A v \in Seen : v = snap \/ Later(snap, v)
      BY <2>2, SnapFirst
    <3>3. QED
      BY <1>1, <3>1, <3>2 DEF Later
  <2>3. QED
    BY <2>1, <2>2, StatusIsEvaluated
<1>3. QED
  BY <1>2, ListingsStayUp

LEMMA NextOrderly ==
  ASSUME TypeInv, HistoryInv, [Next]_vars
  PROVE  HistoryInv'
<1>1. Within /\ Within' /\ (Untouched("touch")' => Untouched("touch"))
  BY BudgetFalls DEF HistoryInv, Disturbances
<1>2. ASSUME Untouched("touch")' PROVE Orderly'
  <2>1. Orderly
    BY <1>1, <1>2 DEF HistoryInv
  <2>2. Listings' /\ Succession' /\ Retention'
    BY <1>1, <1>2, <2>1, NextListings DEF Orderly
  <2>3. Work'
    BY <1>1, <1>2, <2>1, NextWork DEF Orderly
  <2>4. Serving'
    BY <1>1, <1>2, <2>1, NextServing DEF Orderly
  <2>5. QED
    BY <2>2, <2>3, <2>4 DEF Orderly
<1>3. QED
  BY <1>1, <1>2 DEF HistoryInv

LEMMA InitOrderly ==
  ASSUME OrderlyStart, Init
  PROVE  HistoryInv
<1>1. cos \in Groups /\ WellOrdered(cos) /\ cache = cos /\ stream = <<>> /\ pc = "idle"
  BY GroupIs, ControllerAssumption DEF Init, OrderlyStart
<1>2. used = DOMAIN cos /\ succeeded = {r \in DOMAIN cos : cos[r].rollout # "Progressing"}
  BY DEF Init
<1>3. DOMAIN cos \subseteq Nat
  BY <1>1, GroupIs, GroupAssumption DEF Revisions
<1>4. Len(stream) = 0 /\ 0 .. 0 = {0}
  BY <1>1
<1>5. View(0) = cos
  BY <1>1 DEF View
<1>6. Seen = {cos} /\ \A p \in InOrder : p = <<cos, cos>>
  BY <1>1, <1>4, <1>5 DEF Seen, InOrder
<1>7. NextRevision(cos) \in Nat /\ \A r \in DOMAIN cos : r + 1 <= NextRevision(cos)
  BY <1>1, NextRevisionIsNext
<1>8. Good(cos)
  <2>1. \A u \in used : u <= NextRevision(cos)
    BY <1>2, <1>3, <1>7
  <2>2. ASSUME NEW u \in used, ~Live(u) PROVE u + 1 < NextRevision(cos)
    <3>1. u \in DOMAIN cos /\ ~IsActive(cos[u])
      BY <1>2, <2>2 DEF Live
    <3>2. PICK q \in DOMAIN cos : q >= u /\ IsActive(cos[q])
      BY <1>1, <3>1 DEF WellOrdered
    <3>3. q # u /\ q \in Nat /\ u \in Nat
      BY <1>3, <3>1, <3>2
    <3>4. QED
      BY <1>7, <3>2, <3>3
  <2>3. \A r \in DOMAIN cos : ~Gone(r)
    BY <1>1 DEF Gone, WellOrdered
  <2>4. /\ \A r \in DOMAIN cos : cos[r].owner # "other"
        /\ \A r \in DOMAIN cos : \E q \in DOMAIN cos : q >= r /\ IsActive(cos[q])
    BY <1>1 DEF WellOrdered
  <2>5. \A r \in DOMAIN cos : cos[r].rollout = "Available" => r \in succeeded
    BY <1>2
  <2>6. QED
    BY <1>2, <2>1, <2>2, <2>3, <2>4, <2>5 DEF Good
<1>9. Listings
  <2>1. Later(cos, cos)
    BY <1>7 DEF Later
  <2>2. QED
    BY <1>4, <1>5, <1>6, <1>8, <2>1 DEF Listings
<1>10. Serving
  BY DEF Init, Serving, NoStatus
<1>11. Work
  BY <1>1 DEF Work
<1>12. Succession
  BY <1>1, <1>2 DEF Succession, WellOrdered, Live
<1>13. Retention
  BY <1>1, <1>2 DEF Retention, Gone, WellOrdered
<1>14. Within
  <2>1. \A what \in Disturbances : budget[what] \in Nat /\ budget = Budget
    BY ControllerAssumption DEF Init
  <2>2. QED
    BY <2>1 DEF Within
<1>15. QED
  BY <1>9, <1>10, <1>11, <1>12, <1>13, <1>14 DEF HistoryInv, Orderly

\* Every listing the controller may act on is an earlier state of the group and
\* at most one revision behind, what was rolled out has an active successor and
\* what is gone left enough of the history behind: as long as users leave the
\* revisions alone, however the deployment controller, the reports and the
\* informer interleave, fail and restart.
THEOREM HistoryInvariant == OrderlyStart /\ Spec => []HistoryInv
<1>1. OrderlyStart /\ Init => HistoryInv
  BY InitOrderly
<1>2. TypeInv /\ HistoryInv /\ [Next]_vars => HistoryInv'
  BY NextOrderly
<1>3. QED
  BY <1>1, <1>2, TypeInvariant, PTL DEF Spec

\* Every deployment that begins without a revision begins in order.
LEMMA FreshIsOrderly ==
  ASSUME InitialGroups \subseteq {EmptyGroup}
  PROVE  OrderlyStart
BY EmptyIsGroup DEF OrderlyStart, WellOrdered
-----------------------------------------------------------------------------
(* What follows for every step.                                            *)

\* A step changes the group by one of the writes, or not at all.
LEMMA GroupStep ==
  ASSUME TypeInv, Within, Listings, Work, Succession, [Next]_vars, Untouched("touch")'
  PROVE  \/ UNCHANGED <<cos, used, succeeded>>
         \/ \E g \in Groups : Kind(g) /\ Moves(g) /\ Writes(g)
<1>1. Untouched("degrade")' => Untouched("degrade")
  BY BudgetFalls DEF Disturbances
<1>2. CASE Tame
  <2>1. CASE UNCHANGED api
    BY <2>1 DEF api
  <2>2. CASE ~UNCHANGED api
    BY <1>1, <1>2, <2>2, TameOutcome, KindMoves
  <2>3. QED
    BY <2>1, <2>2
<1>3. CASE Start \/ DeliverCOS \/ Crash
  BY <1>3 DEF Start, DeliverCOS, Crash, api
<1>4. QED
  BY <1>2, <1>3, NextTame

LEMMA OrderlyStep ==
  ASSUME TypeInv, HistoryInv, [Next]_vars, Untouched("touch")'
  PROVE  /\ Within /\ Orderly /\ Good(cos)
         /\ \/ UNCHANGED <<cos, used, succeeded>>
            \/ \E g \in Groups : Kind(g) /\ Moves(g) /\ Writes(g)
<1>1. Within /\ Untouched("touch")
  BY BudgetFalls DEF HistoryInv, Disturbances
<1>2. Orderly
  BY <1>1 DEF HistoryInv
<1>3. Good(cos)
  BY <1>2, CurrentIsSeen DEF Orderly, Listings
<1>4. QED
  BY <1>1, <1>2, <1>3, GroupStep DEF Orderly

\* Archiving the superseded revisions leaves no gap: one that has been rolled
\* out is active (archiveSuperseded).
THEOREM NoGapOpens == OrderlyStart /\ Spec => []NoGap
<1>1. TypeInv /\ HistoryInv /\ SupersededBySuccess => NoGap
  <2> SUFFICES ASSUME TypeInv, HistoryInv, SupersededBySuccess,
                      superseded # {}, Untouched("touch")
               PROVE  \E q \in ActiveOwned(cos) : q \in succeeded
    BY DEF NoGap
  <2>1. PICK s \in succeeded : TRUE
    BY DEF SupersededBySuccess
  <2>2. Succession /\ Good(cos)
    BY CurrentIsSeen DEF HistoryInv, Orderly, Listings
  <2>3. PICK q \in succeeded : Live(q)
    BY <2>1, <2>2 DEF Succession
  <2>4. q \in ActiveOwned(cos)
    BY <2>2, <2>3 DEF Live, Good, ActiveOwned, Owned
  <2>5. QED
    BY <2>3, <2>4
<1>2. QED
  BY <1>1, HistoryInvariant, TypeInvariant, SupersedingNeedsSuccess, PTL

\* Only createRevision adds a revision.
LEMMA OnlyStampsAdd ==
  ASSUME NEW g, Kind(g), NEW n \in DOMAIN g \ DOMAIN cos
  PROVE  Stamps(g, n)
BY DEF Kind, Tends, Stamps, Archives, Drops, Releases

\* A revision is stamped for a template only if the newest revision is not an
\* active one of that template, although the listing may not show that one:
\* the number the controller would choose is then taken (createRevision).
THEOREM StampedFresh == OrderlyStart /\ Spec => FreshTemplate
<1>1. TypeInv /\ HistoryInv /\ [Next]_vars =>
        [Untouched("touch")' => \A n \in DOMAIN cos' \ DOMAIN cos : \A r \in Owned(cos) :
           (\A q \in Owned(cos) : q <= r) /\ cos[r].hash = cos'[n].hash
             => ~IsActive(cos[r])]_vars
  <2> SUFFICES ASSUME TypeInv, HistoryInv, [Next]_vars, Untouched("touch")',
                      NEW n \in DOMAIN cos' \ DOMAIN cos, NEW r \in Owned(cos),
                      \A q \in Owned(cos) : q <= r, cos[r].hash = cos'[n].hash, IsActive(cos[r])
               PROVE  FALSE
    OBVIOUS
  <2>1. PICK g \in Groups : Kind(g) /\ Moves(g) /\ Writes(g)
    BY OrderlyStep
  <2>2. cos' = g /\ Stamps(g, n)
    BY <2>1, OnlyStampsAdd DEF Writes
  <2>3. /\ pc # "idle" /\ NeedsRevision(snap, codSnap.hash) /\ n = NextRevision(snap)
        /\ g[n].hash = codSnap.hash
    BY <2>2 DEF Stamps, NewCOS
  <2>4. Listings /\ Good(cos) /\ snap \in Groups
    BY OrderlyStep DEF Orderly, TypeInv, StepOK
  <2>5. Good(snap) /\ (cos = snap \/ Later(snap, cos))
    BY <2>3, <2>4, SnapFirst, CurrentIsSeen DEF Listings
  <2>6. /\ n \in Nat /\ \A u \in used : u < n
    BY <2>2, <2>4, StampedIsNew
  <2>7. r \in DOMAIN cos /\ r \in used /\ r \in Nat /\ r >= 1
    <3>1. r \in DOMAIN cos
      BY DEF Owned
    <3>2. r \in used
      BY <2>4, <3>1 DEF Good
    <3>3. used \subseteq 1 .. MaxRevision /\ MaxRevision \in Nat
      BY GroupAssumption DEF TypeInv, ApiOK, Revisions
    <3>4. QED
      BY <3>1, <3>2, <3>3
  <2>8. DOMAIN snap # {}
    <3>1. DOMAIN snap = {} => n = 1
      BY <2>3, <2>4, NextRevisionIsNext
    <3>2. r < n
      BY <2>6, <2>7
    <3>3. ~(n = 1)
      BY <2>7, <3>2
    <3>4. QED
      BY <3>1, <3>3
  <2>9. PICK m \in DOMAIN snap : n = m + 1
    BY <2>3, <2>4, <2>8, NextRevisionIsNext
  <2>10. m \in Nat /\ \A y \in DOMAIN snap : y \in Nat /\ y <= m
    <3>1. \A y \in DOMAIN snap : y + 1 <= n
      BY <2>3, <2>4, NextRevisionIsNext
    <3>2. \A y \in DOMAIN snap : y \in Nat
      BY <2>4, GroupIs, GroupAssumption DEF Revisions
    <3>3. QED
      BY <2>6, <2>9, <3>1, <3>2
  <2>11. m = r
    <3>1. Live(m)
      <4>1. ~(m + 1 < n)
        BY <2>6, <2>9, <2>10
      <4>2. QED
        BY <2>3, <2>5, <2>9, <4>1 DEF Good
    <3>2. m \in Owned(cos)
      BY <2>4, <3>1 DEF Live, Owned, Good
    <3>3. m <= r /\ r < n
      BY <2>6, <2>7, <3>2
    <3>4. QED
      BY <2>6, <2>7, <2>9, <2>10, <3>3
  <2>12. snap[m].hash = codSnap.hash
    <3>1. cos[m].hash = snap[m].hash
      BY <2>5, <2>7, <2>9, <2>11 DEF Later
    <3>2. QED
      BY <2>2, <2>3, <2>11, <3>1
  <2>13. m \in ActiveOwned(snap)
    <3>1. PICK q \in DOMAIN snap : q >= m /\ IsActive(snap[q])
      BY <2>5 DEF Good
    <3>2. q = m
      BY <2>10, <3>1
    <3>3. QED
      BY <2>5, <3>1, <3>2 DEF ActiveOwned, Owned, Good
  <2>14. Max(ActiveOwned(snap)) = m
    <3>1. ActiveOwned(snap) \subseteq DOMAIN snap
      BY DEF ActiveOwned, Owned
    <3>2. DOMAIN snap \subseteq 0 .. MaxRevision /\ MaxRevision \in Nat
      BY <2>4, GroupIs, GroupAssumption DEF Revisions
    <3>3. /\ Max(ActiveOwned(snap)) \in ActiveOwned(snap)
          /\ \A y \in ActiveOwned(snap) : y <= Max(ActiveOwned(snap))
      <4>1. ActiveOwned(snap) \subseteq 0 .. MaxRevision /\ ActiveOwned(snap) # {}
        BY <2>13, <3>1, <3>2
      <4>2. QED
        BY <3>2, <4>1, MaxIsGreatest
    <3>4. QED
      BY <2>10, <2>13, <3>1, <3>3
  <2>15. QED
    BY <2>3, <2>12, <2>13, <2>14 DEF NeedsRevision
<1>2. QED
  BY <1>1, HistoryInvariant, TypeInvariant, PTL DEF Spec, FreshTemplate

\* Pruning deletes only archived revisions, and leaves as many archived ones
\* above as the history limit demands, although its listing may show some that
\* an earlier prune has deleted (pruneArchived).
THEOREM PruningRetains == OrderlyStart /\ Spec => PruneRetains
<1>1. TypeInv /\ HistoryInv /\ HistoryInv' /\ TypeInv' /\ [Next]_vars =>
        [Untouched("touch")' => \A r \in DOMAIN cos : Leaves(r) =>
           /\ cos[r].archived
           /\ Cardinality({q \in DOMAIN cos' :
                 q > r /\ cos'[q].archived /\ ~cos'[q].deleting}) >= HistoryLimit]_vars
  <2> SUFFICES ASSUME TypeInv, HistoryInv, HistoryInv', [Next]_vars, Untouched("touch")',
                      NEW r \in DOMAIN cos, Leaves(r)
               PROVE  /\ cos[r].archived
                      /\ Cardinality({q \in DOMAIN cos' :
                           q > r /\ cos'[q].archived /\ ~cos'[q].deleting}) >= HistoryLimit
    OBVIOUS
  <2>1. ~cos[r].deleting /\ (r \in DOMAIN cos' => cos'[r].deleting)
    BY DEF Leaves
  <2>2. cos' # cos
    BY <2>1
  <2>3. PICK g \in Groups : Kind(g) /\ Moves(g) /\ Writes(g)
    BY <2>2, OrderlyStep
  <2>4. cos' = g /\ used' = used \cup DOMAIN g
    BY <2>3 DEF Writes
  <2>5. Listings /\ Good(cos)
    BY OrderlyStep DEF Orderly
  <2>6. cos[r].archived
    <3>1. cos \in Seen
      BY <2>5, CurrentIsSeen DEF Listings
    <3>2. QED
      BY <2>1, <2>3, <2>4, <3>1 DEF Moves
  <2>7. Gone(r)' /\ r \in used'
    BY <2>1, <2>4, <2>5 DEF Gone, Good
  <2>8. Retention'
    BY DEF HistoryInv, Orderly
  <2>9. Cardinality(KeptAbove(r)') >= HistoryLimit
    BY <2>7, <2>8 DEF Retention
  <2>10. QED
    BY <2>6, <2>9 DEF KeptAbove
<1>2. QED
  BY <1>1, HistoryInvariant, TypeInvariant, PTL DEF Spec, PruneRetains

\* A rollout never makes a deployment unavailable: while nothing that was
\* available fails, the status goes from available to in transition and back,
\* whatever old listing it is computed from (updateStatus).
THEOREM AvailabilityKept == OrderlyStart /\ Spec => RolloutStaysAvailable
<1>1. TypeInv /\ HistoryInv /\ [Next]_vars =>
        [Untouched("degrade")' /\ Untouched("touch")' =>
           (cod.status.available # "False" => cod'.status.available # "False")]_vars
  <2> SUFFICES ASSUME TypeInv, HistoryInv, [Next]_vars, Untouched("degrade")',
                      Untouched("touch")', cod.status.available # "False"
               PROVE  cod'.status.available # "False"
    OBVIOUS
  <2>1. Orderly /\ Untouched("degrade")
    BY OrderlyStep, BudgetFalls DEF Disturbances
  <2>2. CASE pc # "idle" /\ cod'.status.available = EvaluateAvailability(snap)
    <3>1. snap \in Seen
      BY <2>2 DEF Seen
    <3>2. Up(snap)
      BY <2>1, <3>1 DEF Orderly, Serving
    <3>3. QED
      BY <2>2, <3>2, AvailableIsUp DEF TypeInv, StepOK
  <2>3. QED
    BY <2>2, StatusIsEvaluated
<1>2. QED
  BY <1>1, HistoryInvariant, TypeInvariant, PTL DEF Spec, RolloutStaysAvailable
-----------------------------------------------------------------------------
(* The abstract history.                                                   *)

\* Users leave the revisions alone, and the deployment begins without any.
HandsOff == Budget["touch"] = 0 /\ InitialGroups \subseteq {EmptyGroup}

\* What has become of a revision, as the group and the numbers given out say.
LifeIn(g, u, r) ==
  CASE r \notin u -> "Unborn"
    [] r \in u /\ (r \notin DOMAIN g \/ g[r].deleting) -> "Gone"
    [] OTHER -> IF g[r].archived THEN "Archived" ELSE "Active"

LEMMA LifeCases ==
  ASSUME NEW g, NEW u, NEW r, r \in DOMAIN g => r \in u
  PROVE  /\ r \notin u => LifeIn(g, u, r) = "Unborn"
         /\ r \in u /\ (r \in DOMAIN g => g[r].deleting) => LifeIn(g, u, r) = "Gone"
         /\ r \in DOMAIN g /\ ~g[r].deleting =>
              LifeIn(g, u, r) = IF g[r].archived THEN "Archived" ELSE "Active"
BY DEF LifeIn

LEMMA LifeIs ==
  ASSUME NEW r
  PROVE  LifeOf(r) = LifeIn(cos, used, r) /\ LifeOf(r)' = LifeIn(cos', used', r)
BY DEF LifeOf, LifeIn

\* A write that leaves a revision's lifecycle alone.
LEMMA LifeLasts ==
  ASSUME Good(cos), NEW g, Writes(g), NEW q,
         q \in DOMAIN g <=> q \in DOMAIN cos,
         q \in DOMAIN cos => g[q].deleting = cos[q].deleting /\ g[q].archived = cos[q].archived
  PROVE  LifeOf(q)' = LifeOf(q)
<1>1. cos' = g /\ (q \in used' <=> q \in used)
  BY DEF Writes, Good
<1>2. LifeIn(g, used', q) = LifeIn(cos, used, q)
  BY <1>1 DEF LifeIn
<1>3. QED
  BY <1>1, <1>2, LifeIs

\* A write that changes one revision's lifecycle.
LEMMA LifeChanges ==
  ASSUME NEW r \in Revisions, NEW l, LifeOf(r)' = l,
         \A q \in Revisions \ {r} : LifeOf(q)' = LifeOf(q)
  PROVE  History!Become(r, l)
BY DEF History!Become

LEMMA LifeSame ==
  ASSUME \A q \in Revisions : LifeOf(q)' = LifeOf(q)
  PROVE  UNCHANGED [r \in Revisions |-> LifeOf(r)]
OBVIOUS

\* Tending rolls one revision out, or the history does not notice it.
LEMMA TendingImplements ==
  ASSUME TypeInv, Listings, NEW g \in Groups, Kind(g), Tends(g), Writes(g)
  PROVE  \/ \E r \in Revisions : History!Succeed(r)
         \/ UNCHANGED <<[r \in Revisions |-> LifeOf(r)], succeeded>>
<1>1. Good(cos) /\ DOMAIN cos \subseteq Revisions
  BY CurrentIsSeen, GroupIs DEF Listings, TypeInv, ApiOK
<1>2. UNCHANGED [r \in Revisions |-> LifeOf(r)]
  <2>1. \A q \in Revisions : LifeOf(q)' = LifeOf(q)
    BY <1>1, LifeLasts DEF Tends
  <2>2. QED
    BY <2>1, LifeSame
<1>3. PICK r \in DOMAIN cos : Others(g, r)
  BY DEF Tends
<1>4. succeeded' = succeeded \cup {s \in DOMAIN g : g[s].rollout = "Available"}
  BY DEF Writes
<1>5. ASSUME NEW s \in DOMAIN g, g[s].rollout = "Available" PROVE s \in succeeded \cup {r}
  <2>1. s # r => cos[s].rollout = "Available" /\ s \in DOMAIN cos
    BY <1>3, <1>5 DEF Others, Tends
  <2>2. QED
    BY <1>1, <2>1 DEF Good
<1>6. CASE succeeded' = succeeded
  BY <1>2, <1>6
<1>7. CASE succeeded' # succeeded
  <2>1. succeeded' = succeeded \cup {r} /\ r \notin succeeded /\ r \in DOMAIN g
        /\ g[r].rollout = "Available"
    BY <1>4, <1>5, <1>7
  <2>2. IsActive(cos[r])
    BY <2>1, OnlyActiveSucceeds
  <2>3. LifeOf(r) = "Active"
    BY <1>1, <1>3, <2>2, LifeIs, LifeCases DEF IsActive, Good
  <2>4. r \in Revisions
    BY <1>1, <1>3
  <2>5. History!Succeed(r)
    BY <1>2, <2>1, <2>3, <2>4 DEF History!Succeed
  <2>6. QED
    BY <2>4, <2>5
<1>8. QED
  BY <1>6, <1>7

\* The other writes roll nothing out.
LEMMA NothingSucceeds ==
  ASSUME TypeInv, Listings, NEW g \in Groups, Kind(g), ~Tends(g), Writes(g)
  PROVE  succeeded' = succeeded
BY OnlyActiveSucceeds DEF Writes

LEMMA StampingImplements ==
  ASSUME TypeInv, Listings, NEW g \in Groups, NEW n \in Revisions, Stamps(g, n), Writes(g),
         succeeded' = succeeded
  PROVE  History!Stamp(n)
<1>1. Good(cos)
  BY CurrentIsSeen DEF Listings
<1>2. n \notin used /\ n \in Nat /\ \A u \in used : u < n
  BY StampedIsNew
<1>3. \A q \in Revisions : q >= n => q \notin used
  <2>1. \A q \in Revisions : q \in Nat
    BY GroupAssumption DEF Revisions
  <2>2. QED
    BY <1>2, <2>1
<1>4. \A q : q \notin used => LifeOf(q) = "Unborn"
  BY LifeIs DEF LifeIn
<1>5. cos' = g /\ n \in DOMAIN g /\ g[n] = NewCOS(codSnap.hash, FALSE) /\ n \in used'
  BY DEF Writes, Stamps
<1>6. LifeOf(n)' = "Active"
  BY <1>5, LifeIs, LifeCases DEF NewCOS
<1>7. \A q \in Revisions \ {n} : LifeOf(q)' = LifeOf(q)
  BY <1>1, LifeLasts DEF Stamps, Others
<1>8. History!Become(n, "Active")
  BY <1>6, <1>7, LifeChanges
<1>9. QED
  BY <1>2, <1>3, <1>4, <1>8 DEF History!Stamp

LEMMA ArchivingImplements ==
  ASSUME TypeInv, Listings, Succession, NEW g \in Groups, NEW r \in Revisions, Archives(g, r),
         Writes(g), succeeded' = succeeded
  PROVE  History!Supersede(r)
<1>1. Good(cos)
  BY CurrentIsSeen DEF Listings
<1>2. \A q \in Revisions : Live(q) => LifeOf(q) = "Active"
  BY <1>1, LifeIs, LifeCases DEF Live, IsActive, Good
<1>3. LifeOf(r) = "Active"
  BY <1>2 DEF Archives
<1>4. PICK q \in succeeded : q > r /\ Live(q)
  BY SupersededHasSuccessor DEF Archives
<1>5. q \in Revisions /\ LifeOf(q) = "Active"
  BY <1>2, <1>4 DEF TypeInv, ApiOK
<1>6. cos' = g /\ r \in DOMAIN g /\ g[r].archived /\ ~g[r].deleting /\ r \in used'
  BY DEF Writes, Archives, Live
<1>7. LifeOf(r)' = "Archived"
  BY <1>6, LifeIs, LifeCases
<1>8. \A p \in Revisions \ {r} : LifeOf(p)' = LifeOf(p)
  BY <1>1, LifeLasts DEF Archives, Others
<1>9. History!Become(r, "Archived")
  BY <1>7, <1>8, LifeChanges
<1>10. QED
  BY <1>3, <1>4, <1>5, <1>9 DEF History!Supersede

LEMMA DroppingImplements ==
  ASSUME TypeInv, Listings, Retention, NEW g \in Groups, NEW r \in Revisions, Drops(g, r),
         Writes(g), succeeded' = succeeded
  PROVE  History!Drop(r)
<1>1. Good(cos) /\ cos \in Seen
  BY CurrentIsSeen DEF Listings
<1>2. pc # "idle" /\ r \in Prunable(snap) /\ r \in DOMAIN cos /\ ~cos[r].deleting
  BY DEF Drops
<1>3. \A q \in DOMAIN cos : ~cos[q].deleting /\ cos[q].archived => LifeOf(q) = "Archived"
  BY <1>1, LifeIs, LifeCases DEF Good
<1>4. LifeOf(r) = "Archived"
  BY <1>1, <1>2, <1>3, PrunedIsArchived
<1>5. cos' = g /\ (r \in DOMAIN g => g[r].deleting) /\ r \in used' /\ (r \in DOMAIN g => r \in used')
  BY <1>1, <1>2 DEF Writes, Drops, Good
<1>6. LifeOf(r)' = "Gone"
  BY <1>5, LifeIs, LifeCases
<1>7. \A p \in Revisions \ {r} : LifeOf(p)' = LifeOf(p)
  BY <1>1, LifeLasts DEF Drops, Others
<1>8. History!Become(r, "Gone")
  BY <1>6, <1>7, LifeChanges
<1> DEFINE kept == {q \in Revisions : q > r /\ [p \in Revisions |-> LifeOf(p)][q] = "Archived"}
<1>9. KeptAbove(r) \subseteq kept
  <2>1. DOMAIN cos \subseteq Revisions
    BY GroupIs DEF TypeInv, ApiOK
  <2>2. QED
    BY <1>3, <2>1 DEF KeptAbove
<1>10. Cardinality(kept) >= HistoryLimit
  BY <1>2, <1>9, EnoughIsKept, MoreAreKept
<1>11. History!Cardinality(kept) = Cardinality(kept)
  BY DEF History!Cardinality, Cardinality
<1>12. QED
  BY <1>4, <1>8, <1>10, <1>11 DEF History!Drop

\* The release of a torn down revision changes nothing: it was gone before.
LEMMA ReleasingImplements ==
  ASSUME TypeInv, Listings, NEW g \in Groups, NEW r \in Revisions, Releases(g, r),
         Writes(g), succeeded' = succeeded
  PROVE  UNCHANGED <<[q \in Revisions |-> LifeOf(q)], succeeded>>
<1>1. Good(cos)
  BY CurrentIsSeen DEF Listings
<1>2. \A q \in Revisions \ {r} : LifeOf(q)' = LifeOf(q)
  BY <1>1, LifeLasts DEF Releases, Others
<1>3. LifeOf(r) = "Gone"
  BY <1>1, LifeIs, LifeCases DEF Releases, Good
<1>4. cos' = g /\ r \notin DOMAIN g /\ r \in used'
  BY <1>1 DEF Writes, Releases, Good
<1>5. LifeOf(r)' = "Gone"
  BY <1>4, LifeIs, LifeCases
<1>6. \A q \in Revisions : LifeOf(q)' = LifeOf(q)
  BY <1>2, <1>3, <1>5
<1>7. QED
  BY <1>6, LifeSame

LEMMA NextImplements ==
  ASSUME TypeInv, TypeInv', HistoryInv, Budget["touch"] = 0, [Next]_vars
  PROVE  [History!Next]_<<[r \in Revisions |-> LifeOf(r)], succeeded>>
<1>1. Untouched("touch")'
  <2>1. Within'
    BY BudgetFalls DEF HistoryInv
  <2>2. budget'["touch"] <= Budget["touch"] /\ budget'["touch"] \in Nat
    BY <2>1 DEF Within, TypeInv, RestOK, Disturbances
  <2>3. QED
    BY <2>2 DEF Untouched
<1>2. /\ Listings /\ Succession /\ Retention
      /\ \/ UNCHANGED <<cos, used, succeeded>>
         \/ \E g \in Groups : Kind(g) /\ Moves(g) /\ Writes(g)
  BY <1>1, OrderlyStep DEF Orderly
<1>3. CASE UNCHANGED <<cos, used, succeeded>>
  <2>1. \A q \in Revisions : LifeOf(q)' = LifeOf(q)
    BY <1>3, LifeIs
  <2>2. QED
    BY <1>3, <2>1, LifeSame
<1>4. CASE \E g \in Groups : Kind(g) /\ Moves(g) /\ Writes(g)
  <2>1. PICK g \in Groups : Kind(g) /\ Moves(g) /\ Writes(g)
    BY <1>4
  <2>2. CASE Tends(g)
    BY <1>2, <2>1, <2>2, TendingImplements DEF History!Next
  <2>3. CASE ~Tends(g)
    <3>1. succeeded' = succeeded
      BY <1>2, <2>1, <2>3, NothingSucceeds
    <3>2. PICK r \in Revisions : Stamps(g, r) \/ Archives(g, r) \/ Drops(g, r) \/ Releases(g, r)
      BY <2>1, <2>3 DEF Kind
    <3>3. \/ History!Stamp(r) \/ History!Supersede(r) \/ History!Drop(r)
          \/ UNCHANGED <<[q \in Revisions |-> LifeOf(q)], succeeded>>
      BY <1>2, <2>1, <3>1, <3>2, StampingImplements, ArchivingImplements, DroppingImplements,
         ReleasingImplements
    <3>4. QED
      BY <3>3 DEF History!Next
  <2>4. QED
    BY <2>2, <2>3
<1>5. QED
  BY <1>2, <1>3, <1>4

\* As long as users leave the revisions alone, the controller implements the
\* history a deployment promises, whatever its informer shows it and wherever
\* it fails or stops: no number comes twice, only an active revision is
\* superseded, for a higher active one that was rolled out, and what is dropped
\* was archived and leaves the history limit above it.
THEOREM HistoryImplemented == HandsOff /\ Spec => ImplementsHistory
<1> DEFINE Aside == Budget["touch"] = 0
<1>1. HandsOff => OrderlyStart
  BY FreshIsOrderly DEF HandsOff
<1>2. HandsOff /\ Init => Aside /\ History!Init
  <2> SUFFICES ASSUME HandsOff, Init PROVE Aside /\ History!Init
    OBVIOUS
  <2>1. cos = EmptyGroup /\ DOMAIN EmptyGroup = {}
    BY EmptyIsGroup DEF HandsOff, Init, EmptyGroup
  <2>2. used = {} /\ succeeded = {}
    BY <2>1 DEF Init
  <2>3. \A r \in Revisions : LifeOf(r) = "Unborn"
    BY <2>2, LifeIs DEF LifeIn
  <2>4. QED
    BY <2>2, <2>3 DEF HandsOff, History!Init
<1>3. Aside => Aside'
  OBVIOUS
<1>4. TypeInv /\ TypeInv' /\ HistoryInv /\ Aside /\ [Next]_vars =>
        [History!Next]_<<[r \in Revisions |-> LifeOf(r)], succeeded>>
  BY NextImplements
<1>5. QED
  BY <1>1, <1>2, <1>3, <1>4, HistoryInvariant, TypeInvariant, PTL
     DEF Spec, ImplementsHistory, History!Spec
=============================================================================

------------------------ MODULE RevisionGroupProofs ------------------------
(* Facts about the operators of RevisionGroup, for every group.            *)
EXTENDS RevisionGroup, LeastElement

\* A set of revision numbers that is not empty has a greatest element.
LEMMA MaxIsGreatest ==
  ASSUME NEW B \in Nat, NEW S, S \subseteq 0 .. B, S # {}
  PROVE  Max(S) \in S /\ \A y \in S : y <= Max(S)
<1> DEFINE gaps == {B - x : x \in S}
<1>1. gaps \subseteq Nat /\ gaps # {}
  <2>1. \A x \in S : x \in 0 .. B
    OBVIOUS
  <2>2. \A x \in S : B - x \in Nat
    BY <2>1
  <2>3. QED
    BY <2>2
<1> HIDE DEF gaps
<1>2. Min(gaps) \in gaps /\ \A y \in gaps : Min(gaps) <= y
  BY <1>1, MinIsLeast
<1>3. PICK x \in S : Min(gaps) = B - x
  BY <1>2 DEF gaps
<1>4. \A y \in S : B - y \in gaps
  BY DEF gaps
<1>5. \A y \in S : y <= x
  BY <1>2, <1>3, <1>4
<1>6. \E z \in S : \A y \in S : z >= y
  BY <1>5
<1>7. QED
  BY <1>6 DEF Max

\* The set of all groups.
Groups == UNION {[existing -> COS] : existing \in SUBSET Revisions}

LEMMA GroupIs ==
  ASSUME NEW g
  PROVE  /\ g \in Groups <=> IsGroup(g)
         /\ g \in Groups <=> DOMAIN g \in SUBSET Revisions /\ g \in [DOMAIN g -> COS]
BY DEF Groups, IsGroup

\* The number createRevision chooses is above every number in the listing.
THEOREM NextRevisionIsAbove ==
  ASSUME NEW g \in Groups
  PROVE  NextRevision(g) \in Nat \ {0} /\ \A r \in DOMAIN g : r < NextRevision(g)
<1> DEFINE S == {0} \cup DOMAIN g
<1>1. S \subseteq 0 .. MaxRevision /\ S # {}
  BY GroupIs, GroupAssumption DEF Revisions
<1>2. Max(S) \in S /\ \A y \in S : y <= Max(S)
  <2> HIDE DEF S
  <2>1. MaxRevision \in Nat
    BY GroupAssumption
  <2>2. QED
    BY <1>1, <2>1, MaxIsGreatest
<1>3. Max(S) \in Nat /\ DOMAIN g \subseteq S
  BY <1>1, <1>2
<1>4. NextRevision(g) = Max(S) + 1
  BY DEF NextRevision
<1> HIDE DEF S
<1>5. \A r \in DOMAIN g : r <= Max(S)
  BY <1>2, <1>3, Zenon
<1>6. DOMAIN g \subseteq Nat
  BY GroupIs, GroupAssumption DEF Revisions
<1>7. QED
  BY <1>3, <1>4, <1>5, <1>6

\* Members of a group, and the three ways in which the API server changes one.
LEMMA MemberIsCOS ==
  ASSUME NEW g \in Groups, NEW r \in DOMAIN g
  PROVE  r \in Revisions /\ g[r] \in COS
BY GroupIs

LEMMA StoreIsGroup ==
  ASSUME NEW g \in Groups, NEW r \in Revisions, NEW c \in COS
  PROVE  /\ Store(g, r, c) \in Groups
         /\ DOMAIN Store(g, r, c) = DOMAIN g \cup {r}
         /\ \A q \in DOMAIN g \cup {r} : Store(g, r, c)[q] = IF q = r THEN c ELSE g[q]
BY GroupIs DEF Store

LEMMA WithoutIsGroup ==
  ASSUME NEW g \in Groups, NEW r
  PROVE  /\ Without(g, r) \in Groups
         /\ DOMAIN Without(g, r) = DOMAIN g \ {r}
         /\ \A q \in DOMAIN g \ {r} : Without(g, r)[q] = g[q]
BY GroupIs DEF Without

LEMMA UpdateIsGroup ==
  ASSUME NEW g \in Groups, NEW r \in DOMAIN g, NEW c \in COS
  PROVE  /\ [g EXCEPT ![r] = c] \in Groups
         /\ DOMAIN [g EXCEPT ![r] = c] = DOMAIN g
BY GroupIs

LEMMA EmptyIsGroup == EmptyGroup \in Groups /\ DOMAIN EmptyGroup = {}
BY GroupIs DEF EmptyGroup

LEMMA NewIsCOS ==
  ASSUME NEW h \in Templates, NEW b \in BOOLEAN
  PROVE  NewCOS(h, b) \in COS /\ NewCOS(h, b).rollout = "Progressing"
BY DEF NewCOS, COS, Rollouts

\* archiveSuperseded picks listed revisions only, and every one of them is
\* below one that the listing shows as available.
THEOREM SupersededBelowAvailable ==
  ASSUME NEW g \in Groups
  PROVE  /\ Superseded(g) \subseteq DOMAIN g
         /\ Superseded(g) # {} =>
              \E q \in DOMAIN g : /\ g[q].rollout = "Available"
                                  /\ \A r \in Superseded(g) : r < q
<1>1. Owned(g) \subseteq DOMAIN g
  BY DEF Owned
<1>2. Superseded(g) \subseteq Owned(g)
  BY DEF Superseded
<1>3. ASSUME Superseded(g) # {}
      PROVE  \E q \in DOMAIN g : /\ g[q].rollout = "Available"
                                 /\ \A r \in Superseded(g) : r < q
  <2>1. Owned(g) \subseteq 0 .. MaxRevision /\ Owned(g) # {} /\ MaxRevision \in Nat
    BY <1>1, <1>2, <1>3, GroupIs, GroupAssumption DEF Revisions
  <2>2. Max(Owned(g)) \in Owned(g) /\ \A y \in Owned(g) : y <= Max(Owned(g))
    BY <2>1, MaxIsGreatest
  <2>3. /\ g[Max(Owned(g))].rollout = "Available"
        /\ Max(Owned(g)) \notin Superseded(g)
    BY <1>3 DEF Superseded
  <2>4. \A r \in Superseded(g) : r <= Max(Owned(g)) /\ r # Max(Owned(g))
    BY <1>2, <2>2, <2>3
  <2>5. \A r \in Owned(g) : r \in Nat
    BY <2>1
  <2>6. \A r \in Superseded(g) : r < Max(Owned(g))
    BY <1>2, <2>2, <2>4, <2>5
  <2>7. QED
    BY <1>1, <2>2, <2>3, <2>6
<1>4. QED
  BY <1>1, <1>2, <1>3

LEMMA PrunableIsListed ==
  ASSUME NEW g
  PROVE  Prunable(g) \subseteq DOMAIN g
BY DEF Prunable, Owned
=============================================================================
